------------------------------ MODULE MCParts ------------------------------
(* Instances of the parts that share no state while they run: the store,   *)
(* the files of a session, a completion, and the functions on schedules,   *)
(* replies and filters.  A behaviour is one of one part: their product     *)
(* would show nothing that each does not show.                             *)
EXTENDS Store, SessionFiles, Llm, Parsing

CONSTANTS thread1, thread2, item1, item2

VARIABLES part, case

J == INSTANCE JqLaws

----------------------------------------------------------------------------
(* Store and session files *)

\* the two threads set different items
Apart == [t \in {thread1, thread2} |-> IF t = thread1 THEN {Prompt, item1} ELSE {item2}]

\* the second is a keyword in the run parts
TwoGlobals == <<"g1", "while">>

----------------------------------------------------------------------------
(* Replies of up to five tokens *)

ShortReplies == UNION {[1..n -> Tokens] : n \in 0..5}

----------------------------------------------------------------------------
(* Schedules: the field of days of the week has up to two parts, right and  *)
(* wrong ones                                                               *)

CronSteps == {NoStep, 0, 1, 2, 3, 7}
CronParts ==
    {Part("star", 0, 0, step) : step \in CronSteps}
    \cup {Part("value", lo, 0, step) : lo \in {0, 1, 2, 5, 7}, step \in CronSteps}
    \cup {Part("range", lo, hi, step) : lo \in {0, 1, 2, 5, 7}, hi \in {0, 3, 7, 8}, step \in CronSteps}
DaysOfWeek == UNION {[1..n -> CronParts] : n \in 1..2}
DaysOfMonth ==
    {<<p>> : p \in {Star, Part("star", 0, 0, 2), Part("value", 2, 0, NoStep),
                    Part("value", 1, 0, 2), Part("range", 2, 3, NoStep),
                    Part("value", 5, 0, NoStep)}}
DaySchedules == DaysOfMonth \X DaysOfWeek

----------------------------------------------------------------------------
(* Values of rjq, of up to three levels *)

Scalars == {J!Null, J!Bool(TRUE), J!Num(1), J!Str(<<"a">>)}
Simple == Scalars \cup {J!Bool(FALSE), J!Num(-1), J!Num(2), J!Str(<<>>), J!Str(<<"a", "b">>),
                        J!Arr(<<>>), J!Obj(<<>>)}
Arrays(S, n) == {J!Arr(s) : s \in UNION {[1..i -> S] : i \in 0..n}}
Objects(S) == {J!Obj(o) : o \in UNION {[ks -> S] : ks \in SUBSET {<<"a">>, <<"b">>}}}
A(v) == <<"a">> :> v
B(v) == <<"b">> :> v
Mixtures == {J!Null, J!Bool(FALSE), J!Num(1), J!Num(2), J!Str(<<"a">>), J!Str(<<"b">>),
             J!Arr(<<J!Num(1)>>), J!Arr(<<J!Num(1), J!Num(2)>>),
             J!Obj(A(J!Num(1))), J!Obj(A(J!Num(2))), J!Obj(B(J!Num(1))),
             J!Obj(A(J!Num(1)) @@ B(J!Num(1)))}
Nested == {J!Null, J!Num(1), J!Arr(<<J!Num(1), J!Null>>), J!Arr(<<>>), J!Obj(B(J!Num(1))),
           J!Obj(A(J!Num(1)) @@ B(J!Arr(<<>>)))}
Values == Simple \cup Arrays(Scalars, 2) \cup Objects(Scalars)
          \cup Arrays(Mixtures, 3) \cup Objects(Nested)

----------------------------------------------------------------------------
(* Trees of rjq: every node over small operands on one side *)

Some == {"Add", "Sub", "Mul", "Le", "And", "Or", "Alt", "Div"}
Pairs(l, r) ==
    {<<c, l, r>> : c \in {"Comma", "Pipe", "PathUpdate", "Slice", "Try"}}
    \cup (IF l[1] = "Var" THEN {<<"Assign", l[2], r>>} ELSE {<<"PathAssign", l, r>>})
    \cup {<<"BinOp", op, l, r>> : op \in Some}
    \cup {<<"As", l, "x", r>>, <<"If", l, r, l>>, <<"If", r, l, r>>,
          <<"Reduce", l, "x", r, l>>, <<"Foreach", l, "x", r, l, r>>}
Singles(e) ==
    {<<c, e>> : c \in {"Neg", "Optional", "Array", "Index"}}
    \cup {<<"Call", "map", <<e>>>>, <<"Label", "x", e>>, <<"Try", e, J!None>>,
          <<"Object", <<<<<<"Name", <<"a">>>>, e>>>>>>}
Over(L, M) ==
    UNION {Pairs(l, r) \cup Pairs(r, l) : l \in L, r \in M} \cup UNION {Singles(e) : e \in M}
Dot == {<<"Identity">>}
FieldA == {<<"Field", <<"a">>>>}
Others == {<<"Recurse">>, <<"Iterate">>, <<"Var", "x">>, <<"Break", "x">>, <<"Literal", J!Num(1)>>}
Trees == Over(Dot, Over(Dot \cup FieldA, Dot \cup FieldA)) \cup Over(FieldA, Over(Dot, Dot))
         \cup Over(Others, Others)

----------------------------------------------------------------------------

mcVars == <<storeVars, sessionVars, llmVars, parsingVars, part, case>>

Init ==
    /\ StoreInit
    /\ SessionInit
    /\ LlmInit
    /\ ParsingInit
    /\ part \in {"store", "session", "llm", "parsing", "function"}
    /\ part # "llm" => model = "openai"
    /\ case = <<>>

Case(p, x) ==
    /\ part' = p
    /\ case' = x
    /\ UNCHANGED <<storeVars, sessionVars, llmVars, parsingVars>>

Next ==
    \/ part = "store" /\ StoreNext /\ UNCHANGED <<sessionVars, llmVars, parsingVars, case, part>>
    \/ part = "session" /\ SessionNext /\ UNCHANGED <<storeVars, llmVars, parsingVars, case, part>>
    \/ part = "llm" /\ LlmNext /\ UNCHANGED <<storeVars, sessionVars, parsingVars, case, part>>
    \/ part = "parsing" /\ ParsingNext /\ UNCHANGED <<storeVars, sessionVars, llmVars, case, part>>
    \/ part = "function" /\ \E e \in Trees : Case("tree", e)
    \/ part = "function" /\ \E k \in DOMAIN J!Laws, v \in Values : Case("filter", <<k, v>>)

Spec == Init /\ [][Next]_mcVars

----------------------------------------------------------------------------
(* The properties of the functions, for the case at hand *)

\* A filter written out is read back as it is (JqLaws; rjq's parser.rs).
TreesParseBack == part = "tree" => J!ParsesBack(case)

\* Filters that mean the same give the same results (JqLaws; rjq's eval.rs).
FiltersAgree == part = "filter" => J!SameMeaning(case[1], case[2])

=============================================================================
