--------------------------------- MODULE Jq ---------------------------------
(***************************************************************************)
(* The evaluator of rjq (src/rjq/src/eval.rs, builtins.rs, paths.rs): a    *)
(* filter maps one value to a stream of values or to an error.  A filter   *)
(* is a tuple headed by the name of its node in ast.rs; an option is       *)
(* <<"None">> or what it holds.  The nodes the parser never makes (Unary,  *)
(* PathAlt, StringInterp) are left out, with the builtins on single        *)
(* letters, on fractions, and the constants env and now.                   *)
(***************************************************************************)
EXTENDS JqValue

None == <<"None">>

Ok(out) == [ok |-> TRUE, out |-> out]
Err(msg) == [ok |-> FALSE, msg |-> msg]
Worded == Err(<<"message">>)             \* an error whose wording is left out
Panic == Err(<<"panic">>)                \* an index out of bounds: nothing catches it
One(v) == Ok(<<v>>)

\* the element there, if there is one
At(s, i) == Ok(IF i \in DOMAIN s THEN <<s[i]>> ELSE <<>>)

\* for v in r? { out.extend(F(v)?) }
Then(r, F(_)) ==
    LET extend(acc, v) ==
            IF ~acc.ok THEN acc
            ELSE LET x == F(v) IN IF x.ok THEN Ok(acc.out \o x.out) ELSE x
    IN  IF r.ok THEN FoldLeft(extend, Ok(<<>>), r.out) ELSE r

\* with all of a stream, or with its first value, null if it has none
All(r, F(_)) == IF r.ok THEN F(r.out) ELSE r
First(r, F(_)) == All(r, LAMBDA s : F(IF s = <<>> THEN Null ELSE s[1]))

\* one value made by steps that may fail
Steadily(step(_, _), v, s) ==
    FoldLeft(LAMBDA r, x : First(r, LAMBDA w : step(w, x)), One(v), s)

----------------------------------------------------------------------------
(* Operators *)

Repeated(s, n) == IF n <= 0 THEN Null ELSE Str(FlattenSeq([i \in 1..n |-> s]))

\* the remainder has the sign of the dividend
Remainder(x, y) ==
    LET abs(n) == IF n < 0 THEN -n ELSE n
    IN  Sign(x) * (abs(x) % abs(y))

Plus(a, b) ==
    LET x == Contents(a) y == Contents(b)
    IN  CASE a = Null -> One(b)
          [] b = Null -> One(a)
          [] Kind(a) = "num" /\ Kind(b) = "num" -> One(Num(x + y))
          [] Kind(a) = Kind(b) /\ Kind(a) \in {"str", "arr"} -> One(<<Kind(a), x \o y>>)
          [] Kind(a) = "obj" /\ Kind(b) = "obj" -> One(Obj(y @@ x))
          [] OTHER -> Worded

\* -, *, / and %; a quotient is exact in every input of the model
Arithmetic(op, a, b) ==
    LET x == Contents(a) y == Contents(b) k == <<Kind(a), op, Kind(b)>>
    IN  CASE k = <<"num", "Sub", "num">> -> One(Num(x - y))
          [] k = <<"arr", "Sub", "arr">> -> One(Arr(SelectSeq(x, LAMBDA e : e \notin ToSet(y))))
          [] k = <<"num", "Mul", "num">> -> One(Num(x * y))
          [] k = <<"str", "Mul", "num">> -> One(Repeated(x, y))
          [] k = <<"num", "Mul", "str">> -> One(Repeated(y, x))
          [] k = <<"num", "Div", "num">> -> IF y = 0 THEN Worded ELSE One(Num(x \div y))
          [] k = <<"str", "Div", "str">> -> One(Arr(Split(x, y)))
          [] k = <<"num", "Mod", "num">> -> IF y = 0 THEN Worded ELSE One(Num(Remainder(x, y)))
          [] OTHER -> Worded

ApplyBinop(op, a, b) ==
    CASE op = "Add" -> Plus(a, b)
      [] op \in {"Sub", "Mul", "Div", "Mod"} -> Arithmetic(op, a, b)
      [] op = "Eq"  -> One(Bool(a = b))
      [] op = "Ne"  -> One(Bool(a # b))
      [] op = "Lt"  -> One(Bool(Cmp(a, b) < 0))
      [] op = "Le"  -> One(Bool(Cmp(a, b) <= 0))
      [] op = "Gt"  -> One(Bool(Cmp(a, b) > 0))
      [] op = "Ge"  -> One(Bool(Cmp(a, b) >= 0))
      [] op = "And" -> One(Bool(Truthy(a) /\ Truthy(b)))
      [] op = "Or"  -> One(Bool(Truthy(a) \/ Truthy(b)))
      [] op = "Alt" -> One(IF Truthy(a) THEN a ELSE b)

\* a negative bound counts from the end, at most to the start
Norm(i, len) == IF i < 0 THEN (IF len + i < 0 THEN 0 ELSE len + i) ELSE i

\* A slice that starts past the end of an array is out of bounds; so is one of
\* a string.
SliceOf(v, lo, hi) ==
    LET len == Len(Contents(v))
        bound(n, default) == IF Kind(n) = "num" THEN Norm(Contents(n), len) ELSE default
        s == bound(lo, 0)
        h == bound(hi, len)
    IN  CASE Kind(v) \notin {"arr", "str"} -> Worded
          [] Kind(v) \in {"arr", "str"} /\ s > len -> Panic
          [] OTHER -> One(<<Kind(v), SubSeq(Contents(v), s + 1, IF h < len THEN h ELSE len)>>)

RangeOf(start, end, step) ==
    LET n == IF step > 0 /\ end > start THEN (end - start + step - 1) \div step
             ELSE IF step < 0 /\ end < start THEN (start - end - step - 1) \div (-step)
             ELSE 0
    IN  Ok([i \in 1..n |-> Num(start + (i - 1) * step)])

----------------------------------------------------------------------------
(* Builtins that only look at their input, and those with one value more *)

TypeName == [null |-> <<"null">>, bool |-> <<"boolean">>, num |-> <<"number">>,
             str |-> <<"string">>, arr |-> <<"array">>, obj |-> <<"object">>]

Itself(v) == v

\* folded with +, from null
AddAll(s) == Steadily(Plus, Null, s)

CallOnSorted(name, a) ==
    CASE name = "sort"   -> One(Arr(a))
      [] name = "unique" -> One(Arr(Dedup(a)))
      [] name = "min"    -> One(IF a = <<>> THEN Null ELSE Head(a))
      [] name = "max"    -> One(IF a = <<>> THEN Null ELSE Last(a))

CallOnArray(name, a) ==
    CASE name = "any"     -> One(Bool(\E i \in DOMAIN a : Truthy(a[i])))
      [] name = "all"     -> One(Bool(\A i \in DOMAIN a : Truthy(a[i])))
      [] name = "flatten" -> One(Arr(Flattened(a)))
      [] name = "first"   -> At(a, 1)
      [] name = "last"    -> At(a, Len(a))
      [] OTHER            -> CallOnSorted(name, Sorted(a, Itself))

OnArray == {"any", "all", "sort", "unique", "min", "max", "flatten", "first", "last"}

CallOnInput(name, v) ==
    LET k == Kind(v) x == Contents(v)
        abs(n) == IF n < 0 THEN -n ELSE n
    IN  CASE name = "not" -> One(Bool(~Truthy(v)))
          [] name = "length" /\ v = Null -> One(Num(0))
          [] name = "length" /\ k = "num" -> One(Num(abs(x)))
          [] name = "length" /\ k \in {"str", "arr"} -> One(Num(Len(x)))
          [] name = "length" /\ k = "obj" -> One(Num(Cardinality(DOMAIN x)))
          [] name = "keys" /\ Iterable(v) -> One(Arr(Steps(v)))
          [] name = "values" /\ Iterable(v) -> Ok(Items(v))
          [] name = "add" /\ Iterable(v) -> AddAll(Items(v))
          [] name = "type" -> One(Str(TypeName[k]))
          [] name = "tostring" -> One(Str(Shown(v)))
          [] name = "tojson" -> One(Str(Text(v)))
          [] name = "reverse" /\ k \in {"arr", "str"} -> One(<<k, Reverse(x)>>)
          [] name = "toarray" -> One(IF k = "arr" THEN v ELSE Arr(<<v>>))
          [] name = "paths" -> Ok(PathsFrom(v, <<>>))
          [] name = "leaf_paths" -> Ok(LeafPathsFrom(v, <<>>))
          [] name = "tostream" -> Ok(StreamFrom(v, <<>>))
          [] name = "error" -> Err(Text(v))
          [] name = "empty" -> Ok(<<>>)
          [] name \in OnArray /\ k = "arr" -> CallOnArray(name, x)
          [] OTHER -> Worded

OnInput == {"not", "length", "keys", "values", "add", "type", "tostring", "tojson", "reverse",
            "toarray", "paths", "leaf_paths", "tostream", "empty"}

\* a path is an array of keys and indices
IsPath(p) == Kind(p) = "arr" /\ \A i \in DOMAIN Contents(p) : Kind(Contents(p)[i]) \in {"num", "str"}

\* the builtins that take the first value of their argument
CallWithValue(name, v, b) ==
    LET x == Contents(v) y == Contents(b) k == <<Kind(v), Kind(b)>>
        texts == [i \in DOMAIN x |-> IF x[i] = Null THEN <<>> ELSE Shown(x[i])]
        same == k \in {<<"str", "str">>, <<"arr", "arr">>}
    IN  CASE name = "error" -> Err(Shown(b))
          [] name = "has" /\ k = <<"obj", "str">> -> One(Bool(y \in DOMAIN x))
          [] name = "has" /\ k = <<"arr", "num">> -> One(Bool(0 <= y /\ y < Len(x)))
          [] name = "contains" -> One(Bool(Within(v, b)))
          [] name = "startswith" /\ same -> One(Bool(IsPrefix(y, x)))
          [] name = "endswith" /\ same -> One(Bool(IsSuffix(y, x)))
          [] name = "ltrimstr" -> One(IF k = <<"str", "str">> /\ IsPrefix(y, x)
                                      THEN Str(SubSeq(x, Len(y) + 1, Len(x))) ELSE v)
          [] name = "rtrimstr" -> One(IF k = <<"str", "str">> /\ IsSuffix(y, x)
                                      THEN Str(SubSeq(x, 1, Len(x) - Len(y))) ELSE v)
          [] name = "split" /\ k = <<"str", "str">> -> One(Arr(Split(x, y)))
          [] name = "join" /\ k = <<"arr", "str">> -> One(Str(Separated(texts, y)))
          [] name = "getpath" /\ IsPath(b) -> One(GetPath(v, y))
          [] OTHER -> Worded

WithValue == {"error", "has", "contains", "startswith", "endswith", "ltrimstr", "rtrimstr",
              "split", "join", "getpath"}

----------------------------------------------------------------------------
(* Evaluation *)

RECURSIVE Eval(_, _, _), CollectPaths(_, _, _)

MutCollectPaths(e, in, env) ==           \* the right side is looked up in the input
    CASE e[1] = "Identity" -> One(<<>>)
      [] e[1] = "Field"    -> One(<<Str(e[2])>>)
      [] e[1] = "Pipe"     -> Then(CollectPaths(e[2], in, env), LAMBDA p :
                                Then(CollectPaths(e[3], in, env), LAMBDA q :
                                  One(p \o q)))
      [] e[1] = "Iterate"  -> IF Iterable(in)
                              THEN Then(Ok(Steps(in)), LAMBDA c : One(<<c>>))
                              ELSE Worded
      [] OTHER -> Worded

\* the paths a filter names, for assignment and del
CollectPaths(e, in, env) ==
    CASE e[1] = "Identity" -> One(<<>>)
      [] e[1] = "Field"    -> One(<<Str(e[2])>>)
      [] e[1] = "Pipe"     -> Then(CollectPaths(e[2], in, env), LAMBDA p :
                                Then(CollectPaths(e[3], GetPath(in, p), env), LAMBDA q :
                                  One(p \o q)))
      [] e[1] = "Comma"    -> Then(Ok(<<e[2], e[3]>>), LAMBDA x : CollectPaths(x, in, env))
      [] e[1] = "Index"    -> Then(Eval(e[2], in, env), LAMBDA k :
                                IF Kind(k) \in {"num", "str"} THEN One(<<k>>) ELSE Worded)
      [] e[1] = "Iterate"  -> IF Iterable(in)
                              THEN Then(Ok(Steps(in)), LAMBDA c : One(<<c>>))
                              ELSE Worded
      [] e[1] = "Optional" -> CollectPaths(e[2], in, env)
      [] OTHER -> Worded

\* Each value of the left side is the input of the right one, except for `and`
\* and `or`, whose two sides are evaluated on the input, both of them always.
EvalBinop(op, a, b, in, env) ==
    IF op \in {"And", "Or"}
    THEN All(Eval(a, in, env), LAMBDA xs : All(Eval(b, in, env), LAMBDA ys :
            Then(Ok(xs), LAMBDA x : Then(Ok(ys), LAMBDA y : ApplyBinop(op, x, y)))))
    ELSE Then(Eval(a, in, env), LAMBDA x : Then(Eval(b, x, env), LAMBDA y : ApplyBinop(op, x, y)))

\* An entry takes the first value of its key and of its value; without a key
\* it is skipped, without a value it is null.
EvalObject(entries, in, env) ==
    LET named(o, k, e) ==
            First(Eval(e, in, env), LAMBDA x : One(Obj(With(Contents(o), k, x))))
        entry(o, kv) ==
            IF kv[1][1] = "Name" THEN named(o, kv[1][2], kv[2])
            ELSE All(Eval(kv[1][2], in, env), LAMBDA ks :
                    IF ks = <<>> THEN One(o) ELSE named(o, Shown(ks[1]), kv[2]))
    IN  Steadily(entry, Obj(<<>>), entries)

EvalSlice(lo, hi, in, env) ==
    LET bound(e) == IF e = None THEN One(Null) ELSE Eval(e, in, env)
    IN  First(bound(lo), LAMBDA l : First(bound(hi), LAMBDA h : SliceOf(in, l, h)))

\* every accumulator is updated for every item, with the item in the variable
EvalReduce(src, var, init, update, in, env) ==
    All(Eval(src, in, env), LAMBDA items :
        FoldLeft(LAMBDA accs, item : Then(accs, LAMBDA acc : Eval(update, acc, With(env, var, item))),
                 Eval(init, in, env), items))

\* as reduce, and every update is put out, through the extraction if there is one
EvalForeach(src, var, init, update, extract, in, env) ==
    LET inner(item) == With(env, var, item)
        extracted(v, item) == IF extract = None THEN One(v) ELSE Eval(extract, v, inner(item))
        pairs(accs, item) ==
            Then(Ok(accs), LAMBDA acc :
                Then(Eval(update, acc, inner(item)), LAMBDA v :
                    All(extracted(v, item), LAMBDA out : One(<<v, out>>))))
        step(s, item) ==
            LET p == pairs(s.accs, item)
            IN  IF ~s.ok THEN s
                ELSE IF ~p.ok THEN [s EXCEPT !.ok = FALSE, !.msg = p.msg]
                ELSE [s EXCEPT !.accs = [i \in DOMAIN p.out |-> p.out[i][1]],
                               !.out = @ \o FlattenSeq([i \in DOMAIN p.out |-> p.out[i][2]])]
        run(items, accs) ==
            FoldLeft(step, [ok |-> TRUE, accs |-> accs, out |-> <<>>, msg |-> <<>>], items)
        ended(s) == IF s.ok THEN Ok(s.out) ELSE Err(s.msg)
    IN  All(Eval(src, in, env), LAMBDA items :
            All(Eval(init, in, env), LAMBDA accs : ended(run(items, accs))))

\* the value is that of the input, put at every path; nothing puts in null
EvalAssign(path, e, in, env) ==
    First(Eval(e, in, env), LAMBDA x :
        All(CollectPaths(path, in, env), LAMBDA ps :
            One(FoldLeft(LAMBDA v, p : SetPath(v, p, x), in, ps))))

\* each path in turn, from the value the last one left
EvalUpdate(path, e, in, env) ==
    LET update(v, p) ==
            First(Eval(e, GetPath(v, p), env), LAMBDA x : One(SetPath(v, p, x)))
    IN  All(CollectPaths(path, in, env), LAMBDA ps : Steadily(update, in, ps))

\* the items one after the other until the filter has a truthy value for one
\* (any), or none (all), or fails
Quantified(name, items, e, env) ==
    LET r == [i \in DOMAIN items |-> Eval(e, items[i], env)]
        found(i) == \E k \in DOMAIN r[i].out : Truthy(r[i].out[k])
        stop == {i \in DOMAIN items : ~r[i].ok \/ (found(i) <=> name = "any")}
    IN  IF stop = {} THEN One(Bool(name = "all"))
        ELSE IF ~r[Least(stop)].ok THEN r[Least(stop)]
        ELSE One(Bool(name = "any"))

\* each element with the first value of its key
SortBy(items, f(_)) ==
    LET keyed == Then(Ok(items), LAMBDA x : First(f(x), LAMBDA k : One(<<k, x>>)))
    IN  All(keyed, LAMBDA ps :
            LET s == Sorted(ps, LAMBDA p : p[1]) IN One(Arr([i \in DOMAIN s |-> s[i][2]])))

EvalRange(args, in, env) ==
    LET number(v) == IF Kind(v) = "num" THEN Contents(v) ELSE 0
        first(e) == First(Eval(e, in, env), LAMBDA v : One(number(v)))
    IN  All(Then(Ok(args), first), LAMBDA ns :
            CASE Len(ns) = 1 -> RangeOf(0, ns[1], 1)
              [] Len(ns) = 2 -> RangeOf(ns[1], ns[2], 1)
              [] Len(ns) = 3 -> RangeOf(ns[1], ns[2], ns[3])
              [] OTHER -> Worded)

\* The builtins that take a filter.  One they lack is out of bounds when they
\* come to it.
CallWithFilter(name, args, in, env) ==
    LET f(v) == IF args = <<>> THEN Panic ELSE Eval(args[1], v, env)
        second == IF Len(args) < 2 THEN Panic ELSE Eval(args[2], in, env)
        items == Items(in)
        put(v, c) == First(f(Get(in, c)), LAMBDA x : One(SetPath(v, <<c>>, x)))
        nth(s, n) == At(s, IF Kind(n) = "num" THEN Contents(n) + 1 ELSE 1)
    IN  CASE name = "select" -> Then(f(in), LAMBDA c : Ok(IF Truthy(c) THEN <<in>> ELSE <<>>))
          [] name = "map" /\ Iterable(in) -> All(Then(Ok(items), f), LAMBDA s : One(Arr(s)))
          [] name = "map_values" /\ Iterable(in) -> Steadily(put, in, Steps(in))
          [] name \in {"any", "all"} /\ Kind(in) = "arr" -> Quantified(name, items, args[1], env)
          [] name = "sort_by" /\ Kind(in) = "arr" -> SortBy(items, f)
          [] name = "first" -> All(f(in), LAMBDA s : At(s, 1))
          [] name = "last" -> All(f(in), LAMBDA s : At(s, Len(s)))
          [] name = "nth" -> First(f(in), LAMBDA n :
                IF Len(args) > 1 THEN All(second, LAMBDA s : nth(s, n))
                ELSE IF Kind(in) = "arr" THEN nth(items, n)
                ELSE Worded)
          [] name = "del" -> All(IF args = <<>> THEN Panic ELSE CollectPaths(args[1], in, env),
                                 LAMBDA ps : One(FoldLeft(DelPath, in, ps)))
          [] name = "setpath" -> First(f(in), LAMBDA p : First(second, LAMBDA x :
                IF IsPath(p) THEN One(SetPath(in, Contents(p), x)) ELSE Worded))
          [] OTHER -> Worded

WithFilter == {"select", "map", "map_values", "any", "all", "sort_by", "first", "last", "nth",
               "del", "setpath"}

\* An argument too many is not looked at, and a name that is no builtin is an
\* error (a function definition is a call of one).
Call(name, args, in, env) ==
    LET value == IF args = <<>> THEN Panic ELSE Eval(args[1], in, env)
        alone == args = <<>> \/ name \notin {"any", "all", "first", "last"}
    IN  CASE name = "range" -> EvalRange(args, in, env)
          [] name \in OnInput \/ (name \in OnArray /\ alone) -> CallOnInput(name, in)
          [] name = "error" /\ args = <<>> -> CallOnInput(name, in)
          [] name \in WithValue /\ (name = "error" => args # <<>>) ->
                First(value, LAMBDA b : CallWithValue(name, in, b))
          [] name \in WithFilter /\ (name \in OnArray => ~alone) ->
                CallWithFilter(name, args, in, env)
          [] OTHER -> Worded

Caught(r) == ~r.ok /\ r # Panic

Eval(e, in, env) ==
    CASE e[1] = "Identity" -> One(in)
      [] e[1] = "Recurse"  -> Ok(Recurse(in))
      [] e[1] = "Field"    -> One(GetKey(in, e[2]))
      [] e[1] = "Literal"  -> One(e[2])
      [] e[1] = "Var"      -> IF e[2] \in DOMAIN env THEN One(env[e[2]]) ELSE Worded
      [] e[1] = "Pipe"     -> Then(Eval(e[2], in, env), LAMBDA v : Eval(e[3], v, env))
      [] e[1] = "Comma"    -> Then(Ok(<<e[2], e[3]>>), LAMBDA x : Eval(x, in, env))
      [] e[1] = "Array"    -> All(Eval(e[2], in, env), LAMBDA s : One(Arr(s)))
      [] e[1] = "Object"   -> EvalObject(e[2], in, env)
      [] e[1] = "Iterate"  -> IF Iterable(in) THEN Ok(Items(in)) ELSE Worded
      [] e[1] = "Index"    -> Then(Eval(e[2], in, env), LAMBDA k :
                                IF Kind(k) \in {"num", "str"} THEN One(Get(in, k)) ELSE Worded)
      [] e[1] = "Slice"    -> EvalSlice(e[2], e[3], in, env)
      [] e[1] = "Neg"      -> Then(Eval(e[2], in, env), LAMBDA v :
                                IF Kind(v) = "num" THEN One(Num(-Contents(v))) ELSE Worded)
      [] e[1] = "BinOp"    -> EvalBinop(e[2], e[3], e[4], in, env)
      [] e[1] = "If"       -> Then(Eval(e[2], in, env), LAMBDA c :
                                IF Truthy(c) THEN Eval(e[3], in, env)
                                ELSE IF e[4] = None THEN One(Null) ELSE Eval(e[4], in, env))
      [] e[1] = "Optional" -> LET r == Eval(e[2], in, env) IN IF Caught(r) THEN Ok(<<>>) ELSE r
      [] e[1] = "Try"      -> LET r == Eval(e[2], in, env)
                              IN  IF ~Caught(r) THEN r
                                  ELSE IF e[3] = None THEN Ok(<<>>)
                                  ELSE Eval(e[3], Str(r.msg), env)
      [] e[1] = "Call"     -> Call(e[2], e[3], in, env)
      [] e[1] = "Reduce"   -> EvalReduce(e[2], e[3], e[4], e[5], in, env)
      [] e[1] = "Foreach"  -> EvalForeach(e[2], e[3], e[4], e[5], e[6], in, env)
      [] e[1] = "As"       -> Then(Eval(e[2], in, env), LAMBDA v : Eval(e[4], in, With(env, e[3], v)))
      [] e[1] = "Assign"   -> First(Eval(e[3], in, env), LAMBDA x : One(in))
      [] e[1] = "PathAssign" -> EvalAssign(e[2], e[3], in, env)
      [] e[1] = "PathUpdate" -> EvalUpdate(e[2], e[3], in, env)
      [] e[1] = "Label"    -> LET r == Eval(e[3], in, env)
                              IN  IF ~r.ok /\ r.msg = <<"__break__:", e[2]>> THEN One(in) ELSE r
      [] e[1] = "Break"    -> Err(<<"__break__:", e[2]>>)

=============================================================================
