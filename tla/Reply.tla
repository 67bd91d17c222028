------------------------------- MODULE Reply -------------------------------
(***************************************************************************)
(* From a model's reply to an action (src/src/parse.rs).  A reply is a     *)
(* sequence of tokens: the tags that leak from other harnesses, fences of  *)
(* code blocks, line ends, words.  What is left of it and what is executed *)
(* are sequences of the places of their tokens in the reply.               *)
(***************************************************************************)
EXTENDS Integers, Sequences, SequencesExt, FiniteSetsExt, FiniteSets

Opens == {"<think>", "<reminder>"}
Closes == [t \in Opens |-> IF t = "<think>" THEN "</think>" ELSE "</reminder>"]
Fences == {"fence lua", "fence sh", "fence"}     \* "fence sh" stands for every language skipped
LineEnd == "nl"
Done == "done()"
Tokens == Opens \cup {Closes[t] : t \in Opens} \cup Fences \cup {LineEnd, Done, "word"}

Places(i, j) == [k \in 1..(j - i + 1) |-> i + k - 1]

----------------------------------------------------------------------------
(* Leaked tags *)

\* the first place at or after i with one of the tokens of a set, or 0
Find(reply, i, set) ==
    LET found == {k \in i..Len(reply) : reply[k] \in set}
    IN  IF found = {} THEN 0 ELSE Min(found)

MutStrip(reply) ==                       \* an unclosed tag hides nothing
    LET start == Find(reply, 1, Opens)
        end == IF start = 0 THEN 0 ELSE Find(reply, start + 1, {Closes[reply[start]]})
    IN  IF start = 0 \/ end = 0 THEN Places(1, Len(reply))
        ELSE Places(1, start - 1) \o Places(end + 1, Len(reply))

\* The places outside the tags, read from place i on: the earliest opening tag
\* hides everything up to its own closing tag, or the rest when it has none.
Strip(reply) ==
    LET from[i \in 1..(Len(reply) + 1)] ==
            LET start == Find(reply, i, Opens)
                end == Find(reply, start + 1, {Closes[reply[start]]})
            IN  IF start = 0 THEN Places(i, Len(reply))
                ELSE IF end = 0 THEN Places(i, start - 1)
                ELSE Places(i, start - 1) \o from[end + 1]
    IN  from[1]

----------------------------------------------------------------------------
(* Code blocks of a text, a sequence of tokens *)

\* the lines that open with a fence, by the place of the fence
FenceLines(text) ==
    {i \in DOMAIN text : text[i] \in Fences /\ (i = 1 \/ text[i - 1] = LineEnd)}

\* where the line of place i ends, and where the next fence after it stands;
\* past the text when there is none
EndOfLine(text, i) == Min({j \in i..Len(text) : text[j] = LineEnd} \cup {Len(text) + 1})
NextFence(text, i) == Min({j \in FenceLines(text) : i < j} \cup {Len(text) + 1})

\* fences open and close blocks in turn, whatever they name
Opening(text) ==
    {i \in FenceLines(text) : Cardinality({j \in FenceLines(text) : j < i}) % 2 = 0}

\* the language is all the line says after its fence
Skipped(text, i) == text[i] = "fence sh" /\ EndOfLine(text, i) = i + 1

\* the blocks, by their fences: an empty one counts only when it is closed
FencedBlocks(text) ==
    {i \in Opening(text) :
        /\ ~Skipped(text, i)
        /\ \/ NextFence(text, i) <= Len(text)
           \/ \E j \in EndOfLine(text, i)..(NextFence(text, i) - 1) : text[j] # LineEnd}

\* `done(` and `)` are looked for at the two ends of the text, line ends aside
BareDone(text) ==
    LET said == {k \in DOMAIN text : text[k] # LineEnd}
    IN  said # {} /\ text[Min(said)] = Done /\ text[Max(said)] = Done

\* one block is executed, those after it are counted
ParseReply(reply) ==
    LET clean == Strip(reply)
        text == [k \in DOMAIN clean |-> reply[clean[k]]]
        blocks == FencedBlocks(text)
        first == Min(blocks)
    IN  IF blocks = {}
        THEN [act |-> IF BareDone(text) THEN "done" ELSE "text", code |-> <<>>, ignored |-> 0]
        ELSE [act |-> "exec", ignored |-> Cardinality(blocks) - 1,
              code |-> SubSeq(clean, EndOfLine(text, first) + 1, NextFence(text, first) - 1)]

----------------------------------------------------------------------------
(* What a reply asks for, place by place *)

\* which tag hides the place i, reading from the left; a tag hides itself
Hiding(reply) ==
    LET in[i \in 0..Len(reply)] ==           \* the tag that is open after i
            IF i = 0 THEN "none"
            ELSE IF in[i - 1] = "none" THEN IF reply[i] \in Opens THEN reply[i] ELSE "none"
            ELSE IF reply[i] = Closes[in[i - 1]] THEN "none" ELSE in[i - 1]
    IN  [i \in 1..Len(reply) |-> in[i - 1] # "none" \/ in[i] # "none"]

Visible(reply) ==
    LET hidden == Hiding(reply)
    IN  {i \in DOMAIN reply : ~hidden[i]}

\* v is the next visible place after u
Follows(shown, u, v) == u < v /\ \A w \in shown : ~(u < w /\ w < v)

\* the visible fences that open a line of what is shown
ShownFences(reply, shown) ==
    {f \in shown : /\ reply[f] \in Fences
                   /\ \A u \in shown : Follows(shown, u, f) => reply[u] = LineEnd}

\* the line end e is the one of the line of f
EndsLine(reply, shown, f, e) ==
    /\ f < e /\ reply[e] = LineEnd
    /\ \A v \in shown : f < v /\ v < e => reply[v] # LineEnd

\* fences open and close in turn: those that open a block in a language that is run
BlockFences(reply, shown) ==
    LET fences == ShownFences(reply, shown)
        alone(f) == \A v \in shown : Follows(shown, f, v) => reply[v] = LineEnd
    IN  {f \in fences : /\ ~(reply[f] = "fence sh" /\ alone(f))
                        /\ Cardinality({g \in fences : g < f}) % 2 = 0}

\* the places of the block of f: past its line, before the next fence
Inside(reply, shown, f) ==
    {v \in shown : /\ \E e \in shown : EndsLine(reply, shown, f, e) /\ e < v
                   /\ \A g \in ShownFences(reply, shown) : f < g => v < g}

\* What is executed is code the model showed: all the places past the line
\* of a fence and before the next one, in their order, but those inside a leaked tag
\* (thinking, or a reminder another harness would have written).  That fence
\* is the first that opens a block in a language that is run: fences open and
\* close in turn, so that text between two blocks is never code.  Nothing is
\* executed only if nothing is said after the line of any such fence; the reply is
\* then taken as done exactly when what is said begins and ends with done().
OnlyVisibleCodeRuns(reply) ==
    LET r == ParseReply(reply)
        code == Range(r.code)
        shown == Visible(reply)
        said == {v \in shown : reply[v] # LineEnd}
        blocks == BlockFences(reply, shown)
    IN  /\ \A k \in DOMAIN r.code : k > 1 => r.code[k - 1] < r.code[k]
        /\ r.act = "exec" => \E f \in blocks : /\ \A g \in blocks : f <= g
                                               /\ code = Inside(reply, shown, f)
        /\ r.act # "exec" =>
              /\ code = {}
              /\ \A f \in blocks, e \in shown, v \in said : EndsLine(reply, shown, f, e) => v < e
              /\ r.act = "done" <=> \E u, v \in said : /\ reply[u] = Done /\ reply[v] = Done
                                                       /\ \A w \in said : u <= w /\ w <= v

=============================================================================
