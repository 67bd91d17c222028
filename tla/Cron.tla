-------------------------------- MODULE Cron --------------------------------
(***************************************************************************)
(* Cron schedules (src/src/cron.rs).  A part of a field is a star, a value *)
(* or a range, with or without a step; a field is a sequence of parts.     *)
(***************************************************************************)
EXTENDS Integers, Sequences, SequencesExt

CONSTANTS
    Width,   \* values of the integers of a field (u32; a smaller width here)
    DomMax   \* last day of a month

Part(shape, lo, hi, step) == [shape |-> shape, lo |-> lo, hi |-> hi, step |-> step]
NoStep == -1
Star == Part("star", 0, 0, NoStep)
Parts == [shape : {"star", "value", "range"}, lo : Nat, hi : Nat, step : Nat \cup {NoStep}]
IsStar(field) == field = <<Star>>        \* the text of the field is `*`

Bad == {-1}                              \* an error: no field has this value

MutBounds(p, min, max) ==                \* `v/step` is one value
    IF p.shape = "star" THEN <<min, max>>
    ELSE IF p.shape = "range" THEN <<p.lo, p.hi>>
    ELSE <<p.lo, p.lo>>

\* a value with a step starts a range that goes to the end of the field
Bounds(p, min, max) ==
    IF p.shape = "star" THEN <<min, max>>
    ELSE IF p.shape = "range" THEN <<p.lo, p.hi>>
    ELSE IF p.step # NoStep THEN <<p.lo, max>>
    ELSE <<p.lo, p.lo>>

\* lo, lo + step, ... while not past hi, in the width of the integers
Expand(lo, hi, step) ==
    LET from[v \in 0..(Width - 1)] ==
            IF v > hi THEN {} ELSE {v} \cup from[(v + step) % Width]
    IN  from[lo]

\* the values of a field, or an error
ParseField(field, min, max) ==
    LET lo(p) == Bounds(p, min, max)[1]
        hi(p) == Bounds(p, min, max)[2]
        step(p) == IF p.step = NoStep THEN 1 ELSE p.step
        wrong(p) == step(p) = 0 \/ lo(p) < min \/ hi(p) > max \/ lo(p) > hi(p)
    IN  IF \E i \in DOMAIN field : wrong(field[i]) THEN Bad
        ELSE UNION {Expand(lo(field[i]), hi(field[i]), step(field[i])) : i \in DOMAIN field}

\* 7 is Sunday too
DayOfWeek(field) ==
    LET days == ParseField(field, 0, 7)
    IN  IF days # Bad /\ 7 \in days THEN (days \ {7}) \cup {0} ELSE days

Accepted(dom, dow) == ParseField(dom, 1, DomMax) # Bad /\ DayOfWeek(dow) # Bad

ParseSchedule(dom, dow) ==
    [dom |-> ParseField(dom, 1, DomMax), dow |-> DayOfWeek(dow),
     domAny |-> IsStar(dom), dowAny |-> IsStar(dow)]

\* Schedule::matches, the days (minute, hour and month are conjuncts of their
\* own): when both day fields are restricted either is enough
MatchesDay(s, day, weekday) ==
    CASE s.domAny /\ s.dowAny   -> TRUE
      [] ~s.domAny /\ s.dowAny  -> day \in s.dom
      [] s.domAny /\ ~s.dowAny  -> weekday \in s.dow
      [] ~s.domAny /\ ~s.dowAny -> day \in s.dom \/ weekday \in s.dow

----------------------------------------------------------------------------
(* What a schedule means *)

\* every step of the field can be added to its last value
Fits(field, max) == \A i \in DOMAIN field : field[i].step + max < Width /\ 1 + max < Width

\* v is one of the values the part names
Names(p, v, min, max) ==
    /\ min <= v /\ v <= max
    /\ p.shape # "star" => p.lo <= v
    /\ p.shape = "range" => v <= p.hi
    /\ p.shape = "value" /\ p.step = NoStep => v = p.lo
    /\ p.step # NoStep =>
          (v - (IF p.shape = "star" THEN min ELSE p.lo)) % p.step = 0

\* a part no schedule may have
Wrong(p, min, max) ==
    \/ p.step = 0
    \/ p.shape # "star" /\ ~(min <= p.lo /\ p.lo <= max)
    \/ p.shape = "range" /\ ~(p.lo <= p.hi /\ p.hi <= max)

\* A schedule that is accepted fires on exactly the days its fields name, with
\* Sunday as 0 or 7, either field enough when both are restricted and the
\* other one alone when one is a star; it is refused only for a value or a
\* range outside its field or a step of 0.  (For steps that do not wrap the
\* integers around.)
FiresWhenNamed(dom, dow) ==
    LET s == ParseSchedule(dom, dow)
        named(field, v, min, max) == \E i \in DOMAIN field : Names(field[i], v, min, max)
        sunday(w) == named(dow, w, 0, 7) \/ (w = 0 /\ named(dow, 7, 0, 7))
    IN  IF Accepted(dom, dow)
        THEN \A day \in 1..DomMax, w \in 0..6 :
                MatchesDay(s, day, w) <=>
                  IF IsStar(dom) THEN IsStar(dow) \/ sunday(w)
                  ELSE named(dom, day, 1, DomMax) \/ (~IsStar(dow) /\ sunday(w))
        ELSE \/ \E i \in DOMAIN dom : Wrong(dom[i], 1, DomMax)
             \/ \E i \in DOMAIN dow : Wrong(dow[i], 0, 7)

=============================================================================
