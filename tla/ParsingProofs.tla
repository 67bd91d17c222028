--------------------------- MODULE ParsingProofs ---------------------------
(* Theorems about Parsing.  Schedules: for integers of any width, months   *)
(* of any length and any two fields of days whose steps stay within that   *)
(* width, what is accepted fires on the days its fields name, and only     *)
(* what is wrong is refused.  Replies: of one of any length, only code     *)
(* outside leaked tags is executed.                                        *)
EXTENDS Parsing, SequenceTheorems, FunctionTheorems, FiniteSetTheorems,
        WellFoundedInduction, TLAPS

----------------------------------------------------------------------------
(* The values of a field of a schedule *)

LEMMA Remainders ==
  ASSUME NEW s \in Nat \ {0}, NEW d \in Nat
  PROVE  /\ d % 1 = 0 /\ 0 % s = 0
         /\ d < s => d % s = d
         /\ d >= s => d % s = (d - s) % s
<1>1. d % 1 = 0 /\ 0 % s = 0 /\ (d < s => d % s = d)
  OBVIOUS
<1>2. ASSUME d >= s PROVE d % s = (d - s) % s
  <2> DEFINE e == d - s
             q == d \div s
             p == e \div s
             k == q - p - 1
  <2>1. e \in Nat /\ d = e + s
    BY <1>2
  <2>2. d = s * q + (d % s) /\ d % s \in 0..(s - 1) /\ q \in Int
    OBVIOUS
  <2>3. e = s * p + (e % s) /\ e % s \in 0..(s - 1) /\ p \in Int
    BY <2>1
  <2> HIDE DEF e, q, p
  <2>4. k \in Int /\ s * k = s * q - s * p - s /\ s * k \in Int
    BY <2>2, <2>3
  <2> HIDE DEF k
  <2>5. s * k = (e % s) - (d % s) /\ s * k < s /\ s * k > -s
    <3> DEFINE a == s * q
               b == s * p
               c == s * k
    <3>1. a \in Int /\ b \in Int /\ c \in Int /\ c = a - b - s
      BY <2>2, <2>3, <2>4
    <3>2. d = a + (d % s) /\ e = b + (e % s) /\ d = e + s
      BY <2>1, <2>2, <2>3
    <3>3. d % s \in Int /\ e % s \in Int /\ (e % s) - (d % s) < s /\ (e % s) - (d % s) > -s
      BY <2>2, <2>3
    <3> HIDE DEF a, b, c
    <3>4. c = (e % s) - (d % s)
      BY <2>1, <3>1, <3>2, <3>3
    <3>5. QED
      BY <3>3, <3>4 DEF c
  <2>6. k = 0
    <3>1. k >= 1 => s * k >= s
      BY <2>4
    <3>2. k <= -1 => s * k <= -s
      BY <2>4
    <3>3. QED
      BY <2>4, <2>5, <3>1, <3>2
  <2>7. d % s = e % s
    BY <2>2, <2>3, <2>5, <2>6
  <2>8. QED
    BY <2>7 DEF e
<1>3. QED
  BY <1>1, <1>2

(* A set of natural numbers that is not empty has a least member.          *)
LEMMA LeastOf ==
  ASSUME NEW T \in SUBSET Nat, T # {}
  PROVE  \E i \in T : \A j \in T : i <= j
<1> DEFINE Less == {pair \in Nat \X Nat : pair[1] < pair[2]}
<1>1. IsWellFoundedOn(Less, Nat)
  BY NatLessThanWellFounded DEF OpToRel
<1>2. PICK i \in T : \A j \in T : <<j, i>> \notin Less
  BY <1>1, WFMin, Zenon
<1>3. ASSUME NEW j \in T PROVE i <= j
  <2>1. <<j, i>> \notin Less /\ i \in Nat /\ j \in Nat
    BY <1>2
  <2>2. ~(j < i)
    BY <2>1
  <2>3. QED
    BY <2>1, <2>2
<1>4. QED
  BY <1>3

(* The values a part expands to.                                           *)
Stepped(v, hi, step) == {u \in v..hi : (u - v) % step = 0}

LEMMA ExpandIsStepped ==
  ASSUME NEW lo \in Nat, NEW hi \in Nat, NEW step \in Nat \ {0},
         Width \in Nat, lo <= hi, hi + step < Width
  PROVE  Expand(lo, hi, step) = Stepped(lo, hi, step)
<1> DEFINE V == 0..(Width - 1)
           G(f) == [v \in V |-> IF v > hi THEN {} ELSE {v} \cup f[(v + step) % Width]]
           from == CHOOSE f : f = G(f)
           w == [v \in V |-> Stepped(v, hi, step)]
<1>1. Expand(lo, hi, step) = from[lo]
  BY DEF Expand
<1>2. \A v \in V : v <= hi => v + step \in V /\ (v + step) % Width = v + step
  OBVIOUS
<1>3. \A v \in V : v > hi => Stepped(v, hi, step) = {}
  BY DEF Stepped
<1>4. ASSUME NEW v \in V, v <= hi
      PROVE  Stepped(v, hi, step) = {v} \cup Stepped(v + step, hi, step)
  <2>1. v \in Nat /\ (v - v) % step = 0
    BY Remainders
  <2>2. ASSUME NEW u \in v..hi, u # v
        PROVE  (u - v) % step = 0 <=> u >= v + step /\ (u - (v + step)) % step = 0
    <3>1. u - v \in Nat /\ u - v # 0 /\ u - (v + step) = (u - v) - step
      BY <2>1, <2>2
    <3> DEFINE d == u - v
    <3>2. d \in Nat /\ d # 0 /\ (u >= v + step <=> d >= step) /\ u - (v + step) = d - step
      BY <2>1, <2>2, <3>1
    <3>3. /\ d < step => d % step = d
          /\ d >= step => d % step = (d - step) % step
      BY <3>2, Remainders
    <3> HIDE DEF d
    <3>4. d % step = 0 <=> d >= step /\ (d - step) % step = 0
      BY <3>2, <3>3
    <3>5. QED
      BY <3>2, <3>4 DEF d
  <2>3. ASSUME NEW u
        PROVE  u \in Stepped(v, hi, step) <=> u = v \/ u \in Stepped(v + step, hi, step)
    <3>1. CASE u \in v..hi /\ u # v
      <4>1. u >= v + step <=> u \in (v + step)..hi
        BY <2>1, <3>1
      <4>2. QED
        BY <2>2, <3>1, <4>1 DEF Stepped
    <3>2. CASE u = v
      BY <1>4, <2>1, <3>2 DEF Stepped
    <3>3. CASE u \notin v..hi
      <4>1. u \notin (v + step)..hi /\ u # v
        BY <1>4, <2>1, <3>3
      <4>2. QED
        BY <3>3, <4>1 DEF Stepped
    <3>4. QED
      BY <3>1, <3>2, <3>3
  <2>4. QED
    BY <2>3
<1>5. w = G(w)
  BY <1>2, <1>3, <1>4
<1>6. from = G(from)
  BY <1>5
<1> HIDE DEF from, w
(* Both obey the same equation, so the greatest value at which they could  *)
(* differ would not.                                                       *)
<1>7. \A v \in V : from[v] = Stepped(v, hi, step)
  <2> DEFINE bad == {n \in Nat : \E v \in V : n = Width - v /\ from[v] # Stepped(v, hi, step)}
  <2>1. ASSUME bad # {} PROVE FALSE
    <3>1. PICK n \in bad : \A m \in bad : n <= m
      BY <2>1, LeastOf
    <3>2. PICK v \in V : n = Width - v /\ from[v] # Stepped(v, hi, step)
      BY <3>1
    <3>3. v <= hi
      BY <1>3, <1>6, <3>2
    <3>4. v + step \in V /\ from[v] = {v} \cup from[v + step]
      <4>1. from[v] = {v} \cup from[(v + step) % Width]
        <5>1. from[v] = IF v > hi THEN {} ELSE {v} \cup from[(v + step) % Width]
          BY <1>6
        <5>2. ~(v > hi)
          BY <3>3
        <5>3. QED
          BY <5>1, <5>2
      <4>2. QED
        BY <1>2, <3>3, <4>1
    <3>5. from[v + step] = Stepped(v + step, hi, step)
      BY <3>1, <3>2, <3>4
    <3>6. QED
      BY <1>4, <3>2, <3>3, <3>4, <3>5
  <2>2. \A v \in V : Width - v \in Nat
    OBVIOUS
  <2>3. ASSUME NEW v \in V PROVE from[v] = Stepped(v, hi, step)
    BY <2>1, <2>2
  <2>4. QED
    BY <2>3
<1>8. lo \in V
  OBVIOUS
<1>9. QED
  BY <1>1, <1>7, <1>8

(* A part that is right names the values it expands to.                    *)
LEMMA PartExpandsToNamed ==
  ASSUME NEW p \in Parts, NEW min \in Nat, NEW max \in Nat, min <= max,
         Width \in Nat, p.step + max < Width, 1 + max < Width, ~Wrong(p, min, max)
  PROVE  LET lo == Bounds(p, min, max)[1]
             hi == Bounds(p, min, max)[2]
             step == IF p.step = NoStep THEN 1 ELSE p.step
         IN  /\ ~(step = 0 \/ lo < min \/ hi > max \/ lo > hi)
             /\ \A v : v \in Expand(lo, hi, step) <=> v \in Nat /\ Names(p, v, min, max)
<1> DEFINE lo == Bounds(p, min, max)[1]
           hi == Bounds(p, min, max)[2]
           step == IF p.step = NoStep THEN 1 ELSE p.step
<1>1. /\ p.shape \in {"star", "value", "range"} /\ p.lo \in Nat /\ p.hi \in Nat
      /\ p.step \in Nat \/ p.step = -1
      /\ NoStep = -1
  BY DEF Parts, NoStep
<1>2. /\ p.step # 0
      /\ p.shape # "star" => min <= p.lo /\ p.lo <= max
      /\ p.shape = "range" => p.lo <= p.hi /\ p.hi <= max
  BY DEF Wrong
<1>3. step \in Nat \ {0} /\ step + max < Width
  BY <1>1, <1>2
<1>4. /\ p.shape = "star" => lo = min /\ hi = max
      /\ p.shape = "range" => lo = p.lo /\ hi = p.hi
      /\ p.shape = "value" /\ p.step # NoStep => lo = p.lo /\ hi = max
      /\ p.shape = "value" /\ p.step = NoStep => lo = p.lo /\ hi = p.lo
  BY DEF Bounds
<1> HIDE DEF lo, hi
<1>5. lo \in Nat /\ hi \in Nat /\ min <= lo /\ lo <= hi /\ hi <= max
  BY <1>1, <1>2, <1>4
<1>6. Expand(lo, hi, step) = Stepped(lo, hi, step)
  <2> HIDE DEF step
  <2>1. hi + step < Width
    BY <1>3, <1>5
  <2>2. QED
    BY <1>3, <1>5, <2>1, ExpandIsStepped
<1>7. ASSUME NEW v PROVE v \in Stepped(lo, hi, step) <=> v \in Nat /\ Names(p, v, min, max)
  <2>1. v \in Stepped(lo, hi, step) <=> v \in Nat /\ lo <= v /\ v <= hi /\ (v - lo) % step = 0
    BY <1>5 DEF Stepped
  <2>2. CASE p.step = NoStep
    <3>1. v \in Nat /\ lo <= v => (v - lo) % step = 0
      <4>1. step = 1
        BY <2>2
      <4>2. v \in Nat /\ lo <= v => v - lo \in Nat
        BY <1>5
      <4>3. QED
        BY <4>1, <4>2, Remainders
    <3>2. Names(p, v, min, max) <=>
            /\ min <= v /\ v <= max
            /\ p.shape # "star" => p.lo <= v
            /\ p.shape = "range" => v <= p.hi
            /\ p.shape = "value" => v = p.lo
      BY <2>2 DEF Names
    <3> HIDE DEF step
    <3>3. QED
      BY <1>1, <1>2, <1>4, <1>5, <2>1, <2>2, <3>1, <3>2
  <2>3. CASE p.step # NoStep
    <3>1. step = p.step /\ lo = IF p.shape = "star" THEN min ELSE p.lo
      BY <1>1, <1>4, <2>3
    <3>2. Names(p, v, min, max) <=>
            /\ min <= v /\ v <= max
            /\ p.shape # "star" => p.lo <= v
            /\ p.shape = "range" => v <= p.hi
            /\ (v - lo) % step = 0
      BY <2>3, <3>1 DEF Names
    <3> HIDE DEF step
    <3>3. QED
      BY <1>1, <1>2, <1>4, <1>5, <2>1, <2>3, <3>2
  <2>4. QED
    BY <2>2, <2>3
<1>8. QED
  BY <1>3, <1>5, <1>6, <1>7 DEF lo, hi

Named(field, v, min, max) == \E i \in DOMAIN field : Names(field[i], v, min, max)

(* A field that is right has the values its parts name, and one with a     *)
(* part that is wrong is refused.                                          *)
LEMMA FieldHasNamed ==
  ASSUME NEW field \in Seq(Parts), NEW min \in Nat, NEW max \in Nat, min <= max,
         Width \in Nat, Fits(field, max)
  PROVE  /\ ParseField(field, min, max) = Bad =>
              \E i \in DOMAIN field : Wrong(field[i], min, max)
         /\ ParseField(field, min, max) # Bad =>
              \A v : v \in ParseField(field, min, max) <=> v \in Nat /\ Named(field, v, min, max)
<1> DEFINE lo(p) == Bounds(p, min, max)[1]
           hi(p) == Bounds(p, min, max)[2]
           step(p) == IF p.step = NoStep THEN 1 ELSE p.step
           wrong(p) == step(p) = 0 \/ lo(p) < min \/ hi(p) > max \/ lo(p) > hi(p)
           values == UNION {Expand(lo(field[i]), hi(field[i]), step(field[i])) : i \in DOMAIN field}
<1>1. ParseField(field, min, max) = IF \E i \in DOMAIN field : wrong(field[i]) THEN Bad ELSE values
  BY DEF ParseField
<1>2. ASSUME NEW p \in Parts, p.step + max < Width, 1 + max < Width, ~Wrong(p, min, max)
      PROVE  /\ ~wrong(p)
             /\ \A v : v \in Expand(lo(p), hi(p), step(p)) <=> v \in Nat /\ Names(p, v, min, max)
  BY <1>2, PartExpandsToNamed
<1>3. ASSUME NEW p \in Parts, ~wrong(p) PROVE ~Wrong(p, min, max)
  BY <1>3 DEF Parts, Wrong, Bounds, NoStep
<1>4. \A i \in DOMAIN field : field[i] \in Parts /\ field[i].step + max < Width /\ 1 + max < Width
  BY DEF Fits
<1> HIDE DEF lo, hi, step, wrong
<1>5. ASSUME \A i \in DOMAIN field : ~wrong(field[i])
      PROVE  \A v : v \in values <=> v \in Nat /\ Named(field, v, min, max)
  BY <1>2, <1>3, <1>4, <1>5 DEF Named
<1>6. ASSUME NEW i \in DOMAIN field, wrong(field[i]) PROVE Wrong(field[i], min, max)
  BY <1>2, <1>4, <1>6
<1>7. ASSUME \A i \in DOMAIN field : ~wrong(field[i]) PROVE values # Bad
  <2> HIDE DEF values
  <2>1. -1 \in Bad /\ -1 \notin Nat
    BY DEF Bad
  <2>2. -1 \notin values
    BY <1>5, <1>7, <2>1
  <2>3. QED
    BY <2>1, <2>2
<1> HIDE DEF values
<1>8. QED
  BY <1>1, <1>5, <1>6, <1>7

LEMMA WeekHasNamed ==
  ASSUME NEW field \in Seq(Parts), Width \in Nat, Fits(field, 7)
  PROVE  /\ DayOfWeek(field) = Bad => \E i \in DOMAIN field : Wrong(field[i], 0, 7)
         /\ DayOfWeek(field) # Bad =>
              \A w \in 0..6 : w \in DayOfWeek(field) <=>
                 Named(field, w, 0, 7) \/ (w = 0 /\ Named(field, 7, 0, 7))
<1> DEFINE days == ParseField(field, 0, 7)
<1>1. /\ days = Bad => \E i \in DOMAIN field : Wrong(field[i], 0, 7)
      /\ days # Bad => \A v : v \in days <=> v \in Nat /\ Named(field, v, 0, 7)
  BY FieldHasNamed
<1>2. DayOfWeek(field) = IF days # Bad /\ 7 \in days THEN (days \ {7}) \cup {0} ELSE days
  BY DEF DayOfWeek
<1> HIDE DEF days
<1>3. CASE days = Bad
  BY <1>1, <1>2, <1>3
<1>4. CASE days # Bad /\ 7 \in days
  <2>1. DayOfWeek(field) # Bad
    <3>1. 0 \in DayOfWeek(field) /\ 0 \notin Bad
      BY <1>2, <1>4 DEF Bad
    <3>2. QED
      BY <3>1
  <2>2. QED
    BY <1>1, <1>2, <1>4, <2>1
<1>5. CASE days # Bad /\ 7 \notin days
  BY <1>1, <1>2, <1>5
<1>6. QED
  BY <1>3, <1>4, <1>5

(* A schedule that is accepted fires on exactly the days its fields name,  *)
(* and one is refused only for a value or a range outside its field or a   *)
(* step of 0 (Schedule::parse, Schedule::matches), for any fields whose    *)
(* steps do not wrap the integers around.                                  *)
THEOREM SchedulesFireWhenNamed ==
  ASSUME Width \in Nat, DomMax \in Nat \ {0},
         NEW dom \in Seq(Parts), NEW dow \in Seq(Parts), Fits(dom, DomMax), Fits(dow, 7)
  PROVE  FiresWhenNamed(dom, dow)
<1> DEFINE s == ParseSchedule(dom, dow)
           sunday(w) == Named(dow, w, 0, 7) \/ (w = 0 /\ Named(dow, 7, 0, 7))
<1>1. /\ ParseField(dom, 1, DomMax) = Bad => \E i \in DOMAIN dom : Wrong(dom[i], 1, DomMax)
      /\ ParseField(dom, 1, DomMax) # Bad =>
           \A v : v \in ParseField(dom, 1, DomMax) <=> v \in Nat /\ Named(dom, v, 1, DomMax)
  BY FieldHasNamed
<1>2. /\ DayOfWeek(dow) = Bad => \E i \in DOMAIN dow : Wrong(dow[i], 0, 7)
      /\ DayOfWeek(dow) # Bad => \A w \in 0..6 : w \in DayOfWeek(dow) <=> sunday(w)
  BY WeekHasNamed
<1> HIDE DEF sunday
<1>3. ASSUME Accepted(dom, dow), NEW day \in 1..DomMax, NEW w \in 0..6
      PROVE  MatchesDay(s, day, w) <=>
               IF IsStar(dom) THEN IsStar(dow) \/ sunday(w)
               ELSE Named(dom, day, 1, DomMax) \/ (~IsStar(dow) /\ sunday(w))
  <2>1. day \in ParseField(dom, 1, DomMax) <=> Named(dom, day, 1, DomMax)
    BY <1>1, <1>3 DEF Accepted
  <2>2. w \in DayOfWeek(dow) <=> sunday(w)
    BY <1>2, <1>3 DEF Accepted
  <2>3. /\ s.dom = ParseField(dom, 1, DomMax) /\ s.dow = DayOfWeek(dow)
        /\ s.domAny = IsStar(dom) /\ s.dowAny = IsStar(dow)
    BY DEF ParseSchedule
  <2> HIDE DEF s
  <2>4. MatchesDay(s, day, w) <=>
          \/ IsStar(dom) /\ IsStar(dow)
          \/ ~IsStar(dom) /\ IsStar(dow) /\ day \in ParseField(dom, 1, DomMax)
          \/ IsStar(dom) /\ ~IsStar(dow) /\ w \in DayOfWeek(dow)
          \/ /\ ~IsStar(dom) /\ ~IsStar(dow)
             /\ day \in ParseField(dom, 1, DomMax) \/ w \in DayOfWeek(dow)
    BY <2>3, Zenon DEF MatchesDay
  <2>5. QED
    BY <2>1, <2>2, <2>4
<1>4. ASSUME ~Accepted(dom, dow)
      PROVE  \/ \E i \in DOMAIN dom : Wrong(dom[i], 1, DomMax)
             \/ \E i \in DOMAIN dow : Wrong(dow[i], 0, 7)
  BY <1>1, <1>2, <1>4 DEF Accepted
<1>5. QED
  BY <1>3, <1>4 DEF FiresWhenNamed, Named, sunday

----------------------------------------------------------------------------
(* What is shown of a reply *)

LEMMA MinIs ==
  ASSUME NEW T \in SUBSET Nat, T # {}
  PROVE  Min(T) \in T /\ \A j \in T : Min(T) <= j
BY LeastOf DEF Min

LEMMA MaxIs ==
  ASSUME NEW n \in Nat, NEW T \in SUBSET (0..n), T # {}
  PROVE  Max(T) \in T /\ \A j \in T : Max(T) >= j
<1> DEFINE D == {d \in Nat : n - d \in T}
<1>1. D # {}
  <2>1. PICK t \in T : TRUE
    OBVIOUS
  <2>2. n - t \in Nat /\ n - (n - t) = t
    OBVIOUS
  <2>3. QED
    BY <2>1, <2>2
<1>2. PICK d \in D : \A j \in D : d <= j
  BY <1>1, LeastOf
<1>3. ASSUME NEW j \in T PROVE n - d >= j
  <2>1. n - j \in Nat /\ n - (n - j) = j
    OBVIOUS
  <2>2. d <= n - j
    BY <1>2, <2>1
  <2>3. QED
    BY <2>1, <2>2
<1>4. \E x \in T : \A j \in T : x >= j
  BY <1>2, <1>3
<1>5. QED
  BY <1>4 DEF Max

(* The first place at or after i with a token of the set.                  *)
LEMMA Found ==
  ASSUME NEW reply \in Seq(Tokens), NEW i \in Nat \ {0}, NEW set
  PROVE  LET f == Find(reply, i, set)
         IN  /\ f = 0 => \A k \in i..Len(reply) : reply[k] \notin set
             /\ f # 0 => /\ f \in i..Len(reply) /\ reply[f] \in set
                         /\ \A k \in i..(f - 1) : reply[k] \notin set
<1> DEFINE found == {k \in i..Len(reply) : reply[k] \in set}
           f == Find(reply, i, set)
<1>1. Len(reply) \in Nat
  BY LenProperties
<1>2. f = IF found = {} THEN 0 ELSE Min(found)
  BY DEF Find
<1>3. CASE found = {}
  BY <1>2, <1>3
<1>4. CASE found # {}
  <2>1. found \in SUBSET Nat
    BY <1>1
  <2>2. Min(found) \in found /\ \A j \in found : Min(found) <= j
    BY <1>4, <2>1, MinIs
  <2>3. f = Min(found)
    BY <1>2, <1>4
  <2> HIDE DEF f
  <2>4. f \in i..Len(reply) /\ reply[f] \in set
    BY <2>2, <2>3
  <2>5. ASSUME NEW k \in i..(f - 1) PROVE reply[k] \notin set
    <3>1. k \in i..Len(reply) /\ ~(f <= k)
      BY <1>1, <2>4
    <3>2. k \notin found
      BY <2>2, <2>3, <3>1
    <3>3. QED
      BY <3>1, <3>2
  <2>6. f # 0
    BY <1>1, <2>4
  <2>7. QED
    BY <2>4, <2>5, <2>6 DEF f
<1>5. QED
  BY <1>3, <1>4

(* The tag that is open after place i, up to place m.                      *)
After(reply, f, i) ==
  IF i = 0 THEN "none"
  ELSE IF f[i - 1] = "none" THEN IF reply[i] \in Opens THEN reply[i] ELSE "none"
  ELSE IF reply[i] = Closes[f[i - 1]] THEN "none" ELSE f[i - 1]

Scanned(reply, m) == \E f : f = [i \in 0..m |-> After(reply, f, i)]

LEMMA ScanExists ==
  ASSUME NEW reply, NEW n \in Nat
  PROVE  Scanned(reply, n)
<1> DEFINE T == {m \in Nat : ~Scanned(reply, m)}
<1>1. ASSUME T # {} PROVE FALSE
  <2>1. PICK m \in T : \A j \in T : m <= j
    BY <1>1, LeastOf
  <2>2. m # 0
    <3>1. ASSUME m = 0 PROVE Scanned(reply, m)
      <4> DEFINE f == [i \in 0..m |-> "none"]
      <4>1. \A i \in 0..m : i = 0
        BY <3>1
      <4>2. \A i \in 0..m : After(reply, f, i) = "none"
        BY <4>1 DEF After
      <4>3. f = [i \in 0..m |-> After(reply, f, i)]
        BY <4>2
      <4>4. QED
        BY <4>3 DEF Scanned
    <3>2. QED
      BY <2>1, <3>1
  <2>3. m - 1 \in Nat /\ m - 1 \notin T
    BY <2>1, <2>2
  <2>4. PICK g : g = [i \in 0..(m - 1) |-> After(reply, g, i)]
    BY <2>3 DEF Scanned
  <2> DEFINE f == [i \in 0..m |-> IF i = m THEN After(reply, g, m) ELSE g[i]]
  <2>5. \A i \in 0..(m - 1) : f[i] = g[i]
    BY <2>1
  <2>6. ASSUME NEW i \in 0..m PROVE f[i] = After(reply, f, i) /\ i - 1 \in Int
    <3>1. i # 0 => i - 1 \in 0..(m - 1)
      BY <2>1
    <3>2. i # 0 => f[i - 1] = g[i - 1]
      BY <2>5, <3>1
    <3> HIDE DEF f
    <3>3. After(reply, f, i) = After(reply, g, i)
      BY <3>2 DEF After
    <3>4. CASE i = m
      <4>1. f[m] = After(reply, g, m)
        BY <2>1 DEF f
      <4>2. QED
        BY <3>3, <3>4, <4>1
    <3>5. CASE i # m
      <4>1. i \in 0..(m - 1)
        BY <2>1, <3>5
      <4>2. g[i] = After(reply, g, i)
        BY <2>4, <4>1
      <4>3. QED
        BY <2>5, <3>3, <4>1, <4>2
    <3>6. QED
      BY <3>4, <3>5
  <2>7. f = [i \in 0..m |-> After(reply, f, i)]
    <3>1. f = [i \in 0..m |-> f[i]]
      OBVIOUS
    <3> HIDE DEF f
    <3>2. QED
      BY <2>6, <3>1
  <2>8. Scanned(reply, m)
    BY <2>7 DEF Scanned
  <2>9. QED
    BY <2>1, <2>8
<1>2. QED
  BY <1>1

(* f has the tag that is open after each place of the reply.               *)
Scans(f, reply) ==
  /\ f[0] = "none"
  /\ \A i \in 1..Len(reply) : f[i] = After(reply, f, i)

LEMMA VisibleByScan ==
  ASSUME NEW reply \in Seq(Tokens)
  PROVE  \E f : /\ Scans(f, reply)
                /\ Visible(reply) = {i \in 1..Len(reply) : f[i - 1] = "none" /\ f[i] = "none"}
<1> DEFINE n == Len(reply)
           F(f) == [i \in 0..n |-> IF i = 0 THEN "none"
                     ELSE IF f[i - 1] = "none" THEN IF reply[i] \in Opens THEN reply[i] ELSE "none"
                     ELSE IF reply[i] = Closes[f[i - 1]] THEN "none" ELSE f[i - 1]]
           f == CHOOSE g : g = F(g)
<1>1. n \in Nat /\ DOMAIN reply = 1..n
  BY LenProperties
<1>2. Hiding(reply) = [i \in 1..n |-> f[i - 1] # "none" \/ f[i] # "none"]
  BY DEF Hiding
<1>3. f = F(f)
  <2>1. \E g : g = F(g)
    <3> HIDE DEF n
    <3>1. Scanned(reply, n)
      BY <1>1, ScanExists
    <3>2. QED
      BY <3>1, Zenon DEF Scanned, After
  <2>2. QED
    BY <2>1
<1> HIDE DEF f
<1>4. f[0] = "none" /\ \A i \in 1..n : f[i] = After(reply, f, i)
  <2>1. 0 \in 0..n /\ \A i \in 1..n : i \in 0..n
    BY <1>1
  <2>2. QED
    BY <1>3, <2>1 DEF After
<1>5. Visible(reply) = {i \in 1..n : f[i - 1] = "none" /\ f[i] = "none"}
  BY <1>1, <1>2 DEF Visible
<1>6. QED
  BY <1>4, <1>5 DEF Scans

(* The tag that is open is known from where it was opened.                 *)
LEMMA NoneUntil ==
  ASSUME NEW reply \in Seq(Tokens), NEW f, Scans(f, reply),
         NEW i \in 1..(Len(reply) + 1), NEW m \in (i - 1)..Len(reply), f[i - 1] = "none",
         \A k \in i..m : reply[k] \notin Opens
  PROVE  \A k \in (i - 1)..m : f[k] = "none"
<1> DEFINE T == {k \in (i - 1)..m : f[k] # "none"}
<1>1. Len(reply) \in Nat /\ i \in Nat /\ m \in Nat /\ i - 1 \in Nat /\ m <= Len(reply)
  BY LenProperties
<1>2. ASSUME T # {} PROVE FALSE
  <2>1. PICK k \in T : \A j \in T : k <= j
    <3>1. T \in SUBSET Nat
      BY <1>1
    <3>2. QED
      BY <1>2, <3>1, LeastOf
  <2>2. k \in i..m /\ k \in 1..Len(reply)
    BY <1>1, <2>1
  <2>3. k - 1 \in (i - 1)..m /\ ~(k <= k - 1)
    BY <1>1, <2>2
  <2>4. f[k - 1] = "none"
    BY <2>1, <2>3
  <2>5. f[k] = After(reply, f, k)
    BY <2>2 DEF Scans
  <2>6. k # 0
    BY <2>2
  <2>7. reply[k] \notin Opens
    BY <2>2
  <2>8. f[k] = "none"
    BY <2>4, <2>5, <2>6, <2>7 DEF After
  <2>9. QED
    BY <2>1, <2>8
<1>3. QED
  BY <1>2

LEMMA OpenUntil ==
  ASSUME NEW reply \in Seq(Tokens), NEW f, Scans(f, reply),
         NEW s \in 1..Len(reply), NEW m \in s..Len(reply), f[s - 1] = "none", reply[s] \in Opens,
         \A k \in (s + 1)..m : reply[k] # Closes[reply[s]]
  PROVE  \A k \in s..m : f[k] = reply[s]
<1> DEFINE T == {k \in s..m : f[k] # reply[s]}
<1>1. Len(reply) \in Nat /\ s \in Nat /\ m \in Nat /\ s # 0 /\ m <= Len(reply)
  BY LenProperties
<1>2. f[s] = reply[s]
  <2>1. f[s] = After(reply, f, s)
    BY DEF Scans
  <2>2. QED
    BY <1>1, <2>1 DEF After
<1>3. ASSUME T # {} PROVE FALSE
  <2>1. PICK k \in T : \A j \in T : k <= j
    <3>1. T \in SUBSET Nat
      BY <1>1
    <3>2. QED
      BY <1>3, <3>1, LeastOf
  <2>2. k \in (s + 1)..m /\ k \in 1..Len(reply) /\ k # 0
    <3>1. k # s
      BY <1>2, <2>1
    <3>2. QED
      BY <1>1, <2>1, <3>1
  <2>3. k - 1 \in s..m /\ ~(k <= k - 1)
    BY <1>1, <2>2
  <2>4. f[k - 1] = reply[s] /\ reply[s] # "none"
    <3>1. f[k - 1] = reply[s]
      BY <2>1, <2>3
    <3>2. QED
      BY <3>1 DEF Opens
  <2>5. f[k] = After(reply, f, k)
    BY <2>2 DEF Scans
  <2>6. reply[k] # Closes[reply[s]]
    BY <2>2
  <2>7. f[k] = reply[s]
    BY <2>2, <2>4, <2>5, <2>6 DEF After
  <2>8. QED
    BY <2>1, <2>7
<1>4. QED
  BY <1>3

(* q has the members of V, each once, in their order.                      *)
Lists(q, V) ==
  /\ q \in Seq(Nat)
  /\ \A k, l \in 1..Len(q) : k < l => q[k] < q[l]
  /\ \A v : v \in V <=> \E k \in 1..Len(q) : q[k] = v

LEMMA PlacesList ==
  ASSUME NEW i \in Nat \ {0}, NEW j \in Nat, j >= i - 1
  PROVE  Lists(Places(i, j), i..j)
<1> DEFINE q == Places(i, j)
           n == j - i + 1
<1>1. n \in Nat
  OBVIOUS
<1>2. q = [k \in 1..n |-> i + k - 1]
  BY DEF Places
<1>3. q \in Seq(Nat) /\ Len(q) = n
  <2>1. \A k \in 1..n : i + k - 1 \in Nat
    BY <1>1
  <2>2. q \in [1..n -> Nat]
    BY <1>2, <2>1
  <2>3. QED
    BY <1>1, <2>2, SeqDef, LenProperties, SMT
<1> HIDE DEF q
<1>4. \A k \in 1..n : q[k] = i + k - 1
  BY <1>2
<1>5. \A k, l \in 1..n : k < l => q[k] < q[l]
  BY <1>1, <1>4
<1>6. ASSUME NEW v PROVE v \in i..j <=> \E k \in 1..n : q[k] = v
  <2>1. ASSUME v \in i..j PROVE \E k \in 1..n : q[k] = v
    <3>1. v - i + 1 \in 1..n /\ i + (v - i + 1) - 1 = v
      BY <1>1, <2>1
    <3>2. QED
      BY <1>4, <3>1
  <2>2. ASSUME NEW k \in 1..n PROVE q[k] \in i..j
    BY <1>1, <1>4
  <2>3. QED
    BY <2>1, <2>2
<1>7. QED
  BY <1>3, <1>5, <1>6 DEF Lists, q

LEMMA JoinedLists ==
  ASSUME NEW p, NEW V, NEW q, NEW W, Lists(p, V), Lists(q, W), \A v \in V, w \in W : v < w
  PROVE  Lists(p \o q, V \cup W)
<1> DEFINE c == p \o q
<1>1. p \in Seq(Nat) /\ q \in Seq(Nat) /\ Len(p) \in Nat /\ Len(q) \in Nat
  BY LenProperties DEF Lists
<1>2. /\ c \in Seq(Nat) /\ Len(c) = Len(p) + Len(q)
      /\ \A k \in 1..(Len(p) + Len(q)) : c[k] = IF k <= Len(p) THEN p[k] ELSE q[k - Len(p)]
  BY <1>1, ConcatProperties, Zenon
<1> HIDE DEF c
<1>3. ASSUME NEW k \in 1..Len(c), NEW l \in 1..Len(c), k < l PROVE c[k] < c[l]
  <2>1. CASE l <= Len(p)
    <3>1. k \in 1..Len(p) /\ l \in 1..Len(p) /\ k <= Len(p)
      BY <1>1, <1>2, <1>3, <2>1
    <3>2. c[k] = p[k] /\ c[l] = p[l]
      BY <1>2, <2>1, <3>1
    <3>3. QED
      BY <1>3, <3>1, <3>2 DEF Lists
  <2>2. CASE k <= Len(p) /\ ~(l <= Len(p))
    <3>1. k \in 1..Len(p) /\ l - Len(p) \in 1..Len(q)
      BY <1>1, <1>2, <2>2
    <3>2. c[k] = p[k] /\ c[l] = q[l - Len(p)]
      BY <1>2, <2>2
    <3>3. p[k] \in V /\ q[l - Len(p)] \in W
      BY <3>1 DEF Lists
    <3>4. QED
      BY <3>2, <3>3
  <2>3. CASE ~(k <= Len(p))
    <3>1. /\ k - Len(p) \in 1..Len(q) /\ l - Len(p) \in 1..Len(q)
          /\ k - Len(p) < l - Len(p) /\ ~(l <= Len(p))
      BY SMTT(30), <1>1, <1>2, <1>3, <2>3
    <3>2. c[k] = q[k - Len(p)] /\ c[l] = q[l - Len(p)]
      BY <1>2, <2>3, <3>1
    <3>3. QED
      BY <3>1, <3>2 DEF Lists
  <2>4. QED
    BY <2>1, <2>2, <2>3
<1>4. ASSUME NEW v \in V PROVE \E k \in 1..Len(c) : c[k] = v
  <2>1. PICK k \in 1..Len(p) : p[k] = v
    BY DEF Lists
  <2>2. k \in 1..Len(c) /\ k <= Len(p)
    BY <1>1, <1>2
  <2>3. QED
    BY <1>2, <2>1, <2>2
<1>5. ASSUME NEW w \in W PROVE \E k \in 1..Len(c) : c[k] = w
  <2>1. PICK k \in 1..Len(q) : q[k] = w
    BY DEF Lists
  <2>2. k + Len(p) \in 1..Len(c) /\ ~(k + Len(p) <= Len(p)) /\ (k + Len(p)) - Len(p) = k
    BY SMTT(30), <1>1, <1>2
  <2>3. c[k + Len(p)] = q[(k + Len(p)) - Len(p)]
    BY <1>2, <2>2
  <2>4. QED
    BY <2>1, <2>2, <2>3
<1>6. ASSUME NEW k \in 1..Len(c) PROVE c[k] \in V \cup W
  <2>1. CASE k <= Len(p)
    <3>1. k \in 1..Len(p) /\ c[k] = p[k]
      BY <1>1, <1>2, <2>1
    <3>2. QED
      BY <3>1 DEF Lists
  <2>2. CASE ~(k <= Len(p))
    <3>1. k - Len(p) \in 1..Len(q) /\ c[k] = q[k - Len(p)]
      BY SMTT(30), <1>1, <1>2, <2>2
    <3>2. QED
      BY <3>1 DEF Lists
  <2>3. QED
    BY <2>1, <2>2
<1>7. \A v : v \in V \cup W <=> \E k \in 1..Len(c) : c[k] = v
  BY <1>4, <1>5, <1>6
<1>8. QED
  BY <1>2, <1>3, <1>7 DEF Lists, c

(* What is left of a reply from place i on, when g tells it from there on. *)
Rest(reply, g, i) ==
  LET start == Find(reply, i, Opens)
      end == Find(reply, start + 1, {Closes[reply[start]]})
  IN  IF start = 0 THEN Places(i, Len(reply))
      ELSE IF end = 0 THEN Places(i, start - 1)
      ELSE Places(i, start - 1) \o g[end + 1]

Read(reply, m) ==
  \E g : g = [i \in (Len(reply) + 1 - m)..(Len(reply) + 1) |-> Rest(reply, g, i)]

(* Past place i, only later places matter.                                 *)
LEMMA RestLooksAhead ==
  ASSUME NEW reply \in Seq(Tokens), NEW g, NEW h, NEW i \in 1..(Len(reply) + 1),
         \A k \in (i + 1)..(Len(reply) + 1) : g[k] = h[k]
  PROVE  Rest(reply, g, i) = Rest(reply, h, i)
<1> DEFINE start == Find(reply, i, Opens)
           end == Find(reply, start + 1, {Closes[reply[start]]})
<1>1. Len(reply) \in Nat
  BY LenProperties
<1>2. start = 0 \/ start \in i..Len(reply)
  BY <1>1, Found
<1>3. ASSUME start # 0, end # 0 PROVE end + 1 \in (i + 1)..(Len(reply) + 1)
  <2> HIDE DEF start
  <2>1. start + 1 \in Nat \ {0}
    BY <1>1, <1>2, <1>3
  <2>2. end \in (start + 1)..Len(reply)
    BY <1>3, <2>1, Found
  <2> HIDE DEF end
  <2>3. QED
    BY <1>1, <1>2, <1>3, <2>2
<1>4. start # 0 /\ end # 0 => g[end + 1] = h[end + 1]
  BY <1>3
<1>5. QED
  BY <1>4 DEF Rest

LEMMA ReadExists ==
  ASSUME NEW reply \in Seq(Tokens)
  PROVE  \A m \in 0..Len(reply) : Read(reply, m)
<1> DEFINE n == Len(reply)
           T == {m \in 0..n : ~Read(reply, m)}
<1>1. n \in Nat
  BY LenProperties
<1>2. ASSUME T # {} PROVE FALSE
  <2>1. PICK m \in T : \A j \in T : m <= j
    <3>1. T \in SUBSET Nat
      BY <1>1
    <3>2. QED
      BY <1>2, <3>1, LeastOf
  <2> DEFINE low == n + 1 - m
  <2>2. m \in 0..n /\ low \in 1..(n + 1)
    BY <1>1, <2>1
  <2>3. \E h : \A k \in (low + 1)..(n + 1) : h[k] = Rest(reply, h, k)
    <3>1. CASE m = 0
      <4>1. (low + 1)..(n + 1) = {}
        BY <1>1, <3>1
      <4> HIDE DEF low, n
      <4>2. QED
        BY <4>1
    <3>2. CASE m # 0
      <4>1. m - 1 \in 0..n /\ ~(m <= m - 1) /\ n + 1 - (m - 1) = low + 1
        BY <1>1, <2>2, <3>2
      <4>2. Read(reply, m - 1)
        BY <2>1, <4>1
      <4>3. PICK h : h = [k \in (n + 1 - (m - 1))..(n + 1) |-> Rest(reply, h, k)]
        BY <4>2 DEF Read
      <4> HIDE DEF low, n
      <4>4. QED
        BY <4>1, <4>3
    <3>3. QED
      BY <3>1, <3>2
  <2>4. PICK h : \A k \in (low + 1)..(n + 1) : h[k] = Rest(reply, h, k)
    BY <2>3
  <2> DEFINE g == [k \in low..(n + 1) |-> IF k = low THEN Rest(reply, h, low) ELSE h[k]]
  <2>5. \A k \in (low + 1)..(n + 1) : g[k] = h[k] /\ k # low
    BY <1>1, <2>2
  <2>6. ASSUME NEW k \in low..(n + 1) PROVE g[k] = Rest(reply, g, k)
    <3>1. \A l \in (k + 1)..(n + 1) : g[l] = h[l]
      <4>1. \A l \in (k + 1)..(n + 1) : l \in (low + 1)..(n + 1)
        BY <1>1, <2>2
      <4> HIDE DEF g, low
      <4>2. QED
        BY <2>5, <4>1
    <3>2. k \in 1..(n + 1)
      BY <1>1, <2>2
    <3>3. g[k] = IF k = low THEN Rest(reply, h, low) ELSE h[k]
      OBVIOUS
    <3> HIDE DEF g
    <3>4. Rest(reply, g, k) = Rest(reply, h, k)
      BY <3>1, <3>2, RestLooksAhead
    <3>5. CASE k = low
      <4> HIDE DEF low
      <4>1. QED
        BY <3>3, <3>4, <3>5
    <3>6. CASE k # low
      <4>1. k \in (low + 1)..(n + 1)
        BY <1>1, <2>2, <3>6
      <4> HIDE DEF low
      <4>2. QED
        BY <2>4, <3>3, <3>4, <3>6, <4>1
    <3>7. QED
      BY <3>5, <3>6
  <2>7. g = [k \in low..(n + 1) |-> Rest(reply, g, k)]
    <3>1. g = [k \in low..(n + 1) |-> g[k]]
      OBVIOUS
    <3> HIDE DEF g
    <3>2. QED
      BY <2>6, <3>1
  <2>8. Read(reply, m)
    <3> HIDE DEF g
    <3>1. QED
      BY <2>7 DEF Read
  <2>9. QED
    BY <2>1, <2>8
<1>3. QED
  BY <1>2

(* What is read from a place where no tag is open is what is shown there.  *)
LEMMA RestLists ==
  ASSUME NEW reply \in Seq(Tokens), NEW f, Scans(f, reply), NEW g,
         NEW i \in 1..(Len(reply) + 1), f[i - 1] = "none",
         \A k \in (i + 1)..(Len(reply) + 1) :
            f[k - 1] = "none" =>
              Lists(g[k], {j \in k..Len(reply) : f[j - 1] = "none" /\ f[j] = "none"})
  PROVE  Lists(Rest(reply, g, i), {j \in i..Len(reply) : f[j - 1] = "none" /\ f[j] = "none"})
<1> DEFINE n == Len(reply)
           Shown(k) == {j \in k..n : f[j - 1] = "none" /\ f[j] = "none"}
           start == Find(reply, i, Opens)
           end == Find(reply, start + 1, {Closes[reply[start]]})
<1>1. n \in Nat /\ i \in Nat \ {0} /\ i <= n + 1
  BY LenProperties
<1>2. /\ start = 0 => \A k \in i..n : reply[k] \notin Opens
      /\ start # 0 => start \in i..n /\ reply[start] \in Opens /\ \A k \in i..(start - 1) : reply[k] \notin Opens
  BY <1>1, Found
<1>3. start # 0 => /\ end = 0 => \A k \in (start + 1)..n : reply[k] # Closes[reply[start]]
                   /\ end # 0 => /\ end \in (start + 1)..n /\ reply[end] = Closes[reply[start]]
                                 /\ \A k \in (start + 1)..(end - 1) : reply[k] # Closes[reply[start]]
  <2> HIDE DEF start
  <2>1. start # 0 => start + 1 \in Nat \ {0}
    BY <1>1, <1>2
  <2>2. QED
    BY SMTT(30), <2>1, Found
<1>4. Rest(reply, g, i) = IF start = 0 THEN Places(i, n)
                          ELSE IF end = 0 THEN Places(i, start - 1)
                          ELSE Places(i, start - 1) \o g[end + 1]
  BY DEF Rest
<1> HIDE DEF start, end
<1>5. CASE start = 0
  <2>1. n \in (i - 1)..Len(reply)
    BY <1>1
  <2>2. \A k \in (i - 1)..n : f[k] = "none"
    BY <1>2, <1>5, <2>1, NoneUntil
  <2>3. Shown(i) = i..n
    <3>1. \A j \in i..n : j \in (i - 1)..n /\ j - 1 \in (i - 1)..n
      BY <1>1
    <3>2. QED
      BY <2>2, <3>1
  <2>4. Lists(Places(i, n), i..n)
    BY <1>1, PlacesList
  <2>5. QED
    BY <1>4, <1>5, <2>3, <2>4
<1>6. CASE start # 0
  <2>1. start \in i..n /\ start - 1 \in (i - 1)..n /\ start \in 1..n /\ start - 1 \in Nat /\ start \in Nat
    BY <1>1, <1>2, <1>6
  <2>2. \A k \in (i - 1)..(start - 1) : f[k] = "none"
    BY SMTT(30), <1>2, <1>6, <2>1, NoneUntil
  <2>3. f[start - 1] = "none"
    <3>1. start - 1 \in (i - 1)..(start - 1)
      BY <1>1, <2>1
    <3>2. QED
      BY <2>2, <3>1
  <2>4. Lists(Places(i, start - 1), i..(start - 1))
    BY <1>1, <2>1, PlacesList
  <2>5. \A j \in i..(start - 1) : f[j - 1] = "none" /\ f[j] = "none"
    <3>1. \A j \in i..(start - 1) : j \in (i - 1)..(start - 1) /\ j - 1 \in (i - 1)..(start - 1)
      BY <1>1, <2>1
    <3>2. QED
      BY <2>2, <3>1
  <2>6. reply[start] # "none" /\ reply[start] \in Opens
    BY <1>2, <1>6 DEF Opens
  <2>7. CASE end = 0
    <3>1. n \in start..Len(reply)
      BY <1>1, <2>1
    <3>2. \A k \in start..n : f[k] = reply[start]
      BY <1>3, <1>6, <2>1, <2>3, <2>6, <2>7, <3>1, OpenUntil
    <3>3. Shown(i) = i..(start - 1)
      <4>1. \A j \in i..n : j \in i..(start - 1) \/ j \in start..n
        BY <1>1, <2>1
      <4>2. \A j \in i..(start - 1) : j \in i..n
        BY <1>1, <2>1
      <4>3. \A j \in start..n : f[j] # "none"
        BY <2>6, <3>2
      <4>4. QED
        BY <2>5, <4>1, <4>2, <4>3
    <3>4. QED
      BY <1>4, <1>6, <2>4, <2>7, <3>3
  <2>8. CASE end # 0
    <3>1. /\ end \in (start + 1)..n /\ end - 1 \in start..n /\ end \in 1..n /\ end # 0
          /\ end + 1 \in (i + 1)..(n + 1) /\ (end + 1) - 1 = end
      BY <1>1, <1>3, <1>6, <2>1, <2>8
    <3>2. \A k \in start..(end - 1) : f[k] = reply[start]
      BY <1>3, <1>6, <2>1, <2>3, <2>6, <2>8, <3>1, OpenUntil
    <3>3. f[end] = "none" /\ f[end - 1] # "none"
      <4>1. end - 1 \in start..(end - 1)
        BY <2>1, <3>1
      <4>2. f[end - 1] = reply[start]
        BY <3>2, <4>1
      <4>3. reply[end] = Closes[f[end - 1]]
        BY <1>3, <1>6, <2>8, <4>2
      <4>4. f[end] = After(reply, f, end)
        BY <3>1 DEF Scans
      <4>5. QED
        BY <2>6, <3>1, <4>2, <4>3, <4>4 DEF After
    <3>4. Lists(g[end + 1], Shown(end + 1))
      BY <3>1, <3>3
    <3>5. Shown(i) = (i..(start - 1)) \cup Shown(end + 1)
      <4>1. \A j \in i..n : j \in i..(start - 1) \/ j \in start..(end - 1) \/ j = end \/ j \in (end + 1)..n
        BY <1>1, <2>1, <3>1
      <4>2. /\ \A j \in i..(start - 1) : j \in i..n
            /\ \A j \in (end + 1)..n : j \in i..n
        BY <1>1, <2>1, <3>1
      <4>3. \A j \in start..(end - 1) : f[j] # "none"
        BY <2>6, <3>2
      <4>4. QED
        BY <2>5, <3>3, <4>1, <4>2, <4>3
    <3>6. \A v \in i..(start - 1), w \in Shown(end + 1) : v < w
      BY <1>1, <2>1, <3>1
    <3>7. Lists(Places(i, start - 1) \o g[end + 1], Shown(i))
      <4> HIDE DEF Shown
      <4>1. Lists(Places(i, start - 1) \o g[end + 1], (i..(start - 1)) \cup Shown(end + 1))
        BY <2>4, <3>4, <3>6, JoinedLists, Zenon
      <4>2. QED
        BY <3>5, <4>1
    <3>8. QED
      BY <1>4, <1>6, <2>8, <3>7
  <2>9. QED
    BY <2>7, <2>8
<1>7. QED
  BY <1>5, <1>6

(* What is left of a reply once its leaked tags are taken out is what it   *)
(* shows, in its order.                                                    *)
LEMMA StripLists ==
  ASSUME NEW reply \in Seq(Tokens)
  PROVE  Lists(Strip(reply), Visible(reply))
<1> DEFINE n == Len(reply)
           G(g) == [i \in 1..(n + 1) |->
                      LET start == Find(reply, i, Opens)
                          end == Find(reply, start + 1, {Closes[reply[start]]})
                      IN  IF start = 0 THEN Places(i, n)
                          ELSE IF end = 0 THEN Places(i, start - 1)
                          ELSE Places(i, start - 1) \o g[end + 1]]
           from == CHOOSE g : g = G(g)
<1>1. n \in Nat
  BY LenProperties
<1>2. Strip(reply) = from[1]
  BY DEF Strip
<1>3. from = G(from)
  <2>1. \E g : g = G(g)
    <3>1. n \in 0..n /\ n + 1 - n = 1
      BY <1>1
    <3>2. Read(reply, n)
      BY <3>1, ReadExists
    <3>3. \E g : g = [i \in (n + 1 - n)..(n + 1) |-> Rest(reply, g, i)]
      BY <3>2 DEF Read
    <3>4. \E g : g = [i \in 1..(n + 1) |-> Rest(reply, g, i)]
      BY <3>1, <3>3
    <3>5. QED
      BY <3>4, Zenon DEF Rest
  <2>2. QED
    BY <2>1
<1>4. \A i \in 1..(n + 1) : from[i] = Rest(reply, from, i)
  <2> HIDE DEF from
  <2>1. QED
    BY <1>3 DEF Rest
<1> HIDE DEF from, G
<1>5. PICK f : /\ Scans(f, reply)
               /\ Visible(reply) = {j \in 1..n : f[j - 1] = "none" /\ f[j] = "none"}
  BY VisibleByScan
<1> DEFINE Shown(k) == {j \in k..n : f[j - 1] = "none" /\ f[j] = "none"}
           T == {d \in 0..n : f[n + 1 - d - 1] = "none" /\ ~Lists(from[n + 1 - d], Shown(n + 1 - d))}
<1>6. ASSUME T # {} PROVE FALSE
  <2>1. PICK d \in T : \A e \in T : d <= e
    <3>1. T \in SUBSET Nat
      BY <1>1
    <3>2. QED
      BY <1>6, <3>1, LeastOf
  <2> DEFINE i == n + 1 - d
  <2>2. d \in 0..n /\ i \in 1..(n + 1) /\ f[i - 1] = "none" /\ ~Lists(from[i], Shown(i))
    BY <1>1, <2>1
  <2>3. ASSUME NEW k \in (i + 1)..(n + 1), f[k - 1] = "none" PROVE Lists(from[k], Shown(k))
    <3>1. n + 1 - k \in 0..n /\ ~(d <= n + 1 - k) /\ n + 1 - (n + 1 - k) = k
      BY <1>1, <2>2
    <3>2. n + 1 - k \notin T
      BY <2>1, <3>1
    <3>3. QED
      BY <2>3, <3>1, <3>2
  <2> HIDE DEF i
  <2>4. Lists(Rest(reply, from, i), Shown(i))
    BY <1>5, <2>2, <2>3, RestLists
  <2>5. QED
    BY <1>4, <2>2, <2>4
<1>7. Lists(from[1], Shown(1))
  <2>1. n \in 0..n /\ n + 1 - n = 1 /\ n + 1 - n - 1 = 0
    BY <1>1
  <2>2. f[0] = "none"
    BY <1>5 DEF Scans
  <2>3. n \notin T
    BY <1>6
  <2>4. QED
    BY <2>1, <2>2, <2>3
<1>8. QED
  BY <1>2, <1>5, <1>7

----------------------------------------------------------------------------
(* What is run of a reply *)

(* c lists the places of V, and text has the tokens that stand there.      *)
Says(text, c, reply, V) ==
  /\ Lists(c, V)
  /\ text \in Seq(Tokens) /\ Len(text) = Len(c)
  /\ \A k \in 1..Len(text) : text[k] = reply[c[k]]

LEMMA Ordered ==
  ASSUME NEW c, NEW V, Lists(c, V)
  PROVE  /\ Len(c) \in Nat /\ DOMAIN c = 1..Len(c)
         /\ \A k \in 1..Len(c) : c[k] \in V /\ c[k] \in Nat
         /\ \A v \in V : \E k \in 1..Len(c) : c[k] = v
         /\ \A k, l \in 1..Len(c) : /\ c[k] < c[l] <=> k < l
                                    /\ c[k] <= c[l] <=> k <= l
                                    /\ c[k] = c[l] <=> k = l
<1>1. c \in Seq(Nat) /\ Len(c) \in Nat /\ DOMAIN c = 1..Len(c)
  BY LenProperties DEF Lists
<1>2. \A k \in 1..Len(c) : c[k] \in V /\ c[k] \in Nat
  BY <1>1, ElementOfSeq DEF Lists
<1>3. ASSUME NEW k \in 1..Len(c), NEW l \in 1..Len(c)
      PROVE  /\ c[k] < c[l] <=> k < l
             /\ c[k] <= c[l] <=> k <= l
             /\ c[k] = c[l] <=> k = l
  <2>1. (k < l => c[k] < c[l]) /\ (l < k => c[l] < c[k]) /\ (k = l => c[k] = c[l])
    BY DEF Lists
  <2>2. c[k] \in Nat /\ c[l] \in Nat
    BY <1>2
  <2>3. QED
    BY <1>1, <2>1, <2>2
<1>4. QED
  BY <1>1, <1>2, <1>3 DEF Lists

(* The next place that is shown is the next of the list.                   *)
LEMMA NextShown ==
  ASSUME NEW c, NEW V, Lists(c, V), NEW k \in 1..Len(c), NEW l \in 1..Len(c)
  PROVE  Follows(V, c[k], c[l]) <=> l = k + 1
<1>1. ASSUME l = k + 1, NEW w \in V PROVE ~(c[k] < w /\ w < c[l])
  <2>1. PICK m \in 1..Len(c) : c[m] = w
    BY Ordered
  <2>2. ~(k < m /\ m < l)
    BY <1>1
  <2>3. QED
    BY <2>1, <2>2, Ordered
<1>2. l = k + 1 => c[k] < c[l]
  <2>1. l = k + 1 => k < l
    OBVIOUS
  <2>2. QED
    BY <2>1, Ordered
<1>3. ASSUME Follows(V, c[k], c[l]) PROVE l = k + 1
  <2>1. k < l
    BY <1>3, Ordered DEF Follows
  <2>2. ASSUME k + 1 < l PROVE FALSE
    <3>1. k + 1 \in 1..Len(c) /\ k < k + 1
      BY <2>2, Ordered
    <3>2. c[k + 1] \in V /\ c[k] < c[k + 1] /\ c[k + 1] < c[l]
      BY <2>2, <3>1, Ordered
    <3>3. QED
      BY <1>3, <3>2 DEF Follows
  <2>3. QED
    BY <2>1, <2>2
<1>4. QED
  BY <1>1, <1>2, <1>3 DEF Follows

LEMMA FencesShown ==
  ASSUME NEW text, NEW c, NEW reply, NEW V, Says(text, c, reply, V), NEW k \in 1..Len(c)
  PROVE  c[k] \in ShownFences(reply, V) <=> k \in FenceLines(text)
<1>1. /\ Lists(c, V) /\ Len(text) = Len(c) /\ DOMAIN text = 1..Len(c) /\ Len(c) \in Nat
      /\ text[k] = reply[c[k]] /\ c[k] \in V
  BY Ordered, LenProperties DEF Says
<1>2. (\A u \in V : Follows(V, u, c[k]) => reply[u] = LineEnd) <=> k = 1 \/ text[k - 1] = LineEnd
  <2>1. ASSUME NEW u \in V, Follows(V, u, c[k]) PROVE k # 1 /\ reply[u] = text[k - 1]
    <3>1. PICK m \in 1..Len(c) : c[m] = u
      BY <1>1, Ordered
    <3>2. k = m + 1
      BY <1>1, <2>1, <3>1, NextShown
    <3>3. k # 1 /\ m = k - 1
      BY <1>1, <3>2
    <3>4. QED
      BY <1>1, <3>1, <3>3 DEF Says
  <2>2. ASSUME k # 1 PROVE c[k - 1] \in V /\ Follows(V, c[k - 1], c[k]) /\ reply[c[k - 1]] = text[k - 1]
    <3>1. k - 1 \in 1..Len(c) /\ k = (k - 1) + 1
      BY <1>1, <2>2
    <3>2. Follows(V, c[k - 1], c[k])
      BY <1>1, <3>1, NextShown
    <3>3. QED
      BY <1>1, <3>1, <3>2, Ordered DEF Says
  <2>3. QED
    BY <2>1, <2>2
<1>3. QED
  BY <1>1, <1>2 DEF ShownFences, FenceLines

(* Where a line ends, and where the next fence stands.                     *)
LEMMA LineEnds ==
  ASSUME NEW text \in Seq(Tokens), NEW i \in 1..Len(text)
  PROVE  LET e == EndOfLine(text, i)
         IN  /\ e \in i..(Len(text) + 1)
             /\ e <= Len(text) => text[e] = LineEnd
             /\ \A j \in i..Len(text) : text[j] = LineEnd => e <= j
             /\ text[i] # LineEnd => e # i
<1> DEFINE e == EndOfLine(text, i)
           T == {j \in i..Len(text) : text[j] = LineEnd} \cup {Len(text) + 1}
<1>1. Len(text) \in Nat
  BY LenProperties
<1>2. T \in SUBSET Nat /\ T # {}
  BY <1>1
<1>3. e \in T /\ \A j \in T : e <= j
  <2> HIDE DEF T
  <2>1. Min(T) \in T /\ \A j \in T : Min(T) <= j
    BY <1>2, MinIs
  <2>2. QED
    BY <2>1 DEF EndOfLine, T
<1> HIDE DEF e
<1>4. e \in i..(Len(text) + 1)
  BY <1>1, <1>3
<1>5. e <= Len(text) => text[e] = LineEnd
  BY <1>1, <1>3
<1>6. \A j \in i..Len(text) : text[j] = LineEnd => e <= j
  BY <1>3
<1>7. text[i] # LineEnd => e # i
  BY <1>1, <1>5
<1>8. QED
  BY <1>4, <1>5, <1>6, <1>7 DEF e

LEMMA FenceAfter ==
  ASSUME NEW text \in Seq(Tokens), NEW i \in 1..Len(text)
  PROVE  LET x == NextFence(text, i)
         IN  /\ x \in (i + 1)..(Len(text) + 1)
             /\ x <= Len(text) => x \in FenceLines(text)
             /\ \A j \in FenceLines(text) : i < j => x <= j
<1> DEFINE x == NextFence(text, i)
           T == {j \in FenceLines(text) : i < j} \cup {Len(text) + 1}
<1>1. Len(text) \in Nat /\ FenceLines(text) \subseteq 1..Len(text)
  BY LenProperties DEF FenceLines
<1>2. T \in SUBSET Nat /\ T # {}
  BY <1>1
<1>3. x \in T /\ \A j \in T : x <= j
  <2> HIDE DEF T
  <2>1. Min(T) \in T /\ \A j \in T : Min(T) <= j
    BY <1>2, MinIs
  <2>2. QED
    BY <2>1 DEF NextFence, T
<1> HIDE DEF x
<1>4. x \in (i + 1)..(Len(text) + 1)
  BY <1>1, <1>3
<1>5. x <= Len(text) => x \in FenceLines(text)
  BY <1>1, <1>3
<1>6. \A j \in FenceLines(text) : i < j => x <= j
  BY <1>3
<1>7. QED
  BY <1>4, <1>5, <1>6 DEF x

(* The line of a fence ends before the next fence, if there is one.        *)
LEMMA LineEndsBeforeFence ==
  ASSUME NEW text \in Seq(Tokens), NEW i \in FenceLines(text)
  PROVE  LET e == EndOfLine(text, i)
             x == NextFence(text, i)
         IN  i < e /\ e <= x /\ (x <= Len(text) => e < x)
<1> DEFINE e == EndOfLine(text, i)
           x == NextFence(text, i)
<1>1. Len(text) \in Nat /\ i \in 1..Len(text) /\ text[i] \in Fences
  BY LenProperties DEF FenceLines
<1>2. text[i] # LineEnd
  BY <1>1 DEF Fences, LineEnd
<1>3. e \in i..(Len(text) + 1) /\ i < e
  BY <1>1, <1>2, LineEnds
<1>4. x \in (i + 1)..(Len(text) + 1)
  BY <1>1, FenceAfter
<1>5. ASSUME x <= Len(text) PROVE e < x
  <2>1. x \in FenceLines(text)
    BY <1>1, <1>5, FenceAfter
  <2> HIDE DEF x
  <2>2. x # 1 /\ x - 1 \in i..Len(text)
    BY <1>1, <1>4, <1>5
  <2>3. text[x - 1] = LineEnd
    BY <2>1, <2>2 DEF FenceLines
  <2>4. e <= x - 1
    BY <1>1, <2>2, <2>3, LineEnds
  <2> HIDE DEF e
  <2>5. QED
    BY <1>1, <1>3, <1>4, <2>4
<1> HIDE DEF e, x
<1>6. e <= x
  BY <1>1, <1>3, <1>4, <1>5
<1>7. QED
  BY <1>3, <1>5, <1>6 DEF e, x

LEMMA LineEndsShown ==
  ASSUME NEW text, NEW c, NEW reply, NEW V, Says(text, c, reply, V),
         NEW i \in FenceLines(text), NEW k \in 1..Len(c)
  PROVE  EndsLine(reply, V, c[i], c[k]) <=> k = EndOfLine(text, i)
<1> DEFINE e == EndOfLine(text, i)
<1>1. /\ Lists(c, V) /\ text \in Seq(Tokens) /\ Len(text) = Len(c) /\ Len(c) \in Nat
      /\ i \in 1..Len(c) /\ \A j \in 1..Len(c) : text[j] = reply[c[j]] /\ c[j] \in V
  BY Ordered, LenProperties DEF Says, FenceLines
<1>2. /\ e \in i..(Len(c) + 1) /\ i < e
      /\ e <= Len(c) => text[e] = LineEnd
      /\ \A j \in i..Len(c) : text[j] = LineEnd => e <= j
  BY <1>1, LineEnds, LineEndsBeforeFence
<1> HIDE DEF e
<1>3. ASSUME k = e PROVE EndsLine(reply, V, c[i], c[k])
  <2>1. c[i] < c[k] /\ reply[c[k]] = LineEnd
    <3>1. i < k /\ text[k] = LineEnd
      BY <1>1, <1>2, <1>3
    <3>2. QED
      BY <1>1, <3>1, Ordered
  <2>2. ASSUME NEW v \in V, c[i] < v, v < c[k] PROVE reply[v] # LineEnd
    <3>1. PICK j \in 1..Len(c) : c[j] = v
      BY <1>1, Ordered
    <3>2. i < j /\ j < k
      BY <1>1, <2>2, <3>1, Ordered
    <3>3. j \in i..Len(c) /\ ~(e <= j)
      BY <1>1, <1>2, <1>3, <3>2
    <3>4. QED
      BY <1>1, <1>2, <3>1, <3>3
  <2>3. QED
    BY <2>1, <2>2 DEF EndsLine
<1>4. ASSUME EndsLine(reply, V, c[i], c[k]) PROVE k = e
  <2>1. i < k /\ text[k] = LineEnd
    BY <1>1, <1>4, Ordered DEF EndsLine
  <2>2. e <= k
    BY <1>1, <1>2, <2>1
  <2>3. ASSUME e < k PROVE FALSE
    <3>1. e \in 1..Len(c) /\ text[e] = LineEnd
      BY <1>1, <1>2, <2>3
    <3>2. c[i] < c[e] /\ c[e] < c[k] /\ c[e] \in V /\ reply[c[e]] = LineEnd
      BY <1>1, <1>2, <2>3, <3>1, Ordered
    <3>3. QED
      BY <1>4, <3>2 DEF EndsLine
  <2>4. QED
    BY <1>1, <1>2, <2>2, <2>3
<1>5. QED
  BY <1>3, <1>4 DEF e

(* A fence stands alone on its line when the next place ends it.           *)
LEMMA AloneShown ==
  ASSUME NEW text, NEW c, NEW reply, NEW V, Says(text, c, reply, V), NEW i \in FenceLines(text)
  PROVE  (\A v \in V : Follows(V, c[i], v) => reply[v] = LineEnd) <=> EndOfLine(text, i) = i + 1
<1> DEFINE e == EndOfLine(text, i)
<1>1. /\ Lists(c, V) /\ text \in Seq(Tokens) /\ Len(text) = Len(c) /\ Len(c) \in Nat
      /\ i \in 1..Len(c) /\ \A j \in 1..Len(c) : text[j] = reply[c[j]] /\ c[j] \in V
  BY Ordered, LenProperties DEF Says, FenceLines
<1>2. /\ e \in (i + 1)..(Len(c) + 1)
      /\ e <= Len(c) => text[e] = LineEnd
      /\ \A j \in i..Len(c) : text[j] = LineEnd => e <= j
  <2>1. /\ e \in i..(Len(c) + 1) /\ i < e
        /\ e <= Len(c) => text[e] = LineEnd
        /\ \A j \in i..Len(c) : text[j] = LineEnd => e <= j
    BY <1>1, LineEnds, LineEndsBeforeFence
  <2> HIDE DEF e
  <2>2. QED
    BY <1>1, <2>1
<1> HIDE DEF e
<1>3. ASSUME e = i + 1, NEW v \in V, Follows(V, c[i], v) PROVE reply[v] = LineEnd
  <2>1. PICK j \in 1..Len(c) : c[j] = v
    BY <1>1, Ordered
  <2>2. j = i + 1
    BY <1>1, <1>3, <2>1, NextShown
  <2>3. text[j] = LineEnd
    BY <1>1, <1>2, <1>3, <2>1, <2>2
  <2>4. QED
    BY <1>1, <2>1, <2>3
<1>4. ASSUME \A v \in V : Follows(V, c[i], v) => reply[v] = LineEnd PROVE e = i + 1
  <2>1. CASE i = Len(c)
    BY <1>1, <1>2, <2>1
  <2>2. CASE i # Len(c)
    <3>1. i + 1 \in 1..Len(c) /\ i + 1 \in i..Len(c)
      BY <1>1, <2>2
    <3>2. Follows(V, c[i], c[i + 1]) /\ c[i + 1] \in V
      BY <1>1, <3>1, NextShown
    <3>3. text[i + 1] = LineEnd
      BY <1>1, <1>4, <3>1, <3>2
    <3>4. e <= i + 1
      BY <1>2, <3>1, <3>3
    <3>5. QED
      BY <1>1, <1>2, <3>4
  <2>3. QED
    BY <2>1, <2>2
<1>5. QED
  BY <1>3, <1>4 DEF e

(* As many fences stand before one in the list as in the reply.            *)
LEMMA FencesBefore ==
  ASSUME NEW text, NEW c, NEW reply, NEW V, Says(text, c, reply, V), NEW i \in FenceLines(text)
  PROVE  Cardinality({g \in ShownFences(reply, V) : g < c[i]})
         = Cardinality({j \in FenceLines(text) : j < i})
<1> DEFINE S == {j \in FenceLines(text) : j < i}
           T == {g \in ShownFences(reply, V) : g < c[i]}
           F == [j \in S |-> c[j]]
<1>1. /\ Lists(c, V) /\ Len(c) \in Nat /\ FenceLines(text) \subseteq 1..Len(c)
      /\ ShownFences(reply, V) \subseteq V
  BY Ordered, LenProperties DEF Says, FenceLines, ShownFences
<1>2. \A j \in S : c[j] \in T
  BY <1>1, FencesShown, Ordered
<1>3. \A a, b \in S : c[a] = c[b] => a = b
  BY <1>1, Ordered
<1>4. ASSUME NEW g \in T PROVE \E j \in S : c[j] = g
  <2>1. PICK j \in 1..Len(c) : c[j] = g
    BY <1>1, Ordered
  <2>2. j \in FenceLines(text) /\ j < i
    BY <1>1, <2>1, FencesShown, Ordered
  <2>3. QED
    BY <2>1, <2>2
<1>5. IsFiniteSet(S)
  <2>1. S \in SUBSET (1..Len(c)) /\ IsFiniteSet(1..Len(c))
    BY <1>1, FS_Interval
  <2>2. QED
    BY <2>1, FS_Subset
<1> HIDE DEF S, T
<1>6. F \in Bijection(S, T)
  <2>1. F \in [S -> T] /\ (\A a, b \in S : F[a] = F[b] => a = b) /\ \A t \in T : \E s \in S : F[s] = t
    BY <1>2, <1>3, <1>4
  <2> HIDE DEF F
  <2>2. QED
    BY <2>1, Fun_IsBij
<1>7. Cardinality(T) = Cardinality(S)
  BY <1>5, <1>6, FS_Bijection, Fun_ExistsBij
<1>8. QED
  BY <1>7 DEF S, T

(* The fences that open a block that is run, in the list and in the reply. *)
LEMMA BlocksShown ==
  ASSUME NEW text, NEW c, NEW reply, NEW V, Says(text, c, reply, V), NEW i \in 1..Len(c)
  PROVE  c[i] \in BlockFences(reply, V) <=> i \in Opening(text) /\ ~Skipped(text, i)
<1>1. c[i] \in ShownFences(reply, V) <=> i \in FenceLines(text)
  BY FencesShown
<1>2. CASE i \notin FenceLines(text)
  BY <1>1, <1>2 DEF BlockFences, Opening
<1>3. CASE i \in FenceLines(text)
  <2>1. reply[c[i]] = text[i]
    BY DEF Says
  <2>2. (\A v \in V : Follows(V, c[i], v) => reply[v] = LineEnd) <=> EndOfLine(text, i) = i + 1
    BY <1>3, AloneShown
  <2>3. Cardinality({g \in ShownFences(reply, V) : g < c[i]})
        = Cardinality({j \in FenceLines(text) : j < i})
    BY <1>3, FencesBefore
  <2>4. i \in Opening(text) <=> Cardinality({g \in ShownFences(reply, V) : g < c[i]}) % 2 = 0
    BY <1>3, <2>3 DEF Opening
  <2>5. Skipped(text, i) <=> /\ reply[c[i]] = "fence sh"
                             /\ \A v \in V : Follows(V, c[i], v) => reply[v] = LineEnd
    BY <2>1, <2>2 DEF Skipped
  <2>6. QED
    BY <1>1, <1>3, <2>4, <2>5, Zenon DEF BlockFences
<1>4. QED
  BY <1>2, <1>3

LEMMA TextSays ==
  ASSUME NEW reply \in Seq(Tokens)
  PROVE  LET clean == Strip(reply)
         IN  Says([k \in DOMAIN clean |-> reply[clean[k]]], clean, reply, Visible(reply))
<1> DEFINE c == Strip(reply)
           text == [k \in DOMAIN c |-> reply[c[k]]]
<1>1. Lists(c, Visible(reply))
  BY StripLists
<1> HIDE DEF c
<1>2. Len(c) \in Nat /\ DOMAIN c = 1..Len(c) /\ \A k \in 1..Len(c) : c[k] \in Visible(reply)
  BY <1>1, Ordered
<1>3. Visible(reply) \subseteq 1..Len(reply)
  BY LenProperties DEF Visible
<1>4. \A k \in 1..Len(c) : reply[c[k]] \in Tokens
  BY <1>2, <1>3, ElementOfSeq
<1>5. text \in [1..Len(c) -> Tokens]
  BY <1>2, <1>4
<1>6. text \in Seq(Tokens) /\ Len(text) = Len(c)
  BY <1>2, <1>5, SeqDef, LenProperties
<1>7. \A k \in 1..Len(c) : text[k] = reply[c[k]]
  BY <1>2
<1> HIDE DEF text
<1>8. Says(text, c, reply, Visible(reply))
  BY <1>1, <1>6, <1>7 DEF Says
<1>9. QED
  BY <1>8 DEF c, text

(* What is said, line ends aside.                                          *)
Said(reply, V) == {v \in V : reply[v] # LineEnd}

(* Where no block is found, nothing is said after the line of a fence that *)
(* opens one, and it is done exactly when done() is at both ends.          *)
LEMMA NothingToRun ==
  ASSUME NEW text, NEW c, NEW reply, NEW V, Says(text, c, reply, V), FencedBlocks(text) = {}
  PROVE  /\ \A f \in BlockFences(reply, V), e \in V, v \in Said(reply, V) :
              EndsLine(reply, V, f, e) => v < e
         /\ BareDone(text) <=> \E u, v \in Said(reply, V) :
                                 /\ reply[u] = Done /\ reply[v] = Done
                                 /\ \A w \in Said(reply, V) : u <= w /\ w <= v
<1> DEFINE here == {k \in DOMAIN text : text[k] # LineEnd}
           said == Said(reply, V)
<1>1. /\ Lists(c, V) /\ text \in Seq(Tokens) /\ Len(text) = Len(c) /\ Len(c) \in Nat
      /\ DOMAIN text = 1..Len(c) /\ \A j \in 1..Len(c) : text[j] = reply[c[j]] /\ c[j] \in V
  BY Ordered, LenProperties DEF Says
<1>2. /\ \A k \in here : c[k] \in said
      /\ \A v \in said : \E k \in here : c[k] = v
  <2>1. Lists(c, V)
    BY <1>1
  <2>2. \A v \in V : \E k \in 1..Len(c) : c[k] = v
    BY <2>1, Ordered
  <2>3. QED
    BY <1>1, <2>2 DEF Said
<1> HIDE DEF said
<1>3. ASSUME NEW f \in BlockFences(reply, V), NEW e \in V, NEW v \in said, EndsLine(reply, V, f, e)
      PROVE  v < e
  <2>1. f \in V
    BY DEF BlockFences, ShownFences
  <2>2. PICK i \in 1..Len(c) : c[i] = f
    BY <1>1, <2>1, Ordered
  <2>3. PICK k \in 1..Len(c) : c[k] = e
    <3>1. Lists(c, V)
      BY <1>1
    <3>2. QED
      BY <3>1, Ordered
  <2>4. i \in Opening(text) /\ ~Skipped(text, i) /\ i \in FenceLines(text)
    BY <2>2, BlocksShown DEF Opening
  <2>5. k = EndOfLine(text, i)
    BY <1>3, <2>2, <2>3, <2>4, LineEndsShown
  <2>6. NextFence(text, i) = Len(text) + 1
    <3>1. ~(NextFence(text, i) <= Len(text))
      BY <2>4 DEF FencedBlocks
    <3>2. NextFence(text, i) \in (i + 1)..(Len(text) + 1)
      BY <1>1, FenceAfter
    <3>3. QED
      BY <1>1, <3>1, <3>2
  <2>7. \A j \in k..Len(text) : text[j] = LineEnd
    <3>1. \A j \in EndOfLine(text, i)..(NextFence(text, i) - 1) : text[j] = LineEnd
      BY <2>4 DEF FencedBlocks
    <3>2. NextFence(text, i) - 1 = Len(text)
      BY <1>1, <2>6
    <3>3. QED
      BY <2>5, <3>1, <3>2
  <2>8. PICK j \in here : c[j] = v
    BY <1>2
  <2>9. j < k
    BY <1>1, <2>7, <2>8
  <2>10. QED
    BY <1>1, <2>3, <2>8, <2>9, Ordered
<1>4. ASSUME BareDone(text)
      PROVE  \E u, v \in said : reply[u] = Done /\ reply[v] = Done /\ \A w \in said : u <= w /\ w <= v
  <2>1. here # {} /\ text[Min(here)] = Done /\ text[Max(here)] = Done
    BY <1>4 DEF BareDone
  <2>2. /\ Min(here) \in here /\ \A j \in here : Min(here) <= j
        /\ Max(here) \in here /\ \A j \in here : Max(here) >= j
    <3>1. here \in SUBSET Nat /\ here \in SUBSET (0..Len(c))
      BY <1>1
    <3> HIDE DEF here
    <3>2. Min(here) \in here /\ \A j \in here : Min(here) <= j
      BY <2>1, <3>1, MinIs
    <3>3. Max(here) \in here /\ \A j \in here : Max(here) >= j
      BY <1>1, <2>1, <3>1, MaxIs
    <3>4. QED
      BY <3>2, <3>3
  <2> DEFINE a == Min(here)
             b == Max(here)
  <2>3. a \in here /\ b \in here /\ text[a] = Done /\ text[b] = Done /\ \A j \in here : a <= j /\ j <= b
    BY <1>1, <2>1, <2>2
  <2> HIDE DEF a, b
  <2>4. a \in 1..Len(c) /\ b \in 1..Len(c) /\ \A j \in here : j \in 1..Len(c)
    BY <1>1, <2>3
  <2>5. c[a] \in said /\ c[b] \in said /\ reply[c[a]] = Done /\ reply[c[b]] = Done
    BY <1>1, <1>2, <2>3, <2>4
  <2>6. ASSUME NEW w \in said PROVE c[a] <= w /\ w <= c[b]
    <3>1. PICK j \in here : c[j] = w
      BY <1>2
    <3>2. a <= j /\ j <= b /\ j \in 1..Len(c)
      BY <2>3, <2>4
    <3>3. QED
      BY <1>1, <2>4, <3>1, <3>2, Ordered
  <2>7. QED
    BY <2>5, <2>6
<1>5. ASSUME NEW u \in said, NEW v \in said, reply[u] = Done, reply[v] = Done,
             \A w \in said : u <= w /\ w <= v
      PROVE  BareDone(text)
  <2>1. PICK a \in here : c[a] = u
    BY <1>2
  <2>2. PICK b \in here : c[b] = v
    BY <1>2
  <2>3. \A j \in here : a <= j /\ j <= b
    <3>1. ASSUME NEW j \in here PROVE a <= j /\ j <= b
      <4>1. c[a] <= c[j] /\ c[j] <= c[b] /\ j \in 1..Len(c) /\ a \in 1..Len(c) /\ b \in 1..Len(c)
        BY <1>1, <1>2, <1>5, <2>1, <2>2
      <4>2. QED
        BY <1>1, <4>1, Ordered
    <3>2. QED
      BY <3>1
  <2>4. text[a] = Done /\ text[b] = Done
    BY <1>1, <1>5, <2>1, <2>2
  <2>5. Min(here) = a /\ Max(here) = b
    <3>1. here \in SUBSET Nat /\ here \in SUBSET (0..Len(c)) /\ here # {}
      BY <1>1, <2>1
    <3> HIDE DEF here
    <3>2. Min(here) \in here /\ Min(here) <= a
      BY <2>1, <3>1, MinIs
    <3>3. Max(here) \in here /\ Max(here) >= b
      BY <1>1, <2>2, <3>1, MaxIs
    <3>4. a <= Min(here) /\ Max(here) <= b /\ a \in Nat /\ b \in Nat /\ Min(here) \in Nat /\ Max(here) \in Nat
      BY <2>1, <2>2, <2>3, <3>1, <3>2, <3>3
    <3>5. QED
      BY <3>2, <3>3, <3>4
  <2>6. QED
    BY <2>1, <2>4, <2>5 DEF BareDone
<1>6. BareDone(text) <=> \E u, v \in said : /\ reply[u] = Done /\ reply[v] = Done
                                           /\ \A w \in said : u <= w /\ w <= v
  BY <1>4, <1>5
<1>7. QED
  BY <1>3, <1>6 DEF said

(* q is what stands between the places e and x of c.                       *)
Between(q, c, e, x) == q = SubSeq(c, e + 1, x - 1)

LEMMA BetweenPlaces ==
  ASSUME NEW c \in Seq(Nat), NEW e \in Nat, NEW x \in Nat, (e + 1)..(x - 1) \subseteq 1..Len(c),
         NEW q, Between(q, c, e, x)
  PROVE  /\ Len(q) \in Nat /\ DOMAIN q = 1..Len(q)
         /\ \A k \in 1..Len(q) : e + k \in (e + 1)..(x - 1) /\ q[k] = c[e + k]
         /\ \A j \in (e + 1)..(x - 1) : j - e \in 1..Len(q) /\ q[j - e] = c[j]
<1> DEFINE m == e + 1
           n == x - 1
<1>1. m \in Int /\ n \in Int /\ q = SubSeq(c, m, n)
  BY DEF Between
<1>2. \A k \in m..n : c[k] \in Nat
  BY ElementOfSeq
<1> HIDE DEF m, n
<1>3. /\ q \in Seq(Nat)
      /\ Len(q) = IF m <= n THEN n - m + 1 ELSE 0
      /\ \A k \in 1..(n - m + 1) : q[k] = c[m + k - 1]
  BY <1>1, <1>2, SubSeqProperties
<1>4. Len(q) \in Nat /\ DOMAIN q = 1..Len(q)
  BY <1>3, LenProperties
<1>5. ASSUME NEW k \in 1..Len(q) PROVE e + k \in m..n /\ q[k] = c[e + k]
  <2>1. k \in 1..(n - m + 1) /\ m + k - 1 = e + k /\ e + k \in m..n
    BY <1>1, <1>3 DEF m
  <2>2. QED
    BY <1>3, <2>1
<1>6. ASSUME NEW j \in m..n PROVE j - e \in 1..Len(q) /\ q[j - e] = c[j]
  <2>1. /\ j - e \in 1..(n - m + 1) /\ m + (j - e) - 1 = j /\ m <= n
        /\ Len(q) = n - m + 1
    BY <1>1, <1>3 DEF m
  <2>2. QED
    BY <1>3, <2>1
<1>7. QED
  BY <1>4, <1>5, <1>6 DEF m, n

(* The first block that is found is the first that opens, and its code is  *)
(* all that is shown between its line and the next fence.                  *)
LEMMA FirstBlockRuns ==
  ASSUME NEW text, NEW c, NEW reply, NEW V, Says(text, c, reply, V), FencedBlocks(text) # {},
         NEW first, first = Min(FencedBlocks(text)),
         NEW code, Between(code, c, EndOfLine(text, first), NextFence(text, first))
  PROVE  /\ \A k \in DOMAIN code : k > 1 => code[k - 1] < code[k]
         /\ \E f \in BlockFences(reply, V) : /\ \A g \in BlockFences(reply, V) : f <= g
                                             /\ Range(code) = Inside(reply, V, f)
<1> DEFINE e == EndOfLine(text, first)
           x == NextFence(text, first)
           inside == (e + 1)..(x - 1)
<1>1. /\ Lists(c, V) /\ text \in Seq(Tokens) /\ Len(text) = Len(c) /\ Len(c) \in Nat
      /\ DOMAIN c = 1..Len(c) /\ FenceLines(text) \subseteq 1..Len(c)
      /\ \A j \in 1..Len(c) : text[j] = reply[c[j]] /\ c[j] \in V
  BY Ordered, LenProperties DEF Says, FenceLines
<1>2. first \in FencedBlocks(text) /\ \A j \in FencedBlocks(text) : first <= j
  <2>1. FencedBlocks(text) \in SUBSET Nat
    BY <1>1 DEF FencedBlocks, Opening
  <2>2. QED
    BY <2>1, MinIs
<1>3. /\ first \in FenceLines(text) /\ first \in 1..Len(c) /\ c[first] \in BlockFences(reply, V)
  <2>1. first \in Opening(text) /\ ~Skipped(text, first) /\ first \in FenceLines(text)
    BY <1>2 DEF FencedBlocks, Opening
  <2>2. QED
    BY <1>1, <2>1, BlocksShown
<1>4. /\ e \in (first + 1)..(Len(c) + 1) /\ x \in (first + 1)..(Len(c) + 1) /\ e <= x
      /\ \A j \in FenceLines(text) : first < j => x <= j
  <2>1. e \in first..(Len(c) + 1) /\ x \in (first + 1)..(Len(c) + 1) /\ first < e /\ e <= x
    BY <1>1, <1>3, LineEnds, FenceAfter, LineEndsBeforeFence
  <2>2. \A j \in FenceLines(text) : first < j => x <= j
    BY <1>1, <1>3, FenceAfter
  <2> HIDE DEF e, x
  <2>3. QED
    BY <1>1, <1>3, <2>1, <2>2
<1>5. Between(code, c, e, x)
  OBVIOUS
<1> HIDE DEF e, x
<1>6. inside \subseteq 1..Len(c) /\ e \in Nat /\ x \in Nat
  BY <1>1, <1>3, <1>4
<1>7. /\ Len(code) \in Nat /\ DOMAIN code = 1..Len(code)
      /\ \A k \in 1..Len(code) : e + k \in inside /\ code[k] = c[e + k]
      /\ \A j \in inside : j - e \in 1..Len(code) /\ code[j - e] = c[j]
  <2>1. c \in Seq(Nat)
    BY <1>1 DEF Lists
  <2>2. QED
    BY SMTT(30), <1>5, <1>6, <2>1, BetweenPlaces
<1>8. \A v : v \in Range(code) <=> \E j \in inside : c[j] = v
  BY <1>7 DEF Range
<1>9. ASSUME NEW k \in DOMAIN code, k > 1 PROVE code[k - 1] < code[k]
  <2>1. k \in 1..Len(code) /\ k - 1 \in 1..Len(code)
    BY <1>7, <1>9
  <2>2. /\ code[k] = c[e + k] /\ code[k - 1] = c[e + (k - 1)]
        /\ e + k \in inside /\ e + (k - 1) \in inside
    BY <1>7, <2>1
  <2>3. e + k \in 1..Len(c) /\ e + (k - 1) \in 1..Len(c) /\ e + (k - 1) < e + k
    BY SMTT(30), <1>6, <2>1, <2>2
  <2>4. c[e + (k - 1)] < c[e + k]
    BY SMTT(30), <1>1, <2>3, Ordered
  <2>5. QED
    BY <2>2, <2>4
<1>10. ASSUME NEW v \in Range(code) PROVE v \in Inside(reply, V, c[first])
  <2>1. PICK j \in inside : c[j] = v
    BY <1>8
  <2>2. j \in 1..Len(c) /\ e \in 1..Len(c) /\ e < j /\ j < x
    BY <1>1, <1>3, <1>4, <1>6, <2>1
  <2>3. v \in V /\ c[e] \in V /\ c[e] < v
    BY <1>1, <2>1, <2>2, Ordered
  <2>4. EndsLine(reply, V, c[first], c[e])
    BY <1>3, <2>2, LineEndsShown DEF e
  <2>5. ASSUME NEW g \in ShownFences(reply, V), c[first] < g PROVE v < g
    <3>1. g \in V
      BY DEF ShownFences
    <3>2. PICK k \in 1..Len(c) : c[k] = g
      BY <1>1, <3>1, Ordered
    <3>3. k \in FenceLines(text) /\ first < k
      <4>1. k \in FenceLines(text)
        BY <3>2, FencesShown
      <4>2. first < k
        BY <1>1, <1>3, <2>5, <3>2, Ordered
      <4>3. QED
        BY <4>1, <4>2
    <3>4. j < k
      BY <1>4, <1>6, <2>2, <3>3
    <3>5. QED
      BY <1>1, <2>1, <2>2, <3>2, <3>4, Ordered
  <2>6. QED
    BY <2>3, <2>4, <2>5 DEF Inside
<1>11. ASSUME NEW v \in Inside(reply, V, c[first]) PROVE v \in Range(code)
  <2>1. v \in V
    BY DEF Inside
  <2>2. PICK m \in 1..Len(c) : c[m] = v
    BY <1>1, <2>1, Ordered
  <2>3. PICK d \in V : EndsLine(reply, V, c[first], d) /\ d < v
    BY DEF Inside
  <2>4. PICK l \in 1..Len(c) : c[l] = d
    BY <1>1, Ordered
  <2>5. l = e
    BY <1>3, <2>3, <2>4, LineEndsShown DEF e
  <2>6. e < m
    BY <1>1, <2>2, <2>3, <2>4, <2>5, Ordered
  <2>7. m < x
    <3>1. CASE x <= Len(c)
      <4>1. x \in FenceLines(text) /\ x \in 1..Len(c) /\ first < x
        <5>1. x \in FenceLines(text)
          BY <1>1, <1>3, <3>1, FenceAfter DEF x
        <5>2. QED
          BY <1>1, <1>3, <1>4, <3>1, <5>1
      <4>2. c[x] \in ShownFences(reply, V)
        BY <4>1, FencesShown
      <4>3. c[first] < c[x]
        BY <1>1, <1>3, <4>1, Ordered
      <4>4. v < c[x]
        BY <4>2, <4>3 DEF Inside
      <4>5. QED
        BY <1>1, <2>2, <4>1, <4>4, Ordered
    <3>2. CASE ~(x <= Len(c))
      BY <1>1, <1>6, <3>2
    <3>3. QED
      BY <3>1, <3>2
  <2>8. m \in inside
    BY <1>6, <2>6, <2>7
  <2>9. QED
    BY <1>8, <2>2, <2>8
<1>12. Range(code) = Inside(reply, V, c[first])
  BY <1>10, <1>11
<1>13. ASSUME NEW g \in BlockFences(reply, V) PROVE c[first] <= g
  <2>1. PICK k \in 1..Len(c) : c[k] = g
    <3>1. g \in V
      BY DEF BlockFences, ShownFences
    <3>2. QED
      BY <1>1, <3>1, Ordered
  <2>2. k \in Opening(text) /\ ~Skipped(text, k) /\ k \in FenceLines(text)
    BY <2>1, BlocksShown DEF Opening
  <2>3. ASSUME k < first PROVE k \in FencedBlocks(text)
    <3>1. NextFence(text, k) <= first /\ NextFence(text, k) \in (k + 1)..(Len(text) + 1)
      BY <1>1, <1>3, <2>3, FenceAfter
    <3>2. NextFence(text, k) <= Len(text)
      BY <1>1, <1>3, <3>1
    <3>3. QED
      BY <2>2, <3>2 DEF FencedBlocks
  <2>4. first <= k
    BY <1>2, <1>3, <2>3
  <2>5. QED
    BY <1>1, <1>3, <2>1, <2>4, Ordered
<1>14. QED
  BY <1>3, <1>9, <1>12, <1>13, Zenon

(* Of a reply of any length, only code that is shown, of the first block   *)
(* in a language that is run, is executed, all of it and in its order; and *)
(* nothing is executed only when nothing is asked for (parse.rs).          *)
THEOREM OnlyShownCodeRuns ==
  ASSUME NEW reply \in Seq(Tokens)
  PROVE  OnlyVisibleCodeRuns(reply)
<1> DEFINE c == Strip(reply)
           text == [k \in DOMAIN c |-> reply[c[k]]]
           blocks == FencedBlocks(text)
           first == Min(blocks)
           r == ParseReply(reply)
           V == Visible(reply)
           said == Said(reply, V)
<1>1. Says(text, c, reply, V)
  BY TextSays
<1>2. r = IF blocks = {}
          THEN [act |-> IF BareDone(text) THEN "done" ELSE "text", code |-> <<>>, ignored |-> 0]
          ELSE [act |-> "exec", ignored |-> Cardinality(blocks) - 1,
                code |-> SubSeq(c, EndOfLine(text, first) + 1, NextFence(text, first) - 1)]
  BY DEF ParseReply
<1> HIDE DEF c, text, r, V
<1>3. CASE blocks = {}
  <2>1. r.code = <<>> /\ r.act = IF BareDone(text) THEN "done" ELSE "text"
    BY <1>2, <1>3
  <2>2. DOMAIN r.code = {} /\ Range(r.code) = {}
    BY <2>1 DEF Range
  <2>3. /\ \A f \in BlockFences(reply, V), e \in V, v \in said : EndsLine(reply, V, f, e) => v < e
        /\ BareDone(text) <=> \E u, v \in said : /\ reply[u] = Done /\ reply[v] = Done
                                                 /\ \A w \in said : u <= w /\ w <= v
    BY <1>1, <1>3, NothingToRun
  <2>4. r.act = "done" <=> BareDone(text)
    BY <2>1
  <2> HIDE DEF said
  <2>5. r.act # "exec"
    BY <2>1
  <2>6. QED
    BY <2>2, <2>3, <2>4, <2>5, Zenon DEF OnlyVisibleCodeRuns, r, V, said, Said
<1>4. CASE blocks # {}
  <2>1. r.act = "exec" /\ Between(r.code, c, EndOfLine(text, first), NextFence(text, first))
    BY <1>2, <1>4 DEF Between
  <2>2. /\ \A k \in DOMAIN r.code : k > 1 => r.code[k - 1] < r.code[k]
        /\ \E f \in BlockFences(reply, V) : /\ \A g \in BlockFences(reply, V) : f <= g
                                            /\ Range(r.code) = Inside(reply, V, f)
    BY <1>1, <1>4, <2>1, FirstBlockRuns
  <2>3. QED
    BY <2>1, <2>2, Zenon DEF OnlyVisibleCodeRuns, r, V
<1>5. QED
  BY <1>3, <1>4

----------------------------------------------------------------------------
(* Orders *)

(* What is read is one of the orders that may be given.                    *)
GivenIsKnown ==
  /\ given \in {"none", "reply", "schedule"}
  /\ given = "reply" => order \in Replies
  /\ given = "schedule" => order \in Schedules

LEMMA OrdersAreKnown == ParsingInit /\ [][ParsingNext]_parsingVars => []GivenIsKnown
<1>1. ParsingInit => GivenIsKnown
  BY DEF ParsingInit, GivenIsKnown
<1>2. GivenIsKnown /\ [ParsingNext]_parsingVars => GivenIsKnown'
  BY DEF GivenIsKnown, ParsingNext, ReadReply, ReadSchedule, parsingVars
<1>3. QED
  BY <1>1, <1>2, PTL

(* Whatever reply a model gives, only the code it showed is run (parse.rs, *)
(* lib.rs).                                                                *)
THEOREM ShownCodeRuns == ParsingInit /\ [][ParsingNext]_parsingVars => []VisibleCodeRuns
<1>1. GivenIsKnown => VisibleCodeRuns
  <2>1. \A r \in Replies : r \in Seq(Tokens)
    BY ParsingAssumption
  <2>2. QED
    BY <2>1, OnlyShownCodeRuns DEF GivenIsKnown, VisibleCodeRuns
<1>2. QED
  BY <1>1, OrdersAreKnown, PTL

(* Whatever schedule a cron has, it fires on the days it names (cron.rs).  *)
THEOREM CronsFireOnNamedDays == ParsingInit /\ [][ParsingNext]_parsingVars => []FiresOnNamedDays
<1>1. GivenIsKnown => FiresOnNamedDays
  <2>1. \A s \in Schedules : FiresWhenNamed(s[1], s[2])
    BY ParsingAssumption, SchedulesFireWhenNamed
  <2>2. QED
    BY <2>1 DEF GivenIsKnown, FiresOnNamedDays
<1>2. QED
  BY <1>1, OrdersAreKnown, PTL

=============================================================================
