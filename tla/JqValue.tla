------------------------------ MODULE JqValue ------------------------------
(***************************************************************************)
(* The values of rjq, the jq clone built by the benchmark (src/rjq/src/):  *)
(* their order, their text, and the paths into them.  A value is a pair of *)
(* its kind and its contents, a string a sequence of letters, an object a  *)
(* function on strings, read in the order of its keys as a BTreeMap is.    *)
(* Numbers are integers: the inputs never make a fraction or a NaN.        *)
(***************************************************************************)
EXTENDS Integers, Sequences, SequencesExt, FiniteSets

Null == <<"null">>
Bool(b) == <<"bool", b>>
Num(n) == <<"num", n>>
Str(s) == <<"str", s>>
Arr(a) == <<"arr", a>>
Obj(o) == <<"obj", o>>

Kind(v) == v[1]
Contents(v) == v[2]
Truthy(v) == v # Null /\ v # Bool(FALSE)

----------------------------------------------------------------------------
(* Order *)

Letters == <<"a", "b", "c">>             \* the letters that are ever compared
Rank == [l \in ToSet(Letters) |-> CHOOSE i \in DOMAIN Letters : Letters[i] = l]

Sign(n) == IF n < 0 THEN -1 ELSE IF n > 0 THEN 1 ELSE 0
Least(S) == CHOOSE i \in S : \A j \in S : i <= j

\* the first place where they differ decides, then the length
CmpSeq(x, y, C(_, _)) ==
    LET differ == {i \in DOMAIN x \cap DOMAIN y : C(x[i], y[i]) # 0}
    IN  IF differ = {} THEN Sign(Len(x) - Len(y))
        ELSE C(x[Least(differ)], y[Least(differ)])

CmpStr(x, y) == CmpSeq(x, y, LAMBDA a, b : Sign(Rank[a] - Rank[b]))

Keys(o) == SetToSortSeq(DOMAIN o, LAMBDA x, y : CmpStr(x, y) < 0)

\* null, false, true, numbers, strings, arrays, objects
TypeOrder(v) ==
    CASE v = Null        -> 0
      [] v = Bool(FALSE) -> 1
      [] v = Bool(TRUE)  -> 2
      [] Kind(v) = "num" -> 3
      [] Kind(v) = "str" -> 4
      [] Kind(v) = "arr" -> 5
      [] Kind(v) = "obj" -> 6

\* two objects are compared entry by entry, key first
RECURSIVE Cmp(_, _)
Cmp(a, b) ==
    LET entry(o, k) == <<k, o[k]>>
        entries(o) == LET ks == Keys(o) IN [i \in DOMAIN ks |-> entry(o, ks[i])]
        cmpEntry(p, q) == IF p[1] # q[1] THEN CmpStr(p[1], q[1]) ELSE Cmp(p[2], q[2])
        cmpAny(p, q) == Cmp(p, q)
    IN  IF TypeOrder(a) # TypeOrder(b) THEN Sign(TypeOrder(a) - TypeOrder(b))
        ELSE CASE Kind(a) = "num" -> Sign(Contents(a) - Contents(b))
               [] Kind(a) = "str" -> CmpStr(Contents(a), Contents(b))
               [] Kind(a) = "arr" -> CmpSeq(Contents(a), Contents(b), cmpAny)
               [] Kind(a) = "obj" -> CmpSeq(entries(Contents(a)), entries(Contents(b)), cmpEntry)
               [] OTHER -> 0

\* the elements by a key, ties in the order they came
Sorted(s, Key(_)) ==
    LET before(i, j) == Cmp(Key(s[i]), Key(s[j])) * Len(s) < j - i
        places == SortSeq([i \in DOMAIN s |-> i], before)
    IN  [k \in DOMAIN s |-> s[places[k]]]

\* adjacent equal elements become one
Dedup(s) ==
    LET kept == SelectSeq([i \in DOMAIN s |-> i], LAMBDA i : i = 1 \/ s[i] # s[i - 1])
    IN  [k \in DOMAIN kept |-> s[kept[k]]]

----------------------------------------------------------------------------
(* Parts of a value *)

Iterable(v) == Kind(v) \in {"arr", "obj"}

\* the components that lead to the parts, in order: keys or indices from 0
Steps(v) ==
    IF Kind(v) = "arr" THEN [i \in DOMAIN Contents(v) |-> Num(i - 1)]
    ELSE LET ks == Keys(Contents(v)) IN [i \in DOMAIN ks |-> Str(ks[i])]

GetKey(v, k) ==
    IF Kind(v) = "obj" /\ k \in DOMAIN Contents(v) THEN Contents(v)[k] ELSE Null

\* a negative index counts from the end
FromEnd(i, len) == IF i < 0 THEN len + i ELSE i

GetIndex(v, i) ==
    IF Kind(v) = "arr" /\ FromEnd(i, Len(Contents(v))) + 1 \in DOMAIN Contents(v)
    THEN Contents(v)[FromEnd(i, Len(Contents(v))) + 1]
    ELSE Null

Get(v, c) == IF Kind(c) = "num" THEN GetIndex(v, Contents(c)) ELSE GetKey(v, Contents(c))

Items(v) == LET s == Steps(v) IN [i \in DOMAIN s |-> Get(v, s[i])]

RECURSIVE Recurse(_)
Recurse(v) ==
    <<v>> \o IF Iterable(v)
             THEN LET xs == Items(v) IN FlattenSeq([i \in DOMAIN xs |-> Recurse(xs[i])])
             ELSE <<>>

RECURSIVE Flattened(_)
Flattened(a) ==
    FlattenSeq([i \in DOMAIN a |->
        IF Kind(a[i]) = "arr" THEN Flattened(Contents(a[i])) ELSE <<a[i]>>])

\* contains: a string in a string, every element or entry in some other
RECURSIVE Within(_, _)
Within(a, b) ==
    LET x == Contents(a) y == Contents(b)
    IN  IF Kind(a) # Kind(b) \/ Kind(a) \notin {"str", "arr", "obj"} THEN a = b
        ELSE CASE Kind(a) = "str" -> \E i \in 0..(Len(x) - Len(y)) :
                                        SubSeq(x, i + 1, i + Len(y)) = y
               [] Kind(a) = "arr" -> \A j \in DOMAIN y : \E i \in DOMAIN x : Within(x[i], y[j])
               [] Kind(a) = "obj" -> \A k \in DOMAIN y : k \in DOMAIN x /\ Within(x[k], y[k])

----------------------------------------------------------------------------
(* Paths *)

GetPath(v, path) == FoldLeft(Get, v, path)

With(o, k, x) == [j \in DOMAIN o \cup {k} |-> IF j = k THEN x ELSE o[j]]

\* Whatever is in the way of a path becomes an object or an array; an array is
\* filled with null up to the index; an index before its start changes nothing.
RECURSIVE SetPath(_, _, _)
SetPath(v, path, x) ==
    IF path = <<>> THEN x
    ELSE LET c == Head(path)
             sub == SetPath(Get(v, c), Tail(path), x)
             o == IF Kind(v) = "obj" THEN Contents(v) ELSE <<>>
             a == IF Kind(v) = "arr" THEN Contents(v) ELSE <<>>
             at == FromEnd(Contents(c), Len(a)) + 1
         IN  IF Kind(c) = "str" THEN Obj(With(o, Contents(c), sub))
             ELSE IF at < 1 THEN v
             ELSE Arr([i \in 1..(IF at > Len(a) THEN at ELSE Len(a)) |->
                         IF i = at THEN sub ELSE IF i <= Len(a) THEN a[i] ELSE Null])

\* What a path does not lead to is left alone; the empty path leaves null.
RECURSIVE DelPath(_, _)
DelPath(v, path) ==
    IF path = <<>> THEN Null
    ELSE LET c == Head(path)
             o == Contents(v)
             at == FromEnd(Contents(c), Len(o)) + 1
             last == Len(path) = 1
         IN  CASE Kind(c) = "str" /\ Kind(v) = "obj" /\ Contents(c) \in DOMAIN o ->
                    IF last THEN Obj([k \in DOMAIN o \ {Contents(c)} |-> o[k]])
                    ELSE Obj([o EXCEPT ![Contents(c)] = DelPath(@, Tail(path))])
               [] Kind(c) = "num" /\ Kind(v) = "arr" /\ at \in DOMAIN o ->
                    IF last THEN Arr(RemoveAt(o, at))
                    ELSE Arr([o EXCEPT ![at] = DelPath(@, Tail(path))])
               [] OTHER -> v

\* every path of a value, a container before its parts
RECURSIVE PathsFrom(_, _)
PathsFrom(v, cur) ==
    IF ~Iterable(v) THEN <<>>
    ELSE LET s == Steps(v)
         IN  FlattenSeq([i \in DOMAIN s |->
                LET p == Append(cur, s[i])
                IN  <<Arr(p)>> \o PathsFrom(Get(v, s[i]), p)])

\* the paths to what is no container
RECURSIVE LeafPathsFrom(_, _)
LeafPathsFrom(v, cur) ==
    IF ~Iterable(v) THEN <<Arr(cur)>>
    ELSE LET s == Steps(v)
         IN  FlattenSeq([i \in DOMAIN s |-> LeafPathsFrom(Get(v, s[i]), Append(cur, s[i]))])

\* a leaf with its path, then each container with its own, as an empty one
RECURSIVE StreamFrom(_, _)
StreamFrom(v, cur) ==
    IF ~Iterable(v) THEN <<Arr(<<Arr(cur), v>>)>>
    ELSE LET s == Steps(v)
             empty == IF Kind(v) = "arr" THEN Arr(<<>>) ELSE Obj(<<>>)
         IN  FlattenSeq([i \in DOMAIN s |-> StreamFrom(Get(v, s[i]), Append(cur, s[i]))])
             \o <<Arr(<<Arr(cur), empty>>)>>

----------------------------------------------------------------------------
(* Text: a sequence of letters, where a numeral, a literal or a quote is    *)
(* one letter                                                               *)

Separated(parts, sep) ==
    FlattenSeq([i \in DOMAIN parts |-> IF i = 1 THEN parts[i] ELSE sep \o parts[i]])

Quoted(s) == <<"quote">> \o s \o <<"quote">>

RECURSIVE Text(_)
Text(v) ==
    CASE v = Null        -> <<"null">>
      [] v = Bool(TRUE)  -> <<"true">>
      [] v = Bool(FALSE) -> <<"false">>
      [] Kind(v) = "num" -> <<"number", ToString(Contents(v))>>
      [] Kind(v) = "str" -> Quoted(Contents(v))
      [] Kind(v) = "arr" ->
            LET xs == Contents(v)
            IN  <<"[">> \o Separated([i \in DOMAIN xs |-> Text(xs[i])], <<",">>) \o <<"]">>
      [] Kind(v) = "obj" ->
            LET ks == Keys(Contents(v))
                entry(k) == Quoted(k) \o <<":">> \o Text(Contents(v)[k])
            IN  <<"{">> \o Separated([i \in DOMAIN ks |-> entry(ks[i])], <<",">>) \o <<"}">>

\* a string as it is, anything else as its text
Shown(v) == IF Kind(v) = "str" THEN Contents(v) ELSE Text(v)

\* the pieces of a string between the places where sep stands, from the left
\* (a separator has a letter)
RECURSIVE Split(_, _)
Split(s, sep) ==
    LET at == {i \in 0..(Len(s) - Len(sep)) : SubSeq(s, i + 1, i + Len(sep)) = sep}
    IN  IF at = {} THEN <<Str(s)>>
        ELSE <<Str(SubSeq(s, 1, Least(at)))>>
             \o Split(SubSeq(s, Least(at) + Len(sep) + 1, Len(s)), sep)

=============================================================================
