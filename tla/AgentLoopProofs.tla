-------------------------- MODULE AgentLoopProofs --------------------------
(* Theorems about AgentLoop, for every budget, every set of scripts, every *)
(* number of runs and every length of history.                             *)
EXTENDS AgentLoop, SequenceTheorems, WellFoundedInduction, TLAPS

----------------------------------------------------------------------------
(* The history and its compaction.                                         *)

Below == {pair \in Nat \X Nat : pair[1] < pair[2]}

(* A set of natural numbers that is not empty has a least member.          *)
LEMMA Least ==
  ASSUME NEW T \in SUBSET Nat, T # {}
  PROVE  \E i \in T : \A j \in T : i <= j
<1>1. IsWellFoundedOn(Below, Nat)
  BY NatLessThanWellFounded DEF OpToRel, Below
<1>2. PICK i \in T : \A j \in T : ~ (<<j, i>> \in Below)
  BY <1>1, WFMin, Zenon
<1>3. ASSUME NEW j \in T
      PROVE  i <= j
  <2>1. <<j, i>> \notin Below
    BY <1>2
  <2>2. i \in Nat /\ j \in Nat
    OBVIOUS
  <2>3. ~ (j < i)
    BY <2>1, <2>2 DEF Below
  <2>4. QED
    BY <2>2, <2>3
<1>4. QED
  BY <1>3

LEMMA TailStart ==
  ASSUME NEW h \in Seq(Turn)
  PROVE  /\ Len(h) \in Nat
         /\ KeepFrom(h) \in 1 .. Len(h) + 1
         /\ UserTurns(h) \in SUBSET Nat
<1>1. Len(h) \in Nat
  BY LenProperties
<1>2. KeepFrom(h) \in 1 .. Len(h) + 1
  BY SMTT(30), <1>1, AgentLoopAssumption DEF KeepFrom
<1>3. QED
  BY <1>1, <1>2 DEF UserTurns

(* split_older cuts before the first turn of the runtime in the tail, or   *)
(* after the whole history when the tail has none.                         *)
LEMMA OlderLemma ==
  ASSUME NEW h \in Seq(Turn)
  PROVE  /\ Older(h) \in 0 .. Len(h)
         /\ Older(h) + 1 \in KeepFrom(h) .. Len(h) + 1
         /\ Older(h) + 1 = Len(h) + 1 \/ h[Older(h) + 1].role = "User"
         /\ \A j \in KeepFrom(h) .. Older(h) : h[j].role # "User"
<1>0. /\ Len(h) \in Nat
      /\ KeepFrom(h) \in 1 .. Len(h) + 1
      /\ UserTurns(h) \in SUBSET Nat
  BY TailStart
<1>1. CASE UserTurns(h) = {}
  <2>1. Older(h) = Len(h)
    BY <1>1 DEF Older
  <2>2. \A j \in KeepFrom(h) .. Len(h) : h[j].role # "User"
    BY <1>1 DEF UserTurns
  <2>3. QED
    BY <1>0, <2>1, <2>2
<1>2. CASE UserTurns(h) # {}
  <2> DEFINE first == CHOOSE i \in UserTurns(h) : \A j \in UserTurns(h) : i <= j
  <2>1. first \in UserTurns(h) /\ \A j \in UserTurns(h) : first <= j
    BY <1>0, <1>2, Least
  <2>2. Older(h) = first - 1
    BY <1>2 DEF Older
  <2> HIDE DEF first
  <2>3. first \in KeepFrom(h) .. Len(h) /\ h[first].role = "User"
    BY <2>1 DEF UserTurns
  <2>4. \A j \in KeepFrom(h) .. first - 1 : h[j].role # "User"
    BY <1>0, <2>1, <2>3 DEF UserTurns
  <2>5. Older(h) + 1 = first /\ Older(h) \in 0 .. Len(h)
    BY <1>0, <2>2, <2>3
  <2>6. QED
    BY <1>0, <2>2, <2>3, <2>4, <2>5
<1>3. QED
  BY <1>1, <1>2

(* rebuild keeps exactly the turns that split_older leaves.                *)
LEMMA KeptLemma ==
  ASSUME NEW h \in Seq(Turn)
  PROVE  /\ Kept(h) = SubSeq(h, Older(h) + 1, Len(h))
         /\ Kept(h) \in Seq(Turn)
<1>0. /\ Len(h) \in Nat
      /\ KeepFrom(h) \in 1 .. Len(h) + 1
  BY TailStart
<1>1. /\ Older(h) \in 0 .. Len(h)
      /\ Older(h) + 1 \in KeepFrom(h) .. Len(h) + 1
      /\ Older(h) + 1 = Len(h) + 1 \/ h[Older(h) + 1].role = "User"
      /\ \A j \in KeepFrom(h) .. Older(h) : h[j].role # "User"
  BY OlderLemma
<1> DEFINE Starts(i) == /\ i = Len(h) + 1 \/ h[i].role = "User"
                        /\ \A j \in KeepFrom(h) .. i - 1 : h[j].role # "User"
           start == CHOOSE i \in KeepFrom(h) .. Len(h) + 1 : Starts(i)
<1>2. Starts(Older(h) + 1)
  <2>1. (Older(h) + 1) - 1 = Older(h)
    BY <1>1
  <2>2. QED
    BY <1>1, <2>1
<1>3. start \in KeepFrom(h) .. Len(h) + 1 /\ Starts(start)
  BY <1>1, <1>2
<1>4. Kept(h) = SubSeq(h, start, Len(h))
  BY DEF Kept
<1>5. start = Older(h) + 1
  <2>0. Older(h) \in Int /\ start \in Int /\ KeepFrom(h) \in Int
    BY <1>0, <1>1, <1>3
  <2>1. CASE start < Older(h) + 1
    <3>1. start \in KeepFrom(h) .. Older(h) /\ start # Len(h) + 1
      BY SMTT(30), <1>0, <1>1, <1>3, <2>0, <2>1
    <3>2. QED
      BY <1>1, <1>3, <3>1
  <2>2. CASE start > Older(h) + 1
    <3>1. Older(h) + 1 \in KeepFrom(h) .. start - 1 /\ Older(h) + 1 # Len(h) + 1
      BY <1>0, <1>1, <1>3, <2>0, <2>2
    <3>2. QED
      BY <1>1, <1>3, <3>1
  <2>3. QED
    BY <2>0, <2>1, <2>2
<1> HIDE DEF start
<1>6. \A i \in Older(h) + 1 .. Len(h) : h[i] \in Turn
  BY <1>0, <1>1, ElementOfSeq
<1>7. SubSeq(h, Older(h) + 1, Len(h)) \in Seq(Turn)
  BY <1>0, <1>1, <1>6, SubSeqProperties
<1>8. QED
  BY <1>4, <1>5, <1>7

(* A history that opens with a turn of the runtime.                        *)
Opened(h) == h # <<>> /\ h[1].role = "User"

LEMMA OpenedAppend ==
  ASSUME NEW h \in Seq(Turn), NEW t \in Turn
  PROVE  /\ Append(h, t) \in Seq(Turn)
         /\ Append(h, t) # <<>>
         /\ EndsWith(Append(h, t), t.role)
         /\ Opened(h) => Opened(Append(h, t))
<1>1. /\ Append(h, t) \in Seq(Turn)
      /\ Append(h, t) # <<>>
      /\ Len(Append(h, t)) = Len(h) + 1
      /\ \A i \in 1 .. Len(h) : Append(h, t)[i] = h[i]
      /\ Append(h, t)[Len(h) + 1] = t
  BY AppendProperties
<1>2. EndsWith(Append(h, t), t.role)
  BY <1>1 DEF EndsWith
<1>3. ASSUME Opened(h)
      PROVE  Opened(Append(h, t))
  <2>1. 1 \in 1 .. Len(h)
    BY <1>3, EmptySeq, LenProperties DEF Opened
  <2>2. QED
    BY <1>1, <1>3, <2>1 DEF Opened
<1>4. QED
  BY <1>1, <1>2, <1>3

LEMMA TurnTypes ==
  /\ User \in Turn /\ User.role = "User"
  /\ Assistant \in Turn /\ Assistant.role = "Assistant"
BY DEF User, Assistant, Turn

(* A compacted history opens with the summary.                             *)
LEMMA RebuildLemma ==
  ASSUME NEW h \in Seq(Turn)
  PROVE  Rebuild(h) \in Seq(Turn) /\ Opened(Rebuild(h))
<1> DEFINE rest == IF Kept(h) = <<>> THEN <<>> ELSE <<Assistant>> \o Kept(h)
<1>1. /\ <<User>> \in Seq(Turn) /\ Len(<<User>>) = 1 /\ <<User>>[1] = User
      /\ <<Assistant>> \in Seq(Turn)
  BY TurnTypes
<1>2. rest \in Seq(Turn)
  <2>1. <<Assistant>> \o Kept(h) \in Seq(Turn)
    BY <1>1, KeptLemma, ConcatProperties
  <2>2. QED
    BY <2>1, EmptySeq
<1>3. Rebuild(h) = <<User>> \o rest
  BY DEF Rebuild
<1> HIDE DEF rest
<1>4. /\ Rebuild(h) \in Seq(Turn)
      /\ Len(Rebuild(h)) = 1 + Len(rest)
      /\ Rebuild(h)[1] = User
  <2>1. Len(rest) \in Nat
    BY <1>2, LenProperties
  <2>2. 1 \in 1 .. Len(<<User>>) + Len(rest) /\ 1 <= Len(<<User>>)
    BY <1>1, <2>1
  <2>3. QED
    BY <1>1, <1>2, <1>3, <2>2, ConcatProperties
<1>5. Rebuild(h) # <<>>
  BY <1>2, <1>4, EmptySeq, LenProperties
<1>6. QED
  BY <1>4, <1>5, TurnTypes DEF Opened

LEMMA CompactedLemma ==
  ASSUME NEW h \in Seq(Turn), NEW g \in Compacted(h)
  PROVE  g \in Seq(Turn) /\ (Opened(h) => Opened(g))
BY RebuildLemma DEF Compacted

(* A compaction loses no turn and shows none twice.                        *)
LEMMA NothingSkipped ==
  ASSUME NEW h \in Seq(Turn)
  PROVE  Kept(h) = SubSeq(h, Older(h) + 1, Len(h))
BY KeptLemma

----------------------------------------------------------------------------
(* The invariant.                                                          *)

(* What is saved is not ahead of the session, nor the session of a run     *)
(* ahead of its budget.                                                    *)
InOrder ==
  /\ disk.counters.turns <= session.counters.turns
  /\ disk.counters.before <= session.counters.before
  /\ pc # "parked" => /\ session.counters.turns <= budget.turns
                      /\ session.counters.before <= budget.before + clock

(* A turn may be taken only when less than the maximum was spent, but for  *)
(* one turn per start.                                                     *)
Allowed ==
  /\ budget.turns < MaxTurns + starts
  /\ session.counters.turns < MaxTurns + starts
  /\ pc # "parked" => starts > 0
  /\ pc \in {"top", "request"} => budget.turns + 1 < MaxTurns + starts

(* Histories open with a turn of the runtime, which also closes a request. *)
Shaped ==
  /\ session.history # <<>> => Opened(session.history)
  /\ disk.history # <<>> => Opened(disk.history)
  /\ pc # "parked" => session.history # <<>>
  /\ pc = "request" => EndsWith(session.history, "User")

LoopInv == TypeOK /\ CountersHonest /\ InOrder /\ Allowed /\ Shaped

----------------------------------------------------------------------------
(* Type correctness.                                                       *)

LEMMA InitType == Init => TypeOK
BY AgentLoopAssumption, EmptySeq
   DEF Init, TypeOK, Fresh, Place, Counters, SessionState

LEMMA FrozenType ==
  ASSUME NEW b \in Counters, NEW n \in Nat, clock = n
  PROVE  /\ Frozen(b) \in Counters
         /\ Frozen(b).turns = b.turns /\ Frozen(b).before = b.before + n
BY DEF Frozen, Counters

LEMMA TickedType ==
  ASSUME NEW cost \in Cost, budget \in Counters
  PROVE  /\ Ticked(cost) \in Counters
         /\ Ticked(cost).turns = budget.turns + 1 /\ Ticked(cost).before = budget.before
<1>1. cost \in Nat
  BY AgentLoopAssumption
<1>2. budget.turns + 1 \in Nat /\ budget.tokens + cost \in Nat /\ budget.before \in Nat
  BY <1>1 DEF Counters
<1> DEFINE t == budget.turns + 1
           n == budget.tokens + cost
<1>3. Ticked(cost) = [budget EXCEPT !.turns = t, !.tokens = n]
  BY DEF Ticked
<1>4. t \in Nat /\ n \in Nat
  BY <1>2
<1> HIDE DEF t, n
<1>5. Ticked(cost) \in Counters /\ Ticked(cost).turns = t /\ Ticked(cost).before = budget.before
  BY <1>3, <1>4 DEF Counters
<1>6. QED
  BY <1>5 DEF t

LEMMA ParkType ==
  ASSUME NEW s \in SessionState, NEW outcome \in {"Done", "Exhausted", "Error", "Paused", "Killed"},
         Park(s, outcome)
  PROVE  /\ pc' = "parked" /\ session' \in SessionState /\ disk' = session'
         /\ session'.counters = s.counters /\ session'.history = s.history
         /\ session'.verify = s.verify
BY DEF Park, SessionState

LEMMA PersistType ==
  ASSUME TypeOK, NEW s \in SessionState, NEW b \in Counters, Persist(s, b)
  PROVE  /\ pc' \in {"parked", "top"} /\ session' \in SessionState /\ disk' = session'
         /\ session'.counters = Frozen(b) /\ session'.history = s.history
         /\ pc' = "top" => ~ Exhausted(b)
<1> DEFINE frozen == [s EXCEPT !.counters = Frozen(b)]
<1>1. Frozen(b) \in Counters
  BY FrozenType DEF TypeOK
<1>2. frozen \in SessionState /\ frozen.counters = Frozen(b) /\ frozen.history = s.history
  BY <1>1 DEF SessionState
<1>3. IF Exhausted(b) THEN Park(frozen, "Exhausted")
      ELSE pc' = "top" /\ session' = frozen /\ disk' = frozen
  BY DEF Persist
<1> HIDE DEF frozen
<1>4. QED
  BY <1>2, <1>3, ParkType

LEMMA ExecType ==
  ASSUME TypeOK, NEW s \in Scripts, Exec(s)
  PROVE  /\ pc' \in {"done", "end"} /\ unverified' \in Nat
         /\ budget' \in Counters
         /\ budget'.turns = budget.turns /\ budget'.before = budget.before
         /\ session' \in SessionState /\ session'.counters = session.counters
         /\ session'.history # <<>>
         /\ Opened(session.history) => Opened(session'.history)
<1>1. s \in Script
  BY AgentLoopAssumption
<1>2. /\ s.early \in Nat /\ s.late \in Nat /\ s.query \in Nat
      /\ s.verify \in {"none", "ok", "fail"} /\ s.kind \in {"Durable", "ReadOutput"}
  BY <1>1 DEF Script
<1>3. /\ budget' \in Counters
      /\ budget'.turns = budget.turns /\ budget'.before = budget.before
  BY <1>2 DEF Exec, TypeOK, Counters
<1>4. unverified' \in Nat /\ pc' \in {"done", "end"}
  BY <1>2 DEF Exec, TypeOK
<1>5. session.history \in Seq(Turn)
  BY DEF TypeOK, SessionState
<1>6. PICK h \in IF s.compact THEN Compacted(session.history) ELSE {session.history} :
        session' = [session EXCEPT
          !.writes = IF s.verify = "none" THEN @ + s.early ELSE 0,
          !.verify = IF s.verify = "none" THEN @ ELSE s.verify,
          !.history = Append(h, [role |-> "User", kind |-> s.kind])]
  BY DEF Exec
<1>7. h \in Seq(Turn) /\ (Opened(session.history) => Opened(h))
  BY <1>5, <1>6, CompactedLemma
<1>8. [role |-> "User", kind |-> s.kind] \in Turn
  BY <1>2 DEF Turn
<1>9. /\ Append(h, [role |-> "User", kind |-> s.kind]) \in Seq(Turn)
      /\ Append(h, [role |-> "User", kind |-> s.kind]) # <<>>
      /\ Opened(h) => Opened(Append(h, [role |-> "User", kind |-> s.kind]))
  BY <1>7, <1>8, OpenedAppend
<1> DEFINE n == IF s.verify = "none" THEN session.writes + s.early ELSE 0
           v == IF s.verify = "none" THEN session.verify ELSE s.verify
           g == Append(h, [role |-> "User", kind |-> s.kind])
<1>10. n \in Nat /\ v \in {"none", "ok", "fail"} /\ session \in SessionState
  BY SMTT(30), <1>2 DEF TypeOK, SessionState
<1>11. session' = [session EXCEPT !.writes = n, !.verify = v, !.history = g]
  BY <1>6
<1>12. g \in Seq(Turn)
  BY <1>9
<1> HIDE DEF n, v, g
<1>13. session' \in SessionState /\ session'.counters = session.counters
       /\ session'.history = g
  BY <1>10, <1>11, <1>12 DEF SessionState
<1>14. QED
  BY <1>3, <1>4, <1>7, <1>9, <1>13 DEF g

(* The turn a refusal, a bounced reply or a message adds.                  *)
LEMMA ToldType ==
  ASSUME NEW s \in SessionState, NEW t \in Turn
  PROVE  LET told == [s EXCEPT !.history = Append(@, t)]
         IN  /\ told \in SessionState /\ told.counters = s.counters
             /\ told.history = Append(s.history, t)
<1>1. Append(s.history, t) \in Seq(Turn)
  BY OpenedAppend DEF SessionState
<1>2. QED
  BY <1>1 DEF SessionState

LEMMA TypeStep == TypeOK /\ [Next]_vars => TypeOK'
<1> SUFFICES ASSUME TypeOK, [Next]_vars
             PROVE  TypeOK'
  OBVIOUS
<1>0. /\ session \in SessionState /\ disk \in SessionState /\ budget \in Counters
      /\ clock \in Nat /\ session.counters \in Counters /\ session.history \in Seq(Turn)
  BY AgentLoopAssumption DEF TypeOK, SessionState
<1>1. CASE Start
  <2>0. starts' \in 0 .. MaxStarts /\ UNCHANGED <<spent, unverified, messages>>
    <3>1. /\ starts < MaxStarts /\ starts' = starts + 1
          /\ UNCHANGED <<spent, unverified, messages>>
      BY <1>1 DEF Start
    <3>2. starts \in 0 .. MaxStarts
      BY DEF TypeOK
    <3>3. QED
      BY <3>1, <3>2, AgentLoopAssumption
  <2>1. CASE Park(session, "Error") /\ UNCHANGED <<budget, clock, errors, retry>>
    <3>1. starts' \in 0 .. MaxStarts /\ UNCHANGED <<spent, unverified, messages>>
      BY <2>0
    <3>2. pc' = "parked" /\ session' \in SessionState /\ disk' = session'
      BY <1>0, <2>1, ParkType
    <3>3. QED
      BY <2>1, <3>1, <3>2 DEF TypeOK, Place
  <2>2. CASE /\ pc' = "top"
             /\ budget' = session.counters
             /\ clock' = Resumed
             /\ session' = [session EXCEPT !.history = IF @ = <<>> THEN <<User>> ELSE @]
             /\ errors' = 0
             /\ retry' = 0
             /\ UNCHANGED disk
    <3>1. (IF session.history = <<>> THEN <<User>> ELSE session.history) \in Seq(Turn)
      BY <1>0, TurnTypes
    <3>2. session' \in SessionState
      BY <1>0, <2>2, <3>1 DEF SessionState
    <3>3. starts' \in 0 .. MaxStarts /\ UNCHANGED <<spent, unverified, messages>>
      BY <2>0
    <3>4. clock' \in 0 .. MaxClock
      BY <2>2, AgentLoopAssumption DEF Resumed
    <3>5. pc' \in Place /\ budget' \in Counters /\ disk' \in SessionState
      BY <1>0, <2>2 DEF Place
    <3>6. errors' \in 0 .. 2 /\ retry' \in Nat
      BY <2>2
    <3>7. QED
      BY <3>2, <3>3, <3>4, <3>5, <3>6 DEF TypeOK
  <2>3. QED
    BY <1>1, <2>1, <2>2 DEF Start
<1>2. CASE Stop
  BY <1>0, <1>2, ParkType DEF Stop, TypeOK, Place
<1>3. CASE BeginTurn
  <2>1. PICK received \in BOOLEAN :
          /\ received => messages < MaxMessages
          /\ messages' = IF received THEN messages + 1 ELSE messages
          /\ session' = [session EXCEPT !.history =
                           Continued(IF received THEN Append(@, User) ELSE @)]
    BY <1>3 DEF BeginTurn
  <2> DEFINE h == IF received THEN Append(session.history, User) ELSE session.history
  <2>2. h \in Seq(Turn)
    BY <1>0, TurnTypes, OpenedAppend
  <2>3. Continued(h) \in Seq(Turn)
    BY <2>2, TurnTypes, OpenedAppend DEF Continued
  <2>4. session' \in SessionState
    BY <1>0, <2>1, <2>3 DEF SessionState
  <2>5. messages' \in 0 .. MaxMessages
    BY <2>1, AgentLoopAssumption DEF TypeOK
  <2>6. QED
    BY <1>3, <2>4, <2>5 DEF BeginTurn, TypeOK, Place
<1>4. CASE Reply
  <2>1. PICK cost \in Cost : budget' = Ticked(cost)
    BY <1>4 DEF Reply
  <2>3. budget' \in Counters
    BY <1>0, <2>1, TickedType
  <2>4. Frozen(budget') \in Counters
    BY <1>0, <2>3, FrozenType
  <2>5. Append(session.history, Assistant) \in Seq(Turn)
    BY <1>0, TurnTypes, OpenedAppend
  <2>6. session' \in SessionState
    BY <1>0, <1>4, <2>4, <2>5 DEF Reply, SessionState
  <2>7. spent' \in [turns : Nat, seconds : Nat]
    BY <1>4 DEF Reply, TypeOK
  <2>8. QED
    BY <1>4, <2>3, <2>6, <2>7 DEF Reply, TypeOK, Place
<1>5. CASE Truncated
  <2>1. PICK cost \in Cost : budget' = Ticked(cost)
    BY <1>5 DEF Truncated
  <2>3. budget' \in Counters
    BY <1>0, <2>1, TickedType
  <2> DEFINE told == IF retry' = 0 THEN [session EXCEPT !.history = Append(@, User)]
                                   ELSE session
  <2>4. told \in SessionState
    BY <1>0, TurnTypes, ToldType
  <2>5. Persist(told, budget')
    BY <1>5 DEF Truncated
  <2> HIDE DEF told
  <2>6. pc' \in Place /\ session' \in SessionState /\ disk' \in SessionState
    BY <2>3, <2>4, <2>5, PersistType DEF Place
  <2>7. retry' \in Nat
    BY SMTT(30), <1>5, AgentLoopAssumption DEF Truncated, Retried
  <2>8. spent' \in [turns : Nat, seconds : Nat]
    BY <1>5 DEF Truncated, TypeOK
  <2>9. QED
    BY <1>5, <2>3, <2>6, <2>7, <2>8 DEF Truncated, TypeOK
<1>6. CASE Fail
  BY <1>0, <1>6, ParkType DEF Fail, TypeOK, Place
<1>7. CASE Act
  <2>1. CASE Bare
    BY SMTT(30), <1>0, <1>7, <2>1, TurnTypes, ToldType DEF Act, Bare, TypeOK, Place
  <2>2. CASE \E s \in Scripts : Exec(s)
    BY <1>7, <2>2, ExecType DEF Act, TypeOK, Place
  <2>3. QED
    BY <1>7, <2>1, <2>2 DEF Act
<1>8. CASE TryFinish
  <2> DEFINE verified(v) == [session EXCEPT !.verify = v, !.writes = 0]
             held == [session EXCEPT !.counters = Frozen(budget)]
             Refuse(s) == /\ pc' = "end"
                          /\ session' = [s EXCEPT !.history = Append(@, User)]
                          /\ UNCHANGED disk
  <2>1. verified("ok") \in SessionState /\ verified("fail") \in SessionState
        /\ held \in SessionState
    BY <1>0, FrozenType DEF SessionState
  <2>2. \/ Refuse(held) /\ UNCHANGED unverified
        \/ Park(verified("ok"), "Done") /\ unverified' = 0
        \/ Refuse(verified("fail")) /\ unverified' = 0
        \/ Refuse(session) /\ UNCHANGED unverified
    BY <1>8 DEF TryFinish
  <2> HIDE DEF verified, held
  <2>3. ASSUME NEW s \in SessionState, Refuse(s)
        PROVE  pc' = "end" /\ session' \in SessionState /\ disk' \in SessionState
    BY <1>0, <2>3, TurnTypes, ToldType
  <2> HIDE DEF Refuse
  <2>4. pc' \in Place /\ session' \in SessionState /\ disk' \in SessionState
        /\ unverified' \in Nat
    BY <1>0, <2>1, <2>2, <2>3, ParkType DEF Place, TypeOK
  <2>5. QED
    BY <1>8, <2>4 DEF TryFinish, TypeOK
<1>9. CASE EndTurn
  <2>1. PICK h \in Compacted(session.history) : Persist([session EXCEPT !.history = h], budget)
    BY <1>9 DEF EndTurn
  <2>2. [session EXCEPT !.history = h] \in SessionState
    BY <1>0, CompactedLemma DEF SessionState
  <2>3. pc' \in Place /\ session' \in SessionState /\ disk' \in SessionState
    BY <1>0, <2>1, <2>2, PersistType DEF Place
  <2>4. QED
    BY <1>9, <2>3 DEF EndTurn, TypeOK
<1>10. CASE Tick
  <2>1. clock' \in 0 .. MaxClock
    BY SMTT(30), <1>0, <1>10, AgentLoopAssumption DEF Tick
  <2>2. QED
    BY <1>10, <2>1 DEF Tick, TypeOK
<1>11. CASE Crash
  BY <1>11 DEF Crash, TypeOK, Place
<1>12. CASE NeverEnds
  <2>1. PICK s \in Scripts : unverified' = IF s.verify = "none" THEN unverified + s.early ELSE s.late
    BY <1>12 DEF NeverEnds
  <2>2. s.early \in Nat /\ s.late \in Nat
    BY AgentLoopAssumption DEF Script
  <2>3. unverified' \in Nat
    BY <2>1, <2>2 DEF TypeOK
  <2>4. QED
    BY <1>12, <2>3 DEF NeverEnds, TypeOK, Place
<1>13. CASE UNCHANGED vars
  BY <1>13 DEF vars, TypeOK
<1>14. QED
  BY <1>1, <1>2, <1>3, <1>4, <1>5, <1>6, <1>7, <1>8, <1>9, <1>10, <1>11, <1>12, <1>13
     DEF Next, LoopStep

(* Every state of the loop is well typed.                                  *)
THEOREM LoopTypeCorrect == Spec => []TypeOK
<1>1. QED
  BY InitType, TypeStep, PTL DEF Spec

----------------------------------------------------------------------------
(* Counters and histories.                                                 *)

LEMMA InitInv == Init => LoopInv
<1> SUFFICES ASSUME Init
             PROVE  LoopInv
  OBVIOUS
<1>1. TypeOK
  BY InitType
<1>2. /\ session.counters = [turns |-> 0, tokens |-> 0, before |-> 0]
      /\ disk.counters = [turns |-> 0, tokens |-> 0, before |-> 0]
      /\ budget = [turns |-> 0, tokens |-> 0, before |-> 0]
      /\ session.history = <<>> /\ disk.history = <<>>
  BY DEF Init, Fresh
<1>3. CountersHonest /\ InOrder
  BY <1>2 DEF Init, CountersHonest, Honest, InOrder
<1>4. Allowed /\ Shaped
  BY <1>2, AgentLoopAssumption DEF Init, Allowed, Shaped
<1>5. QED
  BY <1>1, <1>3, <1>4 DEF LoopInv

(* The numbers the invariant compares are natural.                         *)
LEMMA NumberTypes ==
  ASSUME TypeOK
  PROVE  /\ budget.turns \in Nat /\ budget.before \in Nat /\ clock \in Nat
         /\ session.counters.turns \in Nat /\ session.counters.before \in Nat
         /\ disk.counters.turns \in Nat /\ disk.counters.before \in Nat
         /\ spent.turns \in Nat /\ spent.seconds \in Nat
         /\ starts \in Nat /\ MaxTurns \in Nat \ {0}
<1>1. \A c \in Counters : c.turns \in Nat /\ c.before \in Nat
  BY DEF Counters
<1>2. budget \in Counters /\ session.counters \in Counters /\ disk.counters \in Counters
  BY DEF TypeOK, SessionState
<1>3. clock \in Nat /\ starts \in Nat /\ MaxTurns \in Nat \ {0}
  BY AgentLoopAssumption DEF TypeOK
<1>4. spent.turns \in Nat /\ spent.seconds \in Nat
  BY DEF TypeOK
<1>5. QED
  BY <1>1, <1>2, <1>3, <1>4

(* A turn ends: the session is saved, and goes on or is parked.            *)
LEMMA SavedInv ==
  ASSUME LoopInv, pc # "parked", NEW s \in SessionState, NEW b \in Counters, Persist(s, b),
         s.history # <<>>, Opened(s.history), UNCHANGED <<clock, starts>>, budget' = b,
         b.before = budget.before, b.turns >= budget.turns,
         b.turns < MaxTurns + starts, spent'.turns \in Nat, b.turns <= spent'.turns,
         spent'.seconds = spent.seconds, TypeOK'
  PROVE  LoopInv'
<1>0. /\ budget.turns \in Nat /\ budget.before \in Nat /\ clock \in Nat
      /\ spent.seconds \in Nat /\ starts \in Nat /\ MaxTurns \in Nat \ {0}
      /\ b.turns \in Nat
  BY NumberTypes DEF LoopInv, Counters
<1>1. /\ pc' \in {"parked", "top"} /\ disk' = session'
      /\ session'.counters = Frozen(b) /\ session'.history = s.history
      /\ pc' = "top" => ~ Exhausted(b)
  BY PersistType DEF LoopInv
<1>2. Frozen(b).turns = b.turns /\ Frozen(b).before = b.before + clock
  BY <1>0, FrozenType
<1>3. budget.before + clock <= spent.seconds /\ starts > 0
  BY DEF LoopInv, CountersHonest, Honest, Allowed
<1>4. CountersHonest' /\ InOrder'
  BY SMTT(30), <1>0, <1>1, <1>2, <1>3 DEF CountersHonest, Honest, InOrder
<1>5. pc' = "top" => b.turns + 1 < MaxTurns + starts
  BY <1>0, <1>1, <1>3 DEF Exhausted
<1>6. Allowed'
  BY <1>0, <1>1, <1>2, <1>3, <1>5 DEF Allowed
<1>7. Shaped'
  BY <1>1 DEF Shaped
<1>8. QED
  BY <1>4, <1>6, <1>7 DEF LoopInv

(* A step that leaves the numbers of the session alone.                    *)
LEMMA QuietInv ==
  ASSUME LoopInv, TypeOK', pc # "parked", pc' # "parked",
         session'.counters = session.counters, disk' = disk,
         budget'.turns = budget.turns, budget'.before = budget.before,
         UNCHANGED <<clock, spent, starts>>,
         pc' \in {"top", "request"} => pc \in {"top", "request"},
         session'.history # <<>>, Opened(session'.history),
         pc' = "request" => EndsWith(session'.history, "User")
  PROVE  LoopInv'
<1>1. CountersHonest' /\ InOrder'
  BY DEF LoopInv, CountersHonest, Honest, InOrder
<1>2. Allowed'
  BY DEF LoopInv, Allowed
<1>3. Shaped'
  BY DEF LoopInv, Shaped
<1>4. QED
  BY <1>1, <1>2, <1>3 DEF LoopInv

(* A run that is stopped, fails or is accepted.                            *)
LEMMA ParkedInv ==
  ASSUME LoopInv, TypeOK', NEW s \in SessionState,
         NEW outcome \in {"Done", "Exhausted", "Error", "Paused", "Killed"},
         Park(s, outcome), s.counters = session.counters, s.history = session.history,
         UNCHANGED <<budget, clock, spent>>, starts' \in {starts, starts + 1}
  PROVE  LoopInv'
<1>0. /\ budget.turns \in Nat /\ session.counters.turns \in Nat /\ starts \in Nat
      /\ session.counters.before \in Nat /\ MaxTurns \in Nat
  BY NumberTypes DEF LoopInv
<1>1. /\ pc' = "parked" /\ disk' = session'
      /\ session'.counters = session.counters /\ session'.history = session.history
  BY ParkType
<1>2. CountersHonest' /\ InOrder'
  BY <1>0, <1>1 DEF LoopInv, CountersHonest, Honest, InOrder
<1>3. Allowed'
  BY <1>0, <1>1 DEF LoopInv, Allowed
<1>4. Shaped'
  BY <1>1 DEF LoopInv, Shaped
<1>5. QED
  BY <1>2, <1>3, <1>4 DEF LoopInv

LEMMA LoopInvStep == LoopInv /\ [Next]_vars => LoopInv'
<1> SUFFICES ASSUME LoopInv, [Next]_vars
             PROVE  LoopInv'
  OBVIOUS
<1>a. TypeOK /\ TypeOK'
  BY TypeStep DEF LoopInv
<1>0. /\ session \in SessionState /\ disk \in SessionState /\ budget \in Counters
      /\ session.history \in Seq(Turn)
  BY <1>a DEF TypeOK, SessionState
<1>b. /\ budget.turns \in Nat /\ budget.before \in Nat /\ clock \in Nat
      /\ session.counters.turns \in Nat /\ session.counters.before \in Nat
      /\ disk.counters.turns \in Nat /\ disk.counters.before \in Nat
      /\ spent.turns \in Nat /\ spent.seconds \in Nat
      /\ starts \in Nat /\ MaxTurns \in Nat \ {0}
  BY <1>a, NumberTypes
<1>c. pc # "parked" => session.history # <<>> /\ Opened(session.history)
  BY DEF LoopInv, Shaped
<1>d. Allowed
  BY DEF LoopInv
<1>1. CASE Start
  <2>1. CASE Park(session, "Error") /\ UNCHANGED <<budget, clock, errors, retry>>
    BY <1>0, <1>1, <1>a, <2>1, ParkedInv DEF Start
  <2>2. CASE /\ pc' = "top"
             /\ budget' = session.counters
             /\ clock' = Resumed
             /\ session' = [session EXCEPT !.history = IF @ = <<>> THEN <<User>> ELSE @]
             /\ UNCHANGED disk
    <3> DEFINE h == IF session.history = <<>> THEN <<User>> ELSE session.history
    <3>1. h # <<>> /\ Opened(h)
      BY TurnTypes DEF LoopInv, Shaped, Opened
    <3>2. session' = [session EXCEPT !.history = h]
      BY <2>2
    <3> HIDE DEF h
    <3>3. session'.counters = session.counters /\ session'.history = h
      BY <1>0, <3>2 DEF SessionState
    <3>4. UNCHANGED spent /\ starts' = starts + 1 /\ clock' = 0
      BY <1>1, <2>2 DEF Start, Resumed
    <3>5. CountersHonest' /\ InOrder'
      BY SMTT(30), <1>b, <2>2, <3>3, <3>4 DEF LoopInv, CountersHonest, Honest, InOrder
    <3>6. Allowed'
      <4>1. /\ budget'.turns = session.counters.turns
            /\ session'.counters.turns = session.counters.turns
        BY <2>2, <3>3
      <4>2. session.counters.turns < MaxTurns + starts
        BY <1>d DEF Allowed
      <4>3. session.counters.turns + 1 < MaxTurns + starts'
        BY <1>b, <3>4, <4>2
      <4>4. session.counters.turns < MaxTurns + starts' /\ starts' > 0
        BY <1>b, <3>4, <4>2
      <4>5. QED
        BY <4>1, <4>3, <4>4 DEF Allowed
    <3>7. Shaped'
      BY <2>2, <3>1, <3>3 DEF LoopInv, Shaped
    <3>8. QED
      BY <1>a, <3>5, <3>6, <3>7 DEF LoopInv
  <2>3. QED
    BY <1>1, <2>1, <2>2 DEF Start
<1>2. CASE Stop
  BY <1>0, <1>2, <1>a, <1>b, ParkedInv DEF Stop
<1>3. CASE BeginTurn
  <2>1. PICK received \in BOOLEAN :
          session' = [session EXCEPT !.history =
                        Continued(IF received THEN Append(@, User) ELSE @)]
    BY <1>3 DEF BeginTurn
  <2> DEFINE h == IF received THEN Append(session.history, User) ELSE session.history
  <2>2. h \in Seq(Turn) /\ h # <<>> /\ Opened(h)
    BY <1>0, <1>3, <1>c, TurnTypes, OpenedAppend DEF BeginTurn
  <2>3. Continued(h) # <<>> /\ Opened(Continued(h)) /\ EndsWith(Continued(h), "User")
    <3>1. CASE EndsWith(h, "Assistant")
      BY <2>2, <3>1, TurnTypes, OpenedAppend DEF Continued
    <3>2. CASE ~ EndsWith(h, "Assistant")
      <4>1. h[Len(h)] \in Turn
        BY <2>2, EmptySeq, LenProperties, ElementOfSeq
      <4>2. QED
        BY <2>2, <3>2, <4>1 DEF Continued, EndsWith, Turn
    <3>3. QED
      BY <3>1, <3>2
  <2>4. session' = [session EXCEPT !.history = Continued(h)]
    BY <2>1
  <2> HIDE DEF h
  <2>5. session'.counters = session.counters /\ session'.history = Continued(h)
    BY <1>0, <2>4 DEF SessionState
  <2>6. QED
    BY <1>3, <1>a, <2>3, <2>5, QuietInv DEF BeginTurn
<1>4. CASE Reply
  <2>1. PICK cost \in Cost : budget' = Ticked(cost)
    BY <1>4 DEF Reply
  <2>2. budget' \in Counters /\ budget'.turns = budget.turns + 1 /\ budget'.before = budget.before
    BY <1>0, <2>1, TickedType
  <2>3. /\ Frozen(budget').turns = budget.turns + 1
        /\ Frozen(budget').before = budget.before + clock
    BY <1>b, <2>2, FrozenType
  <2> DEFINE h == Append(session.history, Assistant)
             c == Frozen(budget')
  <2>4. h # <<>> /\ Opened(h)
    BY <1>0, <1>4, <1>c, TurnTypes, OpenedAppend DEF Reply
  <2>5. session' = [session EXCEPT !.counters = c, !.history = h]
    BY <1>4 DEF Reply
  <2>6. /\ pc = "request" /\ pc' = "act" /\ UNCHANGED <<disk, clock, starts>>
        /\ spent'.turns = spent.turns + 1 /\ spent'.seconds = spent.seconds
    BY <1>4, <1>a DEF Reply, TypeOK
  <2>7. c.turns = budget.turns + 1 /\ c.before = budget.before + clock
    BY <2>3
  <2> HIDE DEF h, c
  <2>8. session'.counters = c /\ session'.history = h
    BY <1>0, <2>5 DEF SessionState
  <2>9. CountersHonest' /\ InOrder'
    BY <1>b, <2>2, <2>6, <2>7, <2>8 DEF LoopInv, CountersHonest, Honest, InOrder
  <2>10. Allowed'
    BY <1>b, <2>2, <2>6, <2>7, <2>8 DEF LoopInv, Allowed
  <2>11. Shaped'
    BY <2>4, <2>6, <2>8 DEF LoopInv, Shaped
  <2>12. QED
    BY <1>a, <2>9, <2>10, <2>11 DEF LoopInv
<1>5. CASE Truncated
  <2>1. PICK cost \in Cost : budget' = Ticked(cost)
    BY <1>5 DEF Truncated
  <2>2. budget' \in Counters /\ budget'.turns = budget.turns + 1 /\ budget'.before = budget.before
    BY <1>0, <2>1, TickedType
  <2> DEFINE told == IF retry' = 0 THEN [session EXCEPT !.history = Append(@, User)]
                                   ELSE session
  <2>3. pc = "request" /\ UNCHANGED <<clock, starts>> /\ Persist(told, budget')
    BY <1>5 DEF Truncated
  <2>4. told \in SessionState /\ told.history # <<>> /\ Opened(told.history)
    BY <1>0, <1>c, <2>3, TurnTypes, ToldType, OpenedAppend
  <2>5. spent'.turns = spent.turns + 1 /\ spent'.seconds = spent.seconds
    BY <1>5, <1>a DEF Truncated, TypeOK
  <2> HIDE DEF told
  <2>6. budget.turns <= spent.turns /\ budget.turns + 1 < MaxTurns + starts
    BY <2>3 DEF LoopInv, CountersHonest, Honest, Allowed
  <2>7. /\ budget'.turns >= budget.turns /\ budget'.turns < MaxTurns + starts
        /\ spent'.turns \in Nat /\ budget'.turns <= spent'.turns
    BY <1>b, <2>2, <2>5, <2>6
  <2>8. QED
    BY <1>a, <2>2, <2>3, <2>4, <2>5, <2>7, SavedInv
<1>6. CASE Fail
  <2>1. CASE Park(session, "Error")
    BY <1>0, <1>6, <1>a, <1>b, <2>1, ParkedInv DEF Fail
  <2>2. CASE pc' = "top" /\ UNCHANGED <<session, disk>>
    BY <1>6, <1>a, <1>c, <2>2, QuietInv DEF Fail
  <2>3. QED
    BY <1>6, <2>1, <2>2 DEF Fail
<1>7. CASE Act
  <2>1. CASE Bare
    <3>0. session.history # <<>> /\ Opened(session.history)
      BY <1>7, <1>c DEF Act
    <3>a. CASE UNCHANGED session
      BY <1>7, <1>a, <2>1, <3>0, <3>a, QuietInv DEF Act, Bare
    <3>b. CASE session' = [session EXCEPT !.history = Append(@, User)]
      <4>1. /\ session'.counters = session.counters
            /\ session'.history = Append(session.history, User)
        BY <1>0, <3>b, TurnTypes, ToldType
      <4>2. session'.history # <<>> /\ Opened(session'.history)
        BY <1>0, <3>0, <4>1, TurnTypes, OpenedAppend
      <4>3. QED
        BY <1>7, <1>a, <2>1, <4>1, <4>2, QuietInv DEF Act, Bare
    <3>c. QED
      BY <2>1, <3>a, <3>b DEF Bare
  <2>2. CASE \E s \in Scripts : Exec(s)
    <3>1. /\ session'.counters = session.counters /\ session'.history # <<>>
          /\ Opened(session'.history) /\ pc' \in {"done", "end"}
          /\ budget'.turns = budget.turns /\ budget'.before = budget.before
      BY <1>7, <1>a, <1>c, <2>2, ExecType DEF Act
    <3>2. QED
      BY <1>7, <1>a, <3>1, QuietInv DEF Act
  <2>3. QED
    BY <1>7, <2>1, <2>2 DEF Act
<1>8. CASE TryFinish
  <2> DEFINE verified(v) == [session EXCEPT !.verify = v, !.writes = 0]
             held == [session EXCEPT !.counters = Frozen(budget)]
             Refuse(s) == /\ pc' = "end"
                          /\ session' = [s EXCEPT !.history = Append(@, User)]
                          /\ UNCHANGED disk
  <2>0. /\ pc = "done" /\ UNCHANGED <<budget, clock, spent, starts>>
        /\ session.history # <<>> /\ Opened(session.history)
    BY <1>8, <1>c DEF TryFinish
  <2>1. \/ Refuse(held)
        \/ Park(verified("ok"), "Done")
        \/ Refuse(verified("fail"))
        \/ Refuse(session)
    BY <1>8 DEF TryFinish
  <2>2. /\ Frozen(budget) \in Counters /\ Frozen(budget).turns = budget.turns
        /\ Frozen(budget).before = budget.before + clock
    BY <1>0, <1>b, FrozenType
  <2>3. \A v \in {"ok", "fail"} :
          /\ verified(v) \in SessionState /\ verified(v).counters = session.counters
          /\ verified(v).history = session.history
    BY <1>0 DEF SessionState
  <2>4. /\ held \in SessionState /\ held.counters = Frozen(budget)
        /\ held.history = session.history
    BY <1>0, <2>2 DEF SessionState
  <2> HIDE DEF verified, held
  <2>5. ASSUME NEW s \in SessionState, Refuse(s), s.history = session.history
        PROVE  /\ pc' = "end" /\ session'.counters = s.counters /\ disk' = disk
               /\ session'.history # <<>> /\ Opened(session'.history)
    <3>1. session'.counters = s.counters /\ session'.history = Append(session.history, User)
      BY <2>5, TurnTypes, ToldType
    <3>2. QED
      BY <1>0, <2>0, <2>5, <3>1, TurnTypes, OpenedAppend
  <2> HIDE DEF Refuse
  <2>6. CASE Refuse(held)
    <3>1. /\ pc' = "end" /\ session'.counters = Frozen(budget) /\ disk' = disk
          /\ session'.history # <<>> /\ Opened(session'.history)
      BY <2>4, <2>5, <2>6
    <3>2. CountersHonest' /\ InOrder'
      <4>1. /\ session'.counters.turns = budget.turns
            /\ session'.counters.before = budget.before + clock
        BY <2>2, <3>1
      <4>2. Honest(budget, clock) /\ Honest(disk.counters, 0)
        BY <2>0 DEF LoopInv, CountersHonest
      <4>3. CountersHonest'
        BY <1>b, <2>0, <3>1, <4>1, <4>2 DEF CountersHonest, Honest
      <4>4. /\ disk.counters.turns <= budget.turns
            /\ disk.counters.before <= budget.before + clock
        BY SMTT(30), <1>b, <2>0 DEF LoopInv, InOrder
      <4>5. InOrder'
        BY <1>b, <2>0, <3>1, <4>1, <4>4 DEF InOrder
      <4>6. QED
        BY <4>3, <4>5
    <3>3. Allowed'
      <4>1. /\ budget'.turns = budget.turns /\ session'.counters.turns = budget.turns
            /\ UNCHANGED starts
        BY <2>0, <2>2, <3>1
      <4>2. QED
        BY <1>d, <2>0, <3>1, <4>1 DEF Allowed
    <3>4. Shaped'
      BY <3>1 DEF LoopInv, Shaped
    <3>5. QED
      BY <1>a, <3>2, <3>3, <3>4 DEF LoopInv
  <2>7. CASE Park(verified("ok"), "Done")
    BY <1>a, <1>b, <2>0, <2>3, <2>7, ParkedInv
  <2>8. CASE Refuse(verified("fail"))
    BY <1>a, <2>0, <2>3, <2>5, <2>8, QuietInv
  <2>9. CASE Refuse(session)
    BY <1>0, <1>a, <2>0, <2>5, <2>9, QuietInv
  <2>10. QED
    BY <2>1, <2>6, <2>7, <2>8, <2>9
<1>9. CASE EndTurn
  <2>1. PICK h \in Compacted(session.history) : Persist([session EXCEPT !.history = h], budget)
    BY <1>9 DEF EndTurn
  <2> DEFINE s == [session EXCEPT !.history = h]
  <2>2. s \in SessionState /\ s.history = h
    BY <1>0, CompactedLemma DEF SessionState
  <2>3. pc = "end" /\ UNCHANGED <<budget, clock, spent, starts>>
    BY <1>9 DEF EndTurn
  <2>4. s.history # <<>> /\ Opened(s.history)
    BY <1>0, <1>c, <2>2, <2>3, CompactedLemma DEF Opened
  <2>5. budget.turns < MaxTurns + starts /\ budget.turns <= spent.turns
    BY <2>3 DEF LoopInv, Allowed, CountersHonest, Honest
  <2> HIDE DEF s
  <2>6. Persist(s, budget)
    BY <2>1 DEF s
  <2>7. QED
    BY <1>0, <1>a, <1>b, <2>2, <2>3, <2>4, <2>5, <2>6, SavedInv
<1>10. CASE Tick
  <2>1. /\ UNCHANGED <<pc, session, disk, budget, starts>> /\ clock' = clock + 1
        /\ spent'.turns = spent.turns /\ spent'.seconds = spent.seconds + 1
    BY <1>10, <1>a DEF Tick, TypeOK
  <2>2. CountersHonest' /\ InOrder'
    BY <1>10, <1>b, <2>1 DEF Tick, LoopInv, CountersHonest, Honest, InOrder
  <2>3. Allowed' /\ Shaped'
    BY <2>1 DEF LoopInv, Allowed, Shaped
  <2>4. QED
    BY <1>a, <2>2, <2>3 DEF LoopInv
<1>11. CASE Crash
  <2>1. /\ pc' = "parked" /\ session' = disk
        /\ UNCHANGED <<disk, budget, clock, spent, starts>>
    BY <1>11 DEF Crash
  <2>2. CountersHonest' /\ InOrder'
    BY <1>b, <2>1 DEF LoopInv, CountersHonest, Honest, InOrder
  <2>3. Allowed'
    BY <1>b, <2>1 DEF LoopInv, InOrder, Allowed
  <2>4. Shaped'
    BY <2>1 DEF LoopInv, Shaped
  <2>5. QED
    BY <1>a, <2>2, <2>3, <2>4 DEF LoopInv
<1>12. CASE NeverEnds
  <2>1. session.history # <<>> /\ Opened(session.history)
    BY <1>12, <1>c DEF NeverEnds
  <2>2. QED
    BY <1>12, <1>a, <2>1, QuietInv DEF NeverEnds
<1>13. CASE UNCHANGED vars
  BY <1>a, <1>13 DEF vars, LoopInv, CountersHonest, Honest, InOrder, Allowed, Shaped
<1>14. QED
  BY <1>1, <1>2, <1>3, <1>4, <1>5, <1>6, <1>7, <1>8, <1>9, <1>10, <1>11, <1>12, <1>13
     DEF Next, LoopStep

LEMMA LoopInvCorrect == Spec => []LoopInv
<1>1. QED
  BY InitInv, LoopInvStep, PTL DEF Spec

(* No counter, in RAM or on disk, runs ahead of the turns that were paid   *)
(* for and the seconds that were run, whatever is paused, resumed or lost. *)
THEOREM CountersAreHonest == Spec => []CountersHonest
<1>1. LoopInv => CountersHonest
  BY DEF LoopInv
<1>2. QED
  BY <1>1, LoopInvCorrect, PTL

(* A session overspends by less than one turn for each time it is started. *)
THEOREM OneTurnPastEach == Spec => []OneTurnPast
<1>1. LoopInv => OneTurnPast
  BY DEF LoopInv, Allowed, OneTurnPast
<1>2. QED
  BY <1>1, LoopInvCorrect, PTL

(* Every request opens and closes with a turn of the runtime and shows the *)
(* latest one whole, for histories of any length and any keep_last.        *)
THEOREM RequestsAreShaped == Spec => []RequestOk
<1>1. ASSUME LoopInv
      PROVE  RequestOk
  <2> DEFINE h == session.history
  <2>1. h \in Seq(Turn) /\ (pc = "request" => h # <<>> /\ Opened(h) /\ EndsWith(h, "User"))
    BY <1>1 DEF LoopInv, TypeOK, SessionState, Shaped
  <2>2. h # <<>> => Stubs(h) < Len(h)
    <3>1. Older(h) \in Int /\ Len(h) \in Nat
      BY <2>1, OlderLemma, LenProperties
    <3>2. h # <<>> => Len(h) > 0
      BY <2>1, EmptySeq, LenProperties
    <3>3. QED
      BY <3>1, <3>2 DEF Stubs
  <2>3. QED
    BY <2>1, <2>2 DEF RequestOk, Opened
<1>2. QED
  BY <1>1, LoopInvCorrect, PTL

(* Whatever the history, a compaction summarizes exactly the turns it does *)
(* not keep.                                                               *)
THEOREM CompactionLosesNothing == Spec => []TailsAgree
<1>1. TypeOK => TailsAgree
  BY NothingSkipped DEF TypeOK, SessionState, TailsAgree
<1>2. QED
  BY <1>1, LoopTypeCorrect, PTL

(* Each step leaves the disk alone or saves the counters of the session or *)
(* those of the budget, which are never behind what was saved before.      *)
LEMMA SaveStep ==
  LoopInv /\ [Next]_vars =>
    /\ disk'.counters.turns >= disk.counters.turns
    /\ disk'.counters.before >= disk.counters.before
<1> SUFFICES ASSUME LoopInv, [Next]_vars
             PROVE  /\ disk'.counters.turns >= disk.counters.turns
                    /\ disk'.counters.before >= disk.counters.before
  OBVIOUS
<1>0. /\ TypeOK /\ session \in SessionState /\ budget \in Counters
  BY DEF LoopInv, TypeOK, SessionState
<1>1. /\ budget.turns \in Nat /\ budget.before \in Nat /\ clock \in Nat
      /\ session.counters.turns \in Nat /\ session.counters.before \in Nat
      /\ disk.counters.turns \in Nat /\ disk.counters.before \in Nat
  BY <1>0, NumberTypes
<1>2. CASE UNCHANGED disk
  BY <1>1, <1>2
<1>3. ASSUME NEW s \in SessionState, s.counters = session.counters,
             NEW outcome \in {"Done", "Exhausted", "Error", "Paused", "Killed"},
             Park(s, outcome)
      PROVE  /\ disk'.counters.turns >= disk.counters.turns
             /\ disk'.counters.before >= disk.counters.before
  <2>1. disk'.counters = session.counters
    BY <1>3, ParkType
  <2>2. QED
    BY <1>1, <2>1 DEF LoopInv, InOrder
<1>4. ASSUME NEW s \in SessionState, NEW b \in Counters, Persist(s, b), pc # "parked",
             b.turns \in Nat, b.turns >= budget.turns, b.before = budget.before
      PROVE  /\ disk'.counters.turns >= disk.counters.turns
             /\ disk'.counters.before >= disk.counters.before
  <2>1. disk'.counters = Frozen(b)
    BY <1>0, <1>4, PersistType
  <2>2. Frozen(b).turns = b.turns /\ Frozen(b).before = b.before + clock
    BY <1>1, <1>4, FrozenType
  <2>3. QED
    BY <1>1, <1>4, <2>1, <2>2 DEF LoopInv, InOrder
<1>5. CASE Start
  BY <1>0, <1>2, <1>3, <1>5 DEF Start
<1>6. CASE Stop
  BY <1>0, <1>3, <1>6 DEF Stop
<1>7. CASE BeginTurn \/ Reply \/ Act \/ NeverEnds \/ Tick \/ Crash
  BY <1>2, <1>7 DEF BeginTurn, Reply, Act, NeverEnds, Tick, Crash
<1>8. CASE Truncated
  <2>1. PICK cost \in Cost : budget' = Ticked(cost)
    BY <1>8 DEF Truncated
  <2>2. budget' \in Counters /\ budget'.turns = budget.turns + 1 /\ budget'.before = budget.before
    BY <1>0, <2>1, TickedType
  <2> DEFINE told == IF retry' = 0 THEN [session EXCEPT !.history = Append(@, User)]
                                   ELSE session
  <2>3. pc = "request" /\ Persist(told, budget')
    BY <1>8 DEF Truncated
  <2>4. told \in SessionState
    BY <1>0, TurnTypes, ToldType
  <2> HIDE DEF told
  <2>5. budget'.turns \in Nat /\ budget'.turns >= budget.turns
    BY <1>1, <2>2
  <2>6. QED
    BY <1>4, <2>2, <2>3, <2>4, <2>5
<1>9. CASE Fail
  BY <1>0, <1>2, <1>3, <1>9 DEF Fail
<1>10. CASE TryFinish
  <2> DEFINE ok == [session EXCEPT !.verify = "ok", !.writes = 0]
  <2>1. ok \in SessionState /\ ok.counters = session.counters
    BY <1>0 DEF SessionState
  <2>2. UNCHANGED disk \/ Park(ok, "Done")
    BY <1>10 DEF TryFinish
  <2> HIDE DEF ok
  <2>3. QED
    BY <1>2, <1>3, <2>1, <2>2
<1>11. CASE EndTurn
  <2>1. PICK h \in Compacted(session.history) : Persist([session EXCEPT !.history = h], budget)
    BY <1>11 DEF EndTurn
  <2> DEFINE s == [session EXCEPT !.history = h]
  <2>2. s \in SessionState
    <3>1. session.history \in Seq(Turn) /\ pc = "end"
      BY <1>0, <1>11 DEF SessionState, EndTurn
    <3>2. session.history # <<>> /\ Opened(session.history)
      BY <3>1 DEF LoopInv, Shaped
    <3>3. h \in Seq(Turn)
      BY <2>1, <3>1, <3>2, CompactedLemma
    <3>4. QED
      BY <1>0, <3>3 DEF SessionState
  <2>3. Persist(s, budget) /\ pc # "parked"
    BY <1>11, <2>1 DEF EndTurn
  <2> HIDE DEF s
  <2>4. QED
    BY <1>0, <1>1, <1>4, <2>2, <2>3
<1>12. CASE UNCHANGED vars
  BY <1>2, <1>12 DEF vars
<1>13. QED
  BY <1>5, <1>6, <1>7, <1>8, <1>9, <1>10, <1>11, <1>12 DEF Next, LoopStep

(* Over any number of runs, failures and crashes, what is saved never      *)
(* counts less than an earlier save did.                                   *)
THEOREM SavesNeverGoBack == Spec => SavedNeverGoesBack
<1>1. LoopInv /\ [Next]_vars =>
        [/\ disk'.counters.turns >= disk.counters.turns
         /\ disk'.counters.before >= disk.counters.before]_vars
  BY SaveStep
<1>2. QED
  BY <1>1, LoopInvCorrect, PTL DEF Spec, SavedNeverGoesBack

(* Of the steps out of "done", only the verdict "ok" of a verifier that    *)
(* has just run parks the session and saves it.                            *)
LEMMA DoneStep ==
  LoopInv /\ [Next]_vars =>
    [pc = "done" /\ pc' = "parked" /\ disk' # disk =>
       /\ spent.turns >= MinTurns /\ spent.seconds >= MinSeconds
       /\ session'.verify = "ok" /\ unverified' = 0]_vars
<1> SUFFICES ASSUME LoopInv, [Next]_vars, pc = "done", pc' = "parked", disk' # disk
             PROVE  /\ spent.turns >= MinTurns /\ spent.seconds >= MinSeconds
                    /\ session'.verify = "ok" /\ unverified' = 0
  OBVIOUS
<1>0. /\ budget.turns \in Nat /\ budget.before \in Nat /\ clock \in Nat
      /\ spent.turns \in Nat /\ spent.seconds \in Nat
      /\ MinTurns \in Nat /\ MinSeconds \in Nat
  BY NumberTypes, AgentLoopAssumption DEF LoopInv
<1>1. TryFinish
  BY DEF Next, LoopStep, vars, Start, Stop, BeginTurn, Reply, Truncated, Fail, Act,
         NeverEnds, EndTurn, Tick, Crash
<1> DEFINE ok == [session EXCEPT !.verify = "ok", !.writes = 0]
<1>2. MayFinish /\ Park(ok, "Done") /\ unverified' = 0
  BY <1>1 DEF TryFinish
<1>3. ok \in SessionState /\ ok.verify = "ok"
  BY DEF LoopInv, TypeOK, SessionState
<1> HIDE DEF ok
<1>4. session'.verify = "ok"
  BY <1>2, <1>3, ParkType
<1>5. budget.turns <= spent.turns /\ budget.before + clock <= spent.seconds
  BY DEF LoopInv, CountersHonest, Honest
<1>6. QED
  BY <1>0, <1>2, <1>4, <1>5 DEF MayFinish, Elapsed

(* done() is accepted only after the minimum was really spent, by a        *)
(* verifier that saw every write.                                          *)
THEOREM DoneEarned == Spec => DoneIsEarned
<1>1. LoopInv /\ [Next]_vars =>
        [pc = "done" /\ pc' = "parked" /\ disk' # disk =>
           /\ spent.turns >= MinTurns /\ spent.seconds >= MinSeconds
           /\ session'.verify = "ok" /\ unverified' = 0]_vars
  BY DoneStep
<1>2. QED
  BY <1>1, LoopInvCorrect, PTL DEF Spec, DoneIsEarned
=============================================================================
