-------------------------- MODULE SessionMailProofs --------------------------
(* Theorems about the mail of SessionTree: where the messages of a session *)
(* and its history are, in what order they are read and that none is read  *)
(* twice, and that the tree implements the abstract Mailbox.               *)
EXTENDS SessionTreeProofs

USE DEF SlotState, TaskState, Live, Outcome, Ctl, actor, Serves

----------------------------------------------------------------------------
(* Sequences of message numbers.                                           *)

UpTo(q, n) == \A i \in 1 .. Len(q) : q[i] <= n
Apart(a, b) == \A i \in 1 .. Len(a), j \in 1 .. Len(b) : a[i] # b[j]

(* b repeats a part of a, in order and without a gap.                      *)
PartOf(b, a) ==
  \E d \in Nat : /\ Len(b) + d <= Len(a)
                 /\ \A i \in 1 .. Len(b) : b[i] = a[i + d]

(* A concatenation is in order when its two halves are and the first is    *)
(* below the second.                                                       *)
LEMMA IncreasingConcat ==
  ASSUME NEW a \in Seq(Nat), NEW b \in Seq(Nat)
  PROVE  Increasing(a \o b) <=> Increasing(a) /\ Increasing(b) /\ Below(a, b)
<1>1. /\ Len(a) \in Nat /\ Len(b) \in Nat
      /\ Len(a \o b) = Len(a) + Len(b)
      /\ \A i \in 1 .. Len(a) : (a \o b)[i] = a[i]
      /\ \A i \in 1 .. Len(b) : (a \o b)[i + Len(a)] = b[i]
      /\ \A i \in 1 .. Len(a) + Len(b) : i > Len(a) =>
            i - Len(a) \in 1 .. Len(b) /\ (a \o b)[i] = b[i - Len(a)]
  BY ConcatProperties, LenProperties
<1> DEFINE c == a \o b
<1>2. ASSUME Increasing(c) PROVE Increasing(a) /\ Increasing(b) /\ Below(a, b)
  <2>1. \A i, j \in 1 .. Len(a) + Len(b) : i < j => c[i] < c[j]
    BY <1>1, <1>2 DEF Increasing
  <2> HIDE DEF c
  <2>2. \A i \in 1 .. Len(a) : c[i] = a[i] /\ i \in 1 .. Len(a) + Len(b)
    BY <1>1 DEF c
  <2>3. \A i \in 1 .. Len(b) : c[i + Len(a)] = b[i] /\ i + Len(a) \in 1 .. Len(a) + Len(b)
    BY <1>1 DEF c
  <2>4. Increasing(a)
    BY <2>1, <2>2 DEF Increasing
  <2>5. ASSUME NEW i \in 1 .. Len(b), NEW j \in 1 .. Len(b), i < j PROVE b[i] < b[j]
    <3>1. i + Len(a) < j + Len(a)
      BY <1>1, <2>5
    <3>2. QED
      BY <2>1, <2>3, <3>1
  <2>6. ASSUME NEW i \in 1 .. Len(a), NEW j \in 1 .. Len(b) PROVE a[i] < b[j]
    <3>1. i < j + Len(a)
      BY <1>1, <2>6
    <3>2. QED
      BY <2>1, <2>2, <2>3, <3>1
  <2>7. QED
    BY <2>4, <2>5, <2>6 DEF Increasing, Below
<1>3. ASSUME Increasing(a), Increasing(b), Below(a, b) PROVE Increasing(c)
  <2>1. SUFFICES ASSUME NEW i \in 1 .. Len(a) + Len(b), NEW j \in 1 .. Len(a) + Len(b), i < j
                 PROVE  c[i] < c[j]
    BY <1>1 DEF Increasing
  <2>2. CASE j <= Len(a)
    BY <1>1, <1>3, <2>1, <2>2 DEF Increasing
  <2>3. CASE i > Len(a)
    <3>1. i - Len(a) < j - Len(a) /\ j > Len(a)
      BY <1>1, <2>1, <2>3
    <3>2. QED
      BY <1>1, <1>3, <2>1, <2>3, <3>1 DEF Increasing
  <2>4. CASE i <= Len(a) /\ j > Len(a)
    BY <1>1, <1>3, <2>1, <2>4 DEF Below
  <2>5. QED
    BY SMTT(30), <1>1, <2>1, <2>2, <2>3, <2>4
<1>4. QED
  BY <1>2, <1>3

(* A concatenation is free of duplicates when its two halves are and share *)
(* nothing.                                                                *)
LEMMA OnceConcat ==
  ASSUME NEW a \in Seq(Nat), NEW b \in Seq(Nat), Once(a), Once(b), Apart(a, b)
  PROVE  Once(a \o b)
<1>1. /\ Len(a) \in Nat /\ Len(b) \in Nat
      /\ Len(a \o b) = Len(a) + Len(b)
      /\ \A i \in 1 .. Len(a) : (a \o b)[i] = a[i]
      /\ \A i \in 1 .. Len(a) + Len(b) : i > Len(a) =>
            i - Len(a) \in 1 .. Len(b) /\ (a \o b)[i] = b[i - Len(a)]
  BY ConcatProperties, LenProperties
<1> DEFINE c == a \o b
<1>2. SUFFICES ASSUME NEW i \in 1 .. Len(a) + Len(b), NEW j \in 1 .. Len(a) + Len(b),
                      c[i] = c[j]
               PROVE  i = j
  BY <1>1 DEF Once
<1>3. CASE i <= Len(a) /\ j <= Len(a)
  BY <1>1, <1>2, <1>3 DEF Once
<1>4. CASE i > Len(a) /\ j > Len(a)
  <2>1. i - Len(a) = j - Len(a)
    <3>1. /\ i - Len(a) \in 1 .. Len(b) /\ c[i] = b[i - Len(a)]
          /\ j - Len(a) \in 1 .. Len(b) /\ c[j] = b[j - Len(a)]
      BY <1>1, <1>4
    <3> HIDE DEF c
    <3>2. b[i - Len(a)] = b[j - Len(a)]
      BY <1>2, <3>1
    <3>3. QED
      BY <3>1, <3>2 DEF Once
  <2>2. QED
    BY <1>1, <2>1
<1>5. CASE i <= Len(a) /\ j > Len(a)
  BY SMTT(30), <1>1, <1>2, <1>5 DEF Apart
<1>6. CASE i > Len(a) /\ j <= Len(a)
  BY SMTT(30), <1>1, <1>2, <1>6 DEF Apart
<1>7. QED
  BY <1>1, <1>3, <1>4, <1>5, <1>6

(* What holds of all messages of a sequence, or of the order or the        *)
(* distinctness of them, holds of a part of it.                            *)
LEMMA PartKeeps ==
  ASSUME NEW a \in Seq(Nat), NEW b \in Seq(Nat), PartOf(b, a)
  PROVE  /\ Increasing(a) => Increasing(b)
         /\ Once(a) => Once(b)
         /\ \A n \in Nat : UpTo(a, n) => UpTo(b, n)
         /\ \A c \in Seq(Nat) : Below(c, a) => Below(c, b)
         /\ \A c \in Seq(Nat) : Apart(c, a) => Apart(c, b)
         /\ \A c \in Seq(Nat) : Apart(a, c) => Apart(b, c)
<1>1. PICK d \in Nat : /\ Len(b) + d <= Len(a)
                       /\ \A i \in 1 .. Len(b) : b[i] = a[i + d]
  BY DEF PartOf
<1>2. /\ Len(a) \in Nat /\ Len(b) \in Nat
      /\ \A i \in 1 .. Len(b) : i + d \in 1 .. Len(a) /\ b[i] = a[i + d]
  BY <1>1, LenProperties
<1>3. Increasing(a) => Increasing(b)
  <2>1. \A i, j \in 1 .. Len(b) : i < j => i + d < j + d
    BY <1>1, <1>2
  <2>2. QED
    BY <1>2, <2>1 DEF Increasing
<1>4. Once(a) => Once(b)
  <2>1. \A i, j \in 1 .. Len(b) : i + d = j + d => i = j
    BY <1>1, <1>2
  <2>2. QED
    BY <1>2, <2>1 DEF Once
<1>5. QED
  BY <1>2, <1>3, <1>4 DEF UpTo, Below, Apart

LEMMA TailIsPart ==
  ASSUME NEW q \in Seq(Nat), q # <<>>
  PROVE  PartOf(Tail(q), q)
<1>1. /\ Len(q) \in Nat
      /\ Len(Tail(q)) = Len(q) - 1
      /\ \A i \in 1 .. Len(Tail(q)) : Tail(q)[i] = q[i + 1]
  BY HeadTailProperties, LenProperties
<1>2. QED
  BY <1>1 DEF PartOf

(* What Bus::push leaves: a part of the queue, then the message.           *)
LEMMA PushKeeps ==
  ASSUME NEW q \in Seq(Nat), NEW n \in Nat, UpTo(q, n)
  PROVE  /\ Push(q, n + 1) \in Seq(Nat)
         /\ UpTo(Push(q, n + 1), n + 1)
         /\ Increasing(q) => Increasing(Push(q, n + 1))
         /\ Once(q) => Once(Push(q, n + 1))
         /\ \A c \in Seq(Nat) :
              UpTo(c, n) /\ Below(c, q) => Below(c, Push(q, n + 1))
         /\ \A c \in Seq(Nat) :
              UpTo(c, n) /\ Apart(c, q) => Apart(c, Push(q, n + 1))
<1> DEFINE r == IF Len(q) >= MaxQueue THEN Tail(q) ELSE q
           p == Append(r, n + 1)
<1>1. Len(q) >= MaxQueue => q # <<>>
  BY SessionTreeAssumption, EmptySeq
<1>2. r \in Seq(Nat)
  BY <1>1, HeadTailProperties
<1>3. PartOf(r, q)
  <2>1. PartOf(q, q)
    <3>1. Len(q) \in Nat /\ Len(q) + 0 <= Len(q) /\ \A i \in 1 .. Len(q) : q[i] = q[i + 0]
      BY LenProperties
    <3>2. QED
      BY <3>1 DEF PartOf
  <2>2. QED
    BY <1>1, <2>1, TailIsPart
<1>4. Push(q, n + 1) = p
  BY DEF Push
<1> HIDE DEF r
<1>5. /\ Len(r) \in Nat
      /\ p \in Seq(Nat) /\ Len(p) = Len(r) + 1
      /\ \A i \in 1 .. Len(r) : p[i] = r[i]
      /\ p[Len(r) + 1] = n + 1
  BY <1>2, AppendProperties, LenProperties
<1> HIDE DEF p
<1>6. \A i \in 1 .. Len(p) : i \in 1 .. Len(r) \/ i = Len(r) + 1
  BY <1>5
<1>7. UpTo(r, n)
  BY <1>2, <1>3, PartKeeps
<1>8. \A i \in 1 .. Len(r) : p[i] \in Nat /\ p[i] < n + 1
  <2>1. \A i \in 1 .. Len(r) : r[i] \in Nat
    BY <1>2, ElementOfSeq
  <2>2. ASSUME NEW i \in 1 .. Len(r) PROVE p[i] \in Nat /\ p[i] < n + 1
    <3>1. p[i] = r[i] /\ r[i] \in Nat
      BY <1>5, <2>1
    <3>2. r[i] <= n
      BY <1>7 DEF UpTo
    <3>3. QED
      BY <3>1, <3>2
  <2>3. QED
    BY <2>2
<1>9. UpTo(p, n + 1)
  BY SMTT(30), <1>5, <1>6, <1>8 DEF UpTo
<1>10. ASSUME Increasing(q) PROVE Increasing(p)
  <2>1. Increasing(r)
    BY <1>2, <1>3, <1>10, PartKeeps
  <2>2. SUFFICES ASSUME NEW i \in 1 .. Len(p), NEW j \in 1 .. Len(p), i < j
                 PROVE  p[i] < p[j]
    BY DEF Increasing
  <2>3. CASE j \in 1 .. Len(r)
    <3>1. i \in 1 .. Len(r)
      BY <1>5, <2>2, <2>3
    <3>2. r[i] < r[j]
      BY <2>1, <2>2, <2>3, <3>1 DEF Increasing
    <3>3. p[i] = r[i] /\ p[j] = r[j]
      BY <1>5, <2>3, <3>1
    <3>4. QED
      BY <3>2, <3>3
  <2>4. CASE j = Len(r) + 1
    <3>1. i \in 1 .. Len(r)
      BY <1>5, <2>2, <2>4
    <3>2. p[i] < n + 1 /\ p[j] = n + 1
      BY <1>5, <1>8, <2>4, <3>1
    <3>3. QED
      BY <3>2
  <2>5. QED
    BY <1>6, <2>3, <2>4
<1>11. ASSUME Once(q) PROVE Once(p)
  <2>1. Once(r)
    BY <1>2, <1>3, <1>11, PartKeeps
  <2>2. SUFFICES ASSUME NEW i \in 1 .. Len(p), NEW j \in 1 .. Len(p), p[i] = p[j]
                 PROVE  i = j
    BY DEF Once
  <2>3. CASE i \in 1 .. Len(r) /\ j \in 1 .. Len(r)
    BY <1>5, <2>1, <2>2, <2>3 DEF Once
  <2>4. CASE ~(i \in 1 .. Len(r) /\ j \in 1 .. Len(r))
    BY <1>5, <1>6, <1>8, <2>2, <2>4
  <2>5. QED
    BY <2>3, <2>4
<1>12. ASSUME NEW c \in Seq(Nat), UpTo(c, n)
       PROVE  \A i \in 1 .. Len(c) : c[i] \in Nat /\ c[i] < n + 1
  <2>1. \A i \in 1 .. Len(c) : c[i] \in Nat
    BY ElementOfSeq
  <2>2. QED
    BY <1>12, <2>1 DEF UpTo
<1>13. ASSUME NEW c \in Seq(Nat), UpTo(c, n), Below(c, q) PROVE Below(c, p)
  <2>1. Below(c, r)
    BY <1>2, <1>3, <1>13, PartKeeps
  <2>2. QED
    BY <1>5, <1>6, <1>12, <1>13, <2>1 DEF Below
<1>14. ASSUME NEW c \in Seq(Nat), UpTo(c, n), Apart(c, q) PROVE Apart(c, p)
  <2>1. Apart(c, r)
    BY <1>2, <1>3, <1>14, PartKeeps
  <2>2. SUFFICES ASSUME NEW i \in 1 .. Len(c), NEW j \in 1 .. Len(p) PROVE c[i] # p[j]
    BY DEF Apart
  <2>3. CASE j \in 1 .. Len(r)
    BY <1>5, <2>1, <2>2, <2>3 DEF Apart
  <2>4. CASE j = Len(r) + 1
    BY <1>5, <1>12, <1>14, <2>2, <2>4
  <2>5. QED
    BY <1>6, <2>3, <2>4
<1>15. QED
  BY <1>4, <1>5, <1>9, <1>10, <1>11, <1>13, <1>14

(* What Bus::load leaves is a part of the file and what came after it.     *)
LEMMA ReloadIsPart ==
  ASSUME NEW file \in Seq(Nat), NEW fresh \in Seq(Nat)
  PROVE  PartOf(Reload(file, fresh), file \o fresh)
<1> DEFINE all == file \o fresh
           from == IF Len(all) > MaxQueue THEN Len(all) - MaxQueue + 1 ELSE 1
<1>1. all \in Seq(Nat) /\ Len(all) \in Nat
  BY ConcatProperties, LenProperties
<1>2. Reload(file, fresh) = SubSeq(all, from, Len(all))
  BY DEF Reload
<1> HIDE DEF all
<1>3. from \in 1 .. Len(all) + 1
  BY <1>1, SessionTreeAssumption
<1> HIDE DEF from
<1>4. /\ Len(SubSeq(all, from, Len(all))) = Len(all) - from + 1
      /\ \A i \in 1 .. Len(all) - from + 1 :
           SubSeq(all, from, Len(all))[i] = all[i + (from - 1)]
  <2>1. \A i \in from .. Len(all) : all[i] \in Nat
    BY <1>1, <1>3, ElementOfSeq
  <2>2. /\ Len(SubSeq(all, from, Len(all))) = IF from <= Len(all) THEN Len(all) - from + 1 ELSE 0
        /\ \A i \in 1 .. Len(all) - from + 1 :
             SubSeq(all, from, Len(all))[i] = all[from + i - 1]
    BY <1>1, <1>3, <2>1, SubSeqProperties
  <2>3. \A i \in 1 .. Len(all) - from + 1 : from + i - 1 = i + (from - 1)
    BY <1>1, <1>3
  <2>4. QED
    BY <1>1, <1>3, <2>2, <2>3
<1>5. from - 1 \in Nat /\ Len(all) - from + 1 + (from - 1) <= Len(all)
  BY <1>1, <1>3
<1>6. PartOf(SubSeq(all, from, Len(all)), all)
  BY <1>4, <1>5 DEF PartOf
<1>7. QED
  BY <1>2, <1>6 DEF all

----------------------------------------------------------------------------
(* A slot that says running has a loop.                                    *)

(* The sessions that are started get a slot and a task at once.            *)
LEMMA StartedHasLoop ==
  ASSUME TypeOK, RunningHasLoop, NEW S
  PROVE  \A s \in Session :
            Started(S)[s] = "Running" => Tasked(S)[s] \in Live \cup Outcome
BY DEF RunningHasLoop, Started, Tasked

LEMMA RunningHasLoopStep ==
  ASSUME "panic" \notin Faults, TreeInv, RunningHasLoop, [Next]_vars
  PROVE  RunningHasLoop'
<1> USE DEF TreeInv
<1>1. ASSUME NEW S, slot' = Started(S), task' = Tasked(S) PROVE RunningHasLoop'
  BY <1>1, StartedHasLoop DEF RunningHasLoop
<1>2. ASSUME task' = task, \A s \in Session : slot'[s] = "Running" => slot[s] = "Running"
      PROVE  RunningHasLoop'
  BY <1>2 DEF RunningHasLoop
<1>3. ASSUME NEW s \in Session, NEW next \in Live \cup Outcome, Goto(s, next), slot' = slot
      PROVE  RunningHasLoop'
  BY <1>3 DEF RunningHasLoop, Goto, TypeOK
<1>4. ASSUME NEW S, OffloadSlots(S), task' = task PROVE RunningHasLoop'
  BY <1>2, <1>4 DEF OffloadSlots
<1>5. ASSUME NEW s \in Session, NEW p \in Session \cup {NoSession}, Spawn(s, p)
      PROVE  RunningHasLoop'
  BY <1>1, <1>2, <1>5 DEF Spawn
<1>6. ASSUME NEW s \in Session, Send(s) PROVE RunningHasLoop'
  BY <1>1, <1>6 DEF Send
<1>7. ASSUME NEW s \in Session, Pause(s) PROVE RunningHasLoop'
  BY <1>2, <1>7 DEF Pause, Control, TypeOK
<1>8. ASSUME NEW s \in Session, Resume(s) PROVE RunningHasLoop'
  BY <1>1, <1>8 DEF Resume
<1>9. ASSUME NEW s \in Session, Kill(s) PROVE RunningHasLoop'
  <2>1. slot' = slot \/ \E v \in {"Paused", "Absent"} : slot' = [slot EXCEPT ![s] = v]
    BY <1>9 DEF Kill, Control
  <2>2. QED
    BY <1>2, <1>9, <2>1 DEF Kill, TypeOK
<1>10. ASSUME NEW s \in Session, Offload(s) PROVE RunningHasLoop'
  BY <1>4, <1>10 DEF Offload
<1>11. ASSUME Sweep PROVE RunningHasLoop'
  BY <1>4, <1>11 DEF Sweep
<1>12. ASSUME NEW s \in Session, Prepare(s) PROVE RunningHasLoop'
  BY <1>3, <1>12 DEF Prepare, Finish
<1>13. ASSUME NEW s \in Session, CheckControl(s) PROVE RunningHasLoop'
  BY <1>3, <1>13 DEF CheckControl, Finish, Stopped
<1>14. ASSUME NEW s \in Session, Drain(s) PROVE RunningHasLoop'
  BY <1>3, <1>14 DEF Drain, TakeInbox
<1>15. ASSUME NEW s \in Session, AwaitModel(s) PROVE RunningHasLoop'
  <2>1. \E next \in Live \cup Outcome : Goto(s, next)
    BY <1>15 DEF AwaitModel, Finish, Stopped
  <2>2. QED
    BY <1>3, <1>15, <2>1 DEF AwaitModel
<1>16. ASSUME NEW s \in Session, EndTurn(s) PROVE RunningHasLoop'
  <2>1. \E next \in Live \cup Outcome : Goto(s, next)
    BY <1>16 DEF EndTurn, Finish
  <2>2. QED
    BY <1>3, <1>16, <2>1 DEF EndTurn
<1>17. ASSUME NEW s \in Session, Join(s) PROVE RunningHasLoop'
  <2>1. PICK S, q :
          /\ slot' = [Started(S) EXCEPT ![s] =
                        IF Rewakes(s, q) THEN "Running"
                        ELSE IF ParksIdle(s) THEN "Idle" ELSE "Paused"]
          /\ task' = [Tasked(S) EXCEPT ![s] = IF Rewakes(s, q) THEN "init" ELSE "none"]
    BY <1>17 DEF Join
  <2>2. /\ Started(S) \in [Session -> SlotState]
        /\ Tasked(S) \in [Session -> TaskState]
    BY StartType
  <2>3. slot'[s] = "Running" => task'[s] = "init"
    BY <2>1, <2>2
  <2>4. \A r \in Session : r # s => slot'[r] = Started(S)[r] /\ task'[r] = Tasked(S)[r]
    BY <2>1, <2>2
  <2>5. QED
    BY <2>3, <2>4, StartedHasLoop DEF RunningHasLoop
<1>18. ASSUME ExitProcess PROVE RunningHasLoop'
  BY <1>18 DEF ExitProcess, RunningHasLoop
<1>19. ASSUME Restart PROVE RunningHasLoop'
  BY <1>2, <1>19 DEF Restart
<1>20. ASSUME UNCHANGED <<slot, task>> PROVE RunningHasLoop'
  BY <1>2, <1>20
<1>21. ASSUME NEW s \in Session, Ask(s) \/ Answer(s) \/ NeverEnds(s) PROVE RunningHasLoop'
  BY <1>3, <1>21 DEF Ask, Answer, NeverEnds
<1>22. QED
  BY <1>5, <1>6, <1>7, <1>8, <1>9, <1>10, <1>11, <1>12, <1>13, <1>14, <1>15,
     <1>16, <1>17, <1>18, <1>19, <1>20, <1>21
     DEF Next, vars, Recv, TakeInbox, Panic, Unblock, BeginShutdown, EndShutdown, Crash

(* Unless a task panics, a slot that says running always has a loop behind *)
(* it (session/mod.rs "The loop task is alive."), so its session goes on.  *)
THEOREM RunningIsAlive ==
  ASSUME "panic" \notin Faults
  PROVE  Spec => []RunningHasLoop
<1>1. Init => RunningHasLoop
  BY DEF Init, RunningHasLoop
<1>2. TreeInv /\ RunningHasLoop /\ [Next]_vars => RunningHasLoop'
  BY RunningHasLoopStep
<1>3. QED
  BY <1>1, <1>2, TreeInvCorrect, PTL DEF Spec

----------------------------------------------------------------------------
(* What is on disk of a session that is not in RAM.                        *)

(* The sessions whose inbox file a wake would read.                        *)
OnFile(s) == slot[s] \in {"Offloaded", "Absent"}

(* The inductive form of the first half of OffloadedIsOnDisk: the same     *)
(* holds of a session that lost its slot, since the next process offers it *)
(* again; a process that has ended has no slots and no queues; and what    *)
(* was never saved has no inbox file.                                      *)
SlotsAreOnDisk == \A s \in Session : slot[s] # "Absent" => s \in disk
FilesAreFresh == \A s \in Session : OnFile(s) => history[s] = saved[s] /\ s \notin lua
QueuesAreInRam ==
  \A s \in Session :
     /\ slot[s] = "Offloaded" /\ "load" \notin Faults => queue[s] = <<>>
     /\ slot[s] = "Absent" /\ {"load", "save"} \cap Faults = {} => queue[s] = <<>>
DownIsEmpty ==
  phase = "down" => \A s \in Session : slot[s] = "Absent" /\ queue[s] = <<>>
InboxesAreOnDisk == \A s \in Session : s \notin disk => inbox[s] = <<>>

RestsOnDisk ==
  SlotsAreOnDisk /\ FilesAreFresh /\ QueuesAreInRam /\ DownIsEmpty /\ InboxesAreOnDisk

(* A save, that fails or not, leaves in history.json what was there or the *)
(* history that is in RAM, and no other file is touched.                   *)
LEMMA SaveShape ==
  ASSUME TypeOK, NEW s \in Session, Save(s)
  PROVE  /\ saved'[s] \in {saved[s], history[s]}
         /\ \A r \in Session : r # s => saved'[r] = saved[r]
BY DEF Save, TypeOK

(* Unloading a set of parked sessions, one by one.                         *)
LEMMA UnloadShape ==
  ASSUME TypeOK, NEW S, S \subseteq {r \in Session : slot[r] \in {"Idle", "Paused"}},
         NEW gone \in Some("save", S), NEW half \in SUBSET gone,
         NEW unwritten \in Some("inbox", S), OffloadEach(S, gone, half, unwritten)
  PROVE  /\ gone \subseteq S
         /\ gone # {} => "save" \in Faults
         /\ \A s \in S \ gone :
              /\ saved'[s] = history[s]
              /\ \/ inbox'[s] = queue[s]
                 \/ inbox'[s] = inbox[s] /\ "inbox" \in Faults
         /\ \A s \in gone : saved'[s] \in {saved[s], history[s]} /\ inbox'[s] = inbox[s]
         /\ \A s \in Session \ S : saved'[s] = saved[s] /\ inbox'[s] = inbox[s]
<1>1. /\ gone \subseteq S /\ unwritten \subseteq S
      /\ gone # {} => "save" \in Faults
      /\ unwritten # {} => "inbox" \in Faults
  BY DEF Some
<1>2. QED
  BY <1>1 DEF OffloadEach

LEMMA RestsOnDiskStep == TreeInv /\ RestsOnDisk /\ [Next]_vars => RestsOnDisk'
<1> SUFFICES ASSUME TreeInv, RestsOnDisk, [Next]_vars PROVE RestsOnDisk'
  OBVIOUS
<1> USE DEF TreeInv, RestsOnDisk
<1>0. slot \in [Session -> SlotState] /\ disk \subseteq Session /\ lua \subseteq Session
  BY DEF TypeOK
(* Sessions that are in RAM after the step may have done anything; the     *)
(* others are as they were, but for a message to one that cannot be read.  *)
<1>1. ASSUME NEW S \in SUBSET Session, phase # "down", phase' # "down",
             disk \subseteq disk', lua' \subseteq lua \cup S,
             \A r \in S : r \in disk' /\ slot'[r] \in {"Running", "Idle", "Paused"},
             \A r \in Session \ S :
                /\ slot'[r] = slot[r] /\ history'[r] = history[r] /\ saved'[r] = saved[r]
                /\ \/ queue'[r] = queue[r]
                   \/ slot[r] = "Offloaded" /\ "load" \in Faults,
             \A r \in Session \ disk : inbox'[r] = inbox[r]
      PROVE  RestsOnDisk'
  <2>1. SlotsAreOnDisk' /\ DownIsEmpty'
    BY <1>1 DEF SlotsAreOnDisk, DownIsEmpty
  <2>2. FilesAreFresh'
    BY <1>1 DEF FilesAreFresh, OnFile
  <2>3. QueuesAreInRam'
    BY <1>1 DEF QueuesAreInRam
  <2>4. InboxesAreOnDisk'
    BY <1>1 DEF InboxesAreOnDisk
  <2>5. QED
    BY <2>1, <2>2, <2>3, <2>4
<1>one. ASSUME NEW s \in Session, phase # "down", phase' # "down",
               disk \subseteq disk', lua' \subseteq lua \cup {s},
               s \in disk', slot'[s] \in {"Running", "Idle", "Paused"},
               \A r \in Session : r # s =>
                  /\ slot'[r] = slot[r] /\ history'[r] = history[r] /\ saved'[r] = saved[r]
                  /\ queue'[r] = queue[r],
               \A r \in Session \ disk : inbox'[r] = inbox[r]
        PROVE  RestsOnDisk'
  <2> DEFINE S == {s}
  <2>1. S \in SUBSET Session /\ \A r \in Session \ S : r # s
    OBVIOUS
  <2>2. lua' \subseteq lua \cup S
    BY <1>one
  <2>3. \A r \in S : r \in disk' /\ slot'[r] \in {"Running", "Idle", "Paused"}
    BY <1>one
  <2> HIDE DEF S
  <2>4. QED
    BY <1>1, <1>one, <2>1, <2>2, <2>3
<1>none. ASSUME phase # "down", phase' # "down", disk \subseteq disk',
                UNCHANGED <<slot, history, saved, queue, inbox, lua>>
         PROVE  RestsOnDisk'
  BY <1>none DEF SlotsAreOnDisk, FilesAreFresh, OnFile, QueuesAreInRam, DownIsEmpty,
     InboxesAreOnDisk
<1>2. ASSUME NEW s \in Session, slot[s] = "Running", phase # "down",
             UNCHANGED <<phase, slot, disk, inbox>>, lua' \subseteq lua \cup {s},
             \A r \in Session : r # s =>
                /\ history'[r] = history[r]
                /\ saved'[r] = saved[r]
                /\ queue'[r] = queue[r]
      PROVE  RestsOnDisk'
  <2>1. s \in disk
    BY <1>2 DEF SlotsAreOnDisk
  <2>2. QED
    BY <1>one, <1>2, <2>1
<1>3. ASSUME NEW s \in Session, task[s] # "none"
      PROVE  slot[s] = "Running" /\ phase # "down" /\ s \in disk
  BY <1>3 DEF OneLoop, DownHasNoTask, SlotsAreOnDisk
<1>4. ASSUME NEW s \in Session, NEW p \in Session \cup {NoSession}, Spawn(s, p)
      PROVE  RestsOnDisk'
  <2>1. CASE slot' = Started({s}) /\ disk' = disk \cup {s}
    BY <1>one, <1>4, <2>1 DEF Spawn, Started
  <2>2. CASE slot' = slot /\ disk' \in {disk, disk \cup {s}}
    <3>1. disk \subseteq disk' /\ phase # "down" /\ phase' # "down"
          /\ UNCHANGED <<queue, inbox, history, saved, lua>>
      BY <1>4, <2>2 DEF Spawn
    <3>2. QED
      BY <1>none, <2>2, <3>1
  <2>3. QED
    BY <1>4, <2>1, <2>2 DEF Spawn
<1>5. ASSUME NEW s \in Session, Send(s) PROVE RestsOnDisk'
  <2>1. PICK fault \in ReloadFaults(s) :
          /\ slot' = Started(Woken(s, fault))
          /\ queue' = QueuesAfter(s, fault)
          /\ inbox' = InboxesAfter(s, fault)
    BY <1>5 DEF Send
  <2> DEFINE S == IF slot[s] = "Offloaded" /\ fault = "load" THEN {} ELSE {s}
  <2>2. s \in disk /\ slot[s] # "Absent"
    BY <1>5 DEF Send, SlotsAreOnDisk
  <2>3. fault = "load" => "load" \in Faults
    BY DEF ReloadFaults
  <2>4. /\ \A r \in Session : r # s => queue'[r] = queue[r] /\ inbox'[r] = inbox[r]
        /\ \A r \in Session : r # s => slot'[r] = slot[r]
    BY <2>1, SendType DEF Started, Woken
  <2>5. s \in S => slot'[s] \in {"Running", "Idle", "Paused"}
    BY <1>0, <2>1, <2>2 DEF Started, Woken, Wakes, Reloads
  <2>6. s \notin S => slot'[s] = slot[s] /\ slot[s] = "Offloaded" /\ "load" \in Faults
    BY <1>0, <2>1, <2>3 DEF Started, Woken, Wakes, Reloads
  <2>7. UNCHANGED <<history, saved, disk, lua, phase>> /\ phase = "up"
    BY <1>5 DEF Send
  <2>8. S \in SUBSET Session /\ S \subseteq {s}
    OBVIOUS
  <2> HIDE DEF S
  <2>9. QED
    BY <1>1, <2>2, <2>4, <2>5, <2>6, <2>7, <2>8
<1>6. ASSUME NEW s \in Session, Pause(s) PROVE RestsOnDisk'
  <2>1. \/ slot' = slot /\ slot[s] = "Running"
        \/ slot' = [slot EXCEPT ![s] = "Paused"] /\ slot[s] = "Idle"
    BY <1>6 DEF Pause, Control
  <2>2. s \in disk /\ slot'[s] \in {"Running", "Paused"}
    BY <1>0, <2>1 DEF SlotsAreOnDisk
  <2>3. UNCHANGED <<queue, inbox, history, saved, disk, lua, phase>> /\ phase = "up"
    BY <1>6 DEF Pause, Control
  <2>4. QED
    BY <1>0, <1>one, <2>1, <2>2, <2>3
<1>7. ASSUME NEW s \in Session, Resume(s) PROVE RestsOnDisk'
  <2>1. PICK fault \in ReloadFaults(s) :
          /\ slot[s] = "Paused" \/ Wakes(s, fault)
          /\ slot' = Started({s})
          /\ queue' = [queue EXCEPT ![s] =
                         IF ReadsInbox(s, fault) THEN Reload(inbox[s], @) ELSE @]
          /\ inbox' = InboxesAfter(s, fault)
    BY <1>7 DEF Resume
  <2>2. s \in disk
    BY <2>1 DEF SlotsAreOnDisk, Wakes, Reloads
  <2>3. \A r \in Session : r # s => queue'[r] = queue[r] /\ inbox'[r] = inbox[r]
    BY <2>1, SendType DEF TypeOK
  <2>4. UNCHANGED <<history, saved, disk, lua, phase>> /\ phase = "up"
    BY <1>7 DEF Resume
  <2>5. \A r \in Session : slot'[r] = IF r = s THEN "Running" ELSE slot[r]
    BY <2>1 DEF Started
  <2>6. QED
    BY <1>one, <2>2, <2>3, <2>4, <2>5
<1>8. ASSUME NEW s \in Session, Kill(s) PROVE RestsOnDisk'
  <2>1. UNCHANGED <<queue, inbox, history, disk, lua, phase>> /\ phase = "up"
    BY <1>8 DEF Kill, Control
  <2>2. slot[s] # "Absent" /\ s \in disk
    BY <1>8 DEF Kill, Control, SlotsAreOnDisk
  <2>3. CASE slot[s] # "Offloaded" \/ slot'[s] = "Paused"
    <3>1. slot'[s] \in {"Running", "Paused"}
      BY <1>0, <1>8, <2>3 DEF Kill, Control
    <3>2. \A r \in Session : r # s => slot'[r] = slot[r] /\ saved'[r] = saved[r]
      BY <1>0, <1>8, SaveShape DEF Kill, Control
    <3>3. QED
      BY <1>one, <2>1, <2>2, <3>1, <3>2
  <2>4. CASE slot[s] = "Offloaded" /\ slot'[s] # "Paused"
    <3>1. /\ saved' = saved /\ "load" \in Faults
          /\ slot' = [slot EXCEPT ![s] = "Absent"]
      BY <1>0, <1>8, <2>4 DEF Kill, Control, May
    <3>2. \A r \in Session : slot'[r] = IF r = s THEN "Absent" ELSE slot[r]
      BY <1>0, <3>1
    <3>3. SlotsAreOnDisk' /\ DownIsEmpty' /\ InboxesAreOnDisk'
      BY <2>1, <3>2 DEF SlotsAreOnDisk, DownIsEmpty, InboxesAreOnDisk
    <3>4. FilesAreFresh'
      BY <2>1, <2>4, <3>1, <3>2 DEF FilesAreFresh, OnFile
    <3>5. QueuesAreInRam'
      BY <2>1, <3>1, <3>2 DEF QueuesAreInRam
    <3>6. QED
      BY <3>3, <3>4, <3>5
  <2>5. QED
    BY <2>3, <2>4
(* A session that is unloaded leaves its history and no runtime; it has no *)
(* slot when a save failed, and then its queue may stay.                   *)
<1>9. ASSUME NEW S, S \subseteq {r \in Session : slot[r] \in {"Idle", "Paused"}},
             OffloadSlots(S), phase = "up", phase' = phase, disk' = disk
      PROVE  RestsOnDisk'
  <2>1. PICK gone \in Some("save", S) : \E half \in SUBSET gone, unwritten \in Some("inbox", S) :
          /\ OffloadEach(S, gone, half, unwritten)
          /\ slot' = [s \in Session |-> IF s \in gone THEN "Absent"
                                        ELSE IF s \in S THEN "Offloaded" ELSE slot[s]]
          /\ queue' = [s \in Session |-> IF s \in S \ gone THEN <<>> ELSE queue[s]]
          /\ history' = [s \in Session |-> IF s \in gone THEN saved'[s] ELSE history[s]]
          /\ lua' = lua \ S
    BY <1>9 DEF OffloadSlots
  <2>2. /\ gone \subseteq S
        /\ gone # {} => "save" \in Faults
        /\ \A s \in S \ gone : saved'[s] = history[s]
        /\ \A s \in Session \ S : saved'[s] = saved[s] /\ inbox'[s] = inbox[s]
    BY <1>9, <2>1, UnloadShape
  <2>3. S \subseteq disk
    BY <1>9 DEF SlotsAreOnDisk
  <2>4. SlotsAreOnDisk' /\ DownIsEmpty' /\ InboxesAreOnDisk'
    BY <1>9, <2>1, <2>2, <2>3 DEF SlotsAreOnDisk, DownIsEmpty, InboxesAreOnDisk
  <2>5. FilesAreFresh'
    BY <1>9, <2>1, <2>2 DEF FilesAreFresh, OnFile
  <2>6. QueuesAreInRam'
    BY <2>1, <2>2 DEF QueuesAreInRam
  <2>7. QED
    BY <2>4, <2>5, <2>6
<1>10. ASSUME NEW s \in Session, Offload(s) PROVE RestsOnDisk'
  BY <1>9, <1>10 DEF Offload, Unloadable
<1>11. ASSUME Sweep PROVE RestsOnDisk'
  BY <1>9, <1>11 DEF Sweep
<1>12. ASSUME NEW s \in Session, Prepare(s) PROVE RestsOnDisk'
  <2>1. \A r \in Session : r # s => saved'[r] = saved[r]
    BY <1>12, SaveShape DEF Prepare, Finish
  <2>2. UNCHANGED <<phase, slot, disk, inbox, history, queue>> /\ lua' \subseteq lua \cup {s}
    BY <1>12 DEF Prepare, Finish
  <2>3. task[s] # "none"
    BY <1>12 DEF Prepare
  <2>4. QED
    BY <1>2, <1>3, <2>1, <2>2, <2>3
<1>13. ASSUME NEW s \in Session, CheckControl(s) PROVE RestsOnDisk'
  BY <1>2, <1>3, <1>13, SaveShape DEF CheckControl, Finish
<1>14. ASSUME NEW s \in Session, TakeInbox(s), task[s] # "none" PROVE RestsOnDisk'
  <2>1. \A r \in Session : r # s => history'[r] = history[r] /\ queue'[r] = queue[r]
    BY <1>14 DEF TakeInbox, TypeOK
  <2>2. UNCHANGED <<phase, slot, disk, inbox, saved, lua>>
    BY <1>14 DEF TakeInbox
  <2>3. QED
    BY <1>2, <1>3, <1>14, <2>1, <2>2
<1>15. ASSUME NEW s \in Session, AwaitModel(s) PROVE RestsOnDisk'
  <2>1. \A r \in Session : r # s => saved'[r] = saved[r]
    BY <1>15, SaveShape DEF AwaitModel, Finish
  <2>2. QED
    BY <1>2, <1>3, <1>15, <2>1 DEF AwaitModel
<1>16. ASSUME NEW s \in Session, EndTurn(s) PROVE RestsOnDisk'
  <2>1. \A r \in Session : r # s => saved'[r] = saved[r]
    BY <1>16, SaveShape DEF EndTurn, Finish
  <2>2. QED
    BY <1>2, <1>3, <1>16, <2>1 DEF EndTurn
<1>17. ASSUME NEW s \in Session, Panic(s) \/ Ask(s) \/ Answer(s) \/ NeverEnds(s)
       PROVE  RestsOnDisk'
  BY <1>2, <1>3, <1>17 DEF Panic, Ask, Answer, NeverEnds
<1>18. ASSUME NEW s \in Session, Join(s) PROVE RestsOnDisk'
  <2>1. PICK fault \in IF Reports(s) THEN ReloadFaults(parent[s]) ELSE {"none"} :
          LET p == parent[s]
              q == IF Reports(s) THEN QueuesAfter(p, fault) ELSE queue
              woken == IF Reports(s) THEN Woken(p, fault) ELSE {}
          IN  /\ queue' = q
              /\ inbox' = IF Reports(s) THEN InboxesAfter(p, fault) ELSE inbox
              /\ slot' = [Started(woken) EXCEPT ![s] =
                            IF Rewakes(s, q) THEN "Running"
                            ELSE IF ParksIdle(s) THEN "Idle" ELSE "Paused"]
    BY <1>18 DEF Join
  <2> DEFINE p == parent[s]
             S == {s} \cup (IF Reports(s) /\ ~(slot[p] = "Offloaded" /\ fault = "load")
                            THEN {p} ELSE {})
  <2>2. /\ slot[s] = "Running" /\ phase # "down" /\ s \in disk
        /\ UNCHANGED <<history, disk, lua, phase>>
        /\ \A r \in Session : r # s => saved'[r] = saved[r]
    BY <1>3, <1>18, SaveShape DEF Join
  <2>3. Reports(s) => p \in Session /\ slot[p] # "Absent" /\ p \in disk
    BY DEF Reports, TypeOK, SlotsAreOnDisk
  <2>4. fault = "load" => "load" \in Faults
    BY DEF ReloadFaults
  <2>5. S \in SUBSET Session /\ S \subseteq disk
    BY <2>2, <2>3
  <2>6. \A r \in Session : r # s /\ (~Reports(s) \/ r # p) =>
          slot'[r] = slot[r] /\ queue'[r] = queue[r]
    BY <2>1, <2>3, SendType, StartType DEF Started, Woken
  <2>7. \A r \in Session : ~Reports(s) \/ r # p => inbox'[r] = inbox[r]
    BY <2>1, <2>3, SendType
  <2>8. slot'[s] \in {"Running", "Idle", "Paused"}
    BY <2>1, StartType
  <2>9. Reports(s) /\ p # s =>
          IF slot[p] = "Offloaded" /\ fault = "load"
          THEN slot'[p] = slot[p]
          ELSE slot'[p] \in {"Running", "Idle", "Paused"}
    BY <1>0, <2>1, <2>3, <2>4, StartType DEF Started, Woken, Wakes, Reloads
  <2>10. \A r \in S : slot'[r] \in {"Running", "Idle", "Paused"}
    BY <2>8, <2>9
  <2>11. \A r \in Session \ S : slot'[r] = slot[r] /\
            (queue'[r] = queue[r] \/ (slot[r] = "Offloaded" /\ "load" \in Faults))
    <3>1. SUFFICES ASSUME NEW r \in Session \ S
                   PROVE  slot'[r] = slot[r] /\
                          (queue'[r] = queue[r] \/ (slot[r] = "Offloaded" /\ "load" \in Faults))
      OBVIOUS
    <3>2. r # s
      OBVIOUS
    <3>3. CASE Reports(s) /\ r = p
      <4>1. slot[p] = "Offloaded" /\ fault = "load"
        BY <3>3
      <4>2. QED
        BY <2>4, <2>9, <3>2, <3>3, <4>1
    <3>4. CASE ~Reports(s) \/ r # p
      <4>1. slot'[r] = slot[r] /\ queue'[r] = queue[r]
        BY <2>6, <3>2, <3>4
      <4>2. QED
        BY <4>1
    <3>5. QED
      BY <3>3, <3>4
  <2>12. \A r \in Session \ disk : inbox'[r] = inbox[r]
    BY <2>3, <2>7
  <2>13. s \in S
    OBVIOUS
  <2> HIDE DEF S
  <2>14. QED
    BY <1>1, <2>2, <2>5, <2>10, <2>11, <2>12, <2>13
<1>19. ASSUME BeginShutdown PROVE RestsOnDisk'
  <2>1. UNCHANGED <<slot, queue, inbox, history, saved, disk, lua>>
        /\ phase # "down" /\ phase' # "down"
    BY <1>19 DEF BeginShutdown
  <2>2. QED
    BY <1>none, <2>1
<1>20. ASSUME ExitProcess, disk' = disk, \A s \in Session \ disk : inbox'[s] = inbox[s]
       PROVE  RestsOnDisk'
  BY <1>20 DEF ExitProcess, SlotsAreOnDisk, FilesAreFresh, OnFile, QueuesAreInRam,
     DownIsEmpty, InboxesAreOnDisk
<1>21. ASSUME EndShutdown PROVE RestsOnDisk'
  <2>1. {r \in Session : slot[r] \in {"Idle", "Paused"}} \subseteq disk
    BY DEF SlotsAreOnDisk
  <2>2. \A s \in Session \ disk : inbox'[s] = inbox[s]
    BY <1>21, <2>1, UnloadShape DEF EndShutdown
  <2>3. QED
    BY <1>20, <1>21, <2>2 DEF EndShutdown
<1>22. ASSUME Crash PROVE RestsOnDisk'
  BY <1>20, <1>22 DEF Crash
<1>23. ASSUME Restart PROVE RestsOnDisk'
  BY <1>23 DEF Restart, SlotsAreOnDisk, FilesAreFresh, OnFile, QueuesAreInRam,
     DownIsEmpty, InboxesAreOnDisk
<1>24. ASSUME UNCHANGED <<phase, slot, queue, inbox, history, saved, disk, lua>>
       PROVE  RestsOnDisk'
  BY <1>24 DEF SlotsAreOnDisk, FilesAreFresh, OnFile, QueuesAreInRam, DownIsEmpty,
     InboxesAreOnDisk
<1>25. QED
  BY <1>4, <1>5, <1>6, <1>7, <1>8, <1>10, <1>11, <1>12, <1>13, <1>14, <1>15,
     <1>16, <1>17, <1>18, <1>19, <1>21, <1>22, <1>23, <1>24
     DEF Next, vars, Drain, Recv, Unblock

LEMMA RestsOnDiskCorrect == Spec => []RestsOnDisk
<1>1. Init => RestsOnDisk
  BY DEF Init, RestsOnDisk, SlotsAreOnDisk, FilesAreFresh, OnFile, QueuesAreInRam,
     DownIsEmpty, InboxesAreOnDisk
<1>2. QED
  BY <1>1, RestsOnDiskStep, TreeInvCorrect, PTL DEF Spec

----------------------------------------------------------------------------
(* What a step may do to the mail of a session.                            *)

(* Its mail stays where it is; only a spawn and a kill change whether the  *)
(* inbox file still counts.  A session gets an offloaded slot with nothing *)
(* in its queue.                                                           *)
Kept(s) ==
  /\ history'[s] = history[s] /\ queue'[s] = queue[s] /\ inbox'[s] = inbox[s]
  /\ \/ ~OnFile(s) /\ ~OnFile(s)' /\ saved'[s] \in {saved[s], history[s]}
     \/ /\ OnFile(s) /\ OnFile(s)' /\ saved'[s] = saved[s]
        /\ slot'[s] = "Offloaded" => slot[s] = "Offloaded" \/ queue[s] = <<>>
     \/ slot[s] = "Absent" /\ s \notin disk /\ ~OnFile(s)' /\ saved'[s] = saved[s]
     \/ slot[s] = "Offloaded" /\ Kill(s) /\ ~OnFile(s)' /\ saved'[s] = saved[s]

(* Bus::load of the file in front of q: it is read and removed, or cannot  *)
(* be removed, or cannot be read.                                          *)
FileRead(s, q) ==
  \/ queue'[s] = Reload(inbox[s], q) /\ inbox'[s] = <<>>
  \/ queue'[s] = Reload(inbox[s], q) /\ inbox'[s] = inbox[s] /\ "unlink" \in Faults
  \/ queue'[s] = q /\ inbox'[s] = inbox[s] /\ "unread" \in Faults

(* It is woken without a message.                                          *)
WokenUp(s) ==
  /\ slot[s] = "Offloaded" /\ ~OnFile(s)'
  /\ history'[s] = history[s] /\ saved'[s] = saved[s]
  /\ FileRead(s, queue[s])

(* It leaves RAM, and its mail goes to its file.                           *)
Unloaded(s) ==
  /\ ~OnFile(s) /\ OnFile(s)'
  /\ history'[s] = history[s] /\ saved'[s] = history[s] /\ queue'[s] = <<>>
  /\ inbox'[s] = queue[s] \/ (inbox'[s] = inbox[s] /\ "inbox" \in Faults)

(* It leaves RAM without its mail.                                         *)
Dropped(s) ==
  /\ ~OnFile(s) /\ slot'[s] = "Absent" /\ {"save", "crash", "panic"} \cap Faults # {}
  /\ saved'[s] \in {saved[s], history[s]} /\ history'[s] = saved'[s]
  /\ queue'[s] \in {queue[s], <<>>} /\ inbox'[s] = inbox[s]

(* The process ends while it is on disk only.                              *)
LeftOnDisk(s) ==
  /\ OnFile(s) /\ OnFile(s)'
  /\ saved'[s] = saved[s] /\ history'[s] = saved[s]
  /\ queue'[s] = <<>> /\ inbox'[s] = inbox[s]

Quiet(s) == Kept(s) \/ WokenUp(s) \/ Unloaded(s) \/ Dropped(s) \/ LeftOnDisk(s)

(* A message is accepted for it, and wakes it when it is offloaded.        *)
Delivered(s) ==
  /\ sent' = sent + 1
  /\ history'[s] = history[s]
  /\ \/ /\ queue'[s] = Push(queue[s], sent + 1) /\ inbox'[s] = inbox[s]
        /\ \/ ~OnFile(s) /\ ~OnFile(s)' /\ saved'[s] \in {saved[s], history[s]}
           \/ slot[s] = "Offloaded" /\ OnFile(s)' /\ saved'[s] = saved[s] /\ "load" \in Faults
     \/ /\ slot[s] = "Offloaded" /\ ~OnFile(s)' /\ saved'[s] = saved[s]
        /\ FileRead(s, Push(queue[s], sent + 1))

(* Its loop takes its inbox.                                               *)
Taken(s) ==
  /\ ~OnFile(s) /\ ~OnFile(s)' /\ sent' = sent
  /\ history'[s] = history[s] \o queue[s] /\ queue'[s] = <<>>
  /\ inbox'[s] = inbox[s] /\ saved'[s] = saved[s]

(* Every step delivers one message, takes one inbox, or does neither.      *)
MailSteps ==
  \/ sent' = sent /\ \A s \in Session : Quiet(s)
  \/ \E s \in Session : Delivered(s) /\ \A r \in Session : r # s => Kept(r)
  \/ \E s \in Session : Taken(s) /\ \A r \in Session : r # s => Kept(r)

LEMMA MailShape ==
  ASSUME TreeInv, RestsOnDisk, "panic" \notin Faults => RunningHasLoop, [Next]_vars
  PROVE  MailSteps
<1> USE DEF TreeInv
<1>0. slot \in [Session -> SlotState] /\ task \in [Session -> TaskState]
  BY DEF TypeOK
<1>1. ASSUME NEW r \in Session, slot'[r] = slot[r], history'[r] = history[r],
             queue'[r] = queue[r], inbox'[r] = inbox[r], saved'[r] = saved[r]
      PROVE  Kept(r)
  BY <1>1 DEF Kept, OnFile
<1>2. ASSUME NEW r \in Session, slot[r] \in {"Running", "Idle", "Paused"},
             slot'[r] \in {"Running", "Idle", "Paused"}, history'[r] = history[r],
             queue'[r] = queue[r], inbox'[r] = inbox[r], saved'[r] \in {saved[r], history[r]}
      PROVE  Kept(r)
  BY <1>2 DEF Kept, OnFile
<1>3. ASSUME sent' = sent, \A s \in Session : Quiet(s) PROVE MailSteps
  BY <1>3 DEF MailSteps
<1>4. ASSUME NEW s \in Session, task[s] # "none" PROVE slot[s] = "Running"
  BY <1>4 DEF OneLoop
<1>5. ASSUME NEW s \in Session, NEW p \in Session \cup {NoSession}, Spawn(s, p)
      PROVE  MailSteps
  <2>1. UNCHANGED <<queue, inbox, history, saved, sent>> /\ slot[s] = "Absent" /\ s \notin disk
    BY <1>5 DEF Spawn
  <2>2. \A r \in Session : r # s => slot'[r] = slot[r]
    BY <1>5 DEF Spawn, Started
  <2>3. slot'[s] \in {slot[s], "Running"}
    BY <1>5 DEF Spawn, Started
  <2>4. Kept(s)
    BY <2>1, <2>3 DEF Kept, OnFile
  <2>5. \A r \in Session : Kept(r)
    BY <1>1, <2>1, <2>2, <2>4
  <2>6. QED
    BY <1>3, <2>1, <2>5 DEF Quiet
(* A message sent to a session.                                            *)
<1>6. ASSUME NEW to \in Session, NEW fault \in ReloadFaults(to), slot[to] # "Absent",
             sent' = sent + 1,
             queue' = QueuesAfter(to, fault), inbox' = InboxesAfter(to, fault),
             history' = history,
             slot[to] = "Offloaded" => slot'[to] = Started(Woken(to, fault))[to],
             slot[to] = "Offloaded" => saved'[to] = saved[to],
             slot[to] # "Offloaded" => slot'[to] \in {"Running", "Idle", "Paused"},
             saved'[to] \in {saved[to], history[to]}
      PROVE  Delivered(to)
  <2> DEFINE q == Push(queue[to], sent + 1)
  <2>1. /\ queue'[to] = IF ReadsInbox(to, fault) THEN Reload(inbox[to], q) ELSE q
        /\ inbox'[to] = IF ReadsInbox(to, fault) /\ fault # "unlink" THEN <<>> ELSE inbox[to]
    BY <1>6 DEF QueuesAfter, InboxesAfter, TypeOK
  <2> HIDE DEF q
  <2>2. /\ fault = "load" => "load" \in Faults
        /\ fault = "unread" => "unread" \in Faults
        /\ fault = "unlink" => "unlink" \in Faults
    BY DEF ReloadFaults
  <2>3. CASE slot[to] = "Offloaded" /\ fault # "load"
    <3>1. slot'[to] = "Running"
      BY <1>6, <2>3 DEF Started, Woken, Wakes, Reloads
    <3>2. FileRead(to, q)
      BY <2>1, <2>2, <2>3 DEF FileRead, ReadsInbox, Reloads
    <3>3. QED
      BY <1>6, <2>3, <3>1, <3>2 DEF Delivered, OnFile, q
  <2>4. CASE slot[to] = "Offloaded" /\ fault = "load"
    <3>1. slot'[to] = "Offloaded" /\ "load" \in Faults
      BY <1>6, <2>2, <2>4 DEF Started, Woken, Wakes, Reloads
    <3>2. queue'[to] = q /\ inbox'[to] = inbox[to]
      BY <2>1, <2>4 DEF ReadsInbox, Reloads
    <3>3. QED
      BY <1>6, <2>4, <3>1, <3>2 DEF Delivered, OnFile, q
  <2>5. CASE slot[to] # "Offloaded"
    <3>1. queue'[to] = q /\ inbox'[to] = inbox[to]
      BY <2>1, <2>5 DEF ReadsInbox, Reloads
    <3>2. QED
      BY <1>0, <1>6, <2>5, <3>1 DEF Delivered, OnFile, q
  <2>6. QED
    BY <2>3, <2>4, <2>5
<1>7. ASSUME NEW s \in Session, Send(s) PROVE MailSteps
  <2>1. PICK fault \in ReloadFaults(s) :
          /\ slot' = Started(Woken(s, fault))
          /\ queue' = QueuesAfter(s, fault)
          /\ inbox' = InboxesAfter(s, fault)
    BY <1>7 DEF Send
  <2>2. sent' = sent + 1 /\ UNCHANGED <<history, saved>> /\ slot[s] # "Absent"
    BY <1>7 DEF Send
  <2>3. slot[s] # "Offloaded" => slot'[s] \in {"Running", "Idle", "Paused"}
    BY <1>0, <2>1, <2>2 DEF Started
  <2>4. Delivered(s)
    BY <1>6, <2>1, <2>2, <2>3
  <2>5. \A r \in Session : r # s =>
          slot'[r] = slot[r] /\ queue'[r] = queue[r] /\ inbox'[r] = inbox[r]
    BY <2>1, SendType DEF Started, Woken
  <2>6. QED
    BY <1>1, <2>2, <2>4, <2>5 DEF MailSteps
<1>8. ASSUME NEW s \in Session, Pause(s) PROVE MailSteps
  <2>1. \/ slot' = slot /\ slot[s] = "Running"
        \/ slot' = [slot EXCEPT ![s] = "Paused"] /\ slot[s] = "Idle"
    BY <1>8 DEF Pause, Control
  <2>2. UNCHANGED <<queue, inbox, history, saved, sent>>
    BY <1>8 DEF Pause, Control
  <2>3. Kept(s)
    BY <1>0, <1>2, <2>1, <2>2
  <2>4. \A r \in Session : r # s => Kept(r)
    BY <1>0, <1>1, <2>1, <2>2
  <2>5. QED
    BY <1>3, <2>2, <2>3, <2>4 DEF Quiet
<1>9. ASSUME NEW s \in Session, Resume(s) PROVE MailSteps
  <2>1. PICK fault \in ReloadFaults(s) :
          /\ slot[s] = "Paused" \/ Wakes(s, fault)
          /\ slot' = Started({s})
          /\ queue' = [queue EXCEPT ![s] =
                         IF ReadsInbox(s, fault) THEN Reload(inbox[s], @) ELSE @]
          /\ inbox' = InboxesAfter(s, fault)
    BY <1>9 DEF Resume
  <2>2. UNCHANGED <<history, saved, sent>>
    BY <1>9 DEF Resume
  <2>3. \A r \in Session : slot'[r] = IF r = s THEN "Running" ELSE slot[r]
    BY <2>1 DEF Started
  <2>4. \A r \in Session : r # s => Kept(r)
    BY <1>1, <2>1, <2>2, <2>3, SendType DEF TypeOK
  <2>5. CASE Reloads(s, fault)
    <3>1. /\ queue'[s] = IF fault # "unread" THEN Reload(inbox[s], queue[s]) ELSE queue[s]
          /\ inbox'[s] = IF fault \notin {"unread", "unlink"} THEN <<>> ELSE inbox[s]
      BY <2>1, <2>5 DEF ReadsInbox, InboxesAfter, TypeOK
    <3>2. FileRead(s, queue[s])
      BY <3>1 DEF FileRead, ReloadFaults
    <3>3. WokenUp(s)
      BY <2>2, <2>3, <2>5, <3>2 DEF WokenUp, OnFile, Reloads
    <3>4. QED
      BY <1>3, <2>2, <2>4, <3>3 DEF Quiet
  <2>6. CASE ~Reloads(s, fault)
    <3>1. queue'[s] = queue[s] /\ inbox'[s] = inbox[s]
      BY <2>1, <2>6 DEF InboxesAfter, ReadsInbox, TypeOK
    <3>2. slot[s] \in {"Paused", "Idle"}
      BY <2>1, <2>6 DEF Wakes
    <3>3. Kept(s)
      BY <1>2, <2>2, <2>3, <3>1, <3>2
    <3>4. QED
      BY <1>3, <2>2, <2>4, <3>3 DEF Quiet
  <2>7. QED
    BY <2>5, <2>6
<1>10. ASSUME NEW s \in Session, Kill(s) PROVE MailSteps
  <2>1. UNCHANGED <<queue, inbox, history, sent>>
    BY <1>10 DEF Kill, Control
  <2>2. \A r \in Session : r # s => slot'[r] = slot[r] /\ saved'[r] = saved[r]
    BY <1>0, <1>10, SaveShape DEF Kill, Control
  <2>3. CASE slot[s] = "Offloaded"
    <3>1. saved' = saved /\ slot'[s] \in {"Absent", "Paused"}
      BY <1>0, <1>10, <2>3 DEF Kill, Control
    <3>2. Kept(s)
      BY <1>10, <2>1, <2>3, <3>1 DEF Kept, OnFile
    <3>3. QED
      BY <1>1, <1>3, <2>1, <2>2, <3>2 DEF Quiet
  <2>4. CASE slot[s] # "Offloaded"
    <3>1. slot[s] \in {"Running", "Idle", "Paused"} /\ slot'[s] \in {"Running", "Paused"}
      BY <1>0, <1>10, <2>4 DEF Kill, Control
    <3>2. saved'[s] \in {saved[s], history[s]}
      BY <1>10, <2>4, SaveShape DEF Kill, Control
    <3>3. Kept(s)
      BY <1>2, <2>1, <3>1, <3>2
    <3>4. QED
      BY <1>1, <1>3, <2>1, <2>2, <3>3 DEF Quiet
  <2>5. QED
    BY <2>3, <2>4
<1>11. ASSUME NEW S, S \subseteq {r \in Session : slot[r] \in {"Idle", "Paused"}},
              OffloadSlots(S), sent' = sent
       PROVE  MailSteps
  <2>1. PICK gone \in Some("save", S) : \E half \in SUBSET gone, unwritten \in Some("inbox", S) :
          /\ OffloadEach(S, gone, half, unwritten)
          /\ slot' = [s \in Session |-> IF s \in gone THEN "Absent"
                                        ELSE IF s \in S THEN "Offloaded" ELSE slot[s]]
          /\ queue' = [s \in Session |-> IF s \in S \ gone THEN <<>> ELSE queue[s]]
          /\ history' = [s \in Session |-> IF s \in gone THEN saved'[s] ELSE history[s]]
    BY <1>11 DEF OffloadSlots
  <2>2. /\ gone \subseteq S
        /\ gone # {} => "save" \in Faults
        /\ \A s \in S \ gone : saved'[s] = history[s] /\
             (inbox'[s] = queue[s] \/ (inbox'[s] = inbox[s] /\ "inbox" \in Faults))
        /\ \A s \in gone : saved'[s] \in {saved[s], history[s]} /\ inbox'[s] = inbox[s]
        /\ \A s \in Session \ S : saved'[s] = saved[s] /\ inbox'[s] = inbox[s]
    BY <1>11, <2>1, UnloadShape
  <2>3. ASSUME NEW s \in gone PROVE Dropped(s)
    BY <1>11, <2>1, <2>2, <2>3 DEF Dropped, OnFile
  <2>4. ASSUME NEW s \in S \ gone PROVE Unloaded(s)
    BY <1>11, <2>1, <2>2, <2>4 DEF Unloaded, OnFile
  <2>5. ASSUME NEW s \in Session \ S PROVE Kept(s)
    BY <1>1, <2>1, <2>2, <2>5
  <2>6. QED
    BY <1>3, <1>11, <2>2, <2>3, <2>4, <2>5 DEF Quiet
<1>12. ASSUME NEW s \in Session, Offload(s) PROVE MailSteps
  BY <1>11, <1>12 DEF Offload, Unloadable
<1>13. ASSUME Sweep PROVE MailSteps
  BY <1>11, <1>13 DEF Sweep
(* The steps of a loop that leave the inboxes alone.                       *)
<1>14. ASSUME NEW s \in Session, task[s] # "none", saved' = saved \/ Save(s),
              UNCHANGED <<slot, queue, inbox, history, sent>>
       PROVE  MailSteps
  <2>1. saved'[s] \in {saved[s], history[s]} /\ \A r \in Session : r # s => saved'[r] = saved[r]
    BY <1>14, SaveShape
  <2>2. Kept(s)
    BY <1>2, <1>4, <1>14, <2>1
  <2>3. QED
    BY <1>1, <1>3, <1>14, <2>1, <2>2 DEF Quiet
<1>15. ASSUME NEW s \in Session, Prepare(s) PROVE MailSteps
  BY <1>14, <1>15 DEF Prepare, Finish
<1>16. ASSUME NEW s \in Session, CheckControl(s) PROVE MailSteps
  BY <1>14, <1>16 DEF CheckControl, Finish
<1>17. ASSUME NEW s \in Session, TakeInbox(s), task[s] # "none" PROVE MailSteps
  <2>1. Taken(s)
    BY <1>4, <1>17 DEF Taken, TakeInbox, OnFile, TypeOK
  <2>2. \A r \in Session : r # s => Kept(r)
    BY <1>1, <1>17 DEF TakeInbox, TypeOK
  <2>3. QED
    BY <2>1, <2>2 DEF MailSteps
<1>18. ASSUME NEW s \in Session, AwaitModel(s) PROVE MailSteps
  <2>1. saved' = saved \/ Save(s)
    BY <1>18 DEF AwaitModel, Finish
  <2>2. QED
    BY <1>14, <1>18, <2>1 DEF AwaitModel
<1>19. ASSUME NEW s \in Session, EndTurn(s) PROVE MailSteps
  <2>1. saved' = saved \/ Save(s)
    BY <1>19 DEF EndTurn, Finish
  <2>2. QED
    BY <1>14, <1>19, <2>1 DEF EndTurn
<1>20. ASSUME NEW s \in Session, Panic(s) \/ Ask(s) \/ Answer(s) \/ NeverEnds(s)
       PROVE  MailSteps
  BY <1>14, <1>20 DEF Panic, Ask, Answer, NeverEnds
<1>21. ASSUME NEW s \in Session, Join(s) PROVE MailSteps
  <2>1. PICK fault \in IF Reports(s) THEN ReloadFaults(parent[s]) ELSE {"none"} :
          LET p == parent[s]
              q == IF Reports(s) THEN QueuesAfter(p, fault) ELSE queue
              woken == IF Reports(s) THEN Woken(p, fault) ELSE {}
          IN  /\ queue' = q
              /\ inbox' = IF Reports(s) THEN InboxesAfter(p, fault) ELSE inbox
              /\ sent' = IF Reports(s) THEN sent + 1 ELSE sent
              /\ slot' = [Started(woken) EXCEPT ![s] =
                            IF Rewakes(s, q) THEN "Running"
                            ELSE IF ParksIdle(s) THEN "Idle" ELSE "Paused"]
    BY <1>21 DEF Join
  <2>2. /\ slot[s] = "Running" /\ history' = history
        /\ saved'[s] \in {saved[s], history[s]}
        /\ \A r \in Session : r # s => saved'[r] = saved[r]
    BY <1>4, <1>21, SaveShape DEF Join
  <2>3. slot'[s] \in {"Running", "Idle", "Paused"}
    BY <2>1, StartType
  <2>4. CASE ~Reports(s)
    <3>1. UNCHANGED <<queue, inbox, sent>> /\ \A r \in Session : r # s => slot'[r] = slot[r]
      BY <2>1, <2>4 DEF Started
    <3>2. Kept(s)
      BY <1>2, <2>2, <2>3, <3>1
    <3>3. \A r \in Session : r # s => Kept(r)
      BY <1>1, <2>2, <3>1
    <3>4. QED
      BY <1>3, <3>1, <3>2, <3>3 DEF Quiet
  <2>5. CASE Reports(s)
    <3> DEFINE p == parent[s]
    <3>1. p \in Session /\ slot[p] # "Absent"
      BY <2>5 DEF Reports, TypeOK
    <3>2. /\ queue' = QueuesAfter(p, fault)
          /\ inbox' = InboxesAfter(p, fault)
          /\ sent' = sent + 1
      BY <2>1, <2>5
    <3>3. \A r \in Session : r # s => slot'[r] = Started(Woken(p, fault))[r]
      BY <2>1, <2>5, StartType
    <3>4. \A r \in Session : r # p =>
            queue'[r] = queue[r] /\ inbox'[r] = inbox[r] /\ (r # s => slot'[r] = slot[r])
      BY <3>1, <3>2, <3>3, SendType DEF Started, Woken
    <3> HIDE DEF p
    <3>5. slot[p] = "Offloaded" =>
            slot'[p] = Started(Woken(p, fault))[p] /\ saved'[p] = saved[p]
      BY <2>2, <3>1, <3>3
    <3>6. slot[p] # "Offloaded" => slot'[p] \in {"Running", "Idle", "Paused"}
      BY <1>0, <2>3, <3>1, <3>3 DEF Started
    <3>7. saved'[p] \in {saved[p], history[p]}
      BY <2>2, <3>1
    <3>8. Delivered(p)
      <4>1. fault \in ReloadFaults(p)
        BY <2>1, <2>5 DEF p
      <4>2. QED
        BY <1>6, <2>2, <3>1, <3>2, <3>5, <3>6, <3>7, <4>1
    <3>9. s # p => Kept(s)
      BY <1>2, <2>2, <2>3, <3>4
    <3>10. \A r \in Session : r # p /\ r # s => Kept(r)
      BY <1>1, <2>2, <3>4
    <3>11. QED
      BY <3>1, <3>8, <3>9, <3>10 DEF MailSteps
  <2>6. QED
    BY <2>4, <2>5
<1>22. ASSUME BeginShutdown PROVE MailSteps
  BY <1>1, <1>3, <1>22 DEF BeginShutdown, Quiet
<1>23. ASSUME EndShutdown PROVE MailSteps
  <2> DEFINE S == {s \in Session : slot[s] \in {"Idle", "Paused"}}
  <2>1. PICK gone \in Some("save", S) : \E half \in SUBSET gone, unwritten \in Some("inbox", S) :
          OffloadEach(S, gone, half, unwritten)
    BY <1>23 DEF EndShutdown
  <2>2. /\ gone \subseteq S
        /\ gone # {} => "save" \in Faults
        /\ \A s \in S \ gone : saved'[s] = history[s] /\
             (inbox'[s] = queue[s] \/ (inbox'[s] = inbox[s] /\ "inbox" \in Faults))
        /\ \A s \in gone : saved'[s] \in {saved[s], history[s]} /\ inbox'[s] = inbox[s]
        /\ \A s \in Session \ S : saved'[s] = saved[s] /\ inbox'[s] = inbox[s]
    BY <2>1, UnloadShape
  <2>3. \A s \in Session : slot'[s] = "Absent" /\ queue'[s] = <<>> /\ history'[s] = saved'[s]
    BY <1>23 DEF EndShutdown, ExitProcess
  <2>4. ASSUME NEW s \in gone PROVE Dropped(s)
    BY <2>2, <2>3, <2>4 DEF Dropped, OnFile
  <2>5. ASSUME NEW s \in S \ gone PROVE Unloaded(s)
    BY <2>2, <2>3, <2>5 DEF Unloaded, OnFile
  <2>6. ASSUME NEW s \in Session, slot[s] = "Running" PROVE Dropped(s)
    <3>1. task[s] \in {"none", "dead"}
      BY <1>23 DEF EndShutdown
    <3>2. "panic" \in Faults
      BY <2>6, <3>1 DEF RunningHasLoop
    <3>3. QED
      BY <2>2, <2>3, <2>6, <3>2 DEF Dropped, OnFile
  <2>7. ASSUME NEW s \in Session, slot[s] \in {"Offloaded", "Absent"} PROVE LeftOnDisk(s)
    BY <2>2, <2>3, <2>7 DEF LeftOnDisk, OnFile
  <2>8. \A s \in Session : s \in S \/ slot[s] = "Running" \/ slot[s] \in {"Offloaded", "Absent"}
    BY <1>0
  <2>9. sent' = sent
    BY <1>23 DEF EndShutdown
  <2> HIDE DEF S
  <2>10. QED
    BY <1>3, <2>4, <2>5, <2>6, <2>7, <2>8, <2>9 DEF Quiet
<1>24. ASSUME Crash PROVE MailSteps
  <2>1. \A s \in Session : /\ slot'[s] = "Absent" /\ queue'[s] = <<>> /\ history'[s] = saved[s]
                           /\ inbox'[s] = inbox[s] /\ saved'[s] = saved[s]
    BY <1>24 DEF Crash, ExitProcess
  <2>2. ASSUME NEW s \in Session PROVE Dropped(s) \/ LeftOnDisk(s)
    BY <1>24, <2>1 DEF Crash, Dropped, LeftOnDisk, OnFile
  <2>3. QED
    BY <1>3, <1>24, <2>2 DEF Crash, Quiet
<1>25. ASSUME Restart PROVE MailSteps
  <2>1. UNCHANGED <<queue, inbox, history, saved, sent>>
    BY <1>25 DEF Restart
  <2>2. \A s \in Session : OnFile(s) /\ OnFile(s)'
    BY <1>25 DEF Restart, OnFile, RestsOnDisk, DownIsEmpty
  <2>3. \A s \in Session : queue[s] = <<>>
    BY <1>25 DEF Restart, RestsOnDisk, DownIsEmpty
  <2>4. QED
    BY <1>3, <2>1, <2>2, <2>3 DEF Quiet, Kept
<1>26. ASSUME UNCHANGED <<slot, queue, inbox, history, saved, sent>> PROVE MailSteps
  BY <1>1, <1>3, <1>26 DEF Quiet
<1>27. QED
  BY <1>5, <1>7, <1>8, <1>9, <1>10, <1>12, <1>13, <1>15, <1>16, <1>17, <1>18,
     <1>19, <1>20, <1>21, <1>22, <1>23, <1>24, <1>25, <1>26
     DEF Next, vars, Drain, Recv, Unblock

(* The side invariants of a run of the tree, together.                     *)
MailBase ==
  TreeInv /\ RestsOnDisk /\ ("panic" \notin Faults => RunningHasLoop)

LEMMA MailBaseCorrect == Spec => []MailBase
<1>1. CASE "panic" \notin Faults
  <2>1. TreeInv /\ RestsOnDisk /\ RunningHasLoop => MailBase
    BY DEF MailBase
  <2>2. Spec => []RunningHasLoop
    BY <1>1, RunningIsAlive
  <2>3. QED
    BY <2>1, <2>2, TreeInvCorrect, RestsOnDiskCorrect, PTL
<1>2. CASE "panic" \in Faults
  <2>1. TreeInv /\ RestsOnDisk => MailBase
    BY <1>2 DEF MailBase
  <2>2. QED
    BY <2>1, TreeInvCorrect, RestsOnDiskCorrect, PTL
<1>3. QED
  BY <1>1, <1>2

LEMMA MailStepsHappen == MailBase /\ [Next]_vars => MailSteps
BY MailShape DEF MailBase

----------------------------------------------------------------------------
(* No message is read twice.                                               *)

(* The four places that hold messages of s repeat none, and no message is  *)
(* in two of them, but for the two copies of the history.                  *)
Distinct(s) ==
  /\ Once(history[s]) /\ Once(saved[s]) /\ Once(inbox[s]) /\ Once(queue[s])
  /\ Apart(history[s], inbox[s]) /\ Apart(history[s], queue[s])
  /\ Apart(saved[s], inbox[s]) /\ Apart(saved[s], queue[s])
  /\ Apart(inbox[s], queue[s])
  /\ UpTo(history[s], sent) /\ UpTo(saved[s], sent)
  /\ UpTo(inbox[s], sent) /\ UpTo(queue[s], sent)

LEMMA ApartConcat ==
  ASSUME NEW a \in Seq(Nat), NEW b \in Seq(Nat), NEW c \in Seq(Nat), NEW n \in Nat
  PROVE  /\ Apart(a, c) /\ Apart(b, c) => Apart(a \o b, c)
         /\ Apart(c, a) /\ Apart(c, b) => Apart(c, a \o b)
         /\ UpTo(a, n) /\ UpTo(b, n) => UpTo(a \o b, n)
<1>1. /\ Len(a) \in Nat /\ Len(b) \in Nat
      /\ Len(a \o b) = Len(a) + Len(b)
      /\ \A i \in 1 .. Len(a \o b) :
           \/ i \in 1 .. Len(a) /\ (a \o b)[i] = a[i]
           \/ i - Len(a) \in 1 .. Len(b) /\ (a \o b)[i] = b[i - Len(a)]
  BY ConcatProperties, LenProperties
<1>2. QED
  BY <1>1 DEF Apart, UpTo

(* Nothing is in an empty sequence.                                        *)
LEMMA EmptyKeeps ==
  ASSUME NEW a, NEW n
  PROVE  Once(<<>>) /\ UpTo(<<>>, n) /\ Apart(a, <<>>) /\ Apart(<<>>, a)
BY EmptySeq DEF Once, UpTo, Apart

(* What a wake puts in the queue is as distinct as what it is made of.     *)
LEMMA ReloadDistinct ==
  ASSUME NEW file \in Seq(Nat), NEW fresh \in Seq(Nat), NEW n \in Nat,
         Once(file), Once(fresh), Apart(file, fresh), UpTo(file, n), UpTo(fresh, n)
  PROVE  /\ Reload(file, fresh) \in Seq(Nat)
         /\ Once(Reload(file, fresh)) /\ UpTo(Reload(file, fresh), n)
         /\ \A c \in Seq(Nat) : Apart(c, file) /\ Apart(c, fresh) => Apart(c, Reload(file, fresh))
<1>1. /\ file \o fresh \in Seq(Nat) /\ Once(file \o fresh) /\ UpTo(file \o fresh, n)
      /\ \A c \in Seq(Nat) : Apart(c, file) /\ Apart(c, fresh) => Apart(c, file \o fresh)
  BY OnceConcat, ApartConcat, ConcatProperties
<1>2. Reload(file, fresh) \in Seq(Nat) /\ PartOf(Reload(file, fresh), file \o fresh)
  BY ReloadLemma, ReloadIsPart
<1>3. QED
  BY <1>1, <1>2, PartKeeps

LEMMA DistinctStep ==
  ASSUME "unlink" \notin Faults, MailBase, MailSteps, NEW s \in Session, Distinct(s), TypeOK'
  PROVE  Distinct(s)'
<1>1. /\ history[s] \in Seq(Nat) /\ saved[s] \in Seq(Nat) /\ inbox[s] \in Seq(Nat)
      /\ queue[s] \in Seq(Nat) /\ sent \in Nat /\ sent' \in Nat
  BY DEF MailBase, TreeInv, TypeOK
<1>2. sent' \in {sent, sent + 1}
  BY DEF MailSteps, Delivered, Taken
<1>3. \A q \in Seq(Nat) : UpTo(q, sent) => UpTo(q, sent')
  <2>1. \A q \in Seq(Nat) : \A i \in 1 .. Len(q) : q[i] \in Nat
    BY ElementOfSeq
  <2>2. QED
    BY <1>1, <1>2, <2>1 DEF UpTo
(* The places after the step, given by their contents.                     *)
<1>4. ASSUME NEW h \in Seq(Nat), NEW v \in Seq(Nat), NEW f \in Seq(Nat), NEW q \in Seq(Nat),
             history'[s] = h, saved'[s] = v, inbox'[s] = f, queue'[s] = q,
             Once(h), Once(v), Once(f), Once(q), Apart(h, f), Apart(h, q), Apart(v, f),
             Apart(v, q), Apart(f, q), UpTo(h, sent'), UpTo(v, sent'), UpTo(f, sent'),
             UpTo(q, sent')
      PROVE  Distinct(s)'
  BY <1>4 DEF Distinct
<1>5. UpTo(history[s], sent') /\ UpTo(saved[s], sent') /\ UpTo(inbox[s], sent') /\ UpTo(queue[s], sent')
  BY <1>1, <1>3 DEF Distinct
<1>6. ASSUME Kept(s) PROVE Distinct(s)'
  <2>1. saved'[s] \in {saved[s], history[s]}
    BY <1>6 DEF Kept
  <2>2. QED
    BY <1>1, <1>4, <1>5, <1>6, <2>1 DEF Kept, Distinct
<1>7. ASSUME WokenUp(s) PROVE Distinct(s)'
  <2>1. /\ Reload(inbox[s], queue[s]) \in Seq(Nat)
        /\ Once(Reload(inbox[s], queue[s])) /\ UpTo(Reload(inbox[s], queue[s]), sent)
        /\ Apart(history[s], Reload(inbox[s], queue[s]))
        /\ Apart(saved[s], Reload(inbox[s], queue[s]))
    BY <1>1, ReloadDistinct DEF Distinct
  <2>2. CASE queue'[s] = Reload(inbox[s], queue[s]) /\ inbox'[s] = <<>>
    BY <1>1, <1>3, <1>4, <1>5, <1>7, <2>1, <2>2, EmptySeq, EmptyKeeps DEF WokenUp, Distinct
  <2>3. CASE queue'[s] = queue[s] /\ inbox'[s] = inbox[s]
    BY <1>1, <1>4, <1>5, <1>7, <2>3 DEF WokenUp, Distinct
  <2>4. QED
    BY <1>7, <2>2, <2>3 DEF WokenUp, FileRead
<1>8. ASSUME Unloaded(s) PROVE Distinct(s)'
  <2>1. CASE inbox'[s] = queue[s]
    BY <1>1, <1>4, <1>5, <1>8, <2>1, EmptySeq, EmptyKeeps DEF Unloaded, Distinct
  <2>2. CASE inbox'[s] = inbox[s]
    BY <1>1, <1>4, <1>5, <1>8, <2>2, EmptySeq, EmptyKeeps DEF Unloaded, Distinct
  <2>3. QED
    BY <1>8, <2>1, <2>2 DEF Unloaded
<1>9. ASSUME Dropped(s) \/ LeftOnDisk(s) PROVE Distinct(s)'
  <2>1. /\ saved'[s] \in {saved[s], history[s]} /\ history'[s] = saved'[s]
        /\ queue'[s] \in {queue[s], <<>>} /\ inbox'[s] = inbox[s]
    BY <1>9 DEF Dropped, LeftOnDisk
  <2>2. CASE queue'[s] = queue[s]
    BY <1>1, <1>4, <1>5, <2>1, <2>2 DEF Distinct
  <2>3. CASE queue'[s] = <<>>
    BY <1>1, <1>4, <1>5, <2>1, <2>3, EmptySeq, EmptyKeeps DEF Distinct
  <2>4. QED
    BY <2>1, <2>2, <2>3
<1>10. ASSUME Taken(s) PROVE Distinct(s)'
  <2>1. /\ history[s] \o queue[s] \in Seq(Nat) /\ Once(history[s] \o queue[s])
        /\ Apart(history[s] \o queue[s], inbox[s]) /\ UpTo(history[s] \o queue[s], sent')
    <3>1. Apart(queue[s], inbox[s])
      BY DEF Distinct, Apart
    <3>2. QED
      BY <1>1, <1>5, <3>1, OnceConcat, ApartConcat, ConcatProperties DEF Distinct
  <2>2. QED
    BY <1>1, <1>4, <1>5, <1>10, <2>1, EmptySeq, EmptyKeeps DEF Taken, Distinct
<1>11. ASSUME Delivered(s) PROVE Distinct(s)'
  <2> DEFINE q == Push(queue[s], sent + 1)
  <2>1. /\ q \in Seq(Nat) /\ UpTo(q, sent + 1) /\ Once(q)
        /\ Apart(history[s], q) /\ Apart(saved[s], q) /\ Apart(inbox[s], q)
    BY <1>1, PushKeeps DEF Distinct
  <2>2. sent' = sent + 1 /\ saved'[s] \in {saved[s], history[s]} /\ history'[s] = history[s]
    BY <1>11 DEF Delivered
  <2>3. \/ queue'[s] = q /\ inbox'[s] = inbox[s]
        \/ queue'[s] = Reload(inbox[s], q) /\ inbox'[s] = <<>>
    BY <1>11 DEF Delivered, FileRead
  <2> HIDE DEF q
  <2>4. CASE queue'[s] = q /\ inbox'[s] = inbox[s]
    BY <1>1, <1>4, <1>5, <2>1, <2>2, <2>4 DEF Distinct
  <2>5. CASE queue'[s] = Reload(inbox[s], q) /\ inbox'[s] = <<>>
    <3>1. sent + 1 \in Nat /\ UpTo(inbox[s], sent + 1) /\ Once(inbox[s])
      BY <1>1, <1>5, <2>2 DEF Distinct
    <3>2. /\ Reload(inbox[s], q) \in Seq(Nat)
          /\ Once(Reload(inbox[s], q)) /\ UpTo(Reload(inbox[s], q), sent + 1)
          /\ Apart(history[s], Reload(inbox[s], q)) /\ Apart(saved[s], Reload(inbox[s], q))
      BY <1>1, <2>1, <3>1, ReloadDistinct DEF Distinct
    <3>3. QED
      BY <1>1, <1>4, <1>5, <2>2, <2>5, <3>2, EmptySeq, EmptyKeeps DEF Distinct
  <2>6. QED
    BY <2>3, <2>4, <2>5
<1>12. QED
  BY <1>6, <1>7, <1>8, <1>9, <1>10, <1>11 DEF MailSteps, Quiet

LEMMA DistinctIsOnce ==
  ASSUME TypeOK, \A s \in Session : Distinct(s)
  PROVE  ReadOnce
<1>1. SUFFICES ASSUME NEW s \in Session PROVE Once(history[s] \o Waiting(s))
  BY DEF ReadOnce
<1>2. history[s] \in Seq(Nat) /\ inbox[s] \in Seq(Nat) /\ queue[s] \in Seq(Nat)
  BY DEF TypeOK
<1>3. Waiting(s) \in {inbox[s] \o queue[s], queue[s]}
  BY <1>2, ConcatEmptySeq DEF Waiting
<1>4. /\ inbox[s] \o queue[s] \in Seq(Nat) /\ Once(inbox[s] \o queue[s])
      /\ Apart(history[s], inbox[s] \o queue[s])
  <2>1. sent \in Nat
    BY DEF TypeOK
  <2>2. QED
    BY <1>2, <2>1, OnceConcat, ApartConcat, ConcatProperties DEF Distinct
<1>5. QED
  BY <1>2, <1>3, <1>4, OnceConcat DEF Distinct

(* Whatever fails but the removal of an inbox file that was read, no       *)
(* session reads a message twice: neither a failed save, nor an inbox file *)
(* that could not be read or written, nor a crash between the two copies   *)
(* of a history brings a message back.                                     *)
THEOREM NoSecondReading ==
  ASSUME "unlink" \notin Faults
  PROVE  Spec => []ReadOnce
<1> DEFINE Inv == \A s \in Session : Distinct(s)
<1>1. Init => Inv
  <2>1. ASSUME Init, NEW s \in Session PROVE Distinct(s)
    <3>1. history[s] = <<>> /\ saved[s] = <<>> /\ inbox[s] = <<>> /\ queue[s] = <<>>
      BY <2>1 DEF Init
    <3>2. QED
      BY <3>1, EmptyKeeps DEF Distinct
  <2>2. QED
    BY <2>1
<1>2. MailBase /\ Inv /\ TypeOK' /\ [Next]_vars => Inv'
  BY MailStepsHappen, DistinctStep
<1>3. MailBase /\ Inv => ReadOnce
  BY DistinctIsOnce DEF MailBase, TreeInv
<1> HIDE DEF Inv
<1>4. QED
  BY <1>1, <1>2, <1>3, MailBaseCorrect, TypeCorrect, PTL DEF Spec

----------------------------------------------------------------------------
(* Messages are read in order, while nothing but a read of a saved session *)
(* or of its inbox file, the removal of that file or the build of a Lua    *)
(* runtime fails, and whether or not a block ends.                         *)

(* What s has read is before what waits for it, and what waits in its      *)
(* inbox file, while that counts, is between the two.  The file of a       *)
(* session that is in RAM may be anything: a kill leaves it behind.        *)
Ordered(s) ==
  /\ Increasing(history[s]) /\ Increasing(queue[s]) /\ Below(history[s], queue[s])
  /\ OnFile(s) => /\ Increasing(inbox[s])
                  /\ Below(history[s], inbox[s]) /\ Below(inbox[s], queue[s])
  /\ UpTo(history[s], sent) /\ UpTo(inbox[s], sent) /\ UpTo(queue[s], sent)

LEMMA BelowConcat ==
  ASSUME NEW a \in Seq(Nat), NEW b \in Seq(Nat), NEW c \in Seq(Nat)
  PROVE  /\ Below(a, c) /\ Below(b, c) => Below(a \o b, c)
         /\ Below(c, a) /\ Below(c, b) => Below(c, a \o b)
<1>1. /\ Len(a) \in Nat /\ Len(b) \in Nat
      /\ Len(a \o b) = Len(a) + Len(b)
      /\ \A i \in 1 .. Len(a \o b) :
           \/ i \in 1 .. Len(a) /\ (a \o b)[i] = a[i]
           \/ i - Len(a) \in 1 .. Len(b) /\ (a \o b)[i] = b[i - Len(a)]
  BY ConcatProperties, LenProperties
<1>2. QED
  BY <1>1 DEF Below

(* The order of nothing.                                                   *)
LEMMA EmptyInOrder ==
  ASSUME NEW a
  PROVE  Increasing(<<>>) /\ Below(<<>>, a) /\ Below(a, <<>>)
BY EmptySeq DEF Increasing, Below

(* What a wake puts in the queue is in the order of what it is made of.    *)
LEMMA ReloadInOrder ==
  ASSUME NEW file \in Seq(Nat), NEW fresh \in Seq(Nat), NEW n \in Nat,
         Increasing(file), Increasing(fresh), Below(file, fresh), UpTo(file, n), UpTo(fresh, n)
  PROVE  /\ Reload(file, fresh) \in Seq(Nat)
         /\ Increasing(Reload(file, fresh)) /\ UpTo(Reload(file, fresh), n)
         /\ \A c \in Seq(Nat) : Below(c, file) /\ Below(c, fresh) => Below(c, Reload(file, fresh))
<1>1. /\ file \o fresh \in Seq(Nat) /\ Increasing(file \o fresh) /\ UpTo(file \o fresh, n)
      /\ \A c \in Seq(Nat) : Below(c, file) /\ Below(c, fresh) => Below(c, file \o fresh)
  BY IncreasingConcat, BelowConcat, ApartConcat, ConcatProperties
<1>2. Reload(file, fresh) \in Seq(Nat) /\ PartOf(Reload(file, fresh), file \o fresh)
  BY ReloadLemma, ReloadIsPart
<1>3. QED
  BY <1>1, <1>2, PartKeeps

LEMMA OrderedStep ==
  ASSUME Faults \subseteq {"load", "unread", "unlink", "repl", "endless"}, MailBase, MailSteps, TypeOK',
         NEW s \in Session, Ordered(s)
  PROVE  Ordered(s)'
<1>1. /\ history[s] \in Seq(Nat) /\ inbox[s] \in Seq(Nat) /\ queue[s] \in Seq(Nat)
      /\ sent \in Nat /\ sent' \in Nat
  BY DEF MailBase, TreeInv, TypeOK
<1>2. sent' \in {sent, sent + 1}
  BY DEF MailSteps, Delivered, Taken
<1>3. \A q \in Seq(Nat) : UpTo(q, sent) => UpTo(q, sent')
  <2>1. \A q \in Seq(Nat) : \A i \in 1 .. Len(q) : q[i] \in Nat
    BY ElementOfSeq
  <2>2. QED
    BY <1>1, <1>2, <2>1 DEF UpTo
<1>4. UpTo(history[s], sent') /\ UpTo(inbox[s], sent') /\ UpTo(queue[s], sent')
  BY <1>1, <1>3 DEF Ordered
(* The places after the step, given by their contents.                     *)
<1>5. ASSUME NEW h \in Seq(Nat), NEW f \in Seq(Nat), NEW q \in Seq(Nat),
             history'[s] = h, inbox'[s] = f, queue'[s] = q,
             Increasing(h), Increasing(q), Below(h, q),
             OnFile(s)' => Increasing(f) /\ Below(h, f) /\ Below(f, q),
             UpTo(h, sent'), UpTo(f, sent'), UpTo(q, sent')
      PROVE  Ordered(s)'
  BY <1>5 DEF Ordered
<1>6. ASSUME Kept(s) PROVE Ordered(s)'
  <2>1. OnFile(s)' => OnFile(s)
    BY <1>6 DEF Kept
  <2>2. QED
    BY <1>1, <1>4, <1>5, <1>6, <2>1 DEF Kept, Ordered
<1>7. ASSUME WokenUp(s) PROVE Ordered(s)'
  <2>1. OnFile(s)
    BY <1>7 DEF WokenUp, OnFile
  <2>2. /\ Reload(inbox[s], queue[s]) \in Seq(Nat)
        /\ Increasing(Reload(inbox[s], queue[s])) /\ UpTo(Reload(inbox[s], queue[s]), sent)
        /\ Below(history[s], Reload(inbox[s], queue[s]))
    BY <1>1, <2>1, ReloadInOrder DEF Ordered
  <2>3. /\ <<>> \in Seq(Nat) /\ UpTo(<<>>, sent') /\ Increasing(history[s])
        /\ Increasing(queue[s]) /\ Below(history[s], queue[s])
    BY EmptySeq, EmptyKeeps DEF Ordered
  <2>4. history'[s] = history[s] /\ ~OnFile(s)' /\ inbox'[s] \in {inbox[s], <<>>}
    BY <1>7 DEF WokenUp, FileRead
  <2>5. CASE queue'[s] = Reload(inbox[s], queue[s])
    BY <1>1, <1>3, <1>4, <1>5, <2>2, <2>3, <2>4, <2>5
  <2>6. CASE queue'[s] = queue[s]
    BY <1>1, <1>4, <1>5, <2>3, <2>4, <2>6
  <2>7. QED
    BY <1>7, <2>5, <2>6 DEF WokenUp, FileRead
<1>8. ASSUME Unloaded(s) PROVE Ordered(s)'
  <2>1. inbox'[s] = queue[s] /\ queue'[s] = <<>> /\ history'[s] = history[s]
    BY <1>8 DEF Unloaded
  <2>2. <<>> \in Seq(Nat) /\ UpTo(<<>>, sent')
    BY EmptySeq, EmptyKeeps
  <2>3. QED
    BY <1>1, <1>4, <1>5, <2>1, <2>2, EmptyInOrder DEF Ordered
<1>9. ~Dropped(s)
  BY DEF Dropped
<1>10. ASSUME LeftOnDisk(s) PROVE Ordered(s)'
  <2>1. history'[s] = history[s] /\ inbox'[s] = inbox[s] /\ queue'[s] = <<>> /\ OnFile(s)
    BY <1>10 DEF LeftOnDisk, MailBase, RestsOnDisk, FilesAreFresh
  <2>2. <<>> \in Seq(Nat) /\ UpTo(<<>>, sent')
    BY EmptySeq, EmptyKeeps
  <2>3. QED
    BY <1>1, <1>4, <1>5, <2>1, <2>2, EmptyInOrder DEF Ordered
<1>11. ASSUME Taken(s) PROVE Ordered(s)'
  <2>1. /\ history'[s] = history[s] \o queue[s] /\ queue'[s] = <<>> /\ ~OnFile(s)'
        /\ inbox'[s] = inbox[s]
    BY <1>11 DEF Taken
  <2>2. /\ history[s] \o queue[s] \in Seq(Nat) /\ Increasing(history[s] \o queue[s])
        /\ UpTo(history[s] \o queue[s], sent')
    BY <1>1, <1>4, IncreasingConcat, ApartConcat, ConcatProperties DEF Ordered
  <2>3. <<>> \in Seq(Nat) /\ UpTo(<<>>, sent')
    BY EmptySeq, EmptyKeeps
  <2>4. QED
    BY <1>1, <1>4, <1>5, <2>1, <2>2, <2>3, EmptyInOrder
<1>12. ASSUME Delivered(s) PROVE Ordered(s)'
  <2> DEFINE q == Push(queue[s], sent + 1)
  <2>1. /\ q \in Seq(Nat) /\ UpTo(q, sent + 1) /\ Increasing(q) /\ Below(history[s], q)
    BY <1>1, PushKeeps DEF Ordered
  <2>2. OnFile(s) => Below(inbox[s], q)
    BY <1>1, PushKeeps DEF Ordered
  <2>3. sent' = sent + 1 /\ history'[s] = history[s] /\ sent + 1 \in Nat
    BY <1>1, <1>12 DEF Delivered
  <2>4. \/ queue'[s] = q /\ inbox'[s] = inbox[s] /\ (OnFile(s)' => OnFile(s))
        \/ /\ queue'[s] = Reload(inbox[s], q) /\ inbox'[s] \in {inbox[s], <<>>}
           /\ OnFile(s) /\ ~OnFile(s)'
    BY <1>12 DEF Delivered, FileRead, OnFile
  <2> HIDE DEF q
  <2>5. CASE queue'[s] = q /\ inbox'[s] = inbox[s] /\ (OnFile(s)' => OnFile(s))
    BY <1>1, <1>4, <1>5, <2>1, <2>2, <2>3, <2>5 DEF Ordered
  <2>6. CASE /\ queue'[s] = Reload(inbox[s], q) /\ inbox'[s] \in {inbox[s], <<>>}
             /\ OnFile(s) /\ ~OnFile(s)'
    <3>1. /\ Increasing(inbox[s]) /\ UpTo(inbox[s], sent + 1) /\ Below(inbox[s], q)
          /\ Below(history[s], inbox[s])
      BY <1>4, <2>2, <2>3, <2>6 DEF Ordered
    <3>2. /\ Reload(inbox[s], q) \in Seq(Nat)
          /\ Increasing(Reload(inbox[s], q)) /\ UpTo(Reload(inbox[s], q), sent + 1)
          /\ Below(history[s], Reload(inbox[s], q))
      BY <1>1, <2>1, <2>3, <3>1, ReloadInOrder
    <3>3. <<>> \in Seq(Nat) /\ UpTo(<<>>, sent') /\ Increasing(history[s])
      BY EmptySeq, EmptyKeeps DEF Ordered
    <3>4. QED
      BY <1>1, <1>4, <1>5, <2>3, <2>6, <3>2, <3>3
  <2>7. QED
    BY <2>4, <2>5, <2>6
<1>13. QED
  BY <1>6, <1>7, <1>8, <1>9, <1>10, <1>11, <1>12 DEF MailSteps, Quiet

LEMMA OrderedIsRead ==
  ASSUME TypeOK, \A s \in Session : Ordered(s)
  PROVE  ReadInOrder
<1>1. SUFFICES ASSUME NEW s \in Session PROVE Increasing(history[s] \o Waiting(s))
  BY DEF ReadInOrder
<1>2. history[s] \in Seq(Nat) /\ inbox[s] \in Seq(Nat) /\ queue[s] \in Seq(Nat)
  BY DEF TypeOK
<1>3. CASE OnFile(s)
  <2>1. Waiting(s) = inbox[s] \o queue[s]
    BY <1>3 DEF Waiting, OnFile
  <2>2. /\ inbox[s] \o queue[s] \in Seq(Nat) /\ Increasing(inbox[s] \o queue[s])
        /\ Below(history[s], inbox[s] \o queue[s])
    BY <1>2, <1>3, IncreasingConcat, BelowConcat, ConcatProperties DEF Ordered
  <2>3. QED
    BY <1>2, <2>1, <2>2, IncreasingConcat DEF Ordered
<1>4. CASE ~OnFile(s)
  <2>1. Waiting(s) = queue[s]
    BY <1>2, <1>4, ConcatEmptySeq DEF Waiting, OnFile
  <2>2. QED
    BY <1>2, <2>1, IncreasingConcat DEF Ordered
<1>5. QED
  BY <1>3, <1>4

(* A session reads its messages in the order they were accepted, across    *)
(* offloads, wakes, kills and clean restarts, whether or not a saved       *)
(* session and its inbox file can be read back, that file be removed and a *)
(* Lua runtime be built.                                                   *)
THEOREM ReadingIsInOrder ==
  ASSUME Faults \subseteq {"load", "unread", "unlink", "repl", "endless"}
  PROVE  Spec => []ReadInOrder
<1> DEFINE Inv == \A s \in Session : Ordered(s)
<1>1. Init => Inv
  <2>1. ASSUME Init, NEW s \in Session PROVE Ordered(s)
    <3>1. history[s] = <<>> /\ inbox[s] = <<>> /\ queue[s] = <<>>
      BY <2>1 DEF Init
    <3>2. QED
      BY <3>1, EmptyKeeps, EmptyInOrder DEF Ordered
  <2>2. QED
    BY <2>1
<1>2. MailBase /\ Inv /\ TypeOK' /\ [Next]_vars => Inv'
  BY MailStepsHappen, OrderedStep
<1>3. MailBase /\ Inv => ReadInOrder
  BY OrderedIsRead DEF MailBase, TreeInv
<1> HIDE DEF Inv
<1>4. QED
  BY <1>1, <1>2, <1>3, MailBaseCorrect, TypeCorrect, PTL DEF Spec

----------------------------------------------------------------------------
(* What RAM keeps of an offloaded session, whatever fails.                 *)

(* Every place holds accepted messages, so the ones that come to a session *)
(* that cannot be woken are newer than its history and its inbox file.     *)
Fresh(s) ==
  /\ UpTo(history[s], sent) /\ UpTo(saved[s], sent)
  /\ UpTo(inbox[s], sent) /\ UpTo(queue[s], sent)
  /\ slot[s] = "Offloaded" => Below(history[s], queue[s]) /\ Below(inbox[s], queue[s])

LEMMA ReloadUpTo ==
  ASSUME NEW file \in Seq(Nat), NEW fresh \in Seq(Nat), NEW n \in Nat,
         UpTo(file, n), UpTo(fresh, n)
  PROVE  Reload(file, fresh) \in Seq(Nat) /\ UpTo(Reload(file, fresh), n)
<1>1. file \o fresh \in Seq(Nat) /\ UpTo(file \o fresh, n)
  BY ApartConcat, ConcatProperties
<1>2. Reload(file, fresh) \in Seq(Nat) /\ PartOf(Reload(file, fresh), file \o fresh)
  BY ReloadLemma, ReloadIsPart
<1>3. QED
  BY <1>1, <1>2, PartKeeps

LEMMA FreshStep ==
  ASSUME MailBase, MailSteps, TypeOK', NEW s \in Session, Fresh(s)
  PROVE  Fresh(s)'
<1>1. /\ history[s] \in Seq(Nat) /\ saved[s] \in Seq(Nat) /\ inbox[s] \in Seq(Nat)
      /\ queue[s] \in Seq(Nat) /\ sent \in Nat /\ sent' \in Nat
  BY DEF MailBase, TreeInv, TypeOK
<1>2. sent' \in {sent, sent + 1}
  BY DEF MailSteps, Delivered, Taken
<1>3. \A q \in Seq(Nat) : UpTo(q, sent) => UpTo(q, sent')
  <2>1. \A q \in Seq(Nat) : \A i \in 1 .. Len(q) : q[i] \in Nat
    BY ElementOfSeq
  <2>2. QED
    BY <1>1, <1>2, <2>1 DEF UpTo
<1>4. UpTo(history[s], sent') /\ UpTo(saved[s], sent') /\ UpTo(inbox[s], sent') /\ UpTo(queue[s], sent')
  BY <1>1, <1>3 DEF Fresh
<1>5. <<>> \in Seq(Nat) /\ UpTo(<<>>, sent')
  BY EmptySeq, EmptyKeeps
(* The places after the step, given by their contents.                     *)
<1>6. ASSUME NEW h \in Seq(Nat), NEW v \in Seq(Nat), NEW f \in Seq(Nat), NEW q \in Seq(Nat),
             history'[s] = h, saved'[s] = v, inbox'[s] = f, queue'[s] = q,
             slot'[s] = "Offloaded" => Below(h, q) /\ Below(f, q),
             UpTo(h, sent'), UpTo(v, sent'), UpTo(f, sent'), UpTo(q, sent')
      PROVE  Fresh(s)'
  BY <1>6 DEF Fresh
<1>7. ASSUME Kept(s) PROVE Fresh(s)'
  <2>1. /\ history'[s] = history[s] /\ inbox'[s] = inbox[s] /\ queue'[s] = queue[s]
        /\ saved'[s] \in {saved[s], history[s]}
        /\ slot'[s] = "Offloaded" => slot[s] = "Offloaded" \/ queue[s] = <<>>
    BY <1>7 DEF Kept, OnFile
  <2>2. slot'[s] = "Offloaded" => Below(history[s], queue[s]) /\ Below(inbox[s], queue[s])
    BY <2>1, EmptyInOrder DEF Fresh
  <2>3. QED
    BY <1>1, <1>4, <1>6, <2>1, <2>2
<1>8. ASSUME NEW q \in Seq(Nat), UpTo(q, sent'), FileRead(s, q), history'[s] = history[s],
             saved'[s] = saved[s], slot'[s] # "Offloaded"
      PROVE  Fresh(s)'
  <2>1. Reload(inbox[s], q) \in Seq(Nat) /\ UpTo(Reload(inbox[s], q), sent')
    BY <1>1, <1>4, <1>8, ReloadUpTo
  <2>2. inbox'[s] \in {inbox[s], <<>>} /\ queue'[s] \in {q, Reload(inbox[s], q)}
    BY <1>8 DEF FileRead
  <2>3. QED
    BY <1>1, <1>4, <1>5, <1>6, <1>8, <2>1, <2>2
<1>9. ASSUME WokenUp(s) PROVE Fresh(s)'
  BY <1>1, <1>4, <1>8, <1>9 DEF WokenUp, OnFile
<1>10. ASSUME Unloaded(s) PROVE Fresh(s)'
  <2>1. /\ history'[s] = history[s] /\ saved'[s] = history[s] /\ queue'[s] = <<>>
        /\ inbox'[s] \in {inbox[s], queue[s]}
    BY <1>10 DEF Unloaded
  <2>2. QED
    BY <1>1, <1>4, <1>5, <1>6, <2>1, EmptyInOrder
<1>11. ASSUME Dropped(s) \/ LeftOnDisk(s) PROVE Fresh(s)'
  <2>1. /\ saved'[s] \in {saved[s], history[s]} /\ history'[s] = saved'[s]
        /\ queue'[s] \in {queue[s], <<>>} /\ inbox'[s] = inbox[s]
        /\ slot'[s] = "Absent" \/ queue'[s] = <<>>
    BY <1>11 DEF Dropped, LeftOnDisk
  <2>2. QED
    BY <1>1, <1>4, <1>5, <1>6, <2>1, EmptyInOrder
<1>12. ASSUME Taken(s) PROVE Fresh(s)'
  <2>1. history[s] \o queue[s] \in Seq(Nat) /\ UpTo(history[s] \o queue[s], sent')
    BY <1>1, <1>4, ApartConcat, ConcatProperties
  <2>2. QED
    BY <1>1, <1>4, <1>5, <1>6, <1>12, <2>1 DEF Taken, OnFile
<1>13. ASSUME Delivered(s) PROVE Fresh(s)'
  <2> DEFINE q == Push(queue[s], sent + 1)
  <2>1. sent' = sent + 1 /\ history'[s] = history[s] /\ saved'[s] \in {saved[s], history[s]}
    BY <1>13 DEF Delivered
  <2>2. /\ q \in Seq(Nat) /\ UpTo(q, sent')
        /\ Below(history[s], queue[s]) => Below(history[s], q)
        /\ Below(inbox[s], queue[s]) => Below(inbox[s], q)
    BY <1>1, <2>1, PushKeeps DEF Fresh
  <2>3. \/ queue'[s] = q /\ inbox'[s] = inbox[s] /\ (slot'[s] = "Offloaded" => slot[s] = "Offloaded")
        \/ FileRead(s, q) /\ saved'[s] = saved[s] /\ slot'[s] # "Offloaded"
    BY <1>13 DEF Delivered, OnFile
  <2> HIDE DEF q
  <2>4. CASE queue'[s] = q /\ inbox'[s] = inbox[s] /\ (slot'[s] = "Offloaded" => slot[s] = "Offloaded")
    <3>1. slot'[s] = "Offloaded" => Below(history[s], q) /\ Below(inbox[s], q)
      BY <2>2, <2>4 DEF Fresh
    <3>2. QED
      BY <1>1, <1>4, <1>6, <2>1, <2>2, <2>4, <3>1
  <2>5. CASE FileRead(s, q) /\ saved'[s] = saved[s] /\ slot'[s] # "Offloaded"
    BY <1>8, <2>1, <2>2, <2>5
  <2>6. QED
    BY <2>3, <2>4, <2>5
<1>14. QED
  BY <1>7, <1>9, <1>10, <1>11, <1>12, <1>13 DEF MailSteps, Quiet

(* Whatever fails, the history of an offloaded session is the one on disk, *)
(* its runtime is gone, and what waits for it in RAM came after all that   *)
(* it has read and all that its inbox file holds.                          *)
THEOREM OffloadedIsSaved == Spec => []OffloadedIsOnDisk
<1> DEFINE Inv == \A s \in Session : Fresh(s)
<1>1. Init => Inv
  <2>1. ASSUME Init, NEW s \in Session PROVE Fresh(s)
    <3>1. history[s] = <<>> /\ saved[s] = <<>> /\ inbox[s] = <<>> /\ queue[s] = <<>>
      BY <2>1 DEF Init
    <3>2. QED
      BY <3>1, EmptyKeeps, EmptyInOrder DEF Fresh
  <2>2. QED
    BY <2>1
<1>2. MailBase /\ Inv /\ TypeOK' /\ [Next]_vars => Inv'
  BY MailStepsHappen, FreshStep
<1>3. MailBase /\ Inv => OffloadedIsOnDisk
  BY DEF Fresh, MailBase, RestsOnDisk, SlotsAreOnDisk, FilesAreFresh, OnFile, OffloadedIsOnDisk
<1> HIDE DEF Inv
<1>4. QED
  BY <1>1, <1>2, <1>3, MailBaseCorrect, TypeCorrect, PTL DEF Spec

----------------------------------------------------------------------------
(* The tree implements the Mailbox, while nothing but the removal of an    *)
(* inbox file or the build of a Lua runtime fails; a block may not end.    *)

(* Where the mail of a session is, when all saved sessions can be read.    *)
LEMMA WaitsInOnePlace ==
  ASSUME Faults \subseteq {"unlink", "repl", "endless"}, MailBase, NEW s \in Session
  PROVE  /\ OnFile(s) => queue[s] = <<>> /\ Waiting(s) = inbox[s] /\ history[s] = saved[s]
         /\ ~OnFile(s) => Waiting(s) = queue[s]
<1>1. inbox[s] \in Seq(Nat) /\ queue[s] \in Seq(Nat) /\ slot[s] \in SlotState
  BY DEF MailBase, TreeInv, TypeOK
<1>2. OnFile(s) => queue[s] = <<>> /\ history[s] = saved[s]
  BY DEF MailBase, RestsOnDisk, QueuesAreInRam, FilesAreFresh, OnFile
<1>3. QED
  BY <1>1, <1>2, ConcatEmptySeq DEF Waiting, OnFile

(* A file that is within the bound comes back whole.                       *)
LEMMA ReloadWhole ==
  ASSUME NEW file \in Seq(Nat), Len(file) <= MaxQueue
  PROVE  /\ Reload(file, <<>>) = file
         /\ \A n \in Nat : Reload(file, Push(<<>>, n)) = Push(file, n)
<1>1. Len(file) \in Nat /\ MaxQueue \in Nat /\ MaxQueue >= 1
  BY LenProperties, SessionTreeAssumption
<1>2. Reload(file, <<>>) = file
  <2>1. file \o <<>> = file
    BY ConcatEmptySeq
  <2>2. SubSeq(file, 1, Len(file)) = file
    BY <1>1, SubSeqFull
  <2>3. ~(Len(file) > MaxQueue)
    BY <1>1
  <2>4. Reload(file, <<>>) = SubSeq(file, IF Len(file) > MaxQueue THEN Len(file) - MaxQueue + 1 ELSE 1,
                                    Len(file))
    BY <2>1 DEF Reload
  <2>5. QED
    BY <2>2, <2>3, <2>4
<1>3. ASSUME NEW n \in Nat PROVE Reload(file, Push(<<>>, n)) = Push(file, n)
  <2>1. Push(<<>>, n) = <<n>>
    BY <1>1, EmptySeq DEF Push
  <2> DEFINE all == Append(file, n)
  <2>2. file \o <<n>> = all
    BY AppendIsConcat
  <2>3. /\ all \in Seq(Nat) /\ Len(all) = Len(file) + 1 /\ all # <<>>
        /\ \A i \in 1 .. Len(file) : all[i] = file[i]
    BY AppendProperties
  <2>4. all[Len(file) + 1] = n
    BY AppendProperties
  <2> HIDE DEF all
  <2>5. CASE Len(file) < MaxQueue
    <3>1. SubSeq(all, 1, Len(all)) = all
      BY <2>3, SubSeqFull
    <3>2. Reload(file, <<n>>) = SubSeq(all, 1, Len(all))
      <4>1. ~(Len(all) > MaxQueue)
        BY <1>1, <2>3, <2>5
      <4>2. QED
        BY <2>2, <4>1 DEF Reload
    <3>3. Push(file, n) = all
      BY <1>1, <2>5 DEF Push, all
    <3>4. QED
      BY <2>1, <3>1, <3>2, <3>3
  <2>6. CASE Len(file) = MaxQueue
    <3>1. file # <<>>
      BY <1>1, <2>6, EmptySeq
    <3>2. Push(file, n) = Append(Tail(file), n)
      BY <1>1, <2>6 DEF Push
    <3>3. Reload(file, <<n>>) = SubSeq(all, 2, Len(all))
      <4>1. Len(all) > MaxQueue /\ Len(all) - MaxQueue + 1 = 2
        BY <1>1, <2>3, <2>6
      <4>2. QED
        BY <2>2, <4>1 DEF Reload
    <3>4. Tail(all) = SubSeq(all, 2, Len(all))
      BY <2>3, TailIsSubSeq
    <3>5. Tail(all) = Append(Tail(file), n)
      BY <3>1, HeadTailAppend DEF all
    <3>6. QED
      BY <2>1, <3>2, <3>3, <3>4, <3>5
  <2>7. QED
    BY <1>1, <2>5, <2>6
<1>4. QED
  BY <1>2, <1>3

(* A kill of an offloaded session, whose inbox file will not be read.      *)
Loses(s) == slot[s] = "Offloaded" /\ Kill(s) /\ ~OnFile(s)'

MailBox == MailBase /\ QueuesBounded

(* A step that neither delivers to s nor takes its inbox leaves its mail   *)
(* as it is, wherever it goes, or discards it with a kill.                 *)
LEMMA QuietBox ==
  ASSUME Faults \subseteq {"unlink", "repl", "endless"}, MailBox, MailBase', NEW s \in Session, Quiet(s)
  PROVE  /\ history'[s] = history[s]
         /\ Waiting(s)' = Waiting(s) \/ (Loses(s) /\ Waiting(s)' = <<>>)
<1>1. inbox[s] \in Seq(Nat) /\ queue[s] \in Seq(Nat) /\ Len(inbox[s]) <= MaxQueue
  BY DEF MailBox, MailBase, TreeInv, TypeOK, QueuesBounded
<1>2. /\ OnFile(s) => queue[s] = <<>> /\ Waiting(s) = inbox[s] /\ history[s] = saved[s]
      /\ ~OnFile(s) => Waiting(s) = queue[s]
  BY WaitsInOnePlace DEF MailBox
<1>3. /\ OnFile(s)' => queue'[s] = <<>> /\ Waiting(s)' = inbox'[s]
      /\ ~OnFile(s)' => Waiting(s)' = queue'[s]
  <2>1. /\ (OnFile(s) => queue[s] = <<>> /\ Waiting(s) = inbox[s] /\ history[s] = saved[s])'
        /\ (~OnFile(s) => Waiting(s) = queue[s])'
    BY WaitsInOnePlace, PTL
  <2>2. QED
    BY <2>1
<1>4. CASE Kept(s)
  <2>1. history'[s] = history[s] /\ queue'[s] = queue[s] /\ inbox'[s] = inbox[s]
    BY <1>4 DEF Kept
  <2>2. CASE OnFile(s) <=> OnFile(s)'
    BY <1>2, <1>3, <2>1, <2>2
  <2>3. CASE slot[s] = "Absent" /\ s \notin disk /\ ~OnFile(s)'
    <3>1. inbox[s] = <<>> /\ OnFile(s)
      BY <2>3 DEF OnFile, MailBox, MailBase, RestsOnDisk, InboxesAreOnDisk
    <3>2. QED
      BY <1>2, <1>3, <2>1, <2>3, <3>1
  <2>4. CASE slot[s] = "Offloaded" /\ Kill(s) /\ ~OnFile(s)'
    <3>1. OnFile(s)
      BY <2>4 DEF OnFile
    <3>2. QED
      BY <1>2, <1>3, <2>1, <2>4, <3>1 DEF Loses
  <2>5. QED
    BY <1>4, <2>2, <2>3, <2>4 DEF Kept
<1>5. CASE WokenUp(s)
  <2>1. OnFile(s) /\ ~OnFile(s)' /\ queue'[s] = Reload(inbox[s], queue[s])
    BY <1>5 DEF WokenUp, FileRead, OnFile
  <2>2. queue'[s] = inbox[s]
    BY <1>1, <1>2, <2>1, ReloadWhole
  <2>3. QED
    BY <1>2, <1>3, <1>5, <2>1, <2>2 DEF WokenUp
<1>6. CASE Unloaded(s)
  BY <1>2, <1>3, <1>6 DEF Unloaded
<1>7. ~Dropped(s)
  BY DEF Dropped
<1>8. CASE LeftOnDisk(s)
  BY <1>2, <1>3, <1>8 DEF LeftOnDisk
<1>9. QED
  BY <1>4, <1>5, <1>6, <1>7, <1>8 DEF Quiet

(* What a kill of an offloaded session leaves alone.                       *)
LEMMA LosesAlone ==
  ASSUME MailBase, NEW s \in Session, Loses(s)
  PROVE  /\ UNCHANGED <<queue, history, sent>>
         /\ \A r \in Session : r # s => ~Loses(r)
<1>1. UNCHANGED <<queue, history, sent>> /\ \E v : slot' = [slot EXCEPT ![s] = v]
  BY DEF Loses, Kill, Control
<1>2. \A r \in Session : r # s => slot'[r] = slot[r]
  BY <1>1 DEF MailBase, TreeInv, TypeOK
<1>3. QED
  BY <1>1, <1>2 DEF Loses, OnFile

(* A loop that finds its inbox empty takes nothing.                        *)
LEMMA EmptyTake ==
  ASSUME MailBase, NEW s \in Session, Taken(s), queue[s] = <<>>
  PROVE  Kept(s)
<1>1. history[s] \in Seq(Nat)
  BY DEF MailBase, TreeInv, TypeOK
<1>2. history[s] \o <<>> = history[s]
  BY <1>1, ConcatEmptySeq
<1>3. QED
  BY <1>2 DEF Taken, Kept

(* A delivery is an acceptance of the mailbox.                             *)
LEMMA DeliveredBox ==
  ASSUME Faults \subseteq {"unlink", "repl", "endless"}, MailBox, MailBase', NEW s \in Session, Delivered(s)
  PROVE  /\ history'[s] = history[s] /\ sent' = sent + 1
         /\ Waiting(s)' = Push(Waiting(s), sent + 1)
<1>1. /\ inbox[s] \in Seq(Nat) /\ queue[s] \in Seq(Nat) /\ Len(inbox[s]) <= MaxQueue
      /\ sent + 1 \in Nat
  BY DEF MailBox, MailBase, TreeInv, TypeOK, QueuesBounded
<1>2. /\ OnFile(s) => queue[s] = <<>> /\ Waiting(s) = inbox[s]
      /\ ~OnFile(s) => Waiting(s) = queue[s]
  BY WaitsInOnePlace DEF MailBox
<1>3. ~OnFile(s)' => Waiting(s)' = queue'[s]
  <2>1. (~OnFile(s) => Waiting(s) = queue[s])'
    BY WaitsInOnePlace, PTL
  <2>2. QED
    BY <2>1
<1>4. CASE /\ slot[s] = "Offloaded" /\ ~OnFile(s)'
           /\ queue'[s] = Reload(inbox[s], Push(queue[s], sent + 1))
  <2>1. OnFile(s)
    BY <1>4 DEF OnFile
  <2>2. queue'[s] = Push(inbox[s], sent + 1)
    BY <1>1, <1>2, <1>4, <2>1, ReloadWhole
  <2>3. QED
    BY <1>2, <1>3, <1>4, <2>1, <2>2 DEF Delivered
<1>5. CASE queue'[s] = Push(queue[s], sent + 1) /\ ~OnFile(s) /\ ~OnFile(s)'
  BY <1>2, <1>3, <1>5 DEF Delivered
<1>6. QED
  BY <1>4, <1>5 DEF Delivered, FileRead, OnFile

(* Every step of the tree is a step of the mailbox or none; of those that  *)
(* discard a box, it is a kill.                                            *)
LEMMA MailRefines ==
  ASSUME Faults \subseteq {"unlink", "repl", "endless"}, MailBox, MailBase', MailSteps
  PROVE  /\ [Mail!MailNext]_(Mail!mailVars)
         /\ \A s \in Session : Mail!Discard(s) => Kill(s)
<1> DEFINE box == [s \in Session |-> Waiting(s)]
<1>0. /\ history \in [Session -> Seq(Nat)] /\ history' \in [Session -> Seq(Nat)]
      /\ sent \in Nat /\ box \in [Session -> Seq(Nat)]
  <2>1. \A s \in Session : Waiting(s) \in Seq(Nat)
    BY ConcatProperties, EmptySeq DEF MailBox, MailBase, TreeInv, TypeOK, Waiting
  <2>2. QED
    BY <2>1 DEF MailBox, MailBase, TreeInv, TypeOK
<1>1. CASE sent' = sent /\ \A s \in Session : Quiet(s)
  <2>1. \A s \in Session : /\ history'[s] = history[s]
                           /\ Waiting(s)' = Waiting(s) \/ (Loses(s) /\ Waiting(s)' = <<>>)
    BY <1>1, QuietBox
  <2>2. history' = history
    BY <1>0, <2>1
  <2>3. ASSUME NEW s \in Session, Mail!Discard(s) PROVE Kill(s)
    <3>1. box[s] # <<>> /\ box' = [box EXCEPT ![s] = <<>>]
      BY <2>3 DEF Mail!Discard
    <3>2. Waiting(s) # <<>> /\ Waiting(s)' = <<>>
      BY <3>1
    <3>3. QED
      BY <2>1, <3>2 DEF Loses
  <2>4. CASE \A s \in Session : Waiting(s)' = Waiting(s)
    <3>1. box' = box
      BY <2>4
    <3>2. QED
      BY <1>1, <2>2, <2>3, <3>1 DEF Mail!mailVars
  <2>5. CASE \E s \in Session : Waiting(s)' # Waiting(s)
    <3>1. PICK s \in Session : Waiting(s)' # Waiting(s)
      BY <2>5
    <3>2. Loses(s) /\ Waiting(s)' = <<>>
      BY <2>1, <3>1
    <3>3. \A r \in Session : r # s => Waiting(r)' = Waiting(r)
      BY <2>1, <3>2, LosesAlone DEF MailBox
    <3>4. box' = [box EXCEPT ![s] = <<>>] /\ box[s] # <<>>
      BY <3>1, <3>2, <3>3
    <3>5. Mail!Discard(s)
      BY <1>1, <2>2, <3>4 DEF Mail!Discard
    <3>6. QED
      BY <2>3, <3>5 DEF Mail!MailNext
  <2>6. QED
    BY <2>4, <2>5
<1>2. ASSUME NEW s \in Session, Delivered(s), \A r \in Session : r # s => Kept(r)
      PROVE  /\ [Mail!MailNext]_(Mail!mailVars)
             /\ \A r \in Session : Mail!Discard(r) => Kill(r)
  <2>1. history'[s] = history[s] /\ sent' = sent + 1 /\ Waiting(s)' = Push(Waiting(s), sent + 1)
    BY <1>2, DeliveredBox
  <2>2. \A r \in Session : ~Loses(r)
    BY <1>0, <2>1, LosesAlone DEF MailBox
  <2>3. \A r \in Session : r # s => history'[r] = history[r] /\ Waiting(r)' = Waiting(r)
    BY <1>2, <2>2, QuietBox DEF Quiet
  <2>4. history' = history
    BY <1>0, <2>1, <2>3
  <2>5. box' = [box EXCEPT ![s] = Append(IF Len(@) >= MaxQueue THEN Tail(@) ELSE @, sent')]
    BY <2>1, <2>3 DEF Push
  <2>6. Mail!Accept(s)
    BY <2>1, <2>4, <2>5 DEF Mail!Accept
  <2>7. \A r \in Session : ~Mail!Discard(r)
    BY <1>0, <2>1 DEF Mail!Discard
  <2>8. QED
    BY <2>6, <2>7 DEF Mail!MailNext
<1>3. ASSUME NEW s \in Session, Taken(s), \A r \in Session : r # s => Kept(r)
      PROVE  /\ [Mail!MailNext]_(Mail!mailVars)
             /\ \A r \in Session : Mail!Discard(r) => Kill(r)
  <2>1. CASE queue[s] = <<>>
    <3>1. \A r \in Session : Quiet(r)
      BY <1>3, <2>1, EmptyTake DEF Quiet, MailBox
    <3>2. QED
      BY <1>1, <1>3, <3>1 DEF Taken
  <2>2. CASE queue[s] # <<>>
    <3>1. /\ history'[s] = history[s] \o queue[s] /\ queue'[s] = <<>> /\ sent' = sent
          /\ ~OnFile(s) /\ ~OnFile(s)'
      BY <1>3 DEF Taken
    <3>2. Waiting(s) = queue[s]
      BY <3>1, WaitsInOnePlace DEF MailBox
    <3>3. Waiting(s)' = <<>>
      <4>1. (~OnFile(s) => Waiting(s) = queue[s])'
        BY WaitsInOnePlace, PTL
      <4>2. QED
        BY <3>1, <4>1
    <3>4. \A r \in Session : ~Loses(r)
      BY <2>2, <3>1, LosesAlone DEF MailBox
    <3>5. \A r \in Session : r # s => history'[r] = history[r] /\ Waiting(r)' = Waiting(r)
      BY <1>3, <3>4, QuietBox DEF Quiet
    <3>6. history' = [history EXCEPT ![s] = @ \o box[s]]
      BY <1>0, <3>1, <3>2, <3>5
    <3>7. box' = [box EXCEPT ![s] = <<>>] /\ box[s] # <<>>
      BY <2>2, <3>2, <3>3, <3>5
    <3>8. Mail!Take(s)
      BY <3>1, <3>6, <3>7 DEF Mail!Take
    <3>9. history' # history
      <4>1. queue[s] \in Seq(Nat) /\ history[s] \in Seq(Nat)
        BY DEF MailBox, MailBase, TreeInv, TypeOK
      <4>2. history[s] \o queue[s] # history[s]
        <5>1. \A a, b \in Seq(Nat) : a \o b = a <=> b = <<>>
          BY ConcatEqualIffEmpty
        <5>2. QED
          BY <2>2, <4>1, <5>1
      <4>3. QED
        BY <3>1, <4>2
    <3>10. \A r \in Session : ~Mail!Discard(r)
      BY <3>9 DEF Mail!Discard
    <3>11. QED
      BY <3>8, <3>10 DEF Mail!MailNext
  <2>3. QED
    BY <2>1, <2>2
<1>4. QED
  BY <1>1, <1>2, <1>3 DEF MailSteps

(* While nothing but the removal of an inbox file or the build of a Lua    *)
(* runtime fails, the tree keeps the promise of the mailbox: an accepted   *)
(* message waits, through offload, wake, shutdown and restart, in order,   *)
(* until its session reads all that waits for it; a full inbox and a kill  *)
(* alone lose one.                                                         *)
THEOREM TreeKeepsMail ==
  ASSUME Faults \subseteq {"unlink", "repl", "endless"}
  PROVE  Spec => KeepsMail
<1>1. Init => Mail!MailInit
  <2>1. ASSUME Init, NEW s \in Session PROVE Waiting(s) = <<>>
    BY <2>1, ConcatEmptySeq, EmptySeq DEF Init, Waiting
  <2>2. ASSUME Init PROVE history = [s \in Session |-> <<>>] /\ sent = 0
    BY <2>2 DEF Init
  <2>3. QED
    BY <2>1, <2>2 DEF Mail!MailInit
<1>2. MailBox /\ MailBase' /\ [Next]_vars => [Mail!MailNext]_(Mail!mailVars)
  BY MailStepsHappen, MailRefines DEF MailBox
<1>3. QED
  BY <1>1, <1>2, MailBaseCorrect, InboxesStayBounded, PTL DEF Spec, MailBox, KeepsMail, Mail!MailSpec

(* Nor does anything but a kill empty a mailbox unread: neither an offload *)
(* nor a restart, whose inbox file is read again before the next message.  *)
THEOREM OnlyAKillDiscards ==
  ASSUME Faults \subseteq {"unlink", "repl", "endless"}
  PROVE  Spec => OnlyKillDiscards
<1>1. MailBox /\ MailBase' /\ [Next]_vars =>
        [\A s \in Session : Mail!Discard(s) => Kill(s)]_vars
  BY MailStepsHappen, MailRefines DEF MailBox
<1>2. QED
  BY <1>1, MailBaseCorrect, InboxesStayBounded, PTL DEF Spec, MailBox, OnlyKillDiscards
=============================================================================
