------------------------- MODULE SessionTreeProofs -------------------------
(* Theorems about SessionTree, for every set of sessions, every queue      *)
(* bound and every set of faults.                                          *)
EXTENDS SessionTree, SequenceTheorems, TLAPS

(* Bus::push returns a queue, never an empty one, and keeps the bound.     *)
LEMMA PushLemma ==
  ASSUME NEW q \in Seq(Nat), NEW m \in Nat
  PROVE  /\ Push(q, m) \in Seq(Nat)
         /\ Push(q, m) # <<>>
         /\ Len(q) <= MaxQueue => Len(Push(q, m)) <= MaxQueue
<1> DEFINE r == IF Len(q) >= MaxQueue THEN Tail(q) ELSE q
<1>1. Len(q) >= MaxQueue => q # <<>>
  BY SessionTreeAssumption, EmptySeq
<1>2. /\ r \in Seq(Nat)
      /\ Len(q) <= MaxQueue => Len(r) < MaxQueue
  BY <1>1, SessionTreeAssumption, HeadTailProperties, LenProperties
<1>3. /\ Append(r, m) \in Seq(Nat)
      /\ Append(r, m) # <<>>
      /\ Len(Append(r, m)) = Len(r) + 1
  BY <1>2, AppendProperties
<1>4. Push(q, m) = Append(r, m)
  BY DEF Push
<1> HIDE DEF r
<1>5. QED
  BY <1>2, <1>3, <1>4, SessionTreeAssumption, LenProperties

(* Bus::load returns a queue within the bound.                             *)
LEMMA ReloadLemma ==
  ASSUME NEW file \in Seq(Nat), NEW fresh \in Seq(Nat)
  PROVE  /\ Reload(file, fresh) \in Seq(Nat)
         /\ Len(Reload(file, fresh)) <= MaxQueue
<1> DEFINE all == file \o fresh
           from == IF Len(all) > MaxQueue THEN Len(all) - MaxQueue + 1 ELSE 1
<1>1. all \in Seq(Nat) /\ Len(all) \in Nat
  BY ConcatProperties, LenProperties
<1>2. Reload(file, fresh) = SubSeq(all, from, Len(all))
  BY DEF Reload
<1> HIDE DEF all
<1>3. /\ from \in 1 .. Len(all) + 1
      /\ Len(all) - from + 1 <= MaxQueue
  BY <1>1, SessionTreeAssumption
<1> HIDE DEF from
<1>4. /\ SubSeq(all, from, Len(all)) \in Seq(Nat)
      /\ Len(SubSeq(all, from, Len(all))) =
           IF from <= Len(all) THEN Len(all) - from + 1 ELSE 0
  BY SMTT(30), <1>1, <1>3, SubSeqProperties
<1>5. QED
  BY <1>1, <1>2, <1>3, <1>4, SessionTreeAssumption

----------------------------------------------------------------------------
(* Type correctness.                                                       *)

USE DEF SlotState, TaskState, Live, Outcome, Ctl, actor, Serves

LEMMA SaveType ==
  ASSUME TypeOK, NEW s \in Session, Save(s)
  PROVE  saved' \in [Session -> Seq(Nat)]
<1>1. PICK h \in {history[s], saved[s]} : saved' = [saved EXCEPT ![s] = h]
  BY DEF Save
<1>2. h \in Seq(Nat)
  BY <1>1 DEF TypeOK
<1>3. QED
  BY <1>1, <1>2 DEF TypeOK

LEMMA StartType ==
  ASSUME TypeOK, NEW S
  PROVE  /\ Started(S) \in [Session -> SlotState]
         /\ Tasked(S) \in [Session -> TaskState]
BY DEF TypeOK, Started, Tasked

(* A message posted to a running session leaves channels of messages.      *)
LEMMA PostType ==
  ASSUME TypeOK, NEW s \in Session, NEW msg \in Ctl, Post(s, msg)
  PROVE  ctl' \in [Session -> Seq(Ctl)] /\ calling' \subseteq Session
<1>1. Append(ctl[s], msg) \in Seq(Ctl)
  BY AppendProperties DEF TypeOK
<1>2. QED
  BY ZenonT(60), <1>1 DEF Post, Posted, TypeOK

LEMMA AskToPauseType ==
  ASSUME TypeOK, NEW S \in SUBSET Session, AskToPause(S)
  PROVE  /\ ctl' \in [Session -> Seq(Ctl)]
         /\ calling' \subseteq Session /\ unasked' \subseteq Session
<1>1. \A s \in Session : Append(ctl[s], "Pause") \in Seq(Ctl)
  BY AppendProperties DEF TypeOK
<1>2. ctl' \in [Session -> Seq(Ctl)]
  BY <1>1 DEF AskToPause, TypeOK
<1>3. calling' \subseteq Session /\ unasked' \subseteq Session
  BY DEF AskToPause
<1>4. QED
  BY <1>2, <1>3

(* What Tree::send leaves is well typed, and the queue it pushed to is not *)
(* empty unless the bound on a reload emptied it; other queues stay.       *)
LEMMA SendType ==
  ASSUME TypeOK, NEW to \in Session, NEW fault
  PROVE  /\ QueuesAfter(to, fault) \in [Session -> Seq(Nat)]
         /\ InboxesAfter(to, fault) \in [Session -> Seq(Nat)]
         /\ \A s \in Session : s # to =>
              /\ QueuesAfter(to, fault)[s] = queue[s]
              /\ InboxesAfter(to, fault)[s] = inbox[s]
<1> DEFINE q == Push(queue[to], sent + 1)
<1>1. q \in Seq(Nat)
  BY PushLemma DEF TypeOK
<1>2. Reload(inbox[to], q) \in Seq(Nat)
  BY <1>1, ReloadLemma DEF TypeOK
<1>3. /\ QueuesAfter(to, fault) =
           [queue EXCEPT ![to] = IF ReadsInbox(to, fault)
                                 THEN Reload(inbox[to], q) ELSE q]
      /\ InboxesAfter(to, fault) =
           [inbox EXCEPT ![to] = IF ReadsInbox(to, fault) /\ fault # "unlink"
                                 THEN <<>> ELSE @]
  BY DEF QueuesAfter, InboxesAfter
<1> HIDE DEF q
<1>4. QED
  BY <1>1, <1>2, <1>3, EmptySeq DEF TypeOK

LEMMA OffloadType ==
  ASSUME TypeOK, NEW S, NEW gone, NEW half, NEW unwritten,
         OffloadEach(S, gone, half, unwritten)
  PROVE  /\ saved' \in [Session -> Seq(Nat)]
         /\ inbox' \in [Session -> Seq(Nat)]
BY DEF TypeOK, OffloadEach

LEMMA OffloadSlotsType ==
  ASSUME TypeOK, NEW S, OffloadSlots(S)
  PROVE  /\ saved' \in [Session -> Seq(Nat)]
         /\ inbox' \in [Session -> Seq(Nat)]
         /\ queue' \in [Session -> Seq(Nat)]
         /\ history' \in [Session -> Seq(Nat)]
         /\ slot' \in [Session -> SlotState]
         /\ lua' \subseteq Session
<1>1. PICK gone, half, unwritten :
        /\ OffloadEach(S, gone, half, unwritten)
        /\ slot' = [s \in Session |-> IF s \in gone THEN "Absent"
                                      ELSE IF s \in S THEN "Offloaded" ELSE slot[s]]
        /\ queue' = [s \in Session |-> IF s \in S \ gone THEN <<>> ELSE queue[s]]
        /\ history' = [s \in Session |-> IF s \in gone THEN saved'[s] ELSE history[s]]
        /\ lua' = lua \ S
  BY DEF OffloadSlots
<1>2. saved' \in [Session -> Seq(Nat)] /\ inbox' \in [Session -> Seq(Nat)]
  BY <1>1, OffloadType
<1>3. queue' \in [Session -> Seq(Nat)] /\ history' \in [Session -> Seq(Nat)]
  BY <1>1, <1>2, EmptySeq DEF TypeOK
<1>4. slot' \in [Session -> SlotState] /\ lua' \subseteq Session
  BY <1>1 DEF TypeOK
<1>5. QED
  BY <1>2, <1>3, <1>4

LEMMA TypeStep == TypeOK /\ [Next]_vars => TypeOK'
<1> SUFFICES ASSUME TypeOK, [Next]_vars PROVE TypeOK'
  OBVIOUS
<1>1. ASSUME NEW s \in Session, NEW p \in Session \cup {NoSession}, Spawn(s, p)
      PROVE  TypeOK'
  <2>1. slot' \in [Session -> SlotState] /\ task' \in [Session -> TaskState]
    BY SMTT(30), <1>1, StartType DEF Spawn, TypeOK
  <2>2. disk' \subseteq Session /\ inputs' \in 0 .. MaxInputs
    BY <1>1, SessionTreeAssumption DEF Spawn, Input, TypeOK
  <2>3. QED
    BY <1>1, <2>1, <2>2 DEF Spawn, TypeOK
<1>2. ASSUME NEW s \in Session, Send(s) PROVE TypeOK'
  <2>1. /\ slot' \in [Session -> SlotState] /\ task' \in [Session -> TaskState]
        /\ queue' \in [Session -> Seq(Nat)] /\ inbox' \in [Session -> Seq(Nat)]
    BY <1>2, StartType, SendType DEF Send
  <2>2. inputs' \in 0 .. MaxInputs
    BY <1>2, SessionTreeAssumption DEF Send, Input, TypeOK
  <2>3. QED
    BY <1>2, <2>1, <2>2 DEF Send, TypeOK
<1>3. ASSUME NEW s \in Session, Pause(s) PROVE TypeOK'
  <2>1. ctl' \in [Session -> Seq(Ctl)] /\ calling' \subseteq Session
    BY <1>3, PostType DEF Pause, Control, TypeOK
  <2>2. QED
    BY <1>3, <2>1 DEF Pause, Control, TypeOK
<1>4. ASSUME NEW s \in Session, Resume(s) PROVE TypeOK'
  <2>1. PICK fault :
          /\ slot' = Started({s})
          /\ task' = Tasked({s})
          /\ queue' = [queue EXCEPT ![s] =
                         IF ReadsInbox(s, fault) THEN Reload(inbox[s], @) ELSE @]
          /\ inbox' = InboxesAfter(s, fault)
    BY <1>4 DEF Resume
  <2>2. Reload(inbox[s], queue[s]) \in Seq(Nat)
    BY ReloadLemma DEF TypeOK
  <2>3. /\ slot' \in [Session -> SlotState] /\ task' \in [Session -> TaskState]
        /\ queue' \in [Session -> Seq(Nat)] /\ inbox' \in [Session -> Seq(Nat)]
    BY <2>1, <2>2, StartType, SendType DEF TypeOK
  <2>4. inputs' \in 0 .. MaxInputs
    BY <1>4, SessionTreeAssumption DEF Resume, Input, TypeOK
  <2>5. QED
    BY <1>4, <2>3, <2>4 DEF Resume, TypeOK
<1>5. ASSUME NEW s \in Session, Kill(s) PROVE TypeOK'
  <2>1. saved' \in [Session -> Seq(Nat)]
    BY <1>5, SaveType DEF Kill, Control, TypeOK
  <2>2. slot' \in [Session -> SlotState]
    BY <1>5 DEF Kill, Control, TypeOK
  <2>5. ctl' \in [Session -> Seq(Ctl)] /\ calling' \subseteq Session
    BY <1>5, PostType DEF Kill, Control, TypeOK
  <2>3. history' = history
    BY <1>5 DEF Kill, Control
  <2>4. QED
    BY <1>5, <2>1, <2>2, <2>3, <2>5 DEF Kill, TypeOK
<1>6. ASSUME NEW s \in Session, Offload(s) PROVE TypeOK'
  BY <1>6, OffloadSlotsType DEF Offload, TypeOK
<1>7. ASSUME Sweep PROVE TypeOK'
  BY <1>7, OffloadSlotsType DEF Sweep, TypeOK
<1>8. ASSUME NEW s \in Session, Prepare(s) PROVE TypeOK'
  BY <1>8, SaveType DEF Prepare, Goto, Finish, TypeOK
<1>9. ASSUME NEW s \in Session, CheckControl(s) PROVE TypeOK'
  BY <1>9, SaveType DEF CheckControl, Goto, Finish, Stopped, TypeOK
<1>10. ASSUME NEW s \in Session, TakeInbox(s)
       PROVE  queue' \in [Session -> Seq(Nat)] /\ history' \in [Session -> Seq(Nat)]
  <2>1. history[s] \o queue[s] \in Seq(Nat)
    BY ConcatProperties DEF TypeOK
  <2>2. QED
    BY <1>10, <2>1, EmptySeq DEF TakeInbox, TypeOK
<1>11. ASSUME NEW s \in Session, Drain(s) PROVE TypeOK'
  BY <1>10, <1>11 DEF Drain, TakeInbox, Goto, TypeOK
<1>12. ASSUME NEW s \in Session, Recv(s) PROVE TypeOK'
  BY <1>10, <1>12 DEF Recv, TakeInbox, TypeOK
<1>13. ASSUME NEW s \in Session, AwaitModel(s) PROVE TypeOK'
  <2>1. saved' \in [Session -> Seq(Nat)]
    BY <1>13, SaveType DEF AwaitModel, Finish, TypeOK
  <2>2. task' \in [Session -> TaskState]
    <3>1. \E t \in TaskState : task' = [task EXCEPT ![s] = t]
      BY <1>13 DEF AwaitModel, Goto, Finish, Stopped, TaskState, Live, Outcome
    <3>2. QED
      BY <3>1 DEF TypeOK
  <2>3. QED
    BY <1>13, <2>1, <2>2 DEF AwaitModel, TypeOK
<1>14. ASSUME NEW s \in Session, EndTurn(s) PROVE TypeOK'
  <2>1. saved' \in [Session -> Seq(Nat)]
    BY <1>14, SaveType DEF EndTurn, Finish, TypeOK
  <2>2. task' \in [Session -> TaskState]
    BY <1>14 DEF EndTurn, Goto, Finish, TypeOK
  <2>3. QED
    BY <1>14, <2>1, <2>2 DEF EndTurn, TypeOK
<1>15. ASSUME NEW s \in Session, Panic(s) PROVE TypeOK'
  BY <1>15 DEF Panic, Goto, TypeOK
<1>16. ASSUME NEW s \in Session, Join(s) PROVE TypeOK'
  <2>1. saved' \in [Session -> Seq(Nat)]
    BY <1>16, SaveType DEF Join
  <2>2. Reports(s) => parent[s] \in Session
    BY DEF Reports, TypeOK
  <2>3. /\ queue' \in [Session -> Seq(Nat)]
        /\ inbox' \in [Session -> Seq(Nat)]
    BY SMTT(30), <1>16, <2>2, SendType DEF Join, TypeOK
  <2>4. sent' \in Nat
    BY <1>16 DEF Join, TypeOK
  <2>5. slot' \in [Session -> SlotState] /\ task' \in [Session -> TaskState]
    BY <1>16, StartType DEF Join
  <2>6. ctl' \in [Session -> Seq(Ctl)]
    BY <1>16, EmptySeq DEF Join, TypeOK
  <2>7. QED
    BY <1>16, <2>1, <2>3, <2>4, <2>5, <2>6 DEF Join, TypeOK
<1>17. ASSUME BeginShutdown PROVE TypeOK'
  <2> DEFINE S == {s \in Session : slot[s] = "Running"}
  <2>1. S \in SUBSET Session /\ AskToPause(S)
    BY <1>17 DEF BeginShutdown
  <2> HIDE DEF S
  <2>2. QED
    BY <1>17, <2>1, AskToPauseType DEF BeginShutdown, TypeOK
<1>unblock. ASSUME Unblock PROVE TypeOK'
  <2>1. unasked \in SUBSET Session /\ AskToPause(unasked)
    BY <1>unblock DEF Unblock, TypeOK
  <2>2. QED
    BY <1>unblock, <2>1, AskToPauseType DEF Unblock, TypeOK
<1>moves. ASSUME NEW s \in Session, Ask(s) \/ Answer(s) \/ NeverEnds(s) PROVE TypeOK'
  BY <1>moves DEF Ask, Answer, NeverEnds, Goto, TypeOK
<1>18. ASSUME EndShutdown PROVE TypeOK'
  <2>1. saved' \in [Session -> Seq(Nat)] /\ inbox' \in [Session -> Seq(Nat)]
    BY <1>18, OffloadType DEF EndShutdown
  <2>2. QED
    BY <1>18, <2>1, EmptySeq DEF EndShutdown, ExitProcess, TypeOK
<1>19. ASSUME Crash PROVE TypeOK'
  BY <1>19, EmptySeq DEF Crash, ExitProcess, TypeOK
<1>20. ASSUME Restart PROVE TypeOK'
  BY <1>20 DEF Restart, TypeOK
<1>21. CASE UNCHANGED vars
  BY <1>21 DEF vars, TypeOK
<1>22. QED
  BY <1>1, <1>2, <1>3, <1>4, <1>5, <1>6, <1>7, <1>8, <1>9, <1>11, <1>12, <1>13,
     <1>14, <1>15, <1>16, <1>17, <1>18, <1>19, <1>20, <1>21, <1>unblock, <1>moves DEF Next

(* Every state of the tree is well typed: a slot, a task and a control     *)
(* message are among the ones the code knows, inboxes hold messages.       *)
THEOREM TypeCorrect == Spec => []TypeOK
<1>1. Init => TypeOK
  BY SessionTreeAssumption, EmptySeq DEF Init, TypeOK
<1>2. QED
  BY <1>1, TypeStep, PTL DEF Spec

----------------------------------------------------------------------------
(* No lost wakeup, one loop per session.                                   *)

(* A push by Tree::send leaves no idle session with a message: the target  *)
(* is started when it was idle, and the other queues are as they were.     *)
LEMMA SendWakes ==
  ASSUME TypeOK, NoLostWakeup, NEW to \in Session, NEW fault
  PROVE  /\ \A s \in Session : Started(Woken(to, fault))[s] = "Idle" =>
                /\ slot[s] = "Idle"
                /\ QueuesAfter(to, fault)[s] = <<>>
         /\ \A s \in Woken(to, fault) : slot[s] \in {"Idle", "Offloaded"}
         /\ Woken(to, fault) \subseteq Session
<1>1. slot[to] = "Idle" => Woken(to, fault) = {to}
  BY DEF Woken, Wakes
<1>2. \A s \in Session : s # to => QueuesAfter(to, fault)[s] = queue[s]
  BY SendType
<1>3. Woken(to, fault) \subseteq {to}
  BY DEF Woken
<1>4. \A s \in Session : Started(Woken(to, fault))[s] = "Idle" =>
        slot[s] = "Idle" /\ s \notin Woken(to, fault)
  BY DEF Started
<1>5. \A s \in Woken(to, fault) : slot[s] \in {"Idle", "Offloaded"}
  BY DEF Woken, Wakes, Reloads
<1>6. QED
  BY <1>1, <1>2, <1>3, <1>4, <1>5 DEF NoLostWakeup

(* Starting sessions that are not running keeps one loop per session.      *)
LEMMA StartOneLoop ==
  ASSUME TypeOK, OneLoop, NEW S
  PROVE  \A s \in Session :
            Tasked(S)[s] # "none" => Started(S)[s] = "Running"
BY DEF OneLoop, Started, Tasked

(* Offloading sessions that do not run disturbs neither.                   *)
LEMMA OffloadKeeps ==
  ASSUME TypeOK, NoLostWakeup, OneLoop, NEW S,
         \A s \in S : slot[s] \in {"Idle", "Paused"},
         OffloadSlots(S), task' = task
  PROVE  NoLostWakeup' /\ OneLoop'
<1>1. PICK gone \in SUBSET S :
        /\ slot' = [s \in Session |-> IF s \in gone THEN "Absent"
                                      ELSE IF s \in S THEN "Offloaded" ELSE slot[s]]
        /\ queue' = [s \in Session |-> IF s \in S \ gone THEN <<>> ELSE queue[s]]
  BY DEF OffloadSlots, Some
<1>2. NoLostWakeup'
  BY <1>1 DEF NoLostWakeup
<1>3. OneLoop'
  BY <1>1 DEF OneLoop
<1>4. QED
  BY <1>2, <1>3

LEMMA TreeInvStep == TreeInv /\ [Next]_vars => TreeInv'
<1> SUFFICES ASSUME TreeInv, [Next]_vars PROVE TreeInv'
  OBVIOUS
<1> USE DEF TreeInv
<1>0. TypeOK'
  BY TypeStep
<1>1. ASSUME NEW s \in Session, NEW p \in Session \cup {NoSession}, Spawn(s, p)
      PROVE  TreeInv'
  <2>1. CASE slot' = Started({s}) /\ task' = Tasked({s})
    <3>1. OneLoop'
      BY <2>1, StartOneLoop DEF OneLoop
    <3>2. NoLostWakeup'
      BY <1>1, <2>1 DEF Spawn, Started, NoLostWakeup
    <3>3. QED
      BY <1>0, <1>1, <3>1, <3>2 DEF Spawn, DownHasNoTask
  <2>2. CASE UNCHANGED <<slot, task>>
    BY <1>0, <1>1, <2>2 DEF Spawn, NoLostWakeup, OneLoop, DownHasNoTask
  <2>3. QED
    BY <1>1, <2>1, <2>2 DEF Spawn
<1>2. ASSUME NEW s \in Session, Send(s) PROVE TreeInv'
  <2>1. PICK fault :
          /\ slot' = Started(Woken(s, fault))
          /\ task' = Tasked(Woken(s, fault))
          /\ queue' = QueuesAfter(s, fault)
    BY <1>2 DEF Send
  <2>2. OneLoop'
    BY <2>1, StartOneLoop DEF OneLoop
  <2>3. NoLostWakeup'
    BY <2>1, SendWakes DEF NoLostWakeup
  <2>4. QED
    BY <1>0, <1>2, <2>2, <2>3 DEF Send, DownHasNoTask
<1>3. ASSUME NEW s \in Session, Pause(s) PROVE TreeInv'
  <2>1. slot' = slot \/ (slot' = [slot EXCEPT ![s] = "Paused"] /\ slot[s] = "Idle")
    BY <1>3 DEF Pause, Control
  <2>2. NoLostWakeup' /\ OneLoop'
    BY <1>3, <2>1 DEF Pause, TypeOK, NoLostWakeup, OneLoop
  <2>3. QED
    BY <1>0, <1>3, <2>2 DEF Pause, DownHasNoTask
<1>4. ASSUME NEW s \in Session, Resume(s) PROVE TreeInv'
  <2>1. PICK fault :
          /\ slot' = Started({s})
          /\ task' = Tasked({s})
          /\ queue' = [queue EXCEPT ![s] =
                         IF ReadsInbox(s, fault) THEN Reload(inbox[s], @) ELSE @]
    BY <1>4 DEF Resume
  <2>2. OneLoop'
    BY <2>1, StartOneLoop DEF OneLoop
  <2>3. NoLostWakeup'
    BY <2>1 DEF NoLostWakeup, Started, TypeOK
  <2>4. QED
    BY <1>0, <1>4, <2>2, <2>3 DEF Resume, DownHasNoTask
<1>5. ASSUME NEW s \in Session, Kill(s) PROVE TreeInv'
  <2>1. slot' = slot \/ \E v \in {"Paused", "Absent"} :
                           slot' = [slot EXCEPT ![s] = v] /\ slot[s] # "Running"
    BY <1>5 DEF Kill, Control
  <2>2. task' = task /\ slot \in [Session -> SlotState]
    BY <1>5 DEF Kill, TypeOK
  <2>3. OneLoop'
    BY <2>1, <2>2 DEF OneLoop
  <2>4. NoLostWakeup'
    BY <1>5, <2>1, <2>2 DEF Kill, NoLostWakeup
  <2>5. QED
    BY <1>0, <1>5, <2>3, <2>4 DEF Kill, DownHasNoTask
<1>6. ASSUME NEW s \in Session, Offload(s) PROVE TreeInv'
  <2>1. OffloadSlots({s}) /\ slot[s] \in {"Idle", "Paused"} /\ task' = task
    BY <1>6 DEF Offload, Unloadable
  <2>2. NoLostWakeup' /\ OneLoop'
    BY <2>1, OffloadKeeps
  <2>3. QED
    BY <1>0, <1>6, <2>2 DEF Offload, DownHasNoTask
<1>7. ASSUME Sweep PROVE TreeInv'
  <2>1. PICK S \in SUBSET {s \in Session : slot[s] = "Idle"} : OffloadSlots(S)
    BY <1>7 DEF Sweep
  <2>2. NoLostWakeup' /\ OneLoop'
    BY <1>7, <2>1, OffloadKeeps DEF Sweep
  <2>3. QED
    BY <1>0, <1>7, <2>2 DEF Sweep, DownHasNoTask
(* A step of a loop moves its own task, from a live place, and no slot.    *)
<1>8. ASSUME NEW s \in Session, task[s] \in Live, phase' = phase,
             slot' = slot, queue' = queue,
             NEW next \in Live \cup Outcome \cup {"dead"}, Goto(s, next)
      PROVE  TreeInv'
  <2>1. phase # "down"
    BY <1>8 DEF DownHasNoTask
  <2>2. OneLoop'
    BY <1>8 DEF Goto, TypeOK, OneLoop
  <2>3. QED
    BY <1>0, <1>8, <2>1, <2>2 DEF NoLostWakeup, DownHasNoTask
<1>9. ASSUME NEW s \in Session, Prepare(s) PROVE TreeInv'
  BY <1>8, <1>9 DEF Prepare, Finish
<1>10. ASSUME NEW s \in Session, CheckControl(s) PROVE TreeInv'
  BY <1>8, <1>10 DEF CheckControl, Finish, Stopped
<1>11. ASSUME NEW s \in Session, TakeInbox(s) PROVE NoLostWakeup'
  BY <1>11 DEF TakeInbox, TypeOK, NoLostWakeup
<1>12. ASSUME NEW s \in Session, Drain(s) PROVE TreeInv'
  <2>1. OneLoop'
    BY <1>12 DEF Drain, TakeInbox, Goto, TypeOK, OneLoop
  <2>2. QED
    BY <1>0, <1>11, <1>12, <2>1 DEF Drain, TakeInbox, DownHasNoTask
<1>13. ASSUME NEW s \in Session, Recv(s) PROVE TreeInv'
  BY <1>0, <1>11, <1>13 DEF Recv, TakeInbox, OneLoop, DownHasNoTask
<1>14. ASSUME NEW s \in Session, AwaitModel(s) PROVE TreeInv'
  <2>1. \E next \in Live \cup Outcome : Goto(s, next)
    BY <1>14 DEF AwaitModel, Finish, Stopped
  <2>2. QED
    BY <1>8, <1>14, <2>1 DEF AwaitModel
<1>15. ASSUME NEW s \in Session, EndTurn(s) PROVE TreeInv'
  <2>1. \E next \in Live \cup Outcome : Goto(s, next)
    BY <1>15 DEF EndTurn, Finish
  <2>2. QED
    BY <1>8, <1>15, <2>1 DEF EndTurn
<1>16. ASSUME NEW s \in Session, Panic(s) PROVE TreeInv'
  BY <1>8, <1>16 DEF Panic
<1>moves. ASSUME NEW s \in Session, Ask(s) \/ Answer(s) \/ NeverEnds(s) PROVE TreeInv'
  BY <1>8, <1>moves DEF Ask, Answer, NeverEnds
<1>17. ASSUME NEW s \in Session, Join(s) PROVE TreeInv'
  <2>1. slot[s] = "Running"
    BY <1>17 DEF Join, OneLoop
  <2>2. PICK fault :
          LET p == parent[s]
              q == IF Reports(s) THEN QueuesAfter(p, fault) ELSE queue
              woken == IF Reports(s) THEN Woken(p, fault) ELSE {}
          IN  /\ queue' = q
              /\ slot' = [Started(woken) EXCEPT ![s] =
                            IF Rewakes(s, q) THEN "Running"
                            ELSE IF ParksIdle(s) THEN "Idle" ELSE "Paused"]
              /\ task' = [Tasked(woken) EXCEPT ![s] =
                            IF Rewakes(s, q) THEN "init" ELSE "none"]
    BY <1>17 DEF Join
  <2> DEFINE woken == IF Reports(s) THEN Woken(parent[s], fault) ELSE {}
  <2>3. Reports(s) => parent[s] \in Session
    BY DEF Reports, TypeOK
  <2>4. /\ slot' = [Started(woken) EXCEPT ![s] =
                      IF Rewakes(s, queue') THEN "Running"
                      ELSE IF ParksIdle(s) THEN "Idle" ELSE "Paused"]
        /\ task' = [Tasked(woken) EXCEPT ![s] =
                      IF Rewakes(s, queue') THEN "init" ELSE "none"]
    BY <2>2
  <2>5. \A r \in Session : Started(woken)[r] = "Idle" => queue'[r] = <<>>
    <3>1. CASE Reports(s)
      BY <2>2, <2>3, <3>1, SendWakes
    <3>2. CASE ~Reports(s)
      BY <2>2, <3>2 DEF Started, NoLostWakeup
    <3>3. QED
      BY <3>1, <3>2
  <2>6. /\ Started(woken) \in [Session -> SlotState]
        /\ Tasked(woken) \in [Session -> TaskState]
    BY StartType
  <2>7. \A r \in Session :
          Tasked(woken)[r] # "none" => Started(woken)[r] = "Running"
    BY StartOneLoop
  <2> HIDE DEF woken
  <2>8. slot'[s] = "Idle" => queue'[s] = <<>>
    BY <2>4, <2>6 DEF Rewakes
  <2>9. NoLostWakeup'
    BY <2>4, <2>5, <2>6, <2>8 DEF NoLostWakeup
  <2>10. OneLoop'
    BY <2>4, <2>6, <2>7 DEF OneLoop
  <2>11. QED
    BY <1>0, <1>17, <2>9, <2>10 DEF Join, DownHasNoTask
<1>18. ASSUME BeginShutdown PROVE TreeInv'
  BY <1>0, <1>18 DEF BeginShutdown, NoLostWakeup, OneLoop, DownHasNoTask
<1>unblock. ASSUME Unblock PROVE TreeInv'
  BY <1>0, <1>unblock DEF Unblock, NoLostWakeup, OneLoop, DownHasNoTask
<1>19. ASSUME ExitProcess PROVE TreeInv'
  BY <1>0, <1>19 DEF ExitProcess, NoLostWakeup, OneLoop, DownHasNoTask
<1>20. ASSUME Restart PROVE TreeInv'
  BY <1>0, <1>20 DEF Restart, NoLostWakeup, OneLoop, DownHasNoTask
<1>21. CASE UNCHANGED vars
  BY <1>0, <1>21 DEF vars, NoLostWakeup, OneLoop, DownHasNoTask
<1>22. QED
  BY <1>1, <1>2, <1>3, <1>4, <1>5, <1>6, <1>7, <1>9, <1>10, <1>12, <1>13,
     <1>14, <1>15, <1>16, <1>17, <1>18, <1>19, <1>20, <1>21, <1>moves, <1>unblock
     DEF Next, EndShutdown, Crash

(* The invariant that carries the theorems below holds of every reachable  *)
(* state: types, no lost wakeup, one loop a session, and no task of a dead *)
(* process.                                                                *)
THEOREM TreeInvCorrect == Spec => []TreeInv
<1>1. Init => TreeInv
  BY SessionTreeAssumption, EmptySeq
     DEF Init, TreeInv, TypeOK, NoLostWakeup, OneLoop, DownHasNoTask
<1>2. QED
  BY <1>1, TreeInvStep, PTL DEF Spec

(* No session sleeps on a message: in every interleaving of sends, reports,*)
(* drains, ends of loops, offloads, failures and restarts, an idle slot    *)
(* has an empty queue.                                                     *)
THEOREM IdleHasNoMail == Spec => []NoLostWakeup
<1>1. TreeInv => NoLostWakeup
  BY DEF TreeInv
<1>2. QED
  BY <1>1, TreeInvCorrect, PTL

(* A session never has two loops, nor a loop beside a parked or offloaded  *)
(* copy of itself.                                                         *)
THEOREM OneLoopEach == Spec => []OneLoop
<1>1. TreeInv => OneLoop
  BY DEF TreeInv
<1>2. QED
  BY <1>1, TreeInvCorrect, PTL

----------------------------------------------------------------------------
(* Paused sessions and bounded inboxes.                                    *)

(* A session that is paused in RAM gets a task only when it is resumed.    *)
LEMMA PausedStep ==
  ASSUME TreeInv, [Next]_vars, NEW s \in Session,
         slot[s] = "Paused", task'[s] # "none"
  PROVE  Resume(s)
<1> SUFFICES ASSUME ~Resume(s) PROVE FALSE
  OBVIOUS
<1> USE DEF TreeInv
<1>1. task[s] = "none"
  BY DEF OneLoop
<1>2. \A S : s \notin S => Tasked(S)[s] = "none"
  BY <1>1 DEF Tasked
<1>3. \A to, fault : s \notin Woken(to, fault)
  BY DEF Woken, Wakes, Reloads
<1>4. task' # task
  BY <1>1
<1>5. ASSUME NEW r \in Session, NEW next, Goto(r, next), task[r] \in Live
      PROVE  FALSE
  BY <1>1, <1>5 DEF Goto, TypeOK
<1>6. ASSUME NEW r \in Session, NEW p, Spawn(r, p) PROVE FALSE
  BY <1>1, <1>2, <1>6 DEF Spawn
<1>7. ASSUME NEW r \in Session, Send(r) PROVE FALSE
  BY <1>2, <1>3, <1>7 DEF Send
<1>8. ASSUME NEW r \in Session, Resume(r) PROVE FALSE
  <2>1. r # s
    BY <1>8
  <2>2. task' = Tasked({r})
    BY <1>8 DEF Resume
  <2>3. s \notin {r}
    BY <2>1
  <2>4. QED
    BY <1>2, <2>2, <2>3
<1>9. ASSUME NEW r \in Session, Prepare(r) PROVE FALSE
  BY <1>5, <1>9 DEF Prepare, Finish
<1>10. ASSUME NEW r \in Session, CheckControl(r) PROVE FALSE
  BY <1>5, <1>10 DEF CheckControl, Finish
<1>11. ASSUME NEW r \in Session, Drain(r) PROVE FALSE
  BY <1>5, <1>11 DEF Drain
<1>12. ASSUME NEW r \in Session, AwaitModel(r) PROVE FALSE
  BY <1>5, <1>12 DEF AwaitModel, Finish
<1>13. ASSUME NEW r \in Session, EndTurn(r) PROVE FALSE
  BY <1>5, <1>13 DEF EndTurn, Finish
<1>14. ASSUME NEW r \in Session, Panic(r) PROVE FALSE
  BY <1>5, <1>14 DEF Panic
<1>15. ASSUME NEW r \in Session, Join(r) PROVE FALSE
  <2>1. r # s
    BY <1>1, <1>15 DEF Join
  <2>2. PICK S, v : s \notin S /\ task' = [Tasked(S) EXCEPT ![r] = v]
    BY ZenonT(30), <1>3, <1>15 DEF Join
  <2>3. Tasked(S)[s] = "none"
    BY <1>2, <2>2
  <2>4. Tasked(S) \in [Session -> TaskState]
    BY StartType
  <2>5. QED
    BY <2>1, <2>2, <2>3, <2>4
<1>moves. ASSUME NEW r \in Session, Ask(r) \/ Answer(r) \/ NeverEnds(r) PROVE FALSE
  BY <1>5, <1>moves DEF Ask, Answer, NeverEnds
<1>16. ASSUME ExitProcess PROVE FALSE
  BY <1>16 DEF ExitProcess
<1>17. QED
  BY <1>4, <1>6, <1>7, <1>8, <1>9, <1>10, <1>11, <1>12, <1>13, <1>14, <1>15,
     <1>16, <1>moves
     DEF Next, vars, Pause, Kill, Offload, Sweep, Recv, BeginShutdown, Unblock,
         EndShutdown, Crash, Restart

(* Messages and the reports of children never start a paused session.      *)
THEOREM PausedNeedsResume == Spec => PausedStaysPut
<1>1. TreeInv /\ [Next]_vars =>
        [\A s \in Session : slot[s] = "Paused" /\ task'[s] # "none" => Resume(s)]_vars
  BY PausedStep
<1>2. QED
  BY <1>1, TreeInvCorrect, PTL DEF Spec, PausedStaysPut

(* A queue that holds no more than MAX_QUEUE messages, pushed, reloaded,   *)
(* drained or written out, still does.                                     *)
LEMMA BoundedSend ==
  ASSUME TypeOK, QueuesBounded, NEW to \in Session, NEW fault
  PROVE  \A s \in Session :
            /\ Len(QueuesAfter(to, fault)[s]) <= MaxQueue
            /\ Len(InboxesAfter(to, fault)[s]) <= MaxQueue
<1>1. \A s \in Session : Len(queue[s]) <= MaxQueue /\ Len(inbox[s]) <= MaxQueue
  BY DEF QueuesBounded
<1>2. /\ Push(queue[to], sent + 1) \in Seq(Nat)
      /\ Len(Push(queue[to], sent + 1)) <= MaxQueue
  BY <1>1, PushLemma DEF TypeOK
<1>3. Len(Reload(inbox[to], Push(queue[to], sent + 1))) <= MaxQueue
  BY <1>2, ReloadLemma DEF TypeOK
<1>4. Len(<<>>) <= MaxQueue
  BY EmptySeq, SessionTreeAssumption
<1>5. Len(QueuesAfter(to, fault)[to]) <= MaxQueue
  BY <1>2, <1>3 DEF QueuesAfter, TypeOK
<1>6. Len(InboxesAfter(to, fault)[to]) <= MaxQueue
  BY <1>1, <1>4 DEF InboxesAfter, TypeOK
<1>7. QED
  BY <1>1, <1>5, <1>6, SendType

LEMMA BoundedStep == TypeOK /\ QueuesBounded /\ [Next]_vars => QueuesBounded'
<1> SUFFICES ASSUME TypeOK, QueuesBounded, [Next]_vars PROVE QueuesBounded'
  OBVIOUS
<1>1. Len(<<>>) <= MaxQueue
  BY EmptySeq, SessionTreeAssumption
<1>2. \A s \in Session : Len(queue[s]) <= MaxQueue /\ Len(inbox[s]) <= MaxQueue
  BY DEF QueuesBounded
<1>3. ASSUME NEW S, NEW gone, NEW half, NEW unwritten,
             OffloadEach(S, gone, half, unwritten)
      PROVE  \A s \in Session : Len(inbox'[s]) <= MaxQueue
  BY <1>2, <1>3 DEF OffloadEach
<1>4. ASSUME NEW S, OffloadSlots(S) PROVE QueuesBounded'
  <2>1. \A s \in Session : Len(inbox'[s]) <= MaxQueue
    BY <1>3, <1>4 DEF OffloadSlots
  <2>2. \A s \in Session : Len(queue'[s]) <= MaxQueue
    BY <1>1, <1>2, <1>4 DEF OffloadSlots
  <2>3. QED
    BY <2>1, <2>2 DEF QueuesBounded
<1>5. ASSUME NEW s \in Session, Send(s) PROVE QueuesBounded'
  BY <1>5, BoundedSend DEF Send, QueuesBounded
<1>6. ASSUME NEW s \in Session, Resume(s) PROVE QueuesBounded'
  <2>1. PICK fault :
          /\ queue' = [queue EXCEPT ![s] =
                         IF ReadsInbox(s, fault) THEN Reload(inbox[s], @) ELSE @]
          /\ inbox' = InboxesAfter(s, fault)
    BY <1>6 DEF Resume
  <2>2. Len(Reload(inbox[s], queue[s])) <= MaxQueue
    BY ReloadLemma DEF TypeOK
  <2>3. \A r \in Session : Len(queue'[r]) <= MaxQueue
    BY <1>2, <2>1, <2>2 DEF TypeOK
  <2>4. QED
    BY <2>1, <2>3, BoundedSend DEF QueuesBounded
<1>7. ASSUME NEW s \in Session, TakeInbox(s) PROVE QueuesBounded'
  BY <1>1, <1>2, <1>7 DEF TakeInbox, TypeOK, QueuesBounded
<1>8. ASSUME NEW s \in Session, Join(s) PROVE QueuesBounded'
  <2>1. Reports(s) => parent[s] \in Session
    BY DEF Reports, TypeOK
  <2>2. PICK fault :
          /\ queue' = IF Reports(s) THEN QueuesAfter(parent[s], fault) ELSE queue
          /\ inbox' = IF Reports(s) THEN InboxesAfter(parent[s], fault) ELSE inbox
    BY <1>8 DEF Join
  <2>3. QED
    BY <1>2, <2>1, <2>2, BoundedSend DEF QueuesBounded
<1>9. ASSUME EndShutdown PROVE QueuesBounded'
  <2>1. \A s \in Session : Len(inbox'[s]) <= MaxQueue
    BY <1>3, <1>9 DEF EndShutdown
  <2>2. QED
    BY <1>1, <1>9, <2>1 DEF EndShutdown, ExitProcess, QueuesBounded
<1>10. ASSUME Crash PROVE QueuesBounded'
  BY <1>1, <1>2, <1>10 DEF Crash, ExitProcess, QueuesBounded
<1>11. CASE UNCHANGED <<queue, inbox>>
  BY <1>2, <1>11 DEF QueuesBounded
<1>12. QED
  BY <1>4, <1>5, <1>6, <1>7, <1>8, <1>9, <1>10, <1>11
     DEF Next, vars, Spawn, Pause, Kill, Offload, Sweep, Prepare, CheckControl,
         Drain, Recv, AwaitModel, EndTurn, Panic, Ask, Answer, NeverEnds, BeginShutdown,
         Unblock, Restart

(* No sequence of sends, reports, offloads and reloads makes an inbox, in  *)
(* RAM or on disk, longer than MAX_QUEUE.                                  *)
THEOREM InboxesStayBounded == Spec => []QueuesBounded
<1>1. Len(<<>>) <= MaxQueue
  BY SessionTreeAssumption, EmptySeq
<1>2. Init => QueuesBounded
  BY <1>1 DEF Init, QueuesBounded
<1>3. QED
  BY <1>2, BoundedStep, TypeCorrect, PTL DEF Spec

=============================================================================
