---------------------------- MODULE DaemonProofs ----------------------------
(***************************************************************************)
(* Theorems about Daemon, for any number of sessions, any capacity of the  *)
(* channel of finish events and any schedules.                             *)
(***************************************************************************)
EXTENDS Daemon, TLAPS

(* What the proof needs of the types.                                      *)
Shape ==
  /\ life \in [Session -> Life]
  /\ at \in [Task -> Place]

(* The actor returns when no session is in a run, and nothing but the      *)
(* actor starts one.                                                       *)
GoneIsQuiet == actor = "gone" => \A s \in Session : life[s] \in {"new", "resting"}

(* serve waits for the actor first.                                        *)
JoinsAfterActor == main \in {"joining", "exited"} => actor = "gone"

(* Then for the tasks; once they have ended nobody starts one.             *)
TasksEnded ==
  main = "exited" =>
    /\ ~listening
    /\ at["reader"] = "gone" /\ at["cron"] = "gone" /\ at["client"] = "ready"

ExitInv == Shape /\ GoneIsQuiet /\ JoinsAfterActor /\ TasksEnded

LEMMA ExitInit == Init => ExitInv
BY DEF Init, ExitInv, Shape, Life, GoneIsQuiet, JoinsAfterActor, TasksEnded, Task, Place

(* A step that moves one task that has not ended, and starts no run.       *)
LEMMA TaskMoves ==
  ASSUME ExitInv, NEW t \in Task, NEW place \in Place, Moved(t, place),
         at[t] # "gone", t = "client" => listening \/ at[t] # "ready",
         life' = life, actor' = actor, main' = main, listening' = listening
  PROVE  ExitInv'
<1>1. main # "exited"
  BY DEF ExitInv, TasksEnded, Task
<1>2. at' \in [Task -> Place]
  BY DEF ExitInv, Shape, Moved
<1>3. QED
  BY <1>1, <1>2 DEF ExitInv, Shape, GoneIsQuiet, JoinsAfterActor, TasksEnded

(* A step of the actor, or a request it serves, while it is there.         *)
LEMMA ActorWorks ==
  ASSUME ExitInv, actor # "gone", main' = main, listening' = listening,
         at' \in [Task -> Place],
         life' \in [Session -> Life],
         actor' = "gone" => \A s \in Session : life'[s] \in {"new", "resting"}
  PROVE  ExitInv'
BY DEF ExitInv, Shape, GoneIsQuiet, JoinsAfterActor, TasksEnded

LEMMA ExitStep == ExitInv /\ [Next]_vars => ExitInv'
<1> SUFFICES ASSUME ExitInv, [Next]_vars
             PROVE  ExitInv'
  OBVIOUS
<1>t. /\ life \in [Session -> Life]
      /\ at \in [Task -> Place]
      /\ {"reader", "cron", "client"} \subseteq Task
  BY DEF ExitInv, Shape, Task
<1>p. {"ready", "sweep", "list", "ask", "reflect", "gone"} \subseteq Place
  BY DEF Place
<1>l. {"new", "running", "stuck", "resting", "done", "other"} \subseteq Life
  BY DEF Life, Ended
<1>r. ASSUME NEW s \in Session, life[s] = "running" PROVE actor # "gone"
  BY <1>r DEF ExitInv, GoneIsQuiet
<1>1. ASSUME NEW s \in Session, End(s) PROVE ExitInv'
  <2>1. actor # "gone" /\ life' \in [Session -> Life]
    BY <1>t, <1>l, <1>r, <1>1 DEF End, Ended
  <2>2. QED
    BY <1>t, <1>1, <2>1, ActorWorks DEF End
<1>2. ASSUME NEW s \in Session, Hang(s) PROVE ExitInv'
  <2>1. actor # "gone" /\ life' \in [Session -> Life]
    BY <1>t, <1>l, <1>r, <1>2 DEF Hang
  <2>2. QED
    BY <1>t, <1>2, <2>1, ActorWorks DEF Hang
<1>a. ASSUME NEW s \in Session, Call(s) PROVE ExitInv'
  BY <1>t, <1>a, ActorWorks DEF Call, Serves
<1>b. ASSUME NEW s \in Session, Delegate(s) PROVE ExitInv'
  <2>1. actor = "serving" /\ life' \in [Session -> Life]
    BY <1>t, <1>l, <1>b DEF Delegate, Serves, Run
  <2>2. QED
    BY <1>t, <1>b, <2>1, ActorWorks DEF Delegate
<1>c. CASE Unblock
  <2>1. UNCHANGED <<life, actor, at, listening, main>>
    BY <1>c DEF Unblock
  <2>2. QED
    BY <2>1 DEF ExitInv, Shape, GoneIsQuiet, JoinsAfterActor, TasksEnded
<1>3. ASSUME NEW s \in Session, Join(s) PROVE ExitInv'
  <2>1. actor # "gone" /\ life' \in [Session -> Life]
    BY <1>t, <1>l, <1>3 DEF Join, Free
  <2>2. QED
    BY <1>t, <1>3, <2>1, ActorWorks DEF Join
<1>4. CASE Post
  BY <1>4 DEF Post, ExitInv, Shape, GoneIsQuiet, JoinsAfterActor, TasksEnded
<1>5. CASE BeginStop
  BY <1>t, <1>5, ActorWorks DEF BeginStop, Serves
<1>6. CASE EndStop
  BY <1>t, <1>6, ActorWorks DEF EndStop
<1>7. CASE Take
  <2>1. CASE Head(events).done
    BY <1>t, <1>p, <1>7, <2>1, TaskMoves DEF Take
  <2>2. CASE ~Head(events).done
    BY <1>7, <2>2 DEF Take, ExitInv, Shape, GoneIsQuiet, JoinsAfterActor, TasksEnded
  <2>3. QED
    BY <2>1, <2>2
<1>8. CASE StopReader
  BY <1>t, <1>p, <1>8, TaskMoves DEF StopReader
<1>s. ASSUME NextSchedule PROVE Moved("cron", "ready") \/ Moved("cron", "list")
  BY <1>s DEF NextSchedule
<1>9. ASSUME NEW t \in Task, EndReflect(t) PROVE ExitInv'
  <2>1. Moved(t, "ready") \/ Moved(t, "list")
    BY <1>9, <1>s DEF EndReflect
  <2>2. QED
    BY <1>t, <1>p, <1>9, <2>1, TaskMoves DEF EndReflect
<1>10. CASE EndSweep
  BY <1>t, <1>p, <1>s, <1>10, TaskMoves DEF EndSweep
<1>11. CASE EndList
  <2>1. Moved("cron", "reflect") \/ Moved("cron", "ready") \/ Moved("cron", "list")
    BY <1>s, <1>11 DEF EndList
  <2>2. QED
    BY <1>t, <1>p, <1>11, <2>1, TaskMoves DEF EndList
<1>12. CASE StopCron
  BY <1>t, <1>p, <1>12, TaskMoves DEF StopCron
<1>13. CASE Tick
  BY <1>t, <1>p, <1>13, TaskMoves DEF Tick
<1>14. CASE Connect
  <2>1. CASE at' = at
    BY <1>14, <2>1 DEF Connect, ExitInv, Shape, GoneIsQuiet, JoinsAfterActor, TasksEnded
  <2>2. CASE Moved("client", "ask") \/ Moved("client", "reflect")
    BY <1>t, <1>p, <1>14, <2>2, TaskMoves DEF Connect
  <2>3. QED
    BY <1>14, <2>1, <2>2 DEF Connect
<1>15. CASE EndAsk
  <2>1. at["client"] = "ask" /\ Moved("client", "ready") /\ UNCHANGED <<actor, main, listening>>
    BY <1>15 DEF EndAsk
  <2>2. CASE UNCHANGED life
    BY <1>t, <1>p, <2>1, <2>2, TaskMoves
  <2>3. CASE Serves /\ \E r : Run({r})
    <3>1. actor = "serving" /\ at' \in [Task -> Place]
      BY <1>t, <1>p, <2>1, <2>3 DEF Serves, Moved
    <3>2. life' \in [Session -> Life]
      BY <1>t, <1>l, <2>3 DEF Run
    <3>3. QED
      BY <2>1, <3>1, <3>2, ActorWorks
  <2>4. QED
    BY <1>15, <2>2, <2>3 DEF EndAsk
<1>16. CASE StopListening
  BY <1>16 DEF StopListening, ExitInv, Shape, GoneIsQuiet, JoinsAfterActor, TasksEnded
<1>17. CASE Main
  <2>1. UNCHANGED <<life, actor, at, listening>>
    BY <1>17 DEF Main
  <2>2. main' \in {"joining", "exited"} => actor = "gone"
    BY <1>17 DEF Main, ExitInv, JoinsAfterActor, Exit
  <2>3. main' = "exited" => Exit
    BY <1>17 DEF Main
  <2>4. QED
    BY <2>1, <2>2, <2>3
       DEF Exit, ExitInv, Shape, GoneIsQuiet, JoinsAfterActor, TasksEnded
<1>18. CASE UNCHANGED vars
  BY <1>18 DEF vars, ExitInv, Shape, GoneIsQuiet, JoinsAfterActor, TasksEnded
<1>19. QED
  BY <1>t, <1>1, <1>2, <1>a, <1>b, <1>c, <1>3, <1>4, <1>5, <1>6, <1>7, <1>8, <1>9,
     <1>10, <1>11, <1>12, <1>13, <1>14, <1>15, <1>16, <1>17, <1>18
     DEF Next, Actor, Reader, Cron, Client

(* When serve returns no session is in a run, no reflection has its branch *)
(* checked out and nobody waits for an answer (daemon.rs serve).           *)
THEOREM ExitsClean == Spec => []ExitIsClean
<1>1. ExitInv => ExitIsClean
  BY DEF ExitInv, GoneIsQuiet, JoinsAfterActor, TasksEnded, ExitIsClean, Task, Asking
<1>2. QED
  BY ExitInit, ExitStep, <1>1, PTL DEF Spec
=============================================================================
