------------------------------- MODULE Daemon -------------------------------
(***************************************************************************)
(* The tasks of longed (daemon.rs serve) around the actor of the session   *)
(* tree, and who waits for whom: clients, scripts and the cron ask the     *)
(* actor, the actor asks loops to stop and posts an event for each         *)
(* finished run, both in bounded channels, a task reads the events and     *)
(* reflects on the sessions that are done, and the shutdown waits for all  *)
(* of them.  What a session does in a run is left to AgentLoop, the slots  *)
(* and inboxes to SessionTree, the git commands of a reflection to Reflect.*)
(***************************************************************************)
EXTENDS Naturals, Sequences, FiniteSetsExt

CONSTANTS
  Session,     \* numbered from 1 in the order in which they are created
  Parent,      \* the session each reports to, if any
  EventCap,    \* capacity of the channel of finish events (64)
  Schedules,   \* the crons of the configuration that reflect
  MaxRuns, MaxRounds \* bounds: runs started, minutes the cron works in

ASSUME DaemonAssumption ==
  /\ Session \subseteq Nat \ {0}
  /\ Parent \in [Session -> Session \cup {0}]
  /\ EventCap \in Nat \ {0}
  /\ {MaxRuns, MaxRounds} \subseteq Nat

VARIABLES
  life,       \* what the tree knows of each session
  actor, held, \* the actor, and the event it is about to post
  calling,    \* the session whose full control channel the actor waits for
  unasked,    \* the running sessions its shutdown has still to ask to pause
  events,     \* the channel of finish events
  at,         \* where each task stands
  job,        \* the session the reader reflects on
  due,        \* of the cron: actions still to run
  cancelled,  \* the shutdown token
  listening,  \* the task that accepts connections is there
  main,       \* where serve stands
  runs, rounds \* how many of the bounded steps were taken

calls == <<calling, unasked>>
vars == <<life, actor, held, calls, events, at, job, due, cancelled,
          listening, main, runs, rounds>>

Nobody == 0
NoEvent == [id |-> Nobody, done |-> FALSE]
FinishEvent == [id : Session, done : BOOLEAN]

(* The task that reads the events, the cron, and a connection.             *)
Task == {"reader", "cron", "client"}

(* "ready" awaits an event, a tick or a request; "sweep", "list" and "ask" *)
(* await the answer of the actor.                                          *)
Place == {"ready", "sweep", "list", "ask", "reflect", "gone"}
Asking == {"sweep", "list", "ask"}

(* A run that has ended is not yet taken back by the actor, one that is    *)
(* "stuck" never comes back.                                               *)
Ended == {"done", "other"}
Life == {"new", "running", "stuck", "resting"} \cup Ended

TypeOK ==
  /\ life \in [Session -> Life]
  /\ actor \in {"serving", "stopping", "gone"}
  /\ held \in FinishEvent \cup {NoEvent}
  /\ calling \in Session \cup {Nobody} /\ unasked \subseteq Session
  /\ events \in Seq(FinishEvent) /\ Len(events) <= EventCap
  /\ at \in [Task -> Place]
  /\ job \in Session \cup {Nobody}
  /\ due \subseteq Schedules
  /\ cancelled \in BOOLEAN /\ listening \in BOOLEAN
  /\ main \in {"serving", "asked", "joining", "exited"}
  /\ runs \in 0 .. MaxRuns /\ rounds \in 0 .. MaxRounds

Init ==
  /\ life = [s \in Session |-> "new"]
  /\ actor = "serving" /\ held = NoEvent
  /\ calling = Nobody /\ unasked = {}
  /\ events = <<>>
  /\ at = [t \in Task |-> "ready"]
  /\ job = Nobody /\ due = {}
  /\ cancelled = FALSE /\ listening = TRUE
  /\ main = "serving"
  /\ runs = 0 /\ rounds = 0

----------------------------------------------------------------------------
(* The sessions and the actor.                                             *)

(* Runs of the sessions of S start.                                        *)
Run(S) ==
  /\ runs + Cardinality(S) <= MaxRuns
  /\ runs' = runs + Cardinality(S)
  /\ life' = [s \in Session |-> IF s \in S THEN "running" ELSE life[s]]

(* agent_loop::run returns, with done() or for another reason.             *)
End(s) ==
  /\ life[s] = "running"
  /\ \E how \in Ended : life' = [life EXCEPT ![s] = how]
  /\ UNCHANGED <<actor, held, calls, events, at, job, due, cancelled,
                 listening, main, runs, rounds>>

(* A run never comes back: a block of Lua has no time limit and need not   *)
(* end, and a run that asks the actor once that has begun to stop, or      *)
(* while it waits for this very run, gets no answer (SessionTree, run      *)
(* tree_shutdown_hangs).                                                   *)
Hang(s) ==
  /\ life[s] = "running"
  /\ life' = [life EXCEPT ![s] = "stuck"]
  /\ UNCHANGED <<actor, held, calls, events, at, job, due, cancelled,
                 listening, main, runs, rounds>>

(* The actor takes nothing up while it awaits room for an event or, in the *)
(* channel of a session, for a pause or a kill.                            *)
Free == actor # "gone" /\ held = NoEvent /\ calling = Nobody
Serves == actor = "serving" /\ Free

Listens(s) == life[s] \in {"running", "stuck"}

(* A client, or a script, asks for a pause or a kill of a session whose    *)
(* channel is full of such requests.                                       *)
Call(s) ==
  /\ Serves
  /\ Listens(s)
  /\ at["client"] = "ask" \/ \E r \in Session : life[r] = "running"
  /\ calling' = s
  /\ UNCHANGED <<life, actor, held, unasked, events, at, job, due, cancelled,
                 listening, main, runs, rounds>>

(* The shutdown asks the sessions of S to pause, up to one whose channel   *)
(* is full.                                                                *)
AskToPause(S) ==
  \/ calling' = Nobody /\ unasked' = {}
  \/ \E s \in S : Listens(s) /\ calling' = s /\ unasked' \in SUBSET (S \ {s})

(* The loop it waits for ends, and its channel with it.                    *)
Unblock ==
  /\ calling # Nobody /\ life[calling] \in Ended
  /\ AskToPause(unasked)
  /\ UNCHANGED <<life, actor, held, events, at, job, due, cancelled, listening,
                 main, runs, rounds>>

(* The new session is the next number.                                     *)
New == {s \in Session : life[s] = "new"}
SpawnedBy(parent) == {s \in New : s = Min(New) /\ Parent[s] = parent}
Resting == {s \in Session : life[s] = "resting"}

(* The script of a session spawns another, or wakes one that rests.        *)
Delegate(s) ==
  /\ Serves
  /\ life[s] = "running"
  /\ \E r \in SpawnedBy(s) \cup Resting : Run({r})
  /\ UNCHANGED <<actor, held, calls, events, at, job, due, cancelled,
                 listening, main, rounds>>

(* Tree::on_finished: the report wakes the parent if that rests and may be *)
(* woken; the session is parked, or runs again for a message that came     *)
(* late; then its event is posted.                                         *)
Join(s) ==
  /\ Free
  /\ life[s] \in Ended
  /\ held' = [id |-> s, done |-> life[s] = "done"]
  /\ \E woken \in SUBSET (Resting \cap {Parent[s]}), again \in SUBSET {s} :
       /\ runs + Cardinality(woken \cup again) <= MaxRuns
       /\ runs' = runs + Cardinality(woken \cup again)
       /\ life' = [r \in Session |-> IF r \in woken \cup again THEN "running"
                                     ELSE IF r = s THEN "resting" ELSE life[r]]
  /\ UNCHANGED <<actor, calls, events, at, job, due, cancelled, listening,
                 main, rounds>>

MutPost ==                                  \* full is full, reader or not
  /\ held # NoEvent /\ Len(events) < EventCap
  /\ events' = Append(events, held)
  /\ held' = NoEvent
  /\ UNCHANGED <<life, actor, calls, at, job, due, cancelled, listening, main,
                 runs, rounds>>

MutPostTry ==                               \* try_send: no room, no event
  /\ held # NoEvent
  /\ events' = IF Len(events) < EventCap THEN Append(events, held) ELSE events
  /\ held' = NoEvent
  /\ UNCHANGED <<life, actor, calls, at, job, due, cancelled, listening, main,
                 runs, rounds>>

(* The send of the event ends when there is room, or no reader any more.   *)
Post ==
  /\ held # NoEvent
  /\ \/ at["reader"] = "gone" /\ UNCHANGED events
     \/ Len(events) < EventCap /\ events' = Append(events, held)
  /\ held' = NoEvent
  /\ UNCHANGED <<life, actor, calls, at, job, due, cancelled, listening, main,
                 runs, rounds>>

(* TreeCmd::Shutdown.  The running loops are asked to pause; the actor     *)
(* answers no command any more.                                            *)
BeginStop ==
  /\ main = "asked" /\ Serves
  /\ actor' = "stopping"
  /\ AskToPause({s \in Session : life[s] \notin {"new", "resting"}})
  /\ UNCHANGED <<life, held, events, at, job, due, cancelled, listening, main,
                 runs, rounds>>

MutEndStop ==                               \* the loops are not awaited
  /\ actor = "stopping" /\ Free
  /\ actor' = "gone"
  /\ UNCHANGED <<life, held, calls, events, at, job, due, cancelled, listening,
                 main, runs, rounds>>

(* Every loop has come back: the actor returns, and the commands that wait *)
(* in its channel are dropped with it.                                     *)
EndStop ==
  /\ actor = "stopping" /\ Free
  /\ \A s \in Session : life[s] \in {"new", "resting"}
  /\ actor' = "gone"
  /\ UNCHANGED <<life, held, calls, events, at, job, due, cancelled, listening,
                 main, runs, rounds>>

(* The error of a command that is dropped.                                 *)
Refused == actor = "gone"

----------------------------------------------------------------------------
(* Reflections (reflect::run), by any of the three tasks.  What they write *)
(* is left to Reflect.                                                     *)

Moved(t, place) == at' = [at EXCEPT ![t] = place]

(* run_cron of the next schedule, whose action is to reflect: the sessions *)
(* are listed.  An action that spawns a task does what a client does, and  *)
(* the cleanup of old trajectories is left out.                            *)
NextSchedule ==
  \/ due = {} /\ Moved("cron", "ready") /\ UNCHANGED due
  \/ /\ \E schedule \in due : due' = due \ {schedule}
     /\ Moved("cron", "list")

EndReflect(t) ==
  /\ at[t] = "reflect"
  /\ IF t = "cron" THEN NextSchedule ELSE Moved(t, "ready") /\ UNCHANGED due
  /\ job' = IF t = "reader" THEN Nobody ELSE job
  /\ UNCHANGED <<life, actor, held, calls, events, cancelled, listening, main,
                 runs, rounds>>

(* The reader takes an event and reflects on a session that is done.       *)
Take ==
  /\ at["reader"] = "ready"
  /\ events # <<>>
  /\ events' = Tail(events)
  /\ IF Head(events).done
     THEN Moved("reader", "reflect") /\ job' = Head(events).id
     ELSE UNCHANGED <<at, job>>
  /\ UNCHANGED <<life, actor, held, calls, due, cancelled, listening, main,
                 runs, rounds>>

(* The shutdown ends the reader between two events, or the actor is gone   *)
(* and has left none.  The channel goes with it.                           *)
StopReader ==
  /\ at["reader"] = "ready"
  /\ cancelled \/ (actor = "gone" /\ events = <<>>)
  /\ Moved("reader", "gone")
  /\ events' = <<>>
  /\ UNCHANGED <<life, actor, held, calls, job, due, cancelled, listening,
                 main, runs, rounds>>

----------------------------------------------------------------------------
(* The cron: once a minute, a sweep and the schedules that match.          *)

Tick ==
  /\ at["cron"] = "ready"
  /\ rounds < MaxRounds
  /\ rounds' = rounds + 1
  /\ due' \in SUBSET Schedules
  /\ Moved("cron", "sweep")
  /\ UNCHANGED <<life, actor, held, calls, events, job, cancelled, listening,
                 main, runs>>

EndSweep ==
  /\ at["cron"] = "sweep"
  /\ Serves \/ Refused
  /\ NextSchedule
  /\ UNCHANGED <<life, actor, held, calls, events, job, cancelled, listening,
                 main, runs, rounds>>

(* It reflects on the latest session that is done and not yet in the log   *)
(* of reflections, if there is one.                                        *)
EndList ==
  /\ at["cron"] = "list"
  /\ \/ /\ Serves /\ \E s \in Session : life[s] # "new"
        /\ Moved("cron", "reflect") /\ UNCHANGED due
     \/ (Serves \/ Refused) /\ NextSchedule
  /\ UNCHANGED <<life, actor, held, calls, events, job, cancelled, listening,
                 main, runs, rounds>>

StopCron ==
  /\ at["cron"] = "ready" /\ cancelled
  /\ Moved("cron", "gone")
  /\ UNCHANGED <<life, actor, held, calls, events, job, due, cancelled,
                 listening, main, runs, rounds>>

----------------------------------------------------------------------------
(* Clients (Api::dispatch) and the end of serve.                           *)

(* A request for the actor, for a reflection, or for the end.              *)
Connect ==
  /\ listening
  /\ at["client"] = "ready"
  /\ \/ Moved("client", "ask") /\ UNCHANGED cancelled
     \/ /\ \E s \in Session : life[s] # "new"
        /\ Moved("client", "reflect") /\ UNCHANGED cancelled
     \/ cancelled' = TRUE /\ UNCHANGED at
  /\ UNCHANGED <<life, actor, held, calls, events, job, due, listening, main,
                 runs, rounds>>

MutEndAsk ==                                \* a dropped command is no answer
  /\ at["client"] = "ask"
  /\ Moved("client", "ready")
  /\ Serves /\ UNCHANGED <<life, runs>>
  /\ UNCHANGED <<actor, held, calls, events, job, due, cancelled, listening,
                 main, rounds>>

(* The answer: a session was spawned or woken, or nothing that matters     *)
(* here happened.                                                          *)
EndAsk ==
  /\ at["client"] = "ask"
  /\ Moved("client", "ready")
  /\ \/ Serves /\ \E s \in SpawnedBy(Nobody) \cup Resting : Run({s})
     \/ (Serves \/ Refused) /\ UNCHANGED <<life, runs>>
  /\ UNCHANGED <<actor, held, calls, events, job, due, cancelled, listening,
                 main, rounds>>

StopListening ==
  /\ listening /\ cancelled
  /\ listening' = FALSE
  /\ UNCHANGED <<life, actor, held, calls, events, at, job, due, cancelled,
                 main, runs, rounds>>

MutExit == main = "joining" /\ ~listening   \* the tasks are not awaited

(* tracker.wait: all the tasks and connections have ended.                 *)
Exit ==
  /\ main = "joining" /\ ~listening
  /\ at["reader"] = "gone" /\ at["cron"] = "gone" /\ at["client"] = "ready"

(* serve asks the tree to stop, waits for the actor, then for the tasks.   *)
Main ==
  /\ \/ main = "serving" /\ cancelled /\ main' = "asked"
     \/ main = "asked" /\ actor = "gone" /\ main' = "joining"
     \/ Exit /\ main' = "exited"
  /\ UNCHANGED <<life, actor, held, calls, events, at, job, due, cancelled,
                 listening, runs, rounds>>

----------------------------------------------------------------------------

Actor ==
  (\E s \in Session : Join(s)) \/ Unblock \/ Post \/ BeginStop \/ EndStop
Reader == Take \/ StopReader \/ EndReflect("reader")
Cron == EndSweep \/ EndList \/ StopCron \/ EndReflect("cron")
Client == EndAsk \/ EndReflect("client")

Next ==
  \/ \E s \in Session : End(s) \/ Hang(s) \/ Call(s) \/ Delegate(s)
  \/ Actor \/ Reader \/ Cron \/ Client \/ Main \/ StopListening
  \/ Tick \/ Connect

Spec == Init /\ [][Next]_vars

(* tokio polls what is ready; a run ends by its budget, unless it hangs,   *)
(* and a reflection by the time limits of the model and of the fitness     *)
(* command.  Nothing is assumed of clients, of the clock, and of the order *)
(* in which select! and the channel of commands serve those who wait.      *)
Fairness ==
  /\ \A s \in Session : WF_vars(End(s))
  /\ WF_vars(Actor) /\ WF_vars(Reader) /\ WF_vars(Cron) /\ WF_vars(Client)
  /\ WF_vars(Main) /\ WF_vars(StopListening)

FairSpec == Spec /\ Fairness

----------------------------------------------------------------------------
(* Properties.                                                             *)

(* The process leaves nothing half done: when serve returns no session is  *)
(* in a run, no reflection has its branch checked out and no client or     *)
(* cron waits for an answer (daemon.rs serve, tracker.wait).               *)
ExitIsClean ==
  main = "exited" =>
    /\ \A s \in Session : life[s] \in {"new", "resting"}
    /\ \A t \in Task : at[t] \notin {"reflect"} \cup Asking

(* The actor waits for a run that will not come back: for room in its      *)
(* control channel, or for its end in a shutdown.                          *)
ActorHangs ==
  \E s \in Session :
    life[s] = "stuck" /\ (calling = s \/ actor = "stopping")

(* A shutdown ends, whoever waits for whom when it is asked for: the actor *)
(* for room in the channel of events or in that of a session, the reader   *)
(* for a reflection, the cron and the clients for the actor; a run that    *)
(* never comes back, with the actor waiting for it, is all that can keep   *)
(* it.                                                                     *)
DaemonExits == cancelled ~> (main = "exited" \/ ActorHangs)

InTransit(s) ==
  LET event == [id |-> s, done |-> TRUE]
  IN  held = event \/ \E i \in 1 .. Len(events) : events[i] = event

(* Every done() is reflected upon unless a shutdown comes first, whatever  *)
(* the reader is doing and however full the channel (README, Reflection).  *)
DoneIsReflected ==
  \A s \in Session :
    InTransit(s) ~> (cancelled \/ (at["reader"] = "reflect" /\ job = s))

(* Whoever asks the actor gets an answer or an error (session/mod.rs ask), *)
(* with the same exception; a run that never comes back disturbs nobody    *)
(* until the actor waits for it.                                           *)
AsksAreAnswered ==
  \A t \in {"cron", "client"} :
    at[t] \in Asking ~> (at[t] \notin Asking \/ ActorHangs)
=============================================================================
