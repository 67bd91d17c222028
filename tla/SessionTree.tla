---------------------------- MODULE SessionTree ----------------------------
(***************************************************************************)
(* The session tree of the daemon: one actor (session/tree.rs) owns every  *)
(* slot and every inbox, one task per running session (agent_loop.rs) runs *)
(* the loop of that session, and the store keeps what survives the         *)
(* process.  A command of a client, or of the script of another session,   *)
(* is one step of the actor; the loop of a running session advances        *)
(* between them, one step per await.                                       *)
(***************************************************************************)
EXTENDS Naturals, Sequences

CONSTANTS
  Session,     \* the session ids that can ever be spawned
  NoSession,   \* the parent of a root session
  MaxQueue,    \* bus.rs MAX_QUEUE
  CtlCap,      \* the capacity of a control channel, 8 in Tree::start
  MaxInputs,   \* bound: spawns, sends and resumes asked from outside
  Faults       \* the failures this instance may meet, see FaultKind

(* What can go wrong: the process dies; a loop task panics; a save of a    *)
(* session or the read of a saved session fails; the write, the read or    *)
(* the removal of inbox.json fails; the Lua runtime cannot be built; a Lua *)
(* block never ends, which nothing limits (repl/mod.rs exec).              *)
FaultKind == {"crash", "panic", "save", "load", "inbox", "unread", "unlink",
              "repl", "endless"}

ASSUME SessionTreeAssumption ==
  /\ NoSession \notin Session
  /\ MaxQueue \in Nat \ {0}
  /\ CtlCap \in Nat \ {0}
  /\ MaxInputs \in Nat
  /\ Faults \subseteq FaultKind

VARIABLES
  phase,     \* of the process: "up", "stopping" (in Tree::shutdown), "down"
  slot,      \* the slot map; "Absent" is a missing key
  task,      \* where the loop task of a session stands, or how it ended
  ctl,       \* the control channels
  calling,   \* the session whose full control channel the actor waits for, if any
  unasked,   \* the running sessions Tree::shutdown has still to ask to pause
  queue,     \* the inboxes in RAM: the numbers of the waiting messages
  inbox,     \* inbox.json; <<>> stands for a missing file too
  history,   \* the messages in the history a session has in RAM
  saved,     \* the messages in history.json
  parent,    \* meta.parent
  disk,      \* the sessions with a meta.json on disk
  lua,       \* the sessions whose Lua runtime is built (session.repl)
  sent,      \* how many messages were accepted: message n is the n-th
  inputs     \* how many bounded inputs were given

actor == <<phase, calling, unasked>>
vars == <<actor, slot, task, ctl, queue, inbox, history, saved, parent, disk,
          lua, sent, inputs>>

SlotState == {"Absent", "Running", "Idle", "Paused", "Offloaded"}

(* The steps of run_inner: building the Lua runtime, looking at the        *)
(* control channel, asking for the inbox, waiting for the model, acting;   *)
(* and where a block may be: waiting for the actor's answer, without end.  *)
Live == {"init", "check", "drain", "llm", "act", "asks", "endless"}

Outcome == {"Done", "Exhausted", "Error", "Paused", "Killed"}

(* "dead" is a task that panicked: the actor logs it and keeps the slot.   *)
TaskState == {"none", "dead"} \cup Live \cup Outcome

Ctl == {"Pause", "Kill"}

TypeOK ==
  /\ phase \in {"up", "stopping", "down"}
  /\ slot \in [Session -> SlotState]
  /\ task \in [Session -> TaskState]
  /\ ctl \in [Session -> Seq(Ctl)]
  /\ calling \subseteq Session
  /\ unasked \subseteq Session
  /\ queue \in [Session -> Seq(Nat)]
  /\ inbox \in [Session -> Seq(Nat)]
  /\ history \in [Session -> Seq(Nat)]
  /\ saved \in [Session -> Seq(Nat)]
  /\ parent \in [Session -> Session \cup {NoSession}]
  /\ disk \subseteq Session
  /\ lua \subseteq Session
  /\ sent \in Nat
  /\ inputs \in 0 .. MaxInputs

Init ==
  /\ phase = "up"
  /\ slot = [s \in Session |-> "Absent"]
  /\ task = [s \in Session |-> "none"]
  /\ ctl = [s \in Session |-> <<>>]
  /\ calling = {}
  /\ unasked = {}
  /\ queue = [s \in Session |-> <<>>]
  /\ inbox = [s \in Session |-> <<>>]
  /\ history = [s \in Session |-> <<>>]
  /\ saved = [s \in Session |-> <<>>]
  /\ parent = [s \in Session |-> NoSession]
  /\ disk = {}
  /\ lua = {}
  /\ sent = 0
  /\ inputs = 0

----------------------------------------------------------------------------
(* Helpers.                                                                *)

(* Whether a failure happens: never, unless the instance allows it.        *)
May(fault) == IF fault \in Faults THEN BOOLEAN ELSE {FALSE}
Some(fault, S) == IF fault \in Faults THEN SUBSET S ELSE {{}}

Input == inputs < MaxInputs /\ inputs' = inputs + 1

(* The actor is at its select!, and reads commands or joins a task.        *)
Serves == phase = "up" /\ calling = {}

MutPush(q, m) == Append(q, m)               \* nothing is dropped

(* Bus::push: past MAX_QUEUE the oldest message makes room.                *)
Push(q, m) == Append(IF Len(q) >= MaxQueue THEN Tail(q) ELSE q, m)

MutReload(file, fresh) == fresh \o file    \* the file after what arrived since

(* Bus::load: the messages of the file, then what arrived since, each      *)
(* pushed in turn, so the last MAX_QUEUE of them stay.                     *)
Reload(file, fresh) ==
  LET all == file \o fresh
  IN  SubSeq(all, IF Len(all) > MaxQueue THEN Len(all) - MaxQueue + 1 ELSE 1,
             Len(all))

(* Session::save of one session; a failed save may have written            *)
(* history.json before it failed on the Lua state.                         *)
Save(s) ==
  \E failed \in May("save") :
     \E h \in {history[s]} \cup (IF failed THEN {saved[s]} ELSE {}) :
        saved' = [saved EXCEPT ![s] = h]

(* What may fail when an offloaded session is read back: the session, its  *)
(* inbox file, or the removal of that file.                                *)
ReloadFaults(s) ==
  {"none"} \cup {f \in {"load", "unread", "unlink"} \cap Faults : slot[s] = "Offloaded"}

(* Tree::wake brings s to a run: an idle session as it is, an offloaded    *)
(* one unless it cannot be read back from disk.                            *)
Reloads(s, fault) == slot[s] = "Offloaded" /\ fault # "load"

(* Bus::load: an inbox file that cannot be read is left alone.             *)
ReadsInbox(s, fault) == Reloads(s, fault) /\ fault # "unread"

MutWakes(s, fault) ==                      \* a paused session too
  slot[s] \in {"Idle", "Paused"} \/ Reloads(s, fault)

Wakes(s, fault) == slot[s] = "Idle" \/ Reloads(s, fault)

MutTasked(S) == task                        \* no loop behind the new slot

(* The slot map and the tasks once the sessions of S are started.          *)
Started(S) == [s \in Session |-> IF s \in S THEN "Running" ELSE slot[s]]
Tasked(S)  == [s \in Session |-> IF s \in S THEN "init" ELSE task[s]]

(* Tree::send of the next message to `to`: the sessions it starts, the     *)
(* queues and the inbox files it leaves.                                   *)
Woken(to, fault) == IF Wakes(to, fault) THEN {to} ELSE {}
QueuesAfter(to, fault) ==
  LET q == Push(queue[to], sent + 1)
  IN  [queue EXCEPT ![to] = IF ReadsInbox(to, fault) THEN Reload(inbox[to], q) ELSE q]
MutInboxesAfter(to, fault) == inbox         \* inbox.json read, never removed
InboxesAfter(to, fault) ==
  [inbox EXCEPT ![to] = IF ReadsInbox(to, fault) /\ fault # "unlink" THEN <<>> ELSE @]

----------------------------------------------------------------------------
(* Commands of clients and of other sessions (Tree::handle_cmd).           *)

(* Tree::spawn: the new session is on disk before it has a slot.           *)
Spawn(s, p) ==
  /\ Serves
  /\ Input
  /\ s \notin disk /\ slot[s] = "Absent"
  /\ p = NoSession \/ (p \in Session /\ slot[p] # "Absent")
  /\ parent' = [parent EXCEPT ![s] = p]
  /\ \E failed \in May("save") :
       \/ /\ ~failed
          /\ disk' = disk \cup {s}
          /\ slot' = Started({s})
          /\ task' = Tasked({s})
       \/ /\ failed
          /\ disk' \in {disk, disk \cup {s}}
          /\ UNCHANGED <<slot, task>>
  /\ UNCHANGED <<actor, ctl, queue, inbox, history, saved, lua, sent>>

(* Tree::send.                                                             *)
Send(to) ==
  /\ Serves
  /\ Input
  /\ slot[to] # "Absent"
  /\ \E fault \in ReloadFaults(to) :
       /\ slot' = Started(Woken(to, fault))
       /\ task' = Tasked(Woken(to, fault))
       /\ queue' = QueuesAfter(to, fault)
       /\ inbox' = InboxesAfter(to, fault)
  /\ sent' = sent + 1
  /\ UNCHANGED <<actor, ctl, history, saved, parent, disk, lua>>

(* A loop that has ended took the receiver of its channel with it.         *)
Listens(s) == task[s] \in Live
HasRoom(s) == Len(ctl[s]) < CtlCap
Posted(s, msg) == [ctl EXCEPT ![s] = Append(@, msg)]

(* ctl.send: the message is in the channel, or the actor waits for room,   *)
(* or the loop is over.                                                    *)
Post(s, msg) ==
  \/ Listens(s) /\ HasRoom(s) /\ ctl' = Posted(s, msg) /\ UNCHANGED calling
  \/ Listens(s) /\ ~HasRoom(s) /\ calling' = {s} /\ UNCHANGED ctl
  \/ ~Listens(s) /\ UNCHANGED <<ctl, calling>>

Control(s, msg) ==
  slot[s] = "Running" /\ Post(s, msg) /\ UNCHANGED <<slot, history, saved>>

(* Tree::pause; a paused session is left alone, an offloaded one refused.  *)
Pause(s) ==
  /\ Serves
  /\ \/ Control(s, "Pause")
     \/ /\ slot[s] = "Idle"
        /\ slot' = [slot EXCEPT ![s] = "Paused"]
        /\ UNCHANGED <<ctl, calling, history, saved>>
  /\ UNCHANGED <<phase, unasked, task, queue, inbox, parent, disk, lua, sent, inputs>>

(* Tree::resume: a paused session is started as it is in RAM, the others   *)
(* are woken.                                                              *)
Resume(s) ==
  /\ Serves
  /\ Input
  /\ \E fault \in ReloadFaults(s) :
       /\ slot[s] = "Paused" \/ Wakes(s, fault)
       /\ slot' = Started({s})
       /\ task' = Tasked({s})
       /\ queue' = [queue EXCEPT ![s] =
                      IF ReadsInbox(s, fault) THEN Reload(inbox[s], @) ELSE @]
       /\ inbox' = InboxesAfter(s, fault)
  /\ UNCHANGED <<actor, ctl, history, saved, parent, disk, lua, sent>>

(* Tree::kill: a session that is not running is parked as paused; an       *)
(* offloaded one is read back for that, its inbox file is not, and it      *)
(* loses its slot when it cannot be read.                                  *)
Kill(s) ==
  /\ Serves
  /\ \/ Control(s, "Kill")
     \/ /\ slot[s] \in {"Idle", "Paused"}
        /\ slot' = [slot EXCEPT ![s] = "Paused"]
        /\ Save(s)
        /\ UNCHANGED <<ctl, calling, history>>
     \/ /\ slot[s] = "Offloaded"
        /\ \E unreadable \in May("load") :
             slot' = [slot EXCEPT ![s] = IF unreadable THEN "Absent" ELSE "Paused"]
        /\ UNCHANGED <<ctl, calling, history, saved>>
  /\ UNCHANGED <<phase, unasked, task, queue, inbox, parent, disk, lua, sent, inputs>>

(* Tree::offload of each session of S.  When Session::save fails the slot  *)
(* is already removed and the session is dropped (gone), though its        *)
(* history.json may be written (half); a failed write of inbox.json is     *)
(* ignored after the queue was drained (unwritten).                        *)
MutOffloadQueue(S, gone, half, unwritten) ==   \* the inbox is not written
  /\ saved' = [s \in Session |->
                 IF s \in (S \ gone) \cup half THEN history[s] ELSE saved[s]]
  /\ UNCHANGED inbox

MutOffloadSave(S, gone, half, unwritten) ==    \* the session is not saved
  /\ inbox' = [s \in Session |->
                 IF s \in S \ (gone \cup unwritten) THEN queue[s] ELSE inbox[s]]
  /\ UNCHANGED saved

OffloadEach(S, gone, half, unwritten) ==
  /\ saved' = [s \in Session |->
                 IF s \in (S \ gone) \cup half THEN history[s] ELSE saved[s]]
  /\ inbox' = [s \in Session |->
                 IF s \in S \ (gone \cup unwritten) THEN queue[s] ELSE inbox[s]]

OffloadSlots(S) ==
  \E gone \in Some("save", S) : \E half \in SUBSET gone, unwritten \in Some("inbox", S) :
    /\ OffloadEach(S, gone, half, unwritten)
    /\ slot' = [s \in Session |-> IF s \in gone THEN "Absent"
                                  ELSE IF s \in S THEN "Offloaded" ELSE slot[s]]
    /\ queue' = [s \in Session |-> IF s \in S \ gone THEN <<>> ELSE queue[s]]
    /\ history' = [s \in Session |-> IF s \in gone THEN saved'[s] ELSE history[s]]
    /\ lua' = lua \ S

MutUnloadable(s) == slot[s] \in {"Running", "Idle", "Paused"}

(* A running session is refused, one that is offloaded left alone.         *)
Unloadable(s) == slot[s] \in {"Idle", "Paused"}

Offload(s) ==
  /\ Serves
  /\ Unloadable(s)
  /\ OffloadSlots({s})
  /\ UNCHANGED <<actor, task, ctl, parent, disk, sent, inputs>>

(* Tree::sweep offloads the sessions that have been idle long enough: the  *)
(* clock may pick any of the idle ones.                                    *)
Sweep ==
  /\ Serves
  /\ \E S \in SUBSET {s \in Session : slot[s] = "Idle"} \ {{}} : OffloadSlots(S)
  /\ UNCHANGED <<actor, task, ctl, parent, disk, sent, inputs>>

----------------------------------------------------------------------------
(* The loop of a running session (agent_loop.rs).                          *)

Goto(s, next) == task' = [task EXCEPT ![s] = next]

(* agent_loop::run ends: the outcome is stored and the session saved.      *)
Finish(s, outcome) == Goto(s, outcome) /\ Save(s)

MutStopped(s) == Head(ctl[s])

(* The outcome the first control message gives; the others are never read. *)
Stopped(s) == IF Head(ctl[s]) = "Pause" THEN "Paused" ELSE "Killed"

(* The Lua runtime is built (make_repl) when the session has none, before  *)
(* anything is read from the inbox.                                        *)
Prepare(s) ==
  /\ task[s] = "init"
  /\ \/ Goto(s, "check") /\ lua' = lua \cup {s} /\ UNCHANGED saved
     \/ "repl" \in Faults /\ s \notin lua /\ Finish(s, "Error") /\ UNCHANGED lua
  /\ UNCHANGED <<actor, slot, ctl, queue, inbox, history, parent, disk, sent, inputs>>

MutCheckControl(s) ==                       \* the control channel is not read
  /\ task[s] = "check"
  /\ Goto(s, "drain")
  /\ UNCHANGED <<actor, slot, ctl, queue, inbox, history, saved, parent, disk, lua,
                 sent, inputs>>

(* Step 1 of the loop.                                                     *)
CheckControl(s) ==
  /\ task[s] = "check"
  /\ \/ ctl[s] = <<>> /\ Goto(s, "drain") /\ UNCHANGED saved
     \/ ctl[s] # <<>> /\ Finish(s, Stopped(s))
  /\ UNCHANGED <<actor, slot, ctl, queue, inbox, history, parent, disk, lua, sent, inputs>>

(* The actor answers a Drain: it does so only while it reads its commands. *)
TakeInbox(s) ==
  /\ Serves
  /\ history' = [history EXCEPT ![s] = @ \o queue[s]]
  /\ queue' = [queue EXCEPT ![s] = <<>>]
  /\ UNCHANGED <<actor, slot, ctl, inbox, saved, parent, disk, lua, sent, inputs>>

(* Step 2: the inbox goes to the history.                                  *)
Drain(s) == task[s] = "drain" /\ Goto(s, "llm") /\ TakeInbox(s)

(* agent.recv, called by the script of the turn.                           *)
Recv(s) ==
  task[s] \in {"act", "endless"} /\ queue[s] # <<>> /\ TakeInbox(s) /\ UNCHANGED task

(* Any other call of a block waits for the actor (bindings/agent.rs),      *)
(* which matters while it answers nobody.                                  *)
Ask(s) ==
  /\ task[s] = "act" /\ ~Serves
  /\ Goto(s, "asks")
  /\ UNCHANGED <<actor, slot, ctl, queue, inbox, history, saved, parent, disk, lua, sent, inputs>>
Answer(s) ==
  /\ task[s] = "asks" /\ Serves
  /\ Goto(s, "act")
  /\ UNCHANGED <<actor, slot, ctl, queue, inbox, history, saved, parent, disk, lua, sent, inputs>>

(* A block that does not end: exec has no limit of time.                   *)
NeverEnds(s) ==
  /\ "endless" \in Faults
  /\ task[s] = "act"
  /\ Goto(s, "endless")
  /\ UNCHANGED <<actor, slot, ctl, queue, inbox, history, saved, parent, disk, lua, sent, inputs>>

(* Step 4: the model answers, the request fails, the reply is truncated,   *)
(* or a control message comes first.                                       *)
AwaitModel(s) ==
  /\ task[s] = "llm"
  /\ \/ Goto(s, "act") /\ UNCHANGED saved
     \/ Goto(s, "check") /\ UNCHANGED saved
     \/ Goto(s, "check") /\ Save(s)
     \/ \E o \in {"Error", "Exhausted"} : Finish(s, o)
     \/ ctl[s] # <<>> /\ Finish(s, Stopped(s))
  /\ UNCHANGED <<actor, slot, ctl, queue, inbox, history, parent, disk, lua, sent, inputs>>

(* Steps 5 to 9: the turn is persisted; the session may be done or out of  *)
(* budget.                                                                 *)
EndTurn(s) ==
  /\ task[s] = "act"
  /\ \/ Goto(s, "check") /\ Save(s)
     \/ \E o \in {"Done", "Exhausted"} : Finish(s, o)
  /\ UNCHANGED <<actor, slot, ctl, queue, inbox, history, parent, disk, lua, sent, inputs>>

(* A panic in the loop: join_next yields an error, the slot stays.         *)
Panic(s) ==
  /\ "panic" \in Faults
  /\ task[s] \in Live
  /\ Goto(s, "dead")
  /\ UNCHANGED <<actor, slot, ctl, queue, inbox, history, saved, parent, disk, lua, sent, inputs>>

LoopStep(s) ==
  Prepare(s) \/ CheckControl(s) \/ Drain(s) \/ AwaitModel(s) \/ Answer(s) \/ EndTurn(s)

----------------------------------------------------------------------------
(* The end of a loop (Tree::on_finished).                                  *)

Reports(s) ==
  parent[s] # NoSession /\ task[s] # "Paused" /\ slot[parent[s]] # "Absent"

ParksIdle(s) == task[s] \notin {"Paused", "Killed"}

MutRewakes(s, q) == FALSE                   \* the last drain is trusted

(* Whether the session goes on with messages that came after its last      *)
(* drain, q being the inboxes once its report is sent.                     *)
Rewakes(s, q) == ParksIdle(s) /\ q[s] # <<>>

(* The session reports to its parent, which wakes it, then is parked, and  *)
(* starts again when messages are waiting.                                 *)
Join(s) ==
  /\ phase # "down" /\ calling = {}
  /\ task[s] \in Outcome
  /\ Save(s)
  /\ \E fault \in IF Reports(s) THEN ReloadFaults(parent[s]) ELSE {"none"} :
       LET p == parent[s]
           q == IF Reports(s) THEN QueuesAfter(p, fault) ELSE queue
           woken == IF Reports(s) THEN Woken(p, fault) ELSE {}
       IN  /\ queue' = q
           /\ inbox' = IF Reports(s) THEN InboxesAfter(p, fault) ELSE inbox
           /\ sent' = IF Reports(s) THEN sent + 1 ELSE sent
           /\ slot' = [Started(woken) EXCEPT ![s] =
                         IF Rewakes(s, q) THEN "Running"
                         ELSE IF ParksIdle(s) THEN "Idle" ELSE "Paused"]
           /\ task' = [Tasked(woken) EXCEPT ![s] =
                         IF Rewakes(s, q) THEN "init" ELSE "none"]
  /\ ctl' = [ctl EXCEPT ![s] = <<>>]
  /\ UNCHANGED <<actor, history, parent, disk, lua, inputs>>

----------------------------------------------------------------------------
(* The process.                                                            *)

(* Tree::shutdown asks the sessions of S to pause, one after another, up   *)
(* to the first whose channel is full.                                     *)
AskToPause(S) ==
  \E asked \in SUBSET S :
    /\ \A s \in asked : Listens(s) => HasRoom(s)
    /\ ctl' = [s \in Session |-> IF s \in asked /\ Listens(s)
                                 THEN Append(ctl[s], "Pause") ELSE ctl[s]]
    /\ \/ asked = S /\ calling' = {} /\ unasked' = {}
       \/ \E s \in S \ asked :
            Listens(s) /\ ~HasRoom(s) /\ calling' = {s} /\ unasked' = S \ (asked \cup {s})

(* From here the actor reads no more commands.                             *)
BeginShutdown ==
  /\ Serves
  /\ phase' = "stopping"
  /\ AskToPause({s \in Session : slot[s] = "Running"})
  /\ UNCHANGED <<slot, task, queue, inbox, history, saved, parent, disk, lua, sent, inputs>>

(* The wait of the actor ends when the loop is over, and the message it    *)
(* waited with is dropped: a loop reads one message and ends.              *)
Unblock ==
  /\ \E s \in calling : ~Listens(s)
  /\ AskToPause(unasked)
  /\ UNCHANGED <<phase, slot, task, queue, inbox, history, saved, parent, disk,
                 lua, sent, inputs>>

(* Everything in RAM is gone.                                              *)
ExitProcess ==
  /\ phase' = "down"
  /\ calling' = {}
  /\ unasked' = {}
  /\ slot' = [s \in Session |-> "Absent"]
  /\ task' = [s \in Session |-> "none"]
  /\ ctl' = [s \in Session |-> <<>>]
  /\ queue' = [s \in Session |-> <<>>]
  /\ history' = saved'
  /\ lua' = {}

(* Tree::shutdown ends once every task is joined: what is in RAM is        *)
(* offloaded, and the process exits.                                       *)
EndShutdown ==
  /\ phase = "stopping" /\ calling = {}
  /\ \A s \in Session : task[s] \in {"none", "dead"}
  /\ LET S == {s \in Session : slot[s] \in {"Idle", "Paused"}}
     IN  \E gone \in Some("save", S) :
           \E half \in SUBSET gone, unwritten \in Some("inbox", S) :
              OffloadEach(S, gone, half, unwritten)
  /\ ExitProcess
  /\ UNCHANGED <<parent, disk, sent, inputs>>

Crash ==
  /\ "crash" \in Faults
  /\ phase # "down"
  /\ UNCHANGED <<inbox, saved, parent, disk, sent, inputs>>
  /\ ExitProcess

(* spawn_tree_with: every session on disk gets an offloaded slot.          *)
Restart ==
  /\ phase = "down"
  /\ phase' = "up"
  /\ slot' = [s \in Session |-> IF s \in disk THEN "Offloaded" ELSE "Absent"]
  /\ UNCHANGED <<calling, unasked, task, ctl, queue, inbox, history, saved, parent,
                 disk, lua, sent, inputs>>

----------------------------------------------------------------------------

Next ==
  \/ \E s \in Session, p \in Session \cup {NoSession} : Spawn(s, p)
  \/ \E s \in Session : Send(s)
  \/ \E s \in Session : Pause(s)
  \/ \E s \in Session : Resume(s)
  \/ \E s \in Session : Kill(s)
  \/ \E s \in Session : Offload(s)
  \/ Sweep
  \/ \E s \in Session : Prepare(s)
  \/ \E s \in Session : CheckControl(s)
  \/ \E s \in Session : Drain(s)
  \/ \E s \in Session : Recv(s)
  \/ \E s \in Session : Ask(s)
  \/ \E s \in Session : Answer(s)
  \/ \E s \in Session : NeverEnds(s)
  \/ \E s \in Session : AwaitModel(s)
  \/ \E s \in Session : EndTurn(s)
  \/ \E s \in Session : Panic(s)
  \/ \E s \in Session : Join(s)
  \/ Unblock
  \/ BeginShutdown
  \/ EndShutdown
  \/ Crash
  \/ Restart

Spec == Init /\ [][Next]_vars

(* What the runtime guarantees: a spawned task is polled, a model request  *)
(* has a time limit, the actor goes on where it does not wait.  A block    *)
(* has no time limit: one that ends sooner or later is in "act", any other *)
(* in "endless", where no step is assumed (block_in_place leaves the other *)
(* tasks a thread).  Nothing is assumed of clients, crashes or restarts.   *)
Fairness ==
  /\ \A s \in Session : WF_vars(LoopStep(s))
  /\ \A s \in Session : WF_vars(Join(s))
  /\ WF_vars(Unblock)
  /\ WF_vars(EndShutdown)

FairSpec == Spec /\ Fairness

----------------------------------------------------------------------------
(* Properties.                                                             *)

(* A session whose slot says idle has no message waiting: whatever the     *)
(* order of its last drain, a message, its end and its parking, it does    *)
(* not sleep on a message (tree.rs on_finished and send).                  *)
NoLostWakeup == \A s \in Session : slot[s] = "Idle" => queue[s] = <<>>

(* A session has one loop at most: a task that is alive, or that has ended *)
(* and is not joined yet, belongs to a slot that says running, so no       *)
(* command starts, parks or unloads the session beside its loop.           *)
OneLoop == \A s \in Session : task[s] # "none" => slot[s] = "Running"

(* What makes the two inductive: no task outlives the process.             *)
DownHasNoTask == phase = "down" => \A s \in Session : task[s] = "none"
TreeInv == TypeOK /\ NoLostWakeup /\ OneLoop /\ DownHasNoTask

(* The other direction, when no task panics: a slot that says running has  *)
(* a loop behind it (session/mod.rs "The loop task is alive.").            *)
RunningHasLoop ==
  \A s \in Session : slot[s] = "Running" => task[s] \in Live \cup Outcome

(* Whatever fails, what RAM keeps of an offloaded session is only the mail *)
(* that came since and could not wake it: its history is the one on disk,  *)
(* its runtime is gone, and what waits in its queue is newer than all it   *)
(* has read and than all its inbox file holds, so a later wake puts file   *)
(* and queue together in order.  (That the file holds the mail it had is   *)
(* KeepsMail, where no write of it fails.)                                 *)
Below(a, b) == \A i \in 1 .. Len(a), j \in 1 .. Len(b) : a[i] < b[j]
OffloadedIsOnDisk ==
  \A s \in Session : slot[s] = "Offloaded" =>
     /\ s \in disk /\ s \notin lua
     /\ history[s] = saved[s]
     /\ Below(history[s], queue[s]) /\ Below(inbox[s], queue[s])

(* The messages of s that can still reach it: the inbox file counts while  *)
(* a wake of s would read it.                                              *)
Waiting(s) ==
  (IF slot[s] \in {"Offloaded", "Absent"} THEN inbox[s] ELSE <<>>) \o queue[s]

Increasing(q) == \A i, j \in 1 .. Len(q) : i < j => q[i] < q[j]

(* A chatty child cannot fill memory (bus.rs Bus): neither a queue nor an  *)
(* inbox file, reloaded in front of what arrived since, passes MAX_QUEUE.  *)
QueuesBounded ==
  \A s \in Session : Len(queue[s]) <= MaxQueue /\ Len(inbox[s]) <= MaxQueue

(* A session reads its messages in the order they were accepted, and none  *)
(* of them twice, across offloads, wakes, kills and clean restarts.        *)
ReadInOrder == \A s \in Session : Increasing(history[s] \o Waiting(s))

(* A session never reads a message twice: the queue, the inbox file and    *)
(* the two copies of the history never overlap in a way that a wake, a     *)
(* failed save or a crash would turn into a second reading.  It holds      *)
(* whatever fails but one thing: a file that Bus::load has read and could  *)
(* not remove is read again after a crash.                                 *)
Once(q) == \A i, j \in 1 .. Len(q) : q[i] = q[j] => i = j
ReadOnce == \A s \in Session : Once(history[s] \o Waiting(s))

(* Every accepted message is somewhere: read, or waiting in RAM or in the  *)
(* inbox file (bus.rs "so an offloaded session loses nothing").            *)
Holds(q, n) == \E i \in 1 .. Len(q) : q[i] = n
NothingLost ==
  \A n \in 1 .. sent : \E s \in Session :
     Holds(history[s], n) \/ Holds(queue[s], n) \/ Holds(inbox[s], n)

(* The tree keeps the promise of the mailbox: an accepted message waits,   *)
(* through offload, wake, shutdown and restart, until its session reads    *)
(* all that waits for it in order; a full inbox and a kill alone lose one. *)
Mail == INSTANCE Mailbox
          WITH box <- [s \in Session |-> Waiting(s)], read <- history
KeepsMail == Mail!MailSpec

(* Nothing but a kill empties a mailbox unread.                            *)
OnlyKillDiscards == [][\A s \in Session : Mail!Discard(s) => Kill(s)]_vars

(* Only resume starts a paused or killed session that is in RAM: messages  *)
(* and the reports of its children leave it where it is.                   *)
PausedStaysPut ==
  [][\A s \in Session :
       slot[s] = "Paused" /\ task'[s] # "none" => Resume(s)]_vars

(* The actor waits for room in the channel of a loop that waits for the    *)
(* actor, or that is in a block without end: it serves nobody any more.    *)
ActorBlocked ==
  \E s \in calling : task[s] \in {"drain", "asks", "endless"}

(* A message that waits for a session that is not paused is read, unless   *)
(* the session is paused or killed, or the process stops, before that; but *)
(* for a session whose block never ends, and an actor blocked for ever.    *)
QueuedIsRead ==
  \A s \in Session :
     (phase = "up" /\ queue[s] # <<>> /\ slot[s] # "Paused")
       ~> \/ phase # "up" \/ queue[s] = <<>> \/ slot[s] = "Paused"
          \/ task[s] = "endless" \/ ActorBlocked

(* A pause or a kill accepted while the session ran ends that run, with    *)
(* the same two exceptions.                                                *)
StopEndsRun ==
  \A s \in Session :
     (phase = "up" /\ ctl[s] # <<>>)
       ~> (phase # "up" \/ ctl[s] = <<>> \/ task[s] = "endless" \/ ActorBlocked)

(* A shutdown comes to its end (tree.rs shutdown "Ask every running loop   *)
(* to pause, wait for them, persist everything.").                         *)
ShutdownEnds == (phase = "stopping") ~> (phase = "down")
=============================================================================
