# Verification of longe

TLA+ models of the daemon `longed` (the crate in `src/src`), the runs TLC makes
of them and the theorems TLAPS proves about them. Paths are relative to the
repository (`session/tree.rs` is `src/session/tree.rs` of the crate), except
those of `rjq`, the program in `src/rjq` that the benchmark had the agent write.

## The system

`longed` owns a tree of agent sessions. A session alternates between a request
to a language model and the execution of the Lua block the model answers with;
sessions spawn and message each other; a session that rests is written to disk
and forgotten; a finished session is reflected upon, and the reflection edits
the git repository (the *store*) that all sessions read and write.

| component | state it keeps | operations | talks to |
|---|---|---|---|
| session tree `session/tree.rs` | slot of every session (running, idle, paused, offloaded), the inboxes, the join set of loop tasks | spawn, send, drain, list, get, pause, resume, kill, offload, sweep, shutdown; a finished task | loops through a control channel and a report channel, store, daemon |
| message bus `session/bus.rs` | one queue per session, at most `MAX_QUEUE`; `inbox.json` | push, drain, save, load | owned by the tree |
| session `session/state.rs` | metadata, counters, history, Lua globals; the same on disk | push a turn, save, load | loop, tree |
| agent loop `agent_loop.rs` | one run: live budget, consecutive errors, retry limit | control, drain, request, act, done gate, compaction, save | tree (drain), model, Lua, verifier |
| budget `budget.rs` | turns, tokens, elapsed time | resume, tick, freeze, check_done, exhausted | loop |
| compaction `compact.rs` | none | split_older, rebuild, summarize | loop, model |
| reflection `reflect.rs` | `reflect.log`, branches | apply, accept, reject, pending | store, model, fitness command |
| store `store.rs` | the files, the git repository, a lock held per git command | collections, prompt, trajectories, git | everyone |
| daemon `daemon.rs` | socket, background tasks | dispatch, finish events, cron, shutdown | tree, reflection |
| LLM client `llm/` | one completion: the attempt, what was gathered of the stream | complete, retry, the streams of three providers | loop, compaction, `llm.query` |
| Lua runtime `repl/` | the globals of a session | exec, dump, restore, the bindings | loop, store, tree, model |
| cron `cron.rs` | none | parse and match a schedule | daemon |
| reply parsing `parse.rs` | none | from a reply to a block, a `done()` or a text | loop |
| verifier `verify.rs`, sandbox `sandbox/`, configuration, cockpit, command line | little or none | one external call, or a view | |
| `rjq` | none | lex, parse and evaluate a filter | stands alone |

What is hard in it:

* **Concurrency.** The tree is an actor, the loops are tasks: a message, a pause
  or an offload meets a loop at any await. A report wakes a parent in the middle
  of a sweep or of the shutdown.
* **Ownership.** A session moves between the tree and its loop, and between RAM
  and disk; its mail moves between a queue, a file and its history.
* **Waiting.** The actor awaits room in bounded channels and answers nobody
  meanwhile; a Lua block has no time limit and may never come back.
* **Failure.** Saves, loads and the Lua runtime may fail, a task may panic, the
  process may die between any two steps; nothing is retried.
* **Files.** A save is three files, a file is replaced in three steps, a listing
  is many reads; threads and crashes fall between them.
* **Streams.** An answer may break, be cut, be tried again, or arrive in pieces
  the network chose.
* **Counting.** Budgets survive pauses and restarts and decide when `done()` is
  accepted and when a run is forced to end.
* **A shared working tree.** Reflections check out branches in the directory the
  sessions write to.

`PROJECT.json` lists every such hazard at its line, with the properties that
would catch it, or why none does.

## Modules

| module | models | lines it stands for |
|---|---|---|
| `SessionTree` | actor, loops, bus, disk | `session/tree.rs`, `session/bus.rs`, saves of `session/state.rs`, the awaits of `agent_loop.rs` |
| `Mailbox` | what the inboxes promise, abstractly | the contract of `session/bus.rs` |
| `AgentLoop` | one session, run after run | `agent_loop.rs`, `budget.rs`, `compact.rs` (split and rebuild) |
| `Reflect` | reflections, sessions that write, a human who decides | `reflect.rs` (apply, accept, reject), git in `store.rs` |
| `Store` | the files of the store, the threads that set, read and delete them, crashes | `store.rs` without git, `repl/bindings/store.rs` |
| `SessionFiles` | the three files of one session and its Lua globals | `Session::save` and `load`, `__longe_dump`, `Repl::restore` |
| `Llm` | one completion after another | `llm/`, `llm.query`, `summarize` |
| `Cron` | fields and days of a schedule | `cron.rs` |
| `Reply` | from a reply to an action | `parse.rs` |
| `Parsing` | the reading of one reply or one schedule | `parse` of `parse.rs`, `Schedule::parse` of `cron.rs` |
| `JqValue`, `Jq`, `JqParse` | values, evaluator and parser of `rjq` | `rjq/src` |
| `JqLaws` | what `rjq`'s filters promise | |
| `Daemon` | the tasks around the actor and who waits for whom | `daemon.rs` (`serve`, `run_cron`, `dispatch`), `Tree::run`, the ends of `reflect.rs` |
| `DaemonSocket` | processes that serve one store | the socket in `daemon.rs`, `client.rs` (`ensure_daemon`) |
| `SessionTreeProofs` | theorems about `SessionTree`: slots and loops | |
| `SessionMailProofs` | theorems about `SessionTree`: mail, and `Mailbox` | |
| `AgentLoopProofs` | theorems about `AgentLoop` | |
| `ReflectProofs` | theorems about `Reflect` | |
| `StorageProofs` | theorems about `Store` and `SessionFiles` | |
| `LlmProofs` | theorems about `Llm` | |
| `ParsingProofs` | theorems about `Parsing`: `Cron` and `Reply` | |
| `DaemonProofs` | a theorem about `Daemon` | |
| `MCSessionTree`, `MCAgentLoop`, `MCReflect`, `MCDaemon` | instances for TLC | |
| `MCParts` | instances of `Store`, `SessionFiles`, `Llm`, `Parsing`, `JqLaws` | |

The modules of the daemon fit together by their inputs: what `Llm` and `Reply`
return is what the model "answers" in `AgentLoop`; `SessionTree` and `AgentLoop`
save in one step, and `SessionFiles` and `Store` say what that step is made of;
the schedules that match in `Daemon` are those `Cron` matches.

### SessionTree

*State.* `slot` is the slot map (`"Absent"` is a missing key), `task` the place
or the outcome of each loop task, `ctl` the control channel of each loop, `calling` the
session in whose full channel the actor awaits room, `unasked` those a shutdown has
still to ask to pause,
`queue` and `inbox` the two places of an inbox, `history` and `saved` the
messages a session has read, in RAM and in `history.json`; `parent`, `disk`,
`lua` and `phase` are what their names say. Messages are numbered in the order
they are accepted, so order, loss and duplication are visible.

*Steps.* One action per command of `handle_cmd` (`Spawn`, `Send`, `Pause`,
`Resume`, `Kill`, `Offload`, `Sweep`), each with everything the handler does:
`Send` wakes an idle or offloaded session, reads its inbox file back and deletes
it. `Pause` and `Kill` of a running session post into its channel (`Post`): when it is
full the actor waits, serving no command and joining no task, until the loop it
waits for ends (`Unblock`). `Join` is `on_finished`: save, report to the parent, park,
wake again for pending mail. A loop takes one step per await: `Prepare`, `CheckControl`,
`Drain`, `AwaitModel`, `EndTurn`, and `Recv` for `agent.recv`. Any other call of
a block matters here only while the actor answers nobody: the block then waits
(`Ask`, place `"asks"`) until it does (`Answer`); a block may also run for ever
(`NeverEnds`, place `"endless"`). `BeginShutdown` and `EndShutdown` are the two halves
of `shutdown`, with the loops and the reports running between them; then
`ExitProcess`, or `Crash` at any point, and `Restart` from what is on disk.

*Faults.* The constant `Faults` names what may fail, each nondeterministically:
`"crash"`, `"panic"`, `"save"` and `"load"` of a session, `"inbox"`, `"unread"` and
`"unlink"` (the write, the read and the removal of `inbox.json`, whose errors `bus.rs`
ignores), `"repl"` and `"endless"`.

*Abstractions.* A loop reads one control message and ends, so the others matter for
the room they take only. A shutdown asks as many sessions as have room in one
step. A sweep takes any set of idle sessions, whatever their age.
`inbox = <<>>` stands for an empty file and for a missing one. `Input` bounds
the spawns, sends and resumes that come from outside; pauses, kills, offloads
and reports are not bounded.

*The abstract specification.* `Mailbox` has two functions, `box` and `read`:
a message is accepted into a box (a full box drops its oldest), a whole box is
read in order, a box is discarded. `SessionTree` instantiates it (`Mail`) with the
mail of a session wherever it is (file then queue) and its history; `KeepsMail`
says that `SessionTree` implements it and `OnlyKillDiscards` that the discarding
step is always a kill. This is the promise of `bus.rs` without faults; TLC checks
both on an instance and `SessionMailProofs` proves both.

### AgentLoop

*State.* `session` and `disk` are the session in RAM and as last saved:
counters, history (role and kind of each turn), last verdict of the verifier,
unverified writes, outcome. `budget` and `clock` are the live `Budget`,
`errors` and `retry` the locals of `run_inner`. `spent` and `unverified` are not
in the program: they count the round trips paid for and the seconds run, and the
source writes the verifier has not seen.

*Steps.* `Start` (and its failure), `Stop` at either place that reads the
control channel, `BeginTurn` (drain and "(resumed; continue)"), then `Reply`,
`Truncated` or `Fail`, `Act` with a block (`Exec`) or without (`Bare`),
`TryFinish`, `EndTurn` (compaction, save, exhaustion); `Tick` and `Crash` at any
time. A block that does not end is `NeverEnds`: nothing but a crash follows. A block is a member of `Scripts`: what it wrote before and after it ran
the verifier, what the verifier said, the tokens of `llm.query`, `compact()`,
`done()`, and whether it only read.

*Abstractions.* What the model answers, whether a summary succeeds and whether a
request is large enough to compact are nondeterministic. A drain brings one turn
or none (several messages make several runtime turns, which no property tells
apart). `done_refused`, `reasoning_tokens`, notes and the saturation of the
integers are left out; saves succeed (their failures are in `SessionTree`); the
three files of a save are written in one step. Seconds pass only while a run
lasts, as in `Budget`.

### Reflect

*State.* `head`, `branches`, `commit`, `tree` and `merging` (a merge that conflicted and is
not committed) are the repository, `gone` what was committed on a branch and is no
more, which is what a merge takes away; `pc` and `base` the progress of each reflection,
`human` the branch a human has merged and not yet deleted, `verdict` what was reported.
`written`, `removed` and `trouble` are not in the program: what the sessions wrote, what
each reflection and the sessions deleted or rewrote, and what went otherwise than when
everyone is alone: sessions wrote or others acted while something was under way
(`"sessions"`, `"others"`), a merge conflicted (`"conflict"`), a git command failed
(`"git"`).

*Steps.* One action per git command and per write of files, since the lock of
the store is held for one command only: commit the pending changes, read the
current branch, score, create the branch, apply the changes (or fail half way,
reset, return, delete), commit, score and return to the base, merge, delete. The
line of `reflect.log` is written with the step before it. Any of the git commands may
fail and the reflection then returns where it stands (`GitFails`). A session may `Write`
or `Erase` and a human may `Accept` or `Reject` between any two of them.

*Content.* Every reflection makes the three edits the code can make: it rewrites one
file that all share (its text replaces the `Old` one, or that of another reflection),
adds a file of its own and deletes the file `Stale`. A session writes files of its own
and deletes those of `Erasable`. A merge brings what its branch has and takes away what it
has removed since the two parted; two texts of the shared file, or lines added to
`reflect.log` on both sides, conflict. A conflicted merge leaves both sides in
the tree, and the next `git_commit_all`, whoever asks for it, concludes it.

*Abstractions.* Two branches that touch one shared file touch the same lines of it. A
file deleted on one side and edited on the other, and two branches of the same second,
are left out. Git *may* refuse any checkout or merge of a dirty tree. Scores are
nondeterministic; `Scored = TRUE` covers the store without a fitness command too,
because a score that fails leaves the branch pending in the same way. A write to
`reflect.log` succeeds. `MaxTrouble` bounds the kinds of trouble of one behaviour,
conflicts not counted.

### Store and SessionFiles

*State.* In `Store`, `dir` and `data` are names and inodes, because a file that
was renamed may still be open in another thread; `thread` is the place of each
Lua thread in `write_atomic` or in a listing; `opening` and `git` are
`Store::open`; `log` is one trajectory, line by line. `acked` and `tally` are not
in the program: what the last successful set of each item wrote, and how many
appends succeeded. In `SessionFiles`, `live` and `disk` hold the *turn* each file
was written at, and for each global the turn it was set at and its sort.

*Steps.* `write_atomic` is `OpenTmp`, `WriteTmp` (which may fill the disk),
`RenameTmp`; `List` reads the directory and `ReadItem` one of its files, so that
a file deleted in between fails the listing; `AppendTrajectory` may leave half a
line; `Crash` starts another process that opens what is there. A save is
`SaveMeta`, `SaveHistory`, `SaveLua`, each of which may be the last one
(`SaveFails`, `Leave`); `Load` takes whatever mix it finds, and `MakeRepl` runs
the dump, which stops at the first statement that fails.

*Abstractions.* A crash is one of the process: nothing written is lost. The
instance gives each thread items of its own. What a global becomes depends on
its sort: data, closure, cycle, coroutine, infinity (or not-a-number), `"negative"` (a
negative infinity or not-a-number), `"keyed"` (a table with an infinite key); and on its
name, which may be a keyword of Lua (`Reserved`). A dump that fails is
`SaveFails`, for instance for a string that is not UTF-8. Left out: a global named `_ENV`,
and the digits `tostring` drops.

### Llm

*State.* `call`, `pc` and `attempt` are where a completion is, `acc` what a
client gathered (its `text`, `stop_reason`, `usage`), `wire` and `buf` the bytes
of an Ollama stream on the way and in the client; `sent` and `failures` are not
in the program: what the server sent in this attempt, how each attempt failed.

*Steps.* `Call` (by `llm.query` or `summarize`), `Answered`, `Refused` or
`NoKey`, then `SseEvent` for OpenAI and Anthropic, `ServerWrites` and `Chunk` for
Ollama, and `BodyEnds` or `StreamBreaks`; `Retry` and `AskShorter` start over.

*Abstractions.* A piece of text is named by its attempt and event; an Ollama line
is two halves and a newline, cut anywhere. Waiting times and the JSON of
requests are left out; an estimate counts pieces.

### Cron, Reply, Parsing and rjq

These are functions, and each is compared with what it means, stated in another
way. `Cron` expands a field as `parse_field` does, in the width of its integers;
`FiresWhenNamed` says which days the fields name. `Reply` strips tags and finds
blocks, in sequences of the *places* of the tokens of a reply; `OnlyVisibleCodeRuns`
says of these places what may be executed, with the hidden ones found from the left one
by one: it is, in its order, all that is shown past the line of the first fence that
opens a block in a language that is run, and before the next fence. "First that opens"
is not the first that names such a language: fences open and close in turn, whatever
they name. `Parsing` is the reading of one such text, of which nothing is kept. The
minute, hour and month of a schedule are conjuncts of the form of the days and are left
out, as is the argument of `done()`.

`JqParse` has the lexer and the functions of `parser.rs`, over words, numerals
and quoted strings; `ParsesBack` writes a tree with the parentheses its levels
ask for, and no more, and reads it again. `Jq` has both evaluators (for values and
for paths) and the builtins; `SameMeaning` runs two filters that mean the same and go
different ways through the code, such as a builtin and its definition or a sort
and any order of its input. They mean the same by the definitions of jq where `rjq`
follows them and by its own where it does not. Left out: the JSON parser, fractions and
the mathematical builtins, letter case, `tonumber`, `keys_unsorted`, `env` and
`now`, and the three nodes the parser never makes.

### Daemon and DaemonSocket

*State.* `life` is where each session stands (a run, a run that will not come back,
resting), `actor`, `held` and `calling` the actor, the event it is about to post and the
session in whose full control channel it awaits room, `unasked` whom its shutdown has
still to ask, `events` the channel of finish events, `at` and `job` the place of each
task (the reader of the events, the cron, a connection), `due` the actions left of a
round of the cron, `cancelled`, `listening` and `main` the token, the listener and the
progress of `serve`.

*Steps.* A run ends (`End`), the actor takes it back (`Join`) and posts its
event (`Post`, which waits for room or for the reader to be gone); a script that runs
spawns or wakes another session (`Delegate`); a pause or a kill may find the channel
of its session full (`Call`), until that session ends its run (`Unblock`). `BeginStop`
and `EndStop` are the shutdown inside the actor. `Take` and `EndReflect` are the
reader; `Tick`, `EndSweep`, `EndList` and `EndReflect` a round of the cron;
`Connect` and `EndAsk` a request. Every task ends where its `select!` sees the token, and
`Main` waits for the actor and then for the tasks.

*Abstractions.* What a session does in a run, the inboxes and the git commands
of a reflection are the other modules; of the report of a `Join` only the wake of the
parent is here. How many messages a control channel holds is left to `SessionTree`: the
channel of a running session may be full at any time. A run may never come back
(`Hang`): its block does not end, or it asks an actor that answers nobody, which
`SessionTree` shows in `tree_shutdown_hangs` and as `ActorBlocked`. That alone
disturbs nobody. The liveness properties except by name (`ActorHangs`) the case where the
actor waits for such a run, for room in its channel or for its end in a
shutdown, so that they say that nothing else hangs. The HTTP server is one more
listener for the same requests; a cron action that spawns a task does what a client does;
the cleanup of old trajectories, `reflect.enabled = false` (the reader takes every event
at once) and panics are left out. A connection ends with its reply, as `client.rs` closes
it. `MaxRuns` and `MaxRounds` bound the runs and the rounds of the cron.

`DaemonSocket` has the file of the socket and the stage of each process in
`serve`: look, remove, bind, serve, close the listener, remove the file.

## Runs

| run | instance | states | shows |
|---|---|---|---|
| `tree_safety` | two sessions, control channels of one message, bounded inputs, shutdown and restart; the removal of an inbox file may fail | 2.1 million | the invariants of the tree, order of mail, and the refinement of `Mailbox` |
| `tree_faults` | the same with panics, crashes, failing saves, loads and inbox writes | 3.3 million | wakeup, one loop, bounded inboxes, what an offloaded session leaves in RAM, no message read twice |
| `tree_liveness` | smaller, with fairness, blocks that never end and inbox files that cannot be read | 270 thousand | mail is read, an accepted stop ends the run |
| `loop` | two runs, three turns, every script, blocks that never end | 640 thousand | honest counters, earned `done()`, overspending, shape of requests, termination |
| `reflect` | two reflections, a session that writes one file and deletes two, a human, one kind of trouble and conflicts | 920 thousand | the store comes to rest where it should |
| `parts` | two threads, three items, four operations, two processes; three turns; one retry, three events; 111 thousand replies, 147 thousand schedules, the trees and values of `rjq` | 1 million | each part that shares no state with the others, by itself |
| `daemon` | two sessions, a channel of one event, one schedule, three runs, one round | 330 thousand | the daemon exits cleanly, no event is lost, every question is answered |

The instances are small because the hazards need few actors: one parent and one
child give every kind of wake (message, report, pending mail, resume), two
inputs beyond the spawns reach a full queue of the instance and a second
offload, two runs of a loop are what a counter needs to be forgotten or counted
twice, two reflections are what it takes to overlap or to conflict, and three finished runs
are one that the reader reflects upon, one that fills a channel of one event and one
whose event the actor holds. A control channel of one message (8 in the code) is full
after one pause. In `parts`, two operations
of each thread and one crash are enough to leave a temporary file and find it
again, three turns to have three files of three turns, three events to have a
text, a stop reason and the end of a stream, and five tokens to nest a tag in a
block or a block in a tag. The bounds are
`MaxInputs`, `MaxQueue`, `CtlCap`, `Erasable`, `MaxTrouble`, `MaxStarts`, `MaxMessages`, `MaxClock`, `EventCap`, `MaxRuns`,
`MaxRounds`, `MaxOps`, `MaxBoots`, `MaxEvents`, `MaxTurns` of `SessionFiles`, and the
sets of each `.cfg` and of `MCParts`; `Width` and `DomMax` of `Cron`, in `parts.cfg`, are 256 for
2^32 and 4 for 31 (no step of the instance wraps around). `MaxRetries`, and
`MaxTurns` and `MaxTokens` of `AgentLoop`, are configuration and not bounds of the
model. Symmetry is used for safety only. Deadlock is not checked where the system
may rest: every session parked, every reflection ended, a call answered.

`TypeOK` of `Daemon` and of `Reflect` is in the modules but in no run: what it
excludes is seen in the other properties.

Five more runs refute something the repository says of itself; `PROJECT.json` quotes
the line each contradicts.

| run | what happens |
|---|---|
| `tree_inbox_lost` | pause, message, offload, kill, offload: the second offload overwrites an inbox file nobody read |
| `tree_shutdown_hangs` | shutdown waits for a loop that waits for the actor's reply to its drain |
| `reflect_write_lost` | what a session writes while a reflection's branch is checked out goes with that branch |
| `socket_stolen` | a daemon that leaves removes the socket file of the one that replaced it |
| `state_lost` | a global that holds a negative infinity, or a table with an infinite key, is dumped as source that fails: the globals after it are gone after a restart |

### Deviations without a run

These are in the modules, as behaviours the properties allow for or as forms
they do not use.

* A pause or a kill accepted while the loop is ending is dropped with the channel; a
  session that is paused and then offloaded is woken by its next message (`SessionTree`,
  `OffloadSlots`). The cron may reflect again on a session that is under reflection
  (`Daemon`, `EndList`).
* Nothing limits the time of a block (`repl/mod.rs:129`): one that does not end keeps its
  session running, deaf to pauses and kills (`NeverEnds`).
* A block that pauses or kills its own session nine times leaves the actor waiting
  for the loop and the loop for the actor, and a client that repeats a pause while the
  model is silent keeps the actor from everyone else for that long; so do eight
  pauses that a loop has not read when it asks for its inbox, and a ninth (`Post`,
  `ActorBlocked`).
* An inbox file that was read and could not be removed is read again after a crash
  (`bus.rs:126`; the fault `"unlink"`): `ReadOnce` does not hold with both.
* A session whose save fails in an offload disappears until a restart, mail in an inbox
  file that could not be written is lost, and a task that panics leaves its slot running
  (`OffloadSlots`, `Panic`).
* Without a Lua runtime a session with mail restarts for ever (`Prepare` with the
  fault `"repl"`, which no run includes: every round reports to
  the parent and the states do not end).
* A block that verifies and then writes leaves the count of unverified writes at
  zero (`Exec`; `session/state.rs:89` says otherwise).
* A decision logged while another reflection's branch is checked out goes with
  that branch, and a change accepted then is merged into it (`Reflect`).
* A merge that conflicts, which two pending branches that edit one file are enough
  for, leaves the text of both in the tree and is concluded by the next
  `git_commit_all`: what nobody accepted is then on the main branch
  (`MergeConflicts`, `CommitAll`). A git command that fails in the middle of a
  reflection leaves its branch checked out for all that come later (`GitFails`).
* Two threads that set the same item of the store at once share a temporary file
  (`Store`, `Mixed`); a listing fails as a whole when a file vanishes (`ReadItem`);
  half a line of a trajectory costs the next one too (`AppendTrajectory`); a
  process that dies between `git init` and the first commit leaves a repository
  that no later start completes (`GitInit`).
* A stream that ends without a stop reason is accepted as whole; so is an Ollama
  answer whose last line, the one that says it was cut, lacks its newline; a
  character of several bytes that a chunk boundary splits is corrupted (`Llm`).
* A cron step near 2^32 wraps around (`Cron`, `Expand`).
* A reply that begins with `done(` and ends with `)` is a request to end, whatever stands
  between the two (`Reply`, `BareDone`); a block is skipped for its language only when
  the language is all its line says (`Skipped`).
* In `rjq`, the right operand of an arithmetic operator, a comparison or `//` is
  evaluated on the *value of the left one* and not on the input, so that `.a + .b`
  is not the sum of two fields, as `src/gen-evals.sh:209` expects (`EvalBinop`;
  `rjq/src/eval.rs:179`); `values` is `.[]`; the body of `as`
  ends at the next pipe; every `elif` asks for an `end` of its own; `def` fails
  always; a slice that starts past the end and a builtin without its arguments
  panic; `del` of several places of one array removes shifted ones; `break` gives
  the input of its label, drops what was output before, and is caught by `try`;
  a path with `?` does not catch; `$x = e` does nothing.

Every property of a passing run has a mutant: a plausible mistake in a mapped
definition (`Mut...` beside it) under which TLC finds the property violated.

## Fairness

`SessionTree` assumes weak fairness of the steps of each loop, of `Join`, of the end of
the actor's wait (`Unblock`) and of
`EndShutdown`: tokio polls tasks that are ready, the actor's `select!` takes
finished tasks, and requests to the model, shell commands and the verifier have
time limits. A Lua block has none, and none is assumed: a block that
ends sooner or later is in the place `"act"`, which the loop leaves, any other in
`"endless"`, where no step is assumed; `QueuedIsRead`, `StopEndsRun` and `RunEnds`
except the session in such a block by name, and the first two an actor that waits for
a loop which waits for it or never ends (`ActorBlocked`). Nothing is
assumed of clients, crashes and restarts. `AgentLoop` assumes weak fairness of
the loop as a whole; what the model answers stays its own choice, so `RunEnds`
holds against a model that is cut, fails or writes nonsense for ever. `Daemon`
assumes weak fairness of each task of the daemon, of the actor, of a run that does not
hang (its budget ends it, which is `RunEnds`) and of a reflection (the model request and
the fitness command have time limits); none of clients, of the clock, or of the order
in which waiting commands, events and finished tasks are served.

## Proofs

`SessionTreeProofs` proves, for any set of sessions, any queue bound, any number
of inputs and any set of faults (assumption `SessionTreeAssumption` only):

* `TypeCorrect`, by one step per action; `PushLemma` and `ReloadLemma` give the
  types of the two ways a queue grows.
* `IdleHasNoMail` (`NoLostWakeup`) and `OneLoopEach` (`OneLoop`). Neither is
  inductive alone: that an idle session has no mail rests on `Join` looking at
  the queue after the report was sent, on every other action that makes a slot
  idle (none) and on sends that wake; that a task implies a running slot rests
  on offload and kill refusing what runs. `TreeInv` is their conjunction with the types
  and with what `Join` and `Restart` need, that no task outlives the process
  (`TreeInvCorrect`); TLC checks it in `tree_faults`.
* `PausedNeedsResume` (`PausedStaysPut`), an action property, from `TreeInv`.
* `InboxesStayBounded` (`QueuesBounded`), from the bounds `PushLemma` and
  `ReloadLemma` give on lengths.

`SessionMailProofs` goes on from there, with the same assumption on the constants. A
theorem that needs a bound on the failures names it, and none could do with less:
TLC refutes the property as soon as one more kind of failure is allowed.

| theorem | states | failures it allows |
|---|---|---|
| `RunningIsAlive` | `RunningHasLoop` | all but a panic |
| `OffloadedIsSaved` | `OffloadedIsOnDisk` | all |
| `NoSecondReading` | `ReadOnce` | all but that of the removal of an inbox file |
| `ReadingIsInOrder` | `ReadInOrder` | those of loads, of the read and the removal of an inbox file, of the Lua runtime, and blocks without end |
| `TreeKeepsMail` | `KeepsMail`, the refinement | those of the removal of an inbox file, of the Lua runtime, and blocks without end |
| `OnlyAKillDiscards` | `OnlyKillDiscards` | the same |

Order breaks under a panic, a failed save, a failed write of `inbox.json` or a crash,
each by itself: a file that stays behind is older than what was read since. The
mailbox breaks under a failed load or read of `inbox.json` too: a message
that cannot wake its session stays in RAM and goes with the process, and a file that
is not read back is overwritten by the next offload.

* `OffloadedIsOnDisk` does not say that `inbox.json` holds the mail a session was
  offloaded with, which a failed write makes false; where no write fails, `KeepsMail`
  says it. It is not inductive: `RestsOnDisk` says the same of a session whose
  slot is gone, since the next process offers it again, that a process that has
  ended has no slots, and that what was never saved has no inbox file; and `Fresh` that
  numbers grow from history and file to queue.
* Each theorem about mail would need a case for every action. `MailShape` splits a
  step once: the mail of a session stays put, moves (woken, unloaded, dropped, left on
  disk), grows by one message or is read. What follows is proved from these shapes
  (`MailSteps`).
* `ReadOnce` rests on `Distinct`: the history, its saved copy, the inbox file and the
  queue share no message but for the two histories; so no mix of them that a wake,
  a failed save or a crash makes can repeat one.
* `ReadInOrder` rests on `Ordered`: what was read is below what waits, and the inbox
  file is in between as long as a wake would read it.
* The refinement maps the file and the queue to one box. An accepted message is
  `Mail!Accept` whether the file is read back or not, the read of a loop is
  `Mail!Take` of all that waits, a kill of an offloaded session is `Mail!Discard`,
  and every other step leaves box and history alone (`QuietBox`, `MailRefines`).

`AgentLoopProofs` proves, for any budget, costs, scripts, `keep_last` and number
of runs (assumption `AgentLoopAssumption` only), every safety property the run
`loop` checks. They follow from one inductive invariant, `LoopInv`:

* `TypeOK` (theorem `LoopTypeCorrect`) and `CountersHonest` (`CountersAreHonest`),
  the second inductive given the first: a resume copies counters that are honest
  with a clock of zero, a save folds the clock in once.
* `InOrder`: what is on disk is not ahead of RAM, nor RAM of the live budget. It
  is what makes the saves monotone (`SavesNeverGoBack`) when a save writes the
  counters of the session at one place and those of the budget at another, and
  what keeps a crash from raising a counter.
* `Allowed`: at the two places a turn may be spent from, one turn less was spent
  than `MaxTurns` and one for each start. `OneTurnPast` is not inductive
  without it (`OneTurnPastEach`).
* `Shaped`: histories open with a turn of the runtime, and at a request they
  close with one. That a compaction preserves it is `CompactedLemma`
  (`RequestsAreShaped`).

`DoneEarned` (`DoneIsEarned`) is the one step out of `"done"` that parks and
saves, with `CountersHonest`. `CompactionLosesNothing` (`TailsAgree`) compares
the two searches for the kept tail: both choose the least turn of the runtime in
a window, which exists by the well-founded order of the naturals (`Least`).

`DaemonProofs` proves `ExitIsClean` (`ExitsClean`) for any number of sessions,
any capacity and any schedules, and needs no bound on the runs. The property
looks at the last state only; the invariant `ExitInv` says in which order the
parts end and that none comes back: the actor leaves when no session is in a run
and only the actor starts one (`GoneIsQuiet`), `serve` waits for it first
(`JoinsAfterActor`), then for the listener and the tasks, and without a listener
no connection begins (`TasksEnded`). `TaskMoves` and `ActorWorks` are the two
kinds of step it is preserved by.

`ReflectProofs` proves, for any set of reflections and of notes, any files that sessions
delete, with a fitness command or without (assumption `ReflectAssumption`; the bound on
the kinds of trouble is any number), every safety property the run `reflect` checks.

* `TreeHoldsCommit` (`TreeAlwaysHolds`) holds for any overlap of reflections,
  sessions and humans, any conflict and any failing command, and is where the care of
  the code with dirty trees shows: every checkout that changes what is committed
  changes the tree with it. `NothingVanishes` adds to it that what is gone from a
  branch, or hidden by an unfinished merge, was deleted or rewritten by someone.
* `NotesSurvive` (`NotesComeBack`) needs `NotesKept`: what was written and not deleted is
  in the tree and, once a reflection has committed, on every branch that may come back
  to it; and `OnlyWrittenNotes`. It holds for reflections that overlap one another, as
  long as no session writes during one, whatever fails.
* `RestsOnMain` (`StoreRestsOnMain`) follows from `Alone`, which says that one reflection
  or decision is under way at most and where HEAD and its base are. It is kept as long
  as the only trouble is a conflict: a merge that conflicts ends its reflection on the
  main branch.
* `AcceptedLands`, `OthersStayOut` and `DecisionsLogged` are about behaviours without
  trouble. They follow from `Serial`, which says what the tree, the branch and the main
  branch hold, what is gone from each and what was logged at each place of a
  reflection and of a decision (`MainHolds`, `Placed`, `Branched`, `Decided`);
  `SerialStep` has one case for each git command. Each formula was checked by TLC on two
  reflections first.

`StorageProofs` proves `AckedIsKept` (`AckedStaysKept`) of `Store`, for any threads, items,
number of operations and of runs of the daemon, provided no two threads set the same
item (`Separate`; without it the temporary file is shared and the property is false). It
needs that an inode has one name (`OneName`) and that the temporary file of a write
under way is there and is the thread's own, empty until it writes and then its text
(`OwnsTmp`): a rename then gives a file what was written, and no later write reaches
it. For the trajectory, half a line at the end stands for the event it is going to
cost (`LogInv`). Of `SessionFiles` it proves, for any globals and any number of turns,

* `NothingAheadOfItsTurn` (`FilesAreNeverAhead`): a file that a save has replaced says what
  the session does, since no turn is taken during a save (`SaveInOrder`), and the others
  are behind (`FilesBehind`);
* `GlobalsPersist` (`RunnableGlobalsPersist`), which the run `state_lost` refutes, when
  no code stores a value whose source fails (`Failing`: negative infinities and
  not-a-numbers, tables with an infinite key) or a global named by a keyword.

`LlmProofs` proves `RetriesAreEarned` (`RetriesAreCounted`) for any number of retries and all
three protocols: failures are counted with the attempts (`RetryInv`). It proves
`ReplyIsWhole` (`AcceptedReplyIsWhole`) for all three too: what was gathered is always
what the events read of this attempt carry, once and in order (`Gathers`), and nothing of
it is left when the next attempt starts. Where the events of OpenAI and Anthropic are
read as they come, for Ollama the invariant has to say what is in the buffer and
on the wire together: whole lines of consecutive events up to the last one sent, but
for the last line, which may lack its newline (`Framed`); the buffer holds no newline
between two chunks; and what was gathered ends where the first fragment begins
(`Reads`). The lemmas are the steps of the code: a chunk moves from the wire into the
buffer and may cost it a wide character (`DecodedFramed`), one turn of the loop takes
out one line and reads its event (`NextLineReads`), and as many turns as there are
fragments leave none (`LinesRead`). That the loop, a function defined by recursion,
exists and keeps this is shown by the least turn where it would not (`LeastOf`).

`ParsingProofs` proves both properties of `Parsing`, for any replies and any schedules whose
steps stay within the width of the integers (`ParsingAssumption`; a longer one wraps
around, see above).

* `FiresOnNamedDays` (`CronsFireOnNamedDays`), from `FiresWhenNamed` for integers of any
  width, months of any length and any two fields (`SchedulesFireWhenNamed`). `parse_field`
  steps through a range in a loop, here a function defined by recursion (`Expand`). That
  it yields the values of the range at multiples of the step needs no induction
  principle: the set of those values obeys the equation of the function, and at the
  greatest value where two functions that obey it differ they would not
  (`ExpandIsStepped`).
* `VisibleCodeRuns` (`ShownCodeRuns`), from `OnlyVisibleCodeRuns` for a reply of any length
  (`OnlyShownCodeRuns`). The first half is that the code's jumps from tag to tag keep
  exactly what a reader who goes place by place sees, in its order (`StripLists`): up to
  the tag that was found nothing hides (`NoneUntil`), from there to its closing tag
  everything does (`OpenUntil`), and what is kept of the rest comes after (`RestLists`). That
  both recursive functions exist is shown by the least place where they would not
  (`ScanExists`, `ReadExists`). The second half carries what the code says of indices of the
  stripped text over to places of the reply: neighbours are neighbours among what is
  shown (`NextShown`), so are the fences that open a line (`FencesShown`) and the ends of
  their lines (`LineEndsShown`), and as many fences stand before each, by a bijection, so
  that the same ones open blocks (`FencesBefore`, `BlocksShown`). What is executed is then
  what the property asks for (`FirstBlockRuns`, `NothingToRun`).

Only model-checked:

* liveness, since fairness and `ENABLED` are out of the prover's reach: `QueuedIsRead`,
  `StopEndsRun`, `RunEnds`, `DaemonExits`, `DoneIsReflected`, `AsksAreAnswered`;
* `TreesParseBack` and `FiltersAgree`: the modules of `rjq` compute over trees and values
  by RECURSIVE operators, which the prover cannot take;
* the five properties that do not hold (but for `GlobalsPersist`, above).

## Not modelled

* The sandbox backends, the file and shell bindings and the verifier are one
  operation of the operating system each; they keep no state between calls.
* The configuration is typed defaults; the command line, the cockpit and its HTTP
  server are views of requests that `Daemon` has; the baseline runner is a loop
  of its own without sessions.
* Of modelled components: `validate_change` and the condensing of a
  trajectory in `reflect.rs`; `is_read_only_exec` in `compact.rs`; the JSON of requests
  and of the protocol; what the sections above name.

## Plan

In the order of their weight:

1. An abstract specification of the shutdown that `SessionTree` and `Daemon` both
   implement, so that `Hang` is derived and not restated.
2. Pure operators against reference definitions: `is_read_only_exec`,
   `validate_change`, the policies of the sandbox.
