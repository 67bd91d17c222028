----------------------------- MODULE AgentLoop -----------------------------
(***************************************************************************)
(* The loop of one session (agent_loop.rs run_inner), run after run: what  *)
(* it counts against its budget (budget.rs), when it accepts done(), how   *)
(* it answers truncated replies and failed requests, how its history is    *)
(* compacted (compact.rs), and what of that is on disk when the process    *)
(* dies.  When the session is started and stopped, and what its inbox      *)
(* holds, is the business of SessionTree.                                  *)
(***************************************************************************)
EXTENDS Naturals, Sequences

CONSTANTS
  MinTurns, MinSeconds,  \* budget: done() is refused before
  MaxTurns, MaxTokens,   \* budget: the session is forced to end
  MaxOutput,             \* model.max_output_tokens
  RetryCap,              \* TRUNCATED_RETRY_CAP
  KeepLast,              \* compact.keep_last
  Cost,                  \* the tokens one model reply may cost
  Scripts,               \* what the code blocks of the model may ask for
  MaxStarts, MaxMessages, MaxClock \* bounds: runs, messages, seconds of a run

(* What one exec did: source files written before and after it ran the     *)
(* verifier, what the verifier said, tokens of llm.query, compact(),       *)
(* done(), and whether it only read.                                       *)
Script ==
  {s \in [early : Nat, late : Nat, verify : {"none", "ok", "fail"}, query : Nat,
          compact : BOOLEAN, done : BOOLEAN, kind : {"Durable", "ReadOutput"}] :
     s.verify = "none" => s.late = 0}

ASSUME AgentLoopAssumption ==
  /\ {MinTurns, MinSeconds, MaxTokens, KeepLast} \subseteq Nat
  /\ {MaxTurns, MaxOutput, RetryCap} \subseteq Nat \ {0}
  /\ Cost \subseteq Nat
  /\ Scripts \subseteq Script
  /\ {MaxStarts, MaxMessages, MaxClock} \subseteq Nat

VARIABLES
  pc,          \* where the loop stands; "parked" is no loop
  session,     \* the session in RAM: counters, history, verify, writes, outcome
  disk,        \* the session as it was last saved
  budget,      \* the counters of the live Budget
  clock,       \* seconds since the Budget was resumed
  errors,      \* consecutive_errors
  retry,       \* retry_max_tokens; 0 is None
  spent,       \* what really happened: round trips paid for, seconds run
  unverified,  \* source writes since the verifier really ran last
  starts, messages \* how many of the bounded inputs were given

vars == <<pc, session, disk, budget, clock, errors, retry, spent, unverified,
          starts, messages>>

(* "done" is a reply that asked for done(), "end" the end of a turn,       *)
(* "endless" a block that does not end.                                    *)
Place == {"parked", "top", "request", "act", "done", "end", "endless"}

Counters == [turns : Nat, tokens : Nat, before : Nat]

Turn == [role : {"User", "Assistant"}, kind : {"Durable", "ReadOutput"}]

SessionState ==
  [counters : Counters, history : Seq(Turn), verify : {"none", "ok", "fail"},
   writes : Nat, outcome : {"none", "Done", "Exhausted", "Error", "Paused", "Killed"}]

TypeOK ==
  /\ pc \in Place
  /\ session \in SessionState
  /\ disk \in SessionState
  /\ budget \in Counters
  /\ clock \in 0 .. MaxClock
  /\ errors \in 0 .. 2
  /\ retry \in Nat
  /\ spent \in [turns : Nat, seconds : Nat]
  /\ unverified \in Nat
  /\ starts \in 0 .. MaxStarts
  /\ messages \in 0 .. MaxMessages

Fresh ==
  [counters |-> [turns |-> 0, tokens |-> 0, before |-> 0], history |-> <<>>,
   verify |-> "none", writes |-> 0, outcome |-> "none"]

Init ==
  /\ pc = "parked"
  /\ session = Fresh
  /\ disk = Fresh
  /\ budget = Fresh.counters
  /\ clock = 0
  /\ errors = 0
  /\ retry = 0
  /\ spent = [turns |-> 0, seconds |-> 0]
  /\ unverified = 0
  /\ starts = 0
  /\ messages = 0

----------------------------------------------------------------------------
(* The history and its compaction.                                         *)

User      == [role |-> "User", kind |-> "Durable"]
Assistant == [role |-> "Assistant", kind |-> "Durable"]

EndsWith(h, role) == h # <<>> /\ h[Len(h)].role = role

(* The tail the compaction keeps: the last KeepLast turns, from the first  *)
(* turn of the runtime among them on.                                      *)
KeepFrom(h) == IF Len(h) > KeepLast THEN Len(h) - KeepLast + 1 ELSE 1
UserTurns(h) == {i \in KeepFrom(h) .. Len(h) : h[i].role = "User"}

(* compact::split_older: how many turns are summarized.                    *)
Older(h) ==
  IF UserTurns(h) = {} THEN Len(h)
  ELSE (CHOOSE i \in UserTurns(h) : \A j \in UserTurns(h) : i <= j) - 1

MutKept(h) == SubSeq(h, KeepFrom(h), Len(h))   \* whoever speaks first in it

(* compact::rebuild keeps this tail, found by a loop of its own.           *)
Kept(h) ==
  SubSeq(h, CHOOSE i \in KeepFrom(h) .. Len(h) + 1 :
              /\ i = Len(h) + 1 \/ h[i].role = "User"
              /\ \A j \in KeepFrom(h) .. i - 1 : h[j].role # "User",
         Len(h))

(* The summary, and an acknowledgement when turns follow it.               *)
Rebuild(h) ==
  <<User>> \o (IF Kept(h) = <<>> THEN <<>> ELSE <<Assistant>> \o Kept(h))

(* compact_now: the history stays when there is little to summarize or the *)
(* model fails to.                                                         *)
Compacted(h) == {h} \cup (IF Older(h) >= 2 THEN {Rebuild(h)} ELSE {})

(* compile_messages shows the read outputs among these first turns as      *)
(* stubs; the latest turn is always shown whole.                           *)
Stubs(h) == IF Older(h) <= Len(h) - 1 THEN Older(h) ELSE Len(h) - 1

----------------------------------------------------------------------------
(* The budget.                                                             *)

Elapsed == budget.before + clock

MutFrozen(b) == [b EXCEPT !.before = clock]     \* earlier runs are forgotten

(* Budget::freeze: the elapsed time is folded into the persisted counters. *)
Frozen(b) == [b EXCEPT !.before = @ + clock]

Ticked(cost) == [budget EXCEPT !.turns = @ + 1, !.tokens = @ + cost]

MutExhausted(b) == b.turns > MaxTurns \/ b.tokens > MaxTokens

Exhausted(b) == b.turns >= MaxTurns \/ b.tokens >= MaxTokens

(* Budget::check_done.                                                     *)
MayFinish == Elapsed >= MinSeconds /\ budget.turns >= MinTurns

----------------------------------------------------------------------------
(* The steps of the loop.                                                  *)

(* agent_loop::run returns: the outcome is stored and the session saved.   *)
Park(s, outcome) ==
  /\ pc' = "parked"
  /\ session' = [s EXCEPT !.outcome = outcome]
  /\ disk' = session'

(* persist_and_check: the counters are frozen, the session saved, and the  *)
(* run ends when the budget is spent.                                      *)
Persist(s, b) ==
  LET frozen == [s EXCEPT !.counters = Frozen(b)]
  IN  IF Exhausted(b) THEN Park(frozen, "Exhausted")
      ELSE pc' = "top" /\ session' = frozen /\ disk' = frozen

MutResumed == clock                             \* the old run's clock goes on

(* Budget::resume: the clock restarts now.                                 *)
Resumed == 0

(* The tree starts the loop: its Lua runtime is built or the run fails at  *)
(* once; the budget is resumed from the counters of the session, and the   *)
(* first run opens the history with the task.                              *)
Start ==
  /\ pc = "parked"
  /\ starts < MaxStarts
  /\ starts' = starts + 1
  /\ \/ Park(session, "Error") /\ UNCHANGED <<budget, clock, errors, retry>>
     \/ /\ pc' = "top"
        /\ budget' = session.counters
        /\ clock' = Resumed
        /\ session' = [session EXCEPT !.history = IF @ = <<>> THEN <<User>> ELSE @]
        /\ errors' = 0
        /\ retry' = 0
        /\ UNCHANGED disk
  /\ UNCHANGED <<spent, unverified, messages>>

(* A pause or a kill is found in the control channel, at the head of the   *)
(* loop or while the model is awaited.                                     *)
Stop ==
  /\ pc \in {"top", "request"}
  /\ \E outcome \in {"Paused", "Killed"} : Park(session, outcome)
  /\ UNCHANGED <<budget, clock, errors, retry, spent, unverified, starts, messages>>

MutContinued(h) == h                            \* the reply stays last

(* A history that ends with a reply is continued by the runtime.           *)
Continued(h) == IF EndsWith(h, "Assistant") THEN Append(h, User) ELSE h

(* Steps 1 to 3: no control message, the inbox is drained, the request is  *)
(* built.                                                                  *)
BeginTurn ==
  /\ pc = "top"
  /\ pc' = "request"
  /\ \E received \in BOOLEAN :
       /\ received => messages < MaxMessages
       /\ messages' = IF received THEN messages + 1 ELSE messages
       /\ session' = [session EXCEPT !.history =
                        Continued(IF received THEN Append(@, User) ELSE @)]
  /\ UNCHANGED <<disk, budget, clock, errors, retry, spent, unverified, starts>>

(* Step 4: the model replies.                                              *)
Reply ==
  /\ pc = "request"
  /\ pc' = "act"
  /\ errors' = 0
  /\ retry' = 0
  /\ \E cost \in Cost : budget' = Ticked(cost)
  /\ session' = [session EXCEPT !.counters = Frozen(budget'),
                                !.history = Append(@, Assistant)]
  /\ spent' = [spent EXCEPT !.turns = @ + 1]
  /\ UNCHANGED <<disk, clock, unverified, starts, messages>>

(* The limit of the next request after a truncated reply: raised once.     *)
Retried ==
  IF retry # 0 THEN 0
  ELSE IF 2 * MaxOutput <= RetryCap THEN 2 * MaxOutput ELSE RetryCap

MutTruncated ==                                 \* a truncated reply is free
  /\ pc = "request"
  /\ pc' = "top"
  /\ retry' = Retried
  /\ UNCHANGED <<session, disk, budget, clock, errors, spent, unverified, starts, messages>>

(* Step 4: the reply is cut; it is paid for and not executed, and the      *)
(* model is told when the retry was cut too.                               *)
Truncated ==
  /\ pc = "request"
  /\ retry' = Retried
  /\ \E cost \in Cost : budget' = Ticked(cost)
  /\ Persist(IF retry' = 0 THEN [session EXCEPT !.history = Append(@, User)]
                           ELSE session, budget')
  /\ spent' = [spent EXCEPT !.turns = @ + 1]
  /\ UNCHANGED <<clock, errors, unverified, starts, messages>>

MutFail ==                                      \* one failure more
  /\ pc = "request"
  /\ errors <= 2
  /\ errors' = errors + 1
  /\ pc' = "top"
  /\ UNCHANGED <<session, disk, budget, clock, retry, spent, unverified, starts, messages>>

(* Step 4: the request fails; the third failure without a reply between,   *)
(* or a failure no retry can cure, ends the run.                           *)
Fail ==
  /\ pc = "request"
  /\ \/ /\ errors < 2
        /\ errors' = errors + 1
        /\ pc' = "top"
        /\ UNCHANGED <<session, disk>>
     \/ Park(session, "Error") /\ UNCHANGED errors
  /\ UNCHANGED <<budget, clock, retry, spent, unverified, starts, messages>>

(* Step 5, a code block: what it asked for is folded into the session.     *)
(* Whether a file was written before or after the verifier ran is not      *)
(* recorded: the writes are added, then a verify clears them.              *)
Exec(s) ==
  /\ budget' = [budget EXCEPT !.tokens = @ + s.query]
  /\ unverified' = IF s.verify = "none" THEN unverified + s.early ELSE s.late
  /\ \E h \in IF s.compact THEN Compacted(session.history) ELSE {session.history} :
       session' = [session EXCEPT
         !.writes = IF s.verify = "none" THEN @ + s.early ELSE 0,
         !.verify = IF s.verify = "none" THEN @ ELSE s.verify,
         !.history = Append(h, [role |-> "User", kind |-> s.kind])]
  /\ pc' = IF s.done THEN "done" ELSE "end"

(* Step 5, a bare done() or no block at all, which is answered.            *)
Bare ==
  /\ \/ pc' = "done" /\ UNCHANGED session
     \/ pc' = "end" /\ session' = [session EXCEPT !.history = Append(@, User)]
  /\ UNCHANGED <<budget, unverified>>

Act ==
  /\ pc = "act"
  /\ Bare \/ \E s \in Scripts : Exec(s)
  /\ UNCHANGED <<disk, clock, errors, retry, spent, starts, messages>>

(* A code block that does not end, which nothing stops (Repl::exec): the   *)
(* files it wrote and the verifier it ran are counted nowhere.             *)
NeverEnds ==
  /\ pc = "act"
  /\ pc' = "endless"
  /\ \E s \in Scripts :
       unverified' = IF s.verify = "none" THEN unverified + s.early ELSE s.late
  /\ UNCHANGED <<session, disk, budget, clock, errors, retry, spent, starts, messages>>

MutTryFinish ==                                 \* an earlier verify will do
  /\ pc = "done"
  /\ IF MayFinish /\ session.verify = "ok"
     THEN Park(session, "Done")
     ELSE /\ pc' = "end"
          /\ session' = [session EXCEPT !.history = Append(@, User)]
          /\ UNCHANGED disk
  /\ UNCHANGED <<budget, clock, errors, retry, spent, unverified, starts, messages>>

(* Step 6: done() is refused before the minimum; then the verifier runs,   *)
(* and accepts, refuses, or cannot run.                                    *)
TryFinish ==
  /\ pc = "done"
  /\ LET Refuse(s) == /\ pc' = "end"
                      /\ session' = [s EXCEPT !.history = Append(@, User)]
                      /\ UNCHANGED disk
         verified(v) == [session EXCEPT !.verify = v, !.writes = 0]
     IN  \/ /\ ~MayFinish
            /\ Refuse([session EXCEPT !.counters = Frozen(budget)])
            /\ UNCHANGED unverified
         \/ MayFinish /\ Park(verified("ok"), "Done") /\ unverified' = 0
         \/ MayFinish /\ Refuse(verified("fail")) /\ unverified' = 0
         \/ MayFinish /\ Refuse(session) /\ UNCHANGED unverified
  /\ UNCHANGED <<budget, clock, errors, retry, spent, starts, messages>>

(* Steps 7 to 9: the history is compacted when the request was large.      *)
EndTurn ==
  /\ pc = "end"
  /\ \E h \in Compacted(session.history) : Persist([session EXCEPT !.history = h], budget)
  /\ UNCHANGED <<budget, clock, errors, retry, spent, unverified, starts, messages>>

(* A second passes while the loop runs.                                    *)
Tick ==
  /\ pc # "parked"
  /\ clock < MaxClock
  /\ clock' = clock + 1
  /\ spent' = [spent EXCEPT !.seconds = @ + 1]
  /\ UNCHANGED <<pc, session, disk, budget, errors, retry, unverified, starts, messages>>

(* The process dies: the next run starts from what was saved.              *)
Crash ==
  /\ pc # "parked"
  /\ pc' = "parked"
  /\ session' = disk
  /\ UNCHANGED <<disk, budget, clock, errors, retry, spent, unverified, starts, messages>>

----------------------------------------------------------------------------

LoopStep == BeginTurn \/ Reply \/ Truncated \/ Fail \/ Act \/ TryFinish \/ EndTurn

Next == Start \/ Stop \/ LoopStep \/ NeverEnds \/ Tick \/ Crash

Spec == Init /\ [][Next]_vars

(* The runtime polls the loop: model requests and the verifier have time   *)
(* limits.  A block has none: one that ends does so in Act, any other is   *)
(* in "endless", where nothing is assumed.  Nor is it of what the model    *)
(* replies.  The actor answers a Drain: SessionTree says when it does not. *)
FairSpec == Spec /\ WF_vars(LoopStep)

----------------------------------------------------------------------------
(* Properties.                                                             *)

(* No counter runs ahead of the truth, in RAM or on disk, over any number  *)
(* of pauses, resumes and crashes: turns are round trips that were paid,   *)
(* and elapsed time is time the loop ran (budget.rs freeze and resume).    *)
Honest(c, ran) == c.turns <= spent.turns /\ c.before + ran <= spent.seconds
CountersHonest ==
  /\ pc # "parked" => Honest(budget, clock)
  /\ Honest(session.counters, 0)
  /\ Honest(disk.counters, 0)

(* done() is accepted only after the minimum was really spent and when the *)
(* verifier said yes with nothing written since (agent_loop.rs try_finish).*)
DoneIsEarned ==
  [][pc = "done" /\ pc' = "parked" /\ disk' # disk =>
       /\ spent.turns >= MinTurns /\ spent.seconds >= MinSeconds
       /\ session'.verify = "ok" /\ unverified' = 0]_vars

(* What is saved never goes back: a restart finds no fewer turns and no    *)
(* less time than an earlier one did.                                      *)
SavedNeverGoesBack ==
  [][/\ disk'.counters.turns >= disk.counters.turns
     /\ disk'.counters.before >= disk.counters.before]_vars

(* A session past its maximum makes one more round trip per start at most: *)
(* each run is ended by the first check after its budget is spent.         *)
OneTurnPast == budget.turns < MaxTurns + starts

(* Every request opens and closes with a turn of the runtime, and shows    *)
(* the latest feedback whole, whatever was compacted, stopped or resumed   *)
(* before (agent_loop.rs compile_messages).                                *)
RequestOk ==
  LET h == session.history
  IN  pc = "request" =>
        /\ EndsWith(h, "User") /\ h[1].role = "User"
        /\ h[Len(h)].kind = "ReadOutput" => Stubs(h) < Len(h)

(* A compaction loses no turn and shows none twice: the turns that are not *)
(* summarized are exactly the tail that is kept (split_older, rebuild).    *)
TailsAgree ==
  LET h == session.history
  IN  h # <<>> => Kept(h) = SubSeq(h, Older(h) + 1, Len(h))

(* Every run ends, whatever the model answers but a block that does not    *)
(* end: each round of the loop spends a turn of the budget or one of three *)
(* failures.                                                               *)
RunEnds == (pc # "parked") ~> (pc \in {"parked", "endless"})
=============================================================================
