---------------------------- MODULE SessionFiles ----------------------------
(***************************************************************************)
(* What is saved of a session and what a new process makes of it: three    *)
(* files replaced one after the other (Session::save), the globals of its  *)
(* Lua runtime written as Lua source (__longe_dump) and run again when the *)
(* runtime is rebuilt (Repl::restore).  Each file is replaced atomically   *)
(* (module Store, one writer); crashes and failures fall between the       *)
(* files.  The content of a file is the turn it was written at, and of the *)
(* Lua state the turn each global was last set at and the sort of value it *)
(* holds, for what that value becomes when its source is run.              *)
(***************************************************************************)
EXTENDS Integers, Sequences, SequencesExt

CONSTANTS
    Globals,    \* names of user globals, in the order of a dump
    Reserved,   \* those whose name is a keyword of Lua (_G["end"] = 1)
    Kinds,      \* the sorts of value a session's code may store
    MaxTurns    \* bound: turns of the session

\* Values whose source fails when it is run: -inf and -nan are the minus of a
\* global that does not exist, {[inf]=1} a table with an index that is nil.
Failing == {"negative", "keyed"}

ASSUME FilesAssumption ==
    /\ Reserved \subseteq Range(Globals)
    /\ Kinds \subseteq {"data", "closure", "cyclic", "infinite", "thread"} \cup Failing
    /\ MaxTurns \in Nat

VARIABLES
    live,       \* the session in RAM, or NotLive
    saving,     \* the file a save is about to replace
    disk        \* its three files

sessionVars == <<live, saving, disk>>

Nothing == [kind |-> "nil", turn |-> 0]
NoGlobals == [g \in Range(Globals) |-> Nothing]
NotLive == [turns |-> -1, history |-> 0, lua |-> NoGlobals, running |-> FALSE]

\* a session that was created and not yet saved
Created == [turns |-> 0, history |-> 0, lua |-> NoGlobals, running |-> FALSE]

SessionInit ==
    /\ live = Created
    /\ saving = "no"
    /\ disk = [turns |-> -1, history |-> -1, lua |-> NoGlobals]

----------------------------------------------------------------------------
(* The Lua state as source                                                 *)

\* Tables keep their entries, functions lose their upvalues, a cycle is cut; a
\* coroutine is skipped.  Numbers are written as tostring writes them.
Dumped(lua) == [g \in DOMAIN lua |-> IF lua[g].kind = "thread" THEN Nothing ELSE lua[g]]

\* `x = inf` and `x = nan` read a global that does not exist
Assigned(v) == IF v.kind = "infinite" THEN Nothing ELSE v

\* The file is one chunk: a keyword on the left of `=` is an error of syntax, and
\* nothing is run; else the statements run in order up to the first that fails.
Compiles(dump) == \A g \in Reserved : dump[g] = Nothing
FailsBefore(dump, g) ==
    \E i, j \in DOMAIN Globals :
       i <= j /\ Globals[j] = g /\ dump[Globals[i]].kind \in Failing
Restored(dump) ==
    [g \in DOMAIN dump |->
       IF Compiles(dump) /\ ~FailsBefore(dump, g) THEN Assigned(dump[g]) ELSE Nothing]

----------------------------------------------------------------------------
(* A turn and a save                                                       *)

Alive == live # NotLive

\* the runtime is built when a run starts, and given the saved state; a restore
\* that fails is logged and the run goes on
MakeRepl ==
    /\ Alive /\ ~live.running /\ saving = "no"
    /\ live' = [live EXCEPT !.running = TRUE, !.lua = Restored(disk.lua)]
    /\ UNCHANGED <<saving, disk>>

\* one turn: it is counted, it enters the history and its code sets a global
Turn(g, k) ==
    /\ live.running /\ saving = "no"
    /\ live.turns < MaxTurns
    /\ live' = [live EXCEPT !.turns = @ + 1, !.history = live.turns + 1,
                            !.lua[g] = [kind |-> k, turn |-> live.turns + 1]]
    /\ UNCHANGED <<saving, disk>>

MutSaveMeta ==                         \* the Lua state goes first
    /\ Alive /\ saving = "no"
    /\ saving' = "history"
    /\ disk' = [disk EXCEPT !.turns = live.turns, !.lua = Dumped(live.lua)]
    /\ UNCHANGED live

\* meta.json
SaveMeta ==
    /\ Alive /\ saving = "no"
    /\ saving' = "history"
    /\ disk' = [disk EXCEPT !.turns = live.turns]
    /\ UNCHANGED live

\* history.json
SaveHistory ==
    /\ saving = "history"
    /\ saving' = IF live.running THEN "lua" ELSE "no"
    /\ disk' = [disk EXCEPT !.history = live.history]
    /\ UNCHANGED live

\* state.lua, when the session has a runtime
SaveLua ==
    /\ saving = "lua"
    /\ saving' = "no"
    /\ disk' = [disk EXCEPT !.lua = Dumped(live.lua)]
    /\ UNCHANGED live

\* an error of the disk or of the dump leaves the files behind it as they were
SaveFails ==
    /\ saving # "no"
    /\ saving' = "no"
    /\ UNCHANGED <<live, disk>>

\* the process dies, or the session is offloaded and leaves RAM
Leave ==
    /\ Alive
    /\ live' = NotLive
    /\ saving' = "no"
    /\ UNCHANGED disk

\* Session::load: without meta.json there is no session; without a history it
\* starts an empty one
Load ==
    /\ ~Alive
    /\ disk.turns >= 0
    /\ live' = [Created EXCEPT !.turns = disk.turns,
                               !.history = IF disk.history < 0 THEN 0 ELSE disk.history]
    /\ UNCHANGED <<saving, disk>>

SessionNext ==
    \/ MakeRepl
    \/ \E g \in Range(Globals), k \in Kinds : Turn(g, k)
    \/ SaveMeta
    \/ SaveHistory
    \/ SaveLua
    \/ SaveFails
    \/ Leave
    \/ Load

----------------------------------------------------------------------------
(* Properties *)

\* Nothing runs ahead of what accounts for it, in RAM or on disk, whatever
\* crash or failure a save stops at and whatever mix of files a load finds: no
\* history beyond the turns that were counted (a turn that was not paid for),
\* and no global set by a turn the history does not have (a state the session
\* cannot explain).
NothingAheadOfItsTurn ==
    /\ disk.history <= disk.turns
    /\ \A g \in DOMAIN disk.lua :
          disk.lua[g] # Nothing => disk.lua[g].turn <= disk.history
    /\ Alive => /\ live.history <= live.turns
                /\ \A g \in DOMAIN live.lua : live.lua[g].turn <= live.history

\* "Lua state persists between turns and across daemon restarts" (STATUS.md):
\* a runtime that is rebuilt has every global of the saved state that source
\* can express.
GlobalsPersist ==
    [][MakeRepl => \A g \in Range(Globals) :
          disk.lua[g].kind \in {"data", "closure", "cyclic"} => live.lua'[g] = disk.lua[g]]_sessionVars

=============================================================================
