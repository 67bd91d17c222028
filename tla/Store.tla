------------------------------- MODULE Store -------------------------------
(***************************************************************************)
(* The files of the store (src/src/store.rs): the collections of notes,    *)
(* skills and sub-agents that every session's Lua thread reads and writes, *)
(* the trajectory every event is appended to, and the skeleton an opened   *)
(* store gets.  Files are inodes behind names, because the file an atomic  *)
(* write renames may still be open in another thread.  A crash is one of   *)
(* the process: what was written stays.                                    *)
(***************************************************************************)
EXTENDS Integers, Sequences, SequencesExt, FiniteSets

CONSTANTS
    Thread,     \* Lua threads of the sessions of one daemon
    Name,       \* items of a collection, `prompt` among them
    Prompt,     \* prompt.md
    Writes,     \* the items a thread sets
    MaxOps,     \* bound: operations of all threads, over all runs
    MaxBoots    \* bound: runs of the daemon

ASSUME StoreAssumption ==
    /\ Prompt \in Name
    /\ Writes \in [Thread -> SUBSET Name]
    /\ MaxOps \in Nat /\ MaxBoots \in Nat \ {0}

VARIABLES
    dir,        \* file -> inode, 0 when there is no such file
    data,       \* inode -> content
    thread,     \* what each thread is in the middle of
    boot,       \* which run of the daemon this is
    opening,    \* where Store::open is
    git,        \* the repository of the store: "none", "empty", "committed"
    log,        \* lines of a trajectory: "whole", "torn" (no newline yet), "bad"
    ops,        \* operations so far
    acked,      \* item -> the text of the last set that reported success
    tally       \* trajectory appends that succeeded and that failed

storeVars == <<dir, data, thread, boot, opening, git, log, ops, acked, tally>>

Absent == <<"absent">>
Empty == <<"empty">>
Mixed == <<"mixed">>
Default == <<"default">>

MutTmp(n) == <<Prompt, boot>>          \* one temporary file for a directory

\* the temporary file is named after the file and the process
Tmp(n) == <<n, boot>>
File(n) == <<n>>
Files == {<<n>> : n \in Name} \cup {<<n, b>> : n \in Name, b \in 1..MaxBoots}

Content(f) == IF dir[f] = 0 THEN Absent ELSE data[dir[f]]

Idle == [pc |-> "idle", name |-> Prompt, text |-> Empty, fd |-> 0,
         todo |-> {}, again |-> {}]

StoreInit ==
    /\ dir = [f \in Files |-> 0]
    /\ data = <<>>
    /\ thread = [t \in Thread |-> Idle]
    /\ boot = 1
    /\ opening = "files"
    /\ git = "none"
    /\ log = <<>>
    /\ ops = 0
    /\ acked = [n \in Name |-> Absent]
    /\ tally = [ok |-> 0, failed |-> 0]

----------------------------------------------------------------------------
(* Opening: what is missing is created, what is there is kept.  The        *)
(* repository is looked for by its directory alone.                        *)

EnsureFiles ==
    /\ opening = "files"
    /\ opening' = IF git = "none" THEN "git" ELSE "open"
    /\ IF dir[File(Prompt)] = 0
       THEN /\ data' = Append(data, Default)
            /\ dir' = [dir EXCEPT ![File(Prompt)] = Len(data')]
            /\ acked' = [acked EXCEPT ![Prompt] = Default]
       ELSE UNCHANGED <<data, dir, acked>>
    /\ UNCHANGED <<thread, boot, git, log, ops, tally>>

GitInit ==
    /\ opening = "git"
    /\ opening' = "commit"
    /\ git' = "empty"
    /\ UNCHANGED <<dir, data, thread, boot, log, ops, acked, tally>>

FirstCommit ==
    /\ opening = "commit"
    /\ opening' = "open"
    /\ git' = "committed"
    /\ UNCHANGED <<dir, data, thread, boot, log, ops, acked, tally>>

----------------------------------------------------------------------------
(* write_atomic                                                            *)

Begin(t) ==
    /\ opening = "open"
    /\ thread[t].pc = "idle"
    /\ ops < MaxOps
    /\ ops' = ops + 1

\* the temporary file is created, or emptied when a write left it behind
OpenTmp(t, n) ==
    /\ Begin(t)
    /\ n \in Writes[t]
    /\ LET fd == IF dir[Tmp(n)] = 0 THEN Len(data) + 1 ELSE dir[Tmp(n)]
       IN  /\ data' = IF fd > Len(data) THEN Append(data, Empty)
                      ELSE [data EXCEPT ![fd] = Empty]
           /\ dir' = [dir EXCEPT ![Tmp(n)] = fd]
           /\ thread' = [thread EXCEPT ![t] =
                 [Idle EXCEPT !.pc = "write", !.name = n, !.fd = fd, !.text = <<t, ops'>>]]
    /\ UNCHANGED <<boot, opening, git, log, acked, tally>>

\* a write into a file another writer filled since overlays it
WriteTmp(t) ==
    LET fd == thread[t].fd
    IN  /\ thread[t].pc = "write"
        /\ \/ /\ data' = [data EXCEPT ![fd] = IF @ = Empty THEN thread[t].text ELSE Mixed]
              /\ thread' = [thread EXCEPT ![t].pc = "rename"]
           \/ /\ data' = [data EXCEPT ![fd] = Mixed]      \* the disk is full
              /\ thread' = [thread EXCEPT ![t] = Idle]
        /\ UNCHANGED <<dir, boot, opening, git, log, ops, acked, tally>>

\* renaming fails when another writer renamed the same temporary file
RenameTmp(t) ==
    LET n == thread[t].name
    IN  /\ thread[t].pc = "rename"
        /\ thread' = [thread EXCEPT ![t] = Idle]
        /\ IF dir[Tmp(n)] = 0 THEN UNCHANGED <<dir, acked>>
           ELSE /\ dir' = [dir EXCEPT ![File(n)] = dir[Tmp(n)], ![Tmp(n)] = 0]
                /\ acked' = [acked EXCEPT ![n] = thread[t].text]
        /\ UNCHANGED <<data, boot, opening, git, log, ops, tally>>

----------------------------------------------------------------------------
(* Reading and deleting                                                    *)

\* what is missing is not an error; prompt.md is never deleted
Del(t, n) ==
    /\ Begin(t)
    /\ n # Prompt
    /\ dir' = [dir EXCEPT ![File(n)] = 0]
    /\ acked' = [acked EXCEPT ![n] = Absent]
    /\ UNCHANGED <<data, thread, boot, opening, git, log, tally>>

Items == {n \in Name \ {Prompt} : dir[File(n)] # 0}

\* the directory is read once, then each of its files; a search reads each of
\* them once more
List(t, search) ==
    /\ Begin(t)
    /\ thread' = [thread EXCEPT ![t] =
          [Idle EXCEPT !.pc = "list", !.todo = Items,
                       !.again = IF search THEN Items ELSE {}]]
    /\ UNCHANGED <<dir, data, boot, opening, git, log, acked, tally>>

\* a file deleted since fails the whole listing
ReadItem(t) ==
    /\ thread[t].pc = "list"
    /\ LET s == thread[t]
           next(n) == IF s.todo # {} THEN [s EXCEPT !.todo = @ \ {n}]
                      ELSE [s EXCEPT !.again = @ \ {n}]
       IN  IF s.todo \cup s.again = {} THEN thread' = [thread EXCEPT ![t] = Idle]
           ELSE \E n \in IF s.todo # {} THEN s.todo ELSE s.again :
                   thread' = [thread EXCEPT ![t] =
                                IF dir[File(n)] = 0 THEN Idle ELSE next(n)]
    /\ UNCHANGED <<dir, data, boot, opening, git, log, ops, acked, tally>>

----------------------------------------------------------------------------
(* Trajectories: one line of JSON each                                     *)

Torn == log # <<>> /\ Last(log) = "torn"

\* a line goes to the end of the file, behind half a line if there is one
AppendTrajectory(t) ==
    /\ Begin(t)
    /\ \/ /\ log' = IF Torn THEN Front(log) \o <<"bad">> ELSE Append(log, "whole")
          /\ tally' = [tally EXCEPT !.ok = @ + 1]
       \/ /\ log' = IF Torn THEN log ELSE Append(log, "torn")     \* the disk is full
          /\ tally' = [tally EXCEPT !.failed = @ + 1]
    /\ UNCHANGED <<dir, data, thread, boot, opening, git, acked>>

\* trajectory_tail: one line of the window that does not parse fails the call
TrajectoryTail(n) ==
    LET lines == SubSeq(log, IF n < Len(log) THEN Len(log) - n + 1 ELSE 1, Len(log))
    IN  IF \A k \in DOMAIN lines : lines[k] = "whole" THEN lines ELSE "error"

----------------------------------------------------------------------------
(* The process dies and another one opens the store                        *)

Crash ==
    /\ boot < MaxBoots
    /\ boot' = boot + 1
    /\ thread' = [t \in Thread |-> Idle]
    /\ opening' = "files"
    /\ UNCHANGED <<dir, data, git, log, ops, acked, tally>>

StoreNext ==
    \/ EnsureFiles
    \/ GitInit
    \/ FirstCommit
    \/ \E t \in Thread, n \in Name : OpenTmp(t, n) \/ Del(t, n)
    \/ \E t \in Thread, search \in BOOLEAN : List(t, search)
    \/ \E t \in Thread : WriteTmp(t) \/ RenameTmp(t) \/ ReadItem(t) \/ AppendTrajectory(t)
    \/ Crash

----------------------------------------------------------------------------
(* Properties *)

\* What was acknowledged is kept.  While no two threads set the same item, the
\* file of an item holds, whole, what the last successful set gave it, until
\* it is deleted: writes of other items, failed and abandoned writes, crashes
\* and a new start change nothing about it.  An append that fails costs one
\* event of the trajectory besides its own, the next one; a tail is refused only
\* after one.
AckedIsKept ==
    /\ \A n \in Name : Content(File(n)) = acked[n]
    /\ Cardinality({k \in DOMAIN log : log[k] = "whole"}) >= tally.ok - tally.failed
    /\ tally.failed = 0 => \A n \in 0..Len(log) : Len(TrajectoryTail(n)) = n

============================================================================
