------------------------------ MODULE Reflect ------------------------------
(***************************************************************************)
(* Reflections on the store (reflect.rs): each commits its changes on a    *)
(* git branch of its own, scores the store before and after, and merges or *)
(* drops the branch; without a score the branch waits for a human.  All    *)
(* share one working tree, which the sessions write through their bindings.*)
(* Every git command takes the lock of the store by itself (store.rs), so  *)
(* whatever else runs may come between two of them.                        *)
(***************************************************************************)
EXTENDS Naturals, FiniteSets

CONSTANTS
  Job,       \* the reflections; each has its branch
  Note,      \* what the sessions write to the store, each in a file of its own
  Old,       \* what a file holds at first that every reflection rewrites
  Stale,     \* a file that is there at first and that every one deletes
  Main,      \* the branch the store is created on
  Scored,    \* whether a fitness command is configured
  Erasable,  \* bound: the files that sessions delete
  MaxTrouble \* bound: the kinds of trouble, conflicts aside, in one behaviour

(* Content is made of what a session or a reflection writes at once: a     *)
(* reflection rewrites the old file, adds a file of its own and deletes the*)
(* stale one; each decision on it is a line of reflect.log, which git      *)
(* tracks.  Texts of the old file and lines of the log are in one file.    *)
Change(j) == {<<j, 1>>, <<j, 2>>}
Shared == {Old} \cup (Job \X {1})
Replaced == Shared \cup {Stale}
Line(j) == <<j, 0>>
Lines == Job \X {0}
Content == Note \cup {Old, Stale} \cup (Job \X (0 .. 2))

ASSUME ReflectAssumption ==
  /\ Main \notin Job
  /\ Scored \in BOOLEAN
  /\ Note \cap (Job \X (0 .. 2)) = {}
  /\ {Old, Stale} \cap (Note \cup (Job \X (0 .. 2))) = {} /\ Old # Stale
  /\ Erasable \subseteq Note \cup {Stale} \cup (Job \X {2})
  /\ MaxTrouble \in Nat
Branch == Job \cup {Main}

VARIABLES
  pc,        \* where each reflection stands
  base,      \* the branch each found checked out
  head,      \* the branch that is checked out
  branches,  \* the branches that exist
  commit,    \* what is committed on each
  gone,      \* what was committed on it, and is no more
  tree,      \* what is in the working tree
  merging,   \* the branch whose merge has conflicted and is not committed
  human,     \* the branch a human has merged and not deleted yet
  verdict,   \* what was reported of each reflection
  written,   \* what the sessions wrote
  removed,   \* what each reflection and, under Main, the sessions deleted
  trouble    \* what did not go as it does when everyone is alone

git == <<head, branches, commit, gone, merging>>
vars == <<pc, base, git, tree, human, verdict, written, removed, trouble>>

Place == {"idle", "base", "branch", "change", "commit", "after", "wait",
          "merge", "delete", "drop", "reset", "return", "discard", "ended"}

(* Sessions wrote, or others acted, while a reflection or a decision was   *)
(* under way; a merge of two changes of one file; a git command that fails.*)
Trouble == {"sessions", "others", "conflict", "git"}

TypeOK ==
  /\ pc \in [Job -> Place]
  /\ base \in [Job -> Branch]
  /\ head \in branches /\ branches \subseteq Branch
  /\ commit \in [Branch -> SUBSET Content]
  /\ gone \in [Branch -> SUBSET Content]
  /\ tree \subseteq Content
  /\ merging \subseteq Job /\ human \subseteq Job
  /\ verdict \in [Job -> {"none", "accepted", "rejected", "failed"}]
  /\ written \subseteq Note
  /\ removed \in [Branch -> SUBSET Content]
  /\ trouble \subseteq Trouble

Init ==
  /\ pc = [j \in Job |-> "idle"]
  /\ base = [j \in Job |-> Main]
  /\ head = Main
  /\ branches = {Main}
  /\ commit = [b \in Branch |-> IF b = Main THEN {Old, Stale} ELSE {}]
  /\ gone = [b \in Branch |-> {}]
  /\ tree = {Old, Stale}
  /\ merging = {} /\ human = {}
  /\ verdict = [j \in Job |-> "none"]
  /\ written = {}
  /\ removed = [b \in Branch |-> {}]
  /\ trouble = {}

----------------------------------------------------------------------------
(* Git (store.rs).                                                         *)

Goto(j, place) == pc' = [pc EXCEPT ![j] = place]

Busy(j) == pc[j] \notin {"idle", "ended"}

AtRest == (\A j \in Job : ~Busy(j)) /\ human = {}

Overlap(who) == IF AtRest THEN {} ELSE {who}
Upset(why) ==
  /\ trouble' = trouble \cup why
  /\ Cardinality(trouble' \ {"conflict"}) <= MaxTrouble

(* Some file is in both, a shared one.                                     *)
Meet(these, those) ==
  \E file \in {Shared, Lines} : these \cap file # {} /\ those \cap file # {}

Uncommitted == tree \ commit[head]

(* Git refuses a branch that does not exist or, with an unfinished merge,  *)
(* any; and may refuse one when something that is not committed differs    *)
(* between it and the one checked out.                                     *)
Refuses(b) ==
  \/ b \notin branches \/ merging # {}
  \/ tree # commit[head] /\ commit[b] # commit[head]

(* git_commit_all: everything in the tree goes to the branch checked out;  *)
(* an unfinished merge is concluded with what it has left in the tree.     *)
CommitAll ==
  /\ commit' = [commit EXCEPT ![head] = tree]
  /\ gone' = [gone EXCEPT ![head] =
       (@ \cup commit[head] \cup UNION {commit[b] \cup gone[b] : b \in merging}) \ tree]
  /\ merging' = {}
  /\ UNCHANGED <<head, branches>>

MutCheckout(b) == head' = b /\ UNCHANGED tree   \* the files stay

(* git_checkout: what is not committed goes along, written or deleted,     *)
(* unless the other branch has its own idea of that file.                  *)
Checkout(b) ==
  /\ b \in branches /\ merging = {}
  /\ ~Meet(Uncommitted, (commit[b] \ commit[head]) \cup (commit[head] \ commit[b]))
  /\ head' = b
  /\ tree' = (commit[b] \ (commit[head] \ tree)) \cup Uncommitted

(* What a merge of b brings to the branch checked out, and takes from it.  *)
Brought(b) == commit[b] \ (commit[head] \cup gone[head])
Taken(b) == gone[b] \cap commit[head]

(* Both sides have changed a file since they parted, the same lines of it. *)
Conflicts(b) == Meet(Brought(b) \cup Taken(b), commit[head] \ (commit[b] \cup gone[b]))

MergeInTree(b) ==
  /\ b \in branches /\ merging = {}
  /\ ~Meet(Uncommitted, Brought(b) \cup Taken(b))
  /\ tree' = (tree \ Taken(b)) \cup Brought(b)
  /\ UNCHANGED <<head, branches>>

(* git_merge into the branch checked out.                                  *)
Merge(b) ==
  /\ ~Conflicts(b)
  /\ MergeInTree(b)
  /\ commit' = [commit EXCEPT ![head] = (@ \ Taken(b)) \cup Brought(b)]
  /\ gone' = [gone EXCEPT ![head] = @ \cup gone[b]]
  /\ UNCHANGED merging

(* It stops with the text of both sides in the file.                       *)
MergeConflicts(b) ==
  /\ Conflicts(b)
  /\ MergeInTree(b)
  /\ merging' = {b}
  /\ UNCHANGED <<commit, gone>>

(* log_event: a line is added to the log that is in the tree.              *)
Log(j) == tree' = tree \cup {Line(j)}

(* git_delete_branch: not the one checked out.                             *)
Deletable(b) == b \in branches /\ b # head
DeleteBranch(b) ==
  /\ branches' = branches \ {b}
  /\ commit' = [commit EXCEPT ![b] = {}]
  /\ gone' = [gone EXCEPT ![b] = {}]
  /\ UNCHANGED <<head, merging>>

----------------------------------------------------------------------------
(* One reflection (reflect.rs apply).                                      *)

End(j, v) ==
  /\ Goto(j, "ended")
  /\ base' = [base EXCEPT ![j] = Main]
  /\ verdict' = [verdict EXCEPT ![j] = v]
Fail(j) == End(j, "failed")

(* A git command may fail (a full disk, a lock file of another process; a  *)
(* new branch in an unfinished merge): the reflection returns where it     *)
(* stands, whatever is checked out.  Before its first commit that changes  *)
(* nothing.                                                                *)
GitFails(j) ==
  /\ pc[j] \in {"base", "branch", "reset", "return", "discard", "commit", "after", "merge",
                "delete", "drop"}
  /\ Fail(j)
  /\ Upset({"git"})
  /\ UNCHANGED <<git, tree, human, written, removed>>

MutCommitPending(j) ==                          \* the branch takes them along
  /\ pc[j] = "idle"
  /\ Goto(j, "base")
  /\ Upset(Overlap("others"))
  /\ UNCHANGED <<base, git, tree, human, verdict, written, removed>>

(* The changes of the sessions are committed first.                        *)
CommitPending(j) ==
  /\ pc[j] = "idle"
  /\ Goto(j, "base")
  /\ CommitAll
  /\ Upset(Overlap("others"))
  /\ UNCHANGED <<base, tree, human, verdict, written, removed>>

(* The current branch is noted and the store scored as it is, which may    *)
(* fail; without a change there is nothing to do.                          *)
ReadBase(j) ==
  /\ pc[j] = "base"
  /\ \/ /\ Goto(j, "branch")
        /\ base' = [base EXCEPT ![j] = head]
        /\ UNCHANGED <<tree, verdict>>
     \/ End(j, "rejected") /\ Log(j)
     \/ Scored /\ Fail(j) /\ UNCHANGED tree
  /\ UNCHANGED <<git, human, written, removed, trouble>>

(* The branch starts at whatever is checked out.                           *)
NewBranch(j) ==
  /\ pc[j] = "branch" /\ merging = {}
  /\ Goto(j, "change")
  /\ branches' = branches \cup {j}
  /\ commit' = [commit EXCEPT ![j] = commit[head]]
  /\ gone' = [gone EXCEPT ![j] = gone[head]]
  /\ head' = j
  /\ UNCHANGED <<base, merging, tree, human, verdict, written, removed, trouble>>

(* The changes are made in turn; the first or the second write may fail.   *)
ApplyChanges(j) ==
  LET Make(files) ==
        /\ tree' = (tree \ Replaced) \cup files
        /\ removed' = [removed EXCEPT ![j] = @ \cup (tree \cap Replaced)]
  IN
  /\ pc[j] = "change"
  /\ \/ Goto(j, "commit") /\ Make(Change(j))
     \/ /\ Goto(j, "reset")
        /\ UNCHANGED <<tree, removed>> \/ Make({<<j, 1>>})
  /\ UNCHANGED <<base, git, human, verdict, written, trouble>>

(* After a failed write, reset --hard restores the files git knows, not    *)
(* the new ones, and gives an unfinished merge up.                         *)
Reset(j) ==
  /\ pc[j] = "reset"
  /\ Goto(j, "return")
  /\ merging' = {}
  /\ \E new \in SUBSET Uncommitted :
       ~Meet(new, commit[head]) /\ tree' = commit[head] \cup new
  /\ UNCHANGED <<base, head, branches, commit, gone, human, verdict, written, removed, trouble>>

Return(j) == Checkout(base[j]) /\ UNCHANGED <<branches, commit, gone, merging>>

ReturnToBase(j) ==
  /\ pc[j] = "return"
  /\ \/ Goto(j, "discard") /\ Return(j) /\ UNCHANGED <<base, verdict>>
     \/ Refuses(base[j]) /\ Fail(j) /\ UNCHANGED <<git, tree>>
  /\ UNCHANGED <<human, written, removed, trouble>>

Discard(j) ==
  /\ pc[j] = "discard"
  /\ Fail(j)
  /\ IF Deletable(j) THEN DeleteBranch(j) ELSE UNCHANGED git
  /\ UNCHANGED <<tree, human, written, removed, trouble>>

CommitChanges(j) ==
  /\ pc[j] = "commit"
  /\ Goto(j, "after")
  /\ CommitAll
  /\ UNCHANGED <<base, tree, human, verdict, written, removed, trouble>>

Decisions == {"wait"} \cup IF Scored THEN {"merge", "drop"} ELSE {}

MutScoreAfter(j) ==                             \* a failed score stays there
  /\ pc[j] = "after"
  /\ \/ Goto(j, "wait") /\ UNCHANGED <<git, tree>>
     \/ \E next \in Decisions \ {"wait"} : Goto(j, next) /\ Return(j)
  /\ UNCHANGED <<base, human, verdict, written, removed, trouble>>

(* The branch is scored, then its base is checked out again: the score     *)
(* decides to merge or to drop the branch; no score leaves it to a human   *)
(* ("wait"), which is logged.                                              *)
ScoreAfter(j) ==
  /\ pc[j] = "after"
  /\ \/ \E next \in Decisions : Goto(j, next) /\ Return(j) /\ UNCHANGED <<base, verdict>>
     \/ Refuses(base[j]) /\ Fail(j) /\ UNCHANGED <<git, tree>>
  /\ UNCHANGED <<human, written, removed, trouble>>

Pending(j) ==
  /\ pc[j] = "wait"
  /\ End(j, "none")
  /\ Log(j)
  /\ UNCHANGED <<git, human, written, removed, trouble>>

MergeBranch(j) ==
  /\ pc[j] = "merge"
  /\ \/ Goto(j, "delete") /\ Merge(j) /\ UNCHANGED <<base, verdict, trouble>>
     \/ Fail(j) /\ MergeConflicts(j) /\ Upset({"conflict"})
     \/ Fail(j) /\ Refuses(j) /\ UNCHANGED <<git, tree, trouble>>
  /\ UNCHANGED <<human, written, removed>>

MutEndBranch(j) ==                              \* dropped, and merged all the same
  /\ pc[j] \in {"delete", "drop"}
  /\ End(j, IF pc[j] = "delete" THEN "accepted" ELSE "rejected")
  /\ Merge(j)
  /\ UNCHANGED <<human, written, removed, trouble>>

(* The branch is deleted, the verdict logged and reported.                 *)
EndBranch(j) ==
  /\ pc[j] \in {"delete", "drop"}
  /\ \/ /\ Deletable(j) /\ DeleteBranch(j) /\ Log(j)
        /\ End(j, IF pc[j] = "delete" THEN "accepted" ELSE "rejected")
     \/ ~Deletable(j) /\ Fail(j) /\ UNCHANGED <<git, tree>>
  /\ UNCHANGED <<human, written, removed, trouble>>

----------------------------------------------------------------------------
(* What goes on beside it.                                                 *)

(* A session writes a file of the store (mem.set, skill.set, subagent.set).*)
Write(n) ==
  /\ Upset(Overlap("sessions"))
  /\ n \notin written
  /\ written' = written \cup {n}
  /\ tree' = tree \cup {n}
  /\ UNCHANGED <<pc, base, git, human, verdict, removed>>

(* A session deletes one (mem.del, skill.del, subagent.del).               *)
Erase(item) ==
  /\ Upset(Overlap("sessions"))
  /\ item \in tree
  /\ tree' = tree \ {item}
  /\ removed' = [removed EXCEPT ![Main] = @ \cup {item}]
  /\ UNCHANGED <<pc, base, git, human, verdict, written>>

MutAccept(j) ==                                 \* the branch is deleted only
  /\ Upset(Overlap("others"))
  /\ Deletable(j)
  /\ human' = human \cup {j}
  /\ UNCHANGED <<pc, base, git, tree, verdict, written, removed>>

(* reflect.rs accept: the branch is merged into the one checked out, then  *)
(* deleted.  A merge that git refuses changes nothing.                     *)
Accept(j) ==
  /\ \/ Merge(j) /\ human' = human \cup {j} /\ Upset(Overlap("others"))
     \/ MergeConflicts(j) /\ UNCHANGED human /\ Upset(Overlap("others") \cup {"conflict"})
  /\ UNCHANGED <<pc, base, verdict, written, removed>>

Accepted(j) ==
  /\ j \in human
  /\ human' = human \ {j}
  /\ \/ /\ Deletable(j) /\ DeleteBranch(j) /\ Log(j)
        /\ verdict' = [verdict EXCEPT ![j] = "accepted"]
        /\ UNCHANGED trouble
     \/ UNCHANGED <<git, tree, verdict>> /\ Upset({"git"})
  /\ UNCHANGED <<pc, base, written, removed>>

(* reflect.rs reject.                                                      *)
Reject(j) ==
  /\ Upset(Overlap("others"))
  /\ Deletable(j)
  /\ DeleteBranch(j)
  /\ Log(j)
  /\ verdict' = [verdict EXCEPT ![j] = "rejected"]
  /\ UNCHANGED <<pc, base, human, written, removed>>

----------------------------------------------------------------------------

Step(j) ==
  \/ CommitPending(j) \/ ReadBase(j) \/ NewBranch(j) \/ ApplyChanges(j)
  \/ Reset(j) \/ ReturnToBase(j) \/ Discard(j) \/ CommitChanges(j) \/ ScoreAfter(j)
  \/ Pending(j) \/ MergeBranch(j) \/ EndBranch(j) \/ GitFails(j)

Next ==
  \/ \E j \in Job : Step(j) \/ Accept(j) \/ Accepted(j) \/ Reject(j)
  \/ \E n \in Note : Write(n)
  \/ \E item \in Erasable : Erase(item)

Spec == Init /\ [][Next]_vars

----------------------------------------------------------------------------
(* Properties.                                                             *)

(* Git add -A records a deletion too: whatever runs beside what, fails or  *)
(* conflicts, all that is committed on the branch checked out is in the    *)
(* tree but for what a session or a reflection has deleted or rewritten, so*)
(* that committing the tree drops nothing else of that branch.             *)
TreeHoldsCommit == commit[head] \ tree \subseteq UNION {removed[b] : b \in Branch}

(* Once no reflection is under way the store is back on its main branch    *)
(* (the test apply_with_fitness_rolls_back_when_worse asserts it), unless  *)
(* one of two that overlapped, or a git command that failed, has left it   *)
(* elsewhere; a merge that conflicts does not.                             *)
RestsOnMain == AtRest /\ trouble \subseteq {"conflict"} => head = Main

(* What sessions, and reflections that were accepted, took out.            *)
TakenOut ==
  removed[Main] \cup UNION {removed[j] : j \in {k \in Job : verdict[k] = "accepted"}}

(* What a human or the score accepted is on the main branch, and the tree  *)
(* shows it to the next session, deletions included, but for what a later  *)
(* one was to replace.                                                     *)
AcceptedLands ==
  AtRest /\ trouble = {} =>
     \A j \in Job : verdict[j] = "accepted" =>
       /\ Change(j) \ TakenOut \subseteq commit[Main] \cap tree
       /\ removed[j] \cap (commit[Main] \cup tree) = {}

(* What was rejected, or waits for a decision, is neither committed on the *)
(* main branch nor in the tree, and has deleted nothing there: it is rolled*)
(* back whole, if no merge of two changes of one file has conflicted.      *)
OthersStayOut ==
  AtRest /\ trouble = {} =>
     /\ \A j \in Job : verdict[j] \in {"none", "rejected"} =>
                          Change(j) \cap (commit[Main] \cup tree) = {}
     /\ {Old, Stale} \ TakenOut \subseteq commit[Main] \cap tree

(* What a session wrote to the store, and no session has deleted, is still *)
(* there for the next one once reflections have come and gone, whatever has*)
(* failed.                                                                 *)
NotesSurvive ==
  AtRest /\ "sessions" \notin trouble => written \subseteq tree \cup removed[Main]

(* What was decided of a reflection can be read in reflect.log, which      *)
(* tells the daily reflection which sessions are done with (reflected_ids).*)
DecisionsLogged ==
  AtRest /\ trouble = {} =>
     \A j \in Job : verdict[j] \in {"accepted", "rejected"} => Line(j) \in tree

(* What a session writes at any time is there too (PRD.md "CRUD visible    *)
(* apres redemarrage").                                                   *)
WritesSurvive == AtRest => written \subseteq tree \cup removed[Main]
=============================================================================
