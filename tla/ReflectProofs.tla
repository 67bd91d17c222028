--------------------------- MODULE ReflectProofs ---------------------------
(* Theorems about Reflect, for every set of reflections and of notes, with *)
(* or without a fitness command: what any interleaving keeps, and what one *)
(* reflection at a time does to the main branch.                           *)
EXTENDS Reflect, TLAPS

(* The places where a reflection has its own branch checked out.           *)
Away(j) == pc[j] \in {"change", "commit", "after", "reset", "return"}

(* The places before it has a branch.                                      *)
Branchless(j) == pc[j] \in {"idle", "base", "branch"}

Deleted == UNION {removed[b] : b \in Branch}

(* What is not there any more was deleted; so was what an unfinished merge *)
(* does not show.                                                          *)
NothingVanishes ==
  /\ TreeHoldsCommit
  /\ \A b \in Branch : gone[b] \subseteq Deleted
  /\ \A b \in merging : commit[b] \ tree \subseteq Deleted

(* What the sessions wrote and did not delete is in the tree, and from the *)
(* moment a reflection has committed it, on every branch that may come back*)
(* to the tree.                                                            *)
OnlyWrittenNotes ==
  /\ tree \cap Note \subseteq written
  /\ \A b \in Branch : (commit[b] \cup gone[b]) \cap Note \subseteq written

Wanted == written \ removed[Main]

NotesKept ==
  "sessions" \notin trouble =>
    /\ Wanted \subseteq tree
    /\ \A b \in Branch : gone[b] \cap Wanted = {}
    /\ \A j \in Job :
         /\ Busy(j) => Wanted \subseteq commit[head]
         /\ Busy(j) /\ pc[j] # "base" /\ base[j] \in branches => Wanted \subseteq commit[base[j]]

(* One reflection or one decision is under way at most; each returns to the*)
(* main branch.                                                            *)
OneAtATime ==
  /\ \A j, k \in Job : Busy(j) /\ Busy(k) => j = k
  /\ \A j, k \in human : j = k
  /\ \A j \in Job : Busy(j) => human = {}

HeadFollows ==
  /\ \A j \in Job : Away(j) => head = j
  /\ (\A j \in Job : ~Away(j)) => head = Main

Returns(j) ==
  /\ Busy(j) => merging = {}
  /\ Busy(j) /\ pc[j] # "base" => base[j] = Main
  /\ pc[j] \in {"change", "commit", "reset", "return"} => commit[j] = commit[Main]
  /\ pc[j] = "after" => tree = commit[j]

Alone == OneAtATime /\ HeadFollows /\ Main \in branches /\ \A j \in Job : Returns(j)

(* Whose change is taken in, or has been left behind by a failure.         *)
Merged(j) == verdict[j] = "accepted" \/ pc[j] = "delete" \/ j \in human
Landed(j) == Merged(j) \/ verdict[j] = "failed"

(* What sessions and the reflections taken in have removed.                *)
Out == removed[Main] \cup UNION {removed[j] : j \in {k \in Job : Merged(k)}}

(* The main branch and the tree beside it.                                 *)
MainHolds ==
  /\ gone[Main] \cap (commit[Main] \cup tree \cup Lines) = {}
  /\ commit[Main] \cap Shared # {}
  /\ {Old, Stale} \ Out \subseteq commit[Main]
  /\ (\A j \in Job : ~Away(j)) =>
       /\ commit[Main] \ tree \subseteq removed[Main] \cap Erasable
       /\ (tree \ commit[Main]) \cap Replaced = {}

(* What is in the tree at each place of a reflection.                      *)
Placed(j) ==
  /\ pc[j] \in {"base", "branch", "change", "return", "discard", "wait", "merge", "drop",
                "delete"} => tree = commit[Main]
  /\ pc[j] = "reset" =>
       commit[Main] \ Replaced \subseteq tree /\ tree \subseteq commit[Main] \cup {<<j, 1>>}
  /\ pc[j] \in {"commit", "after"} => tree = (commit[Main] \ Replaced) \cup Change(j)
  /\ pc[j] \in {"change", "commit"} => gone[j] = gone[Main]
  /\ pc[j] = "commit" => removed[j] = commit[Main] \cap Replaced

(* A branch that waits for its decision: its own change, on the main branch*)
(* of then.                                                                *)
Made(j) ==
  /\ verdict[j] = "none"
  /\ Change(j) \subseteq commit[j]
  /\ commit[j] \subseteq commit[Main] \cup gone[Main] \cup Change(j)
  /\ removed[j] \subseteq gone[j] /\ gone[j] \subseteq gone[Main] \cup removed[j]
  /\ removed[j] \cap commit[j] = {}

Branched(j) ==
  /\ removed[j] \subseteq Replaced
  /\ Branchless(j) => j \notin branches /\ verdict[j] = "none"
  /\ Branchless(j) \/ pc[j] = "change" => removed[j] = {}
  /\ Busy(j) /\ ~Branchless(j) => j \in branches /\ verdict[j] = "none"
  /\ j \in branches /\ pc[j] \notin {"change", "commit", "reset", "return", "discard"} => Made(j)
  /\ j \in human => j \in branches /\ pc[j] = "ended"

Decided(j) ==
  /\ Merged(j) => /\ Change(j) \ Out \subseteq commit[Main]
                    /\ removed[j] \cap (commit[Main] \cup tree) = {}
  /\ ~Landed(j) => /\ Change(j) \cap (commit[Main] \cup gone[Main]) = {}
                   /\ \A b \in Branch : Change(j) \cap removed[b] = {}
                   /\ pc[j] \notin {"commit", "after", "reset"} => Change(j) \cap tree = {}
  /\ verdict[j] \in {"accepted", "rejected"} =>
       /\ Line(j) \in tree
       /\ (\E k \in Job : Busy(k)) => Line(j) \in commit[Main]

Serial ==
  /\ merging = {} /\ MainHolds
  /\ \A j \in Job : Placed(j) /\ Branched(j) /\ Decided(j)

----------------------------------------------------------------------------
(* Type correctness.                                                       *)

(* Whose files are whose.                                                  *)
LEMMA FilesApart ==
  /\ Main \in Branch /\ \A b \in Branch : b # Main => b \in Job
  /\ \A j \in Job : /\ j # Main /\ j \in Branch
                    /\ Change(j) \subseteq Content /\ Line(j) \in Content /\ Line(j) \in Lines
                    /\ <<j, 1>> \in Change(j) /\ <<j, 1>> \in Shared /\ <<j, 1>> \in Replaced
                    /\ Change(j) \cap (Note \cup Lines \cup {Old, Stale}) = {}
                    /\ \A k \in Job : k # j => Change(k) \cap Change(j) = {}
  /\ Note \subseteq Content /\ {Old, Stale} \subseteq Content /\ Old \in Shared
  /\ Lines \cap (Note \cup Replaced \cup Erasable) = {}
  /\ Note \cap Replaced = {} /\ Erasable \cap Shared = {} /\ Shared \subseteq Replaced
BY ReflectAssumption DEF Branch, Change, Line, Lines, Content, Shared, Replaced

(* What the git commands do to the types.                                  *)
LEMMA GitType ==
  ASSUME TypeOK
  PROVE  /\ CommitAll => /\ commit' \in [Branch -> SUBSET Content]
                         /\ gone' \in [Branch -> SUBSET Content] /\ merging' \subseteq Job
         /\ \A b \in Branch :
              /\ Checkout(b) => head' \in branches /\ tree' \subseteq Content
              /\ Merge(b) => /\ commit' \in [Branch -> SUBSET Content]
                             /\ gone' \in [Branch -> SUBSET Content] /\ tree' \subseteq Content
              /\ Deletable(b) /\ DeleteBranch(b) =>
                   /\ head \in branches' /\ branches' \subseteq Branch
                   /\ commit' \in [Branch -> SUBSET Content]
                   /\ gone' \in [Branch -> SUBSET Content]
         /\ \A j \in Job : MergeConflicts(j) => tree' \subseteq Content /\ merging' \subseteq Job
<1>1. head \in Branch /\ tree \subseteq Content /\ merging \subseteq Job
      /\ commit \in [Branch -> SUBSET Content] /\ gone \in [Branch -> SUBSET Content]
      /\ head \in branches /\ branches \subseteq Branch
  BY DEF TypeOK
<1>2. \A b \in Branch : commit[b] \subseteq Content /\ gone[b] \subseteq Content
  BY <1>1
<1>3. UNION {commit[b] \cup gone[b] : b \in merging} \subseteq Content
  BY ZenonT(60), <1>1, <1>2, FilesApart
<1>4. ASSUME CommitAll
      PROVE  /\ commit' \in [Branch -> SUBSET Content]
             /\ gone' \in [Branch -> SUBSET Content] /\ merging' \subseteq Job
  <2>1. ((gone[head] \cup commit[head] \cup UNION {commit[b] \cup gone[b] : b \in merging}) \ tree)
          \subseteq Content
    BY <1>1, <1>2, <1>3
  <2>2. gone' = [gone EXCEPT ![head] =
          (gone[head] \cup commit[head] \cup UNION {commit[b] \cup gone[b] : b \in merging}) \ tree]
    BY <1>1, <1>4 DEF CommitAll
  <2>3. commit' = [commit EXCEPT ![head] = tree] /\ merging' = {}
    BY <1>4 DEF CommitAll
  <2> HIDE <1>4
  <2>4. gone' \in [Branch -> SUBSET Content]
    BY <1>1, <2>1, <2>2
  <2>5. QED
    BY <1>1, <2>3, <2>4
<1>5. \A b \in Branch : Brought(b) \subseteq Content /\ Taken(b) \subseteq Content
  BY <1>1, <1>2 DEF Brought, Taken
<1>6. ASSUME NEW b \in Branch
      PROVE  /\ Checkout(b) => head' \in branches /\ tree' \subseteq Content
             /\ Merge(b) => /\ commit' \in [Branch -> SUBSET Content]
                            /\ gone' \in [Branch -> SUBSET Content] /\ tree' \subseteq Content
             /\ Deletable(b) /\ DeleteBranch(b) =>
                  /\ head \in branches' /\ branches' \subseteq Branch
                  /\ commit' \in [Branch -> SUBSET Content]
                  /\ gone' \in [Branch -> SUBSET Content]
  <2>1. Checkout(b) => head' \in branches /\ tree' \subseteq Content
    BY <1>1, <1>2 DEF Checkout, Uncommitted
  <2>2. Merge(b) => /\ commit' \in [Branch -> SUBSET Content]
                    /\ gone' \in [Branch -> SUBSET Content] /\ tree' \subseteq Content
    BY <1>1, <1>2, <1>5 DEF Merge, MergeInTree
  <2>3. Deletable(b) /\ DeleteBranch(b) =>
                  /\ head \in branches' /\ branches' \subseteq Branch
                  /\ commit' \in [Branch -> SUBSET Content]
                  /\ gone' \in [Branch -> SUBSET Content]
    BY <1>1 DEF Deletable, DeleteBranch
  <2>4. QED
    BY <2>1, <2>2, <2>3
<1>7. ASSUME NEW j \in Job, MergeConflicts(j) PROVE tree' \subseteq Content /\ merging' \subseteq Job
  BY <1>1, <1>5, <1>7, FilesApart DEF MergeConflicts, MergeInTree
<1>8. QED
  BY <1>4, <1>6, <1>7

LEMMA ReflectTypeStep == TypeOK /\ [Next]_vars => TypeOK'
<1> SUFFICES ASSUME TypeOK, [Next]_vars PROVE TypeOK'
  OBVIOUS
<1>1. \A why \in SUBSET Trouble : Upset(why) => trouble' \subseteq Trouble
  BY DEF Upset, TypeOK
<1>2. \A who \in Trouble : Overlap(who) \in SUBSET Trouble /\ Overlap(who) \cup {"conflict"} \in SUBSET Trouble
  BY DEF Overlap, Trouble
<1>3. {"git"} \in SUBSET Trouble /\ {"conflict"} \in SUBSET Trouble
      /\ "sessions" \in Trouble /\ "others" \in Trouble
  BY DEF Trouble
<1>4. \A j \in Job, place \in Place : Goto(j, place) => pc' \in [Job -> Place]
  BY DEF Goto, TypeOK
<1>5. "idle" \in Place /\ "base" \in Place /\ "branch" \in Place
      /\ "change" \in Place /\ "commit" \in Place /\ "after" \in Place /\ "wait" \in Place
      /\ "merge" \in Place /\ "delete" \in Place /\ "drop" \in Place /\ "reset" \in Place
      /\ "return" \in Place /\ "discard" \in Place /\ "ended" \in Place
  BY DEF Place
<1>6. \A j \in Job, v \in {"none", "accepted", "rejected", "failed"} :
        End(j, v) => /\ pc' \in [Job -> Place] /\ base' \in [Job -> Branch]
                     /\ verdict' \in [Job -> {"none", "accepted", "rejected", "failed"}]
  BY <1>4, <1>5, FilesApart DEF End, TypeOK
<1>7. \A j \in Job : Fail(j) =>
         /\ pc' \in [Job -> Place] /\ base' \in [Job -> Branch]
         /\ verdict' \in [Job -> {"none", "accepted", "rejected", "failed"}]
  BY <1>6 DEF Fail
<1>8. \A j \in Job : Log(j) => tree' \subseteq Content
  <2>1. \A j \in Job : Line(j) \in Content
    BY FilesApart
  <2>2. QED
    BY <2>1 DEF Log, TypeOK
<1>9. ASSUME NEW j \in Job, GitFails(j) PROVE TypeOK'
  BY <1>1, <1>3, <1>7, <1>9 DEF GitFails, TypeOK, git
<1>10. ASSUME NEW j \in Job, CommitPending(j) PROVE TypeOK'
  <2>1. trouble' \subseteq Trouble /\ pc' \in [Job -> Place]
    BY <1>1, <1>2, <1>3, <1>4, <1>5, <1>10 DEF CommitPending
  <2>2. CommitAll /\ UNCHANGED <<head, branches, base, tree, human, verdict, written, removed>>
    BY <1>10 DEF CommitPending, CommitAll
  <2>3. QED
    BY <2>1, <2>2, GitType DEF TypeOK
<1>11. ASSUME NEW j \in Job, ReadBase(j) PROVE TypeOK'
  <2>1. pc' \in [Job -> Place] /\ base' \in [Job -> Branch]
        /\ verdict' \in [Job -> {"none", "accepted", "rejected", "failed"}] /\ tree' \subseteq Content
    BY <1>4, <1>5, <1>6, <1>7, <1>8, <1>11 DEF ReadBase, TypeOK
  <2>2. QED
    BY <1>11, <2>1 DEF ReadBase, TypeOK, git
<1>12. ASSUME NEW j \in Job, NewBranch(j) PROVE TypeOK'
  <2>1. pc' \in [Job -> Place]
    BY <1>4, <1>5, <1>12 DEF NewBranch
  <2>2. j \in Branch
    BY FilesApart
  <2>3. /\ head' \in branches' /\ branches' \subseteq Branch
        /\ commit' \in [Branch -> SUBSET Content] /\ gone' \in [Branch -> SUBSET Content]
    BY <1>12, <2>2 DEF NewBranch, TypeOK
  <2>4. QED
    BY <1>12, <2>1, <2>3 DEF NewBranch, TypeOK
<1>13. ASSUME NEW j \in Job, ApplyChanges(j) PROVE TypeOK'
  <2>1. pc' \in [Job -> Place]
    BY <1>4, <1>5, <1>13 DEF ApplyChanges
  <2>2. tree' \subseteq Content /\ removed' \in [Branch -> SUBSET Content]
    <3>1. Change(j) \subseteq Content /\ <<j, 1>> \in Content /\ j \in Branch
      BY FilesApart
    <3>2. tree \subseteq Content /\ removed \in [Branch -> SUBSET Content]
      BY DEF TypeOK
    <3>3. \/ UNCHANGED <<tree, removed>>
          \/ /\ \E files \in {Change(j), {<<j, 1>>}} : tree' = (tree \ Replaced) \cup files
             /\ removed' = [removed EXCEPT ![j] = @ \cup (tree \cap Replaced)]
      BY <1>13 DEF ApplyChanges
    <3>4. QED
      BY <3>1, <3>2, <3>3
  <2>3. QED
    BY <1>13, <2>1, <2>2 DEF ApplyChanges, TypeOK, git
<1>14. ASSUME NEW j \in Job, Reset(j) PROVE TypeOK'
  <2>1. pc' \in [Job -> Place]
    BY <1>4, <1>5, <1>14 DEF Reset
  <2>2. tree' \subseteq Content
    BY <1>14 DEF Reset, Uncommitted, TypeOK
  <2>3. QED
    BY <1>14, <2>1, <2>2 DEF Reset, TypeOK
<1>15. ASSUME NEW j \in Job, Return(j) PROVE /\ head' \in branches' /\ tree' \subseteq Content
                                             /\ UNCHANGED <<branches, commit, gone, merging>>
  BY <1>15, GitType DEF Return, TypeOK
<1>16. ASSUME NEW j \in Job, ReturnToBase(j) PROVE TypeOK'
  <2>1. pc' \in [Job -> Place] /\ base' \in [Job -> Branch]
        /\ verdict' \in [Job -> {"none", "accepted", "rejected", "failed"}]
    BY <1>4, <1>5, <1>7, <1>16 DEF ReturnToBase, TypeOK
  <2>2. /\ head' \in branches' /\ tree' \subseteq Content
        /\ UNCHANGED <<branches, commit, gone, merging>>
    BY <1>15, <1>16 DEF ReturnToBase, git, TypeOK
  <2>3. QED
    BY <1>16, <2>1, <2>2 DEF ReturnToBase, TypeOK
<1>17. ASSUME NEW j \in Job, Discard(j) PROVE TypeOK'
  BY <1>7, <1>17, GitType, FilesApart DEF Discard, TypeOK, DeleteBranch, git
<1>18. ASSUME NEW j \in Job, CommitChanges(j) PROVE TypeOK'
  <2>1. pc' \in [Job -> Place]
    BY <1>4, <1>5, <1>18 DEF CommitChanges
  <2>2. CommitAll /\ UNCHANGED <<head, branches, base, tree, human, verdict, written, removed, trouble>>
    BY <1>18 DEF CommitChanges, CommitAll
  <2>3. QED
    BY <2>1, <2>2, GitType DEF TypeOK
<1>19. ASSUME NEW j \in Job, ScoreAfter(j) PROVE TypeOK'
  <2>1. pc' \in [Job -> Place] /\ base' \in [Job -> Branch]
        /\ verdict' \in [Job -> {"none", "accepted", "rejected", "failed"}]
    BY <1>4, <1>5, <1>7, <1>19 DEF ScoreAfter, Decisions, TypeOK
  <2>2. /\ head' \in branches' /\ tree' \subseteq Content
        /\ UNCHANGED <<branches, commit, gone, merging>>
    BY <1>15, <1>19 DEF ScoreAfter, git, TypeOK
  <2>3. QED
    BY <1>19, <2>1, <2>2 DEF ScoreAfter, TypeOK
<1>20. ASSUME NEW j \in Job, Pending(j) PROVE TypeOK'
  BY <1>6, <1>8, <1>20 DEF Pending, TypeOK, git
<1>21. ASSUME NEW j \in Job, Merge(j) \/ MergeConflicts(j) \/ UNCHANGED <<git, tree>>
       PROVE  /\ head' \in branches' /\ branches' \subseteq Branch /\ tree' \subseteq Content
              /\ commit' \in [Branch -> SUBSET Content] /\ gone' \in [Branch -> SUBSET Content]
              /\ merging' \subseteq Job
  BY <1>21, GitType, FilesApart DEF TypeOK, Merge, MergeConflicts, MergeInTree, git
<1>22. ASSUME NEW j \in Job, MergeBranch(j) PROVE TypeOK'
  <2>1. /\ pc' \in [Job -> Place] /\ base' \in [Job -> Branch]
        /\ verdict' \in [Job -> {"none", "accepted", "rejected", "failed"}]
        /\ trouble' \subseteq Trouble
    BY <1>1, <1>3, <1>4, <1>5, <1>7, <1>22 DEF MergeBranch, TypeOK
  <2>2. Merge(j) \/ MergeConflicts(j) \/ UNCHANGED <<git, tree>>
    BY <1>22 DEF MergeBranch
  <2>3. QED
    BY <1>21, <1>22, <2>1, <2>2 DEF MergeBranch, TypeOK
<1>23. ASSUME NEW j \in Job, Deletable(j), DeleteBranch(j), Log(j)
       PROVE  /\ head' \in branches' /\ branches' \subseteq Branch /\ tree' \subseteq Content
              /\ commit' \in [Branch -> SUBSET Content] /\ gone' \in [Branch -> SUBSET Content]
              /\ merging' \subseteq Job
  BY <1>8, <1>23, GitType, FilesApart DEF DeleteBranch, TypeOK
<1>24. ASSUME NEW j \in Job, EndBranch(j) PROVE TypeOK'
  <2>1. /\ pc' \in [Job -> Place] /\ base' \in [Job -> Branch]
        /\ verdict' \in [Job -> {"none", "accepted", "rejected", "failed"}]
    BY <1>6, <1>7, <1>24 DEF EndBranch
  <2>2. QED
    BY <1>21, <1>23, <1>24, <2>1 DEF EndBranch, TypeOK
<1>25. ASSUME NEW n \in Note, Write(n) PROVE TypeOK'
  <2>1. trouble' \subseteq Trouble
    BY <1>1, <1>2, <1>3, <1>25 DEF Write
  <2>2. QED
    BY <1>25, <2>1, FilesApart DEF Write, TypeOK, git
<1>26. ASSUME NEW item \in Erasable, Erase(item) PROVE TypeOK'
  <2>1. trouble' \subseteq Trouble
    BY <1>1, <1>2, <1>3, <1>26 DEF Erase
  <2>2. QED
    BY <1>26, <2>1, FilesApart DEF Erase, TypeOK, git
<1>27. ASSUME NEW j \in Job, Accept(j) PROVE TypeOK'
  <2>1. trouble' \subseteq Trouble
    BY <1>1, <1>2, <1>3, <1>27 DEF Accept
  <2>2. human' \subseteq Job
    BY <1>27 DEF Accept, TypeOK
  <2>3. QED
    BY <1>21, <1>27, <2>1, <2>2 DEF Accept, TypeOK
<1>28. ASSUME NEW j \in Job, Accepted(j) PROVE TypeOK'
  <2>1. /\ trouble' \subseteq Trouble /\ human' \subseteq Job
        /\ verdict' \in [Job -> {"none", "accepted", "rejected", "failed"}]
    BY <1>1, <1>3, <1>28 DEF Accepted, TypeOK
  <2>2. /\ head' \in branches' /\ branches' \subseteq Branch /\ tree' \subseteq Content
        /\ commit' \in [Branch -> SUBSET Content] /\ gone' \in [Branch -> SUBSET Content]
        /\ merging' \subseteq Job
    BY <1>21, <1>23, <1>28 DEF Accepted
  <2>3. QED
    BY <1>28, <2>1, <2>2 DEF Accepted, TypeOK
<1>29. ASSUME NEW j \in Job, Reject(j) PROVE TypeOK'
  <2>1. trouble' \subseteq Trouble
    BY <1>1, <1>2, <1>3, <1>29 DEF Reject
  <2>2. verdict' \in [Job -> {"none", "accepted", "rejected", "failed"}]
    BY <1>29 DEF Reject, TypeOK
  <2>3. QED
    BY <1>23, <1>29, <2>1, <2>2 DEF Reject, TypeOK
<1>30. CASE UNCHANGED vars
  BY <1>30 DEF vars, git, TypeOK
<1>31. QED
  BY <1>9, <1>10, <1>11, <1>12, <1>13, <1>14, <1>16, <1>17, <1>18, <1>19, <1>20, <1>22, <1>24,
     <1>25, <1>26, <1>27, <1>28, <1>29, <1>30 DEF Next, Step

LEMMA ReflectTypeCorrect == Spec => []TypeOK
<1>1. Init => TypeOK
  BY FilesApart DEF Init, TypeOK, Place, Branch
<1>2. QED
  BY <1>1, ReflectTypeStep, PTL DEF Spec

----------------------------------------------------------------------------
(* What holds whatever runs beside what, fails or conflicts.               *)

(* Nothing that was deleted is forgotten.                                  *)
LEMMA DeletedGrows ==
  ASSUME TypeOK, [Next]_vars
  PROVE  \/ UNCHANGED removed
         \/ /\ UNCHANGED git
            /\ \/ \E j \in Job : ApplyChanges(j)
               \/ \E item \in Erasable : Erase(item)
            /\ \A b \in Branch : removed[b] \subseteq removed'[b]
            /\ tree \ tree' \subseteq Deleted' /\ Deleted \subseteq Deleted'
<1>1. removed \in [Branch -> SUBSET Content] /\ Main \in Branch /\ \A j \in Job : j \in Branch
  BY FilesApart DEF TypeOK
<1>2. ASSUME NEW b \in Branch, NEW taken, tree \ tree' \subseteq taken,
             removed' = [removed EXCEPT ![b] = @ \cup taken]
      PROVE  /\ \A c \in Branch : removed[c] \subseteq removed'[c]
             /\ tree \ tree' \subseteq Deleted' /\ Deleted \subseteq Deleted'
  <2>1. \A c \in Branch : removed'[c] = IF c = b THEN removed[b] \cup taken ELSE removed[c]
    BY <1>1, <1>2
  <2>2. QED
    BY <1>2, <2>1 DEF Deleted
<1>3. ASSUME NEW j \in Job, ApplyChanges(j)
      PROVE  \/ UNCHANGED removed
             \/ /\ UNCHANGED git /\ \A b \in Branch : removed[b] \subseteq removed'[b]
                /\ tree \ tree' \subseteq Deleted' /\ Deleted \subseteq Deleted'
  <2>1. \/ UNCHANGED removed
        \/ /\ tree \ tree' \subseteq tree \cap Replaced
           /\ removed' = [removed EXCEPT ![j] = @ \cup (tree \cap Replaced)]
    BY <1>3 DEF ApplyChanges
  <2>2. UNCHANGED git
    BY <1>3 DEF ApplyChanges
  <2>3. j \in Branch
    BY <1>1
  <2> HIDE <1>3
  <2>4. CASE tree \ tree' \subseteq tree \cap Replaced
             /\ removed' = [removed EXCEPT ![j] = @ \cup (tree \cap Replaced)]
    BY <1>2, <2>2, <2>3, <2>4
  <2>5. QED
    BY <2>1, <2>4
<1>4. ASSUME NEW item \in Erasable, Erase(item)
      PROVE  /\ UNCHANGED git /\ \A b \in Branch : removed[b] \subseteq removed'[b]
             /\ tree \ tree' \subseteq Deleted' /\ Deleted \subseteq Deleted'
  <2>1. /\ tree \ tree' \subseteq {item} /\ UNCHANGED git
        /\ removed' = [removed EXCEPT ![Main] = @ \cup {item}]
    BY <1>4 DEF Erase
  <2> HIDE <1>4
  <2>2. QED
    BY <1>1, <1>2, <2>1
<1>5. ASSUME NEW j \in Job, Step(j) \/ Accept(j) \/ Accepted(j) \/ Reject(j), ~ApplyChanges(j)
      PROVE  UNCHANGED removed
  BY <1>5 DEF Step, GitFails, CommitPending, ReadBase, NewBranch, Reset, ReturnToBase, Discard,
     CommitChanges, ScoreAfter, Pending, MergeBranch, EndBranch, Accept, Accepted, Reject
<1>6. ASSUME NEW n \in Note, Write(n) PROVE UNCHANGED removed
  BY <1>6 DEF Write
<1>7. QED
  BY <1>3, <1>4, <1>5, <1>6 DEF Next, vars

LEMMA VanishStep ==
  ASSUME TypeOK, NothingVanishes, [Next]_vars
  PROVE  NothingVanishes'
<1>1. /\ head \in Branch /\ commit \in [Branch -> SUBSET Content] /\ merging \subseteq Branch
      /\ gone \in [Branch -> SUBSET Content] /\ \A j \in Job : j \in Branch
  BY FilesApart DEF TypeOK
<1>2. commit[head] \ tree \subseteq Deleted /\ \A b \in Branch : gone[b] \subseteq Deleted
  BY DEF NothingVanishes, TreeHoldsCommit, Deleted
<1>3. \A b \in merging : commit[b] \ tree \subseteq Deleted
  BY DEF NothingVanishes
<1> DEFINE Goal == /\ commit'[head'] \ tree' \subseteq Deleted'
                   /\ \A b \in Branch : gone'[b] \subseteq Deleted'
                   /\ \A b \in merging' : commit'[b] \ tree' \subseteq Deleted'
<1>4. Goal => NothingVanishes'
  BY DEF NothingVanishes, TreeHoldsCommit, Deleted
<1>5. UNCHANGED removed => Deleted' = Deleted
  BY DEF Deleted
<1>6. ASSUME UNCHANGED git, tree \ tree' \subseteq Deleted', Deleted \subseteq Deleted' PROVE Goal
  BY <1>1, <1>2, <1>3, <1>6 DEF git
<1>7. ASSUME UNCHANGED git, tree \subseteq tree', UNCHANGED removed PROVE Goal
  BY <1>5, <1>6, <1>7
<1>8. ASSUME CommitAll, UNCHANGED <<tree, removed>> PROVE Goal
  <2>1. \A b \in Branch : commit'[b] = IF b = head THEN tree ELSE commit[b]
    BY <1>1, <1>8 DEF CommitAll
  <2>2. \A x \in UNION {commit[b] \cup gone[b] : b \in merging} : x \notin tree => x \in Deleted
    BY <1>1, <1>2, <1>3
  <2>3. gone' = [gone EXCEPT ![head] =
          (gone[head] \cup commit[head] \cup UNION {commit[b] \cup gone[b] : b \in merging}) \ tree]
    BY <1>1, <1>8 DEF CommitAll
  <2>4. \A b \in Branch : gone'[b] \subseteq Deleted
    BY <1>1, <1>2, <2>2, <2>3
  <2>5. merging' = {} /\ head' = head
    BY <1>8 DEF CommitAll
  <2>6. QED
    BY <1>1, <1>5, <1>8, <2>1, <2>4, <2>5
<1>9. ASSUME NEW b \in Branch, Deletable(b), DeleteBranch(b), tree \subseteq tree', UNCHANGED removed
      PROVE  Goal
  <2>1. /\ \A c \in Branch : commit'[c] = (IF c = b THEN {} ELSE commit[c])
                             /\ gone'[c] = (IF c = b THEN {} ELSE gone[c])
        /\ UNCHANGED <<head, merging>> /\ b # head
    BY <1>1, <1>9 DEF Deletable, DeleteBranch
  <2>2. QED
    BY <1>1, <1>2, <1>3, <1>5, <1>9, <2>1
<1>10. ASSUME NEW j \in Job, Return(j), UNCHANGED removed PROVE Goal
  <2>1. /\ tree' = (commit[head'] \ (commit[head] \ tree)) \cup (tree \ commit[head])
        /\ merging = {} /\ UNCHANGED <<commit, gone, merging>>
    BY <1>10 DEF Return, Checkout, Uncommitted
  <2>2. QED
    BY <1>2, <1>5, <1>10, <2>1
<1>11. \A b \in Branch : Taken(b) \subseteq Deleted
  BY <1>2 DEF Taken
<1>12. ASSUME NEW b \in Branch, Merge(b), UNCHANGED removed PROVE Goal
  <2>1. /\ tree' = (tree \ Taken(b)) \cup Brought(b) /\ UNCHANGED <<head, merging>> /\ merging = {}
        /\ commit'[head] = (commit[head] \ Taken(b)) \cup Brought(b)
    BY <1>1, <1>12 DEF Merge, MergeInTree
  <2>2. \A c \in Branch : gone'[c] \subseteq gone[c] \cup gone[b]
    BY <1>1, <1>12 DEF Merge
  <2>3. QED
    BY <1>1, <1>2, <1>5, <1>12, <2>1, <2>2
<1>13. ASSUME NEW b \in Branch, MergeConflicts(b), UNCHANGED removed PROVE Goal
  <2>1. /\ tree' = (tree \ Taken(b)) \cup Brought(b) /\ UNCHANGED <<head, commit, gone>>
        /\ merging' = {b}
    BY <1>13 DEF MergeConflicts, MergeInTree
  <2>2. commit[b] \ tree' \subseteq Deleted
    BY <1>1, <1>2, <1>11, <2>1 DEF Brought
  <2>3. QED
    BY <1>1, <1>2, <1>5, <1>11, <1>13, <2>1, <2>2
<1>14. ASSUME NEW j \in Job, NewBranch(j) PROVE Goal
  <2>1. /\ \A c \in Branch : commit'[c] = (IF c = j THEN commit[head] ELSE commit[c])
                             /\ gone'[c] = (IF c = j THEN gone[head] ELSE gone[c])
        /\ merging' = {} /\ head' = j /\ UNCHANGED <<tree, removed>>
    BY <1>1, <1>14 DEF NewBranch
  <2>2. QED
    BY <1>1, <1>2, <1>5, <2>1
<1>15. ASSUME NEW j \in Job, Reset(j) PROVE Goal
  <2>1. commit[head] \subseteq tree' /\ merging' = {} /\ UNCHANGED <<head, commit, gone, removed>>
    BY <1>15 DEF Reset
  <2>2. QED
    BY <1>2, <1>5, <2>1
<1> HIDE DEF Goal
<1>16. ASSUME NEW j \in Job, Step(j) \/ Accept(j) \/ Accepted(j) \/ Reject(j), UNCHANGED removed
       PROVE  Goal
  <2>1. j \in Branch
    BY <1>1
  <2>2. CASE GitFails(j) \/ ReadBase(j) \/ Pending(j)
    <3>1. UNCHANGED git /\ tree \subseteq tree'
      BY <2>2 DEF GitFails, ReadBase, Pending, Log
    <3>2. QED
      BY <1>7, <1>16, <3>1
  <2>3. CASE CommitPending(j) \/ CommitChanges(j)
    BY <1>8, <1>16, <2>3 DEF CommitPending, CommitChanges
  <2>4. CASE NewBranch(j) \/ Reset(j)
    BY <1>14, <1>15, <2>4
  <2>5. CASE ApplyChanges(j)
    <3>1. UNCHANGED git
      BY <2>5 DEF ApplyChanges
    <3>2. tree \ tree' \subseteq removed[j]
      BY <1>1, <1>16, <2>1, <2>5 DEF ApplyChanges, TypeOK
    <3>3. tree \ tree' \subseteq Deleted /\ Deleted' = Deleted
      BY <1>5, <1>16, <2>1, <3>2 DEF Deleted
    <3>4. QED
      BY <1>6, <3>1, <3>3
  <2>6. CASE ReturnToBase(j) \/ ScoreAfter(j)
    BY <1>7, <1>10, <1>16, <2>6 DEF ReturnToBase, ScoreAfter
  <2>7. CASE Discard(j)
    BY <1>7, <1>9, <1>16, <2>1, <2>7 DEF Discard
  <2>8. CASE MergeBranch(j) \/ Accept(j)
    BY <1>7, <1>12, <1>13, <1>16, <2>1, <2>8 DEF MergeBranch, Accept
  <2>9. CASE EndBranch(j) \/ Accepted(j) \/ Reject(j)
    <3>1. Log(j) => tree \subseteq tree'
      BY DEF Log
    <3>2. QED
      BY <1>7, <1>9, <1>16, <2>1, <2>9, <3>1 DEF EndBranch, Accepted, Reject
  <2>10. QED
    BY <1>16, <2>2, <2>3, <2>4, <2>5, <2>6, <2>7, <2>8, <2>9 DEF Step
<1>17. ASSUME UNCHANGED removed, \/ UNCHANGED vars
                                 \/ \E n \in Note : Write(n)
                                 \/ \E item \in Erasable : Erase(item)
       PROVE  Goal
  <2>1. CASE UNCHANGED vars
    BY <1>7, <1>17, <2>1 DEF vars
  <2>2. CASE \E n \in Note : Write(n)
    BY <1>7, <1>17, <2>2 DEF Write
  <2>3. CASE \E item \in Erasable : Erase(item)
    <3>1. PICK item \in Erasable : Erase(item)
      BY <2>3
    <3>2. item \in removed[Main]
      BY <1>17, <3>1, FilesApart DEF Erase, TypeOK
    <3>3. UNCHANGED git /\ tree \ tree' \subseteq Deleted /\ Deleted' = Deleted
      BY <1>5, <1>17, <3>1, <3>2, FilesApart DEF Erase, Deleted
    <3>4. QED
      BY <1>6, <3>3
  <2>4. QED
    BY <1>17, <2>1, <2>2, <2>3
<1>18. CASE UNCHANGED removed
  <2>1. \/ UNCHANGED vars
        \/ \E n \in Note : Write(n)
        \/ \E item \in Erasable : Erase(item)
        \/ \E j \in Job : Step(j) \/ Accept(j) \/ Accepted(j) \/ Reject(j)
    BY DEF Next
  <2>2. QED
    BY <1>4, <1>16, <1>17, <1>18, <2>1
<1>19. CASE UNCHANGED git /\ tree \ tree' \subseteq Deleted' /\ Deleted \subseteq Deleted'
  BY <1>4, <1>6, <1>19
<1>20. \/ UNCHANGED removed
       \/ UNCHANGED git /\ tree \ tree' \subseteq Deleted' /\ Deleted \subseteq Deleted'
  BY DeletedGrows
<1>21. QED
  BY <1>18, <1>19, <1>20

(* Git add -A records a deletion too: whatever runs beside what, fails or  *)
(* conflicts, committing the tree drops of the branch checked out only what*)
(* a session or a reflection has deleted or rewritten.                     *)
THEOREM TreeAlwaysHolds == Spec => []TreeHoldsCommit
<1>1. Init => NothingVanishes
  BY FilesApart DEF Init, NothingVanishes, TreeHoldsCommit, Deleted
<1>2. TypeOK /\ NothingVanishes /\ [Next]_vars => NothingVanishes'
  BY VanishStep
<1>3. NothingVanishes => TreeHoldsCommit
  BY DEF NothingVanishes
<1>4. QED
  BY <1>1, <1>2, <1>3, ReflectTypeCorrect, PTL DEF Spec

----------------------------------------------------------------------------
(* The notes of the sessions.                                              *)

(* How far a step moves a reflection: the other reflections stay, and this *)
(* one goes on.                                                            *)
LEMMA Moves ==
  ASSUME TypeOK, NEW j \in Job, Step(j) \/ Accept(j) \/ Accepted(j) \/ Reject(j)
  PROVE  /\ \A k \in Job : k # j => pc'[k] = pc[k] /\ base'[k] = base[k]
         /\ Step(j) \/ (pc'[j] = pc[j] /\ base'[j] = base[j])
         /\ Step(j) => pc'[j] # "idle"
         /\ Step(j) /\ ~CommitPending(j) => Busy(j) /\ pc'[j] # "base"
         /\ Busy(j)' => \/ CommitPending(j)
                        \/ ReadBase(j) /\ base'[j] = head
                        \/ base'[j] = base[j] /\ Busy(j) /\ (pc[j] = "base" => pc'[j] = "base")
<1>1. pc \in [Job -> Place] /\ base \in [Job -> Branch]
  BY DEF TypeOK
<1>2. CASE CommitPending(j)
  BY <1>1, <1>2 DEF CommitPending, Goto, Step
<1>3. CASE Accept(j) \/ Accepted(j) \/ Reject(j)
  <2>1. UNCHANGED <<pc, base>>
    BY <1>3 DEF Accept, Accepted, Reject
  <2>3. Step(j) => FALSE
    <3>1. ASSUME Step(j) PROVE pc'[j] # pc[j]
      BY <1>1, <3>1 DEF Step, GitFails, CommitPending, ReadBase, NewBranch, ApplyChanges, Reset,
         ReturnToBase, Discard, CommitChanges, ScoreAfter, Decisions, Pending, MergeBranch, EndBranch,
         End, Fail, Goto
    <3>2. QED
      BY <2>1, <3>1
  <2>4. QED
    BY <2>1, <2>3 DEF Busy
<1>4. CASE Step(j) /\ ~CommitPending(j)
  <2>1. /\ \A k \in Job : k # j => pc'[k] = pc[k] /\ base'[k] = base[k]
        /\ Busy(j) /\ pc'[j] # "base" /\ pc'[j] # "idle"
    BY <1>1, <1>4 DEF Step, GitFails, ReadBase, NewBranch, ApplyChanges, Reset, ReturnToBase,
       Discard, CommitChanges, ScoreAfter, Decisions, Pending, MergeBranch, EndBranch, End, Fail,
       Goto, Busy
  <2>2. Busy(j)' => (ReadBase(j) /\ base'[j] = head) \/ (base'[j] = base[j] /\ pc[j] # "base")
    BY <1>1, <1>4 DEF Step, GitFails, ReadBase, NewBranch, ApplyChanges, Reset, ReturnToBase,
       Discard, CommitChanges, ScoreAfter, Decisions, Pending, MergeBranch, EndBranch, End, Fail,
       Goto, Busy
  <2>3. QED
    BY <1>4, <2>1, <2>2
<1>5. QED
  BY <1>2, <1>3, <1>4

(* What sessions wrote and deleted changes in their own steps only.        *)
LEMMA SessionsAlone ==
  ASSUME TypeOK, NEW j \in Job, Step(j) \/ Accept(j) \/ Accepted(j) \/ Reject(j)
  PROVE  written' = written /\ removed'[Main] = removed[Main] /\ trouble \subseteq trouble'
<1>1. written' = written
  BY DEF Step, GitFails, CommitPending, ReadBase, NewBranch, ApplyChanges, Reset,
     ReturnToBase, Discard, CommitChanges, ScoreAfter, Pending, MergeBranch, EndBranch,
     Accept, Accepted, Reject
<1>2. trouble \subseteq trouble'
  BY DEF Step, GitFails, CommitPending, ReadBase, NewBranch, ApplyChanges, Reset,
     ReturnToBase, Discard, CommitChanges, ScoreAfter, Pending, MergeBranch, EndBranch,
     Accept, Accepted, Reject, Upset
<1>3. UNCHANGED removed \/ ApplyChanges(j)
  BY DEF Step, GitFails, CommitPending, ReadBase, NewBranch, Reset,
     ReturnToBase, Discard, CommitChanges, ScoreAfter, Pending, MergeBranch, EndBranch,
     Accept, Accepted, Reject
<1>4. ApplyChanges(j) => removed'[Main] = removed[Main]
  <2>1. j # Main /\ Main \in Branch /\ removed \in [Branch -> SUBSET Content]
    BY FilesApart DEF TypeOK
  <2>2. QED
    BY <2>1 DEF ApplyChanges
<1>5. QED
  BY <1>1, <1>2, <1>3, <1>4

(* What the git commands do to a set of notes that the tree has: it stays  *)
(* in the tree, on the branch that is checked out if it was there, and on  *)
(* each branch that comes up.                                              *)
LEMMA GitKeeps ==
  ASSUME TypeOK, NEW W, W \subseteq tree, W \cap Replaced = {},
         \A b \in Branch : gone[b] \cap W = {},
         NEW j \in Job, Step(j) \/ Accept(j) \/ Accepted(j) \/ Reject(j),
         \A k \in Job : /\ Busy(k) => W \subseteq commit[head]
                        /\ Busy(k) /\ pc[k] # "base" /\ base[k] \in branches =>
                             W \subseteq commit[base[k]]
  PROVE  /\ W \subseteq tree' /\ \A b \in Branch : gone'[b] \cap W = {}
         /\ CommitPending(j) \/ W \subseteq commit[head] => W \subseteq commit'[head']
         /\ \A c \in Branch : c \in branches' /\ (c \in branches => W \subseteq commit[c])
              /\ (CommitPending(j) \/ W \subseteq commit[head]) => W \subseteq commit'[c]
<1>1. /\ head \in Branch /\ head \in branches /\ commit \in [Branch -> SUBSET Content]
      /\ gone \in [Branch -> SUBSET Content] /\ j \in Branch /\ merging \subseteq Branch
  BY FilesApart DEF TypeOK
<1> DEFINE Goal == /\ W \subseteq tree' /\ \A b \in Branch : gone'[b] \cap W = {}
                   /\ W \subseteq commit[head] => W \subseteq commit'[head']
                   /\ \A c \in Branch : c \in branches' /\ (c \in branches => W \subseteq commit[c])
                        /\ W \subseteq commit[head] => W \subseteq commit'[c]
<1>2. ASSUME UNCHANGED git, W \subseteq tree' PROVE Goal
  BY <1>2 DEF git
<1>3. ASSUME CommitAll, UNCHANGED tree PROVE Goal /\ W \subseteq commit'[head']
                    /\ \A c \in Branch : c \in branches' /\ (c \in branches => W \subseteq commit[c]) => W \subseteq commit'[c]
  <2>1. /\ \A b \in Branch : commit'[b] = IF b = head THEN tree ELSE commit[b]
        /\ UNCHANGED <<head, branches>>
    BY <1>1, <1>3 DEF CommitAll
  <2>2. gone' = [gone EXCEPT ![head] =
          (gone[head] \cup commit[head] \cup UNION {commit[b] \cup gone[b] : b \in merging}) \ tree]
    BY <1>1, <1>3 DEF CommitAll
  <2>3. \A b \in Branch : gone'[b] \cap W = {}
    BY <1>1, <2>2
  <2>4. QED
    BY <1>1, <1>3, <2>1, <2>3
<1>4. ASSUME Deletable(j), DeleteBranch(j), tree \subseteq tree' PROVE Goal
  <2>1. /\ \A c \in Branch : commit'[c] = (IF c = j THEN {} ELSE commit[c])
                             /\ gone'[c] = (IF c = j THEN {} ELSE gone[c])
        /\ head' = head /\ j # head /\ branches' = branches \ {j}
    BY <1>1, <1>4 DEF Deletable, DeleteBranch
  <2>2. QED
    BY <1>1, <1>4, <2>1
<1>5. ASSUME Return(j), pc[j] \in {"return", "after"} PROVE Goal
  <2>1. /\ tree' = (commit[base[j]] \ (commit[head] \ tree)) \cup (tree \ commit[head])
        /\ UNCHANGED <<commit, gone, branches>> /\ head' = base[j] /\ base[j] \in branches
    BY <1>5 DEF Return, Checkout, Uncommitted
  <2>2. W \subseteq commit[base[j]]
    BY <1>5, <2>1 DEF Busy
  <2>3. QED
    BY <1>1, <2>1, <2>2
<1>6. \A b \in Branch : Taken(b) \cap W = {}
  BY DEF Taken
<1>7. ASSUME Merge(j) PROVE Goal
  <2>1. /\ tree' = (tree \ Taken(j)) \cup Brought(j) /\ UNCHANGED <<head, branches>>
        /\ \A c \in Branch : /\ commit'[c] = IF c = head THEN (commit[head] \ Taken(j)) \cup Brought(j)
                                             ELSE commit[c]
                             /\ gone'[c] = IF c = head THEN gone[head] \cup gone[j] ELSE gone[c]
    BY <1>1, <1>7 DEF Merge, MergeInTree
  <2>2. QED
    BY <1>1, <1>6, <2>1
<1>8. ASSUME MergeConflicts(j) PROVE Goal
  <2>1. /\ tree' = (tree \ Taken(j)) \cup Brought(j) /\ UNCHANGED <<head, branches, commit, gone>>
    BY <1>8 DEF MergeConflicts, MergeInTree
  <2>2. QED
    BY <1>1, <1>6, <2>1
<1>9. ASSUME NewBranch(j) PROVE Goal
  <2>1. /\ \A c \in Branch : commit'[c] = (IF c = j THEN commit[head] ELSE commit[c])
                             /\ gone'[c] = (IF c = j THEN gone[head] ELSE gone[c])
        /\ branches' = branches \cup {j} /\ head' = j /\ UNCHANGED tree
    BY <1>1, <1>9 DEF NewBranch
  <2>2. QED
    BY <1>1, <2>1
<1>10. ASSUME Reset(j) PROVE Goal
  <2>1. commit[head] \subseteq tree' /\ UNCHANGED <<head, branches, commit, gone>> /\ Busy(j)
    BY <1>10 DEF Reset, Busy
  <2>2. QED
    BY <2>1
<1> HIDE DEF Goal
<1>11. Goal \/ CommitPending(j)
  <2>2. CASE GitFails(j) \/ ReadBase(j) \/ Pending(j)
    <3>1. UNCHANGED git /\ tree \subseteq tree'
      BY <2>2 DEF GitFails, ReadBase, Pending, Log
    <3>2. QED
      BY <1>2, <3>1
  <2>3. CASE CommitChanges(j)
    BY <1>3, <2>3 DEF CommitChanges
  <2>4. CASE NewBranch(j) \/ Reset(j)
    BY <1>9, <1>10, <2>4
  <2>5. CASE ApplyChanges(j)
    <3>1. UNCHANGED git /\ tree \ Replaced \subseteq tree'
      BY <2>5 DEF ApplyChanges
    <3>2. QED
      BY <1>2, <3>1
  <2>6. CASE ReturnToBase(j) \/ ScoreAfter(j)
    BY <1>2, <1>5, <2>6 DEF ReturnToBase, ScoreAfter
  <2>7. CASE Discard(j)
    BY <1>2, <1>4, <2>7 DEF Discard
  <2>8. CASE MergeBranch(j) \/ Accept(j)
    BY <1>2, <1>7, <1>8, <2>8 DEF MergeBranch, Accept
  <2>9. CASE EndBranch(j) \/ Accepted(j) \/ Reject(j)
    <3>1. Log(j) => tree \subseteq tree'
      BY DEF Log
    <3>2. QED
      BY <1>2, <1>4, <2>9, <3>1 DEF EndBranch, Accepted, Reject
  <2>10. QED
    BY <2>2, <2>3, <2>4, <2>5, <2>6, <2>7, <2>8, <2>9 DEF Step
<1>12. CASE CommitPending(j)
  <2>1. CommitAll /\ UNCHANGED tree
    BY <1>12 DEF CommitPending
  <2>2. QED
    BY <1>3, <2>1 DEF Goal
<1>13. CASE ~CommitPending(j)
  BY <1>11, <1>13 DEF Goal
<1>14. QED
  BY <1>12, <1>13

(* All that the tree, the branches and what is gone from them hold was     *)
(* there, or is the work of the reflection that takes the step.            *)
LEMMA GitBrings ==
  ASSUME TypeOK, NEW S, tree \subseteq S,
         \A b \in Branch : commit[b] \subseteq S /\ gone[b] \subseteq S,
         NEW j \in Job, Step(j) \/ Accept(j) \/ Accepted(j) \/ Reject(j),
         Change(j) \subseteq S, Line(j) \in S
  PROVE  tree' \subseteq S /\ \A b \in Branch : commit'[b] \subseteq S /\ gone'[b] \subseteq S
<1>1. /\ head \in Branch /\ commit \in [Branch -> SUBSET Content]
      /\ gone \in [Branch -> SUBSET Content] /\ j \in Branch /\ merging \subseteq Branch
      /\ base[j] \in Branch
  BY FilesApart DEF TypeOK
<1> DEFINE Goal ==
      tree' \subseteq S /\ \A b \in Branch : commit'[b] \subseteq S /\ gone'[b] \subseteq S
<1>2. ASSUME UNCHANGED git, tree' \subseteq S PROVE Goal
  BY <1>2 DEF git
<1>3. ASSUME CommitAll, UNCHANGED tree PROVE Goal
  <2>1. UNION {commit[b] \cup gone[b] : b \in merging} \subseteq S
    BY <1>1
  <2>2. /\ commit' = [commit EXCEPT ![head] = tree]
        /\ gone' = [gone EXCEPT ![head] =
             (gone[head] \cup commit[head] \cup UNION {commit[b] \cup gone[b] : b \in merging}) \ tree]
    BY <1>1, <1>3 DEF CommitAll
  <2>3. QED
    BY <1>1, <1>3, <2>1, <2>2
<1>4. ASSUME DeleteBranch(j), tree' \subseteq S PROVE Goal
  BY <1>1, <1>4 DEF DeleteBranch
<1>5. ASSUME Return(j) PROVE Goal
  BY <1>1, <1>5 DEF Return, Checkout, Uncommitted
<1>6. Brought(j) \subseteq S
  BY <1>1 DEF Brought
<1>7. ASSUME Merge(j) \/ MergeConflicts(j) PROVE Goal
  BY <1>1, <1>6, <1>7 DEF Merge, MergeConflicts, MergeInTree
<1>8. ASSUME NewBranch(j) PROVE Goal
  BY <1>1, <1>8 DEF NewBranch
<1>9. ASSUME Reset(j) PROVE Goal
  BY <1>1, <1>9 DEF Reset, Uncommitted
<1>10. ASSUME ApplyChanges(j) PROVE UNCHANGED git /\ tree' \subseteq S
  <2>1. \/ tree' = tree
        \/ \E files \in {Change(j), {<<j, 1>>}} : tree' = (tree \ Replaced) \cup files
    BY <1>10 DEF ApplyChanges
  <2>2. <<j, 1>> \in S
    BY FilesApart
  <2>3. QED
    BY <1>10, <2>1, <2>2 DEF ApplyChanges
<1>11. Log(j) => tree' \subseteq S
  BY DEF Log
<1> HIDE DEF Goal
<1>12. Goal
  <2>1. CASE GitFails(j) \/ ReadBase(j) \/ Pending(j)
    BY <1>2, <1>11, <2>1 DEF GitFails, ReadBase, Pending
  <2>2. CASE CommitPending(j) \/ CommitChanges(j)
    BY <1>3, <2>2 DEF CommitPending, CommitChanges
  <2>3. CASE NewBranch(j) \/ Reset(j) \/ ApplyChanges(j)
    BY <1>2, <1>8, <1>9, <1>10, <2>3
  <2>4. CASE ReturnToBase(j) \/ ScoreAfter(j)
    BY <1>2, <1>5, <2>4 DEF ReturnToBase, ScoreAfter
  <2>5. CASE Discard(j)
    BY <1>2, <1>4, <2>5 DEF Discard
  <2>6. CASE MergeBranch(j) \/ Accept(j)
    BY <1>2, <1>7, <2>6 DEF MergeBranch, Accept
  <2>7. CASE EndBranch(j) \/ Accepted(j) \/ Reject(j)
    BY <1>2, <1>4, <1>11, <2>7 DEF EndBranch, Accepted, Reject
  <2>8. QED
    BY <2>1, <2>2, <2>3, <2>4, <2>5, <2>6, <2>7 DEF Step
<1>13. QED
  BY <1>12 DEF Goal

LEMMA OnlyWrittenStep ==
  ASSUME TypeOK, OnlyWrittenNotes, [Next]_vars
  PROVE  OnlyWrittenNotes'
<1>1. ASSUME NEW j \in Job, Step(j) \/ Accept(j) \/ Accepted(j) \/ Reject(j)
      PROVE  OnlyWrittenNotes'
  <2> DEFINE S == written \cup (Content \ Note)
  <2>1. tree \subseteq S /\ \A b \in Branch : commit[b] \subseteq S /\ gone[b] \subseteq S
    BY DEF OnlyWrittenNotes, TypeOK
  <2>2. Change(j) \subseteq S /\ Line(j) \in S
    BY FilesApart
  <2>3. tree' \subseteq S /\ \A b \in Branch : commit'[b] \subseteq S /\ gone'[b] \subseteq S
    <3> HIDE DEF S
    <3>1. QED
      BY <1>1, <2>1, <2>2, GitBrings
  <2>4. written' = written
    BY <1>1, SessionsAlone
  <2>5. QED
    BY <2>3, <2>4 DEF OnlyWrittenNotes
<1>2. ASSUME NEW n \in Note, Write(n) PROVE OnlyWrittenNotes'
  BY <1>2 DEF Write, OnlyWrittenNotes, git
<1>3. ASSUME NEW item \in Erasable, Erase(item) PROVE OnlyWrittenNotes'
  BY <1>3 DEF Erase, OnlyWrittenNotes, git
<1>4. CASE UNCHANGED vars
  BY <1>4 DEF vars, OnlyWrittenNotes, git
<1>5. QED
  BY <1>1, <1>2, <1>3, <1>4 DEF Next

LEMMA NotesKeptStep ==
  ASSUME TypeOK, TypeOK', OnlyWrittenNotes, NotesKept, [Next]_vars
  PROVE  NotesKept'
<1> SUFFICES ASSUME "sessions" \notin trouble' PROVE NotesKept'
  BY DEF NotesKept
<1> DEFINE Kept == /\ Wanted \subseteq tree /\ \A b \in Branch : gone[b] \cap Wanted = {}
                   /\ \A j \in Job :
                        /\ Busy(j) => Wanted \subseteq commit[head]
                        /\ Busy(j) /\ pc[j] # "base" /\ base[j] \in branches =>
                             Wanted \subseteq commit[base[j]]
<1>1. Kept' => NotesKept'
  BY DEF NotesKept
<1>2. "sessions" \notin trouble => Kept
  BY DEF NotesKept
<1>3. written \subseteq Note /\ Wanted \subseteq Note
  BY DEF TypeOK, Wanted
<1>4. ASSUME NEW j \in Job, Step(j) \/ Accept(j) \/ Accepted(j) \/ Reject(j) PROVE Kept'
  <2>1. Wanted' = Wanted /\ Kept
    BY <1>2, <1>4, SessionsAlone DEF Wanted
  <2> DEFINE W == Wanted
  <2>2. W \subseteq tree /\ W \cap Replaced = {} /\ \A b \in Branch : gone[b] \cap W = {}
    BY <1>3, <2>1, FilesApart
  <2>3. \A k \in Job : /\ Busy(k) => W \subseteq commit[head]
                       /\ Busy(k) /\ pc[k] # "base" /\ base[k] \in branches =>
                            W \subseteq commit[base[k]]
    BY <2>1
  <2> HIDE DEF W
  <2>4. /\ W \subseteq tree' /\ \A b \in Branch : gone'[b] \cap W = {}
        /\ CommitPending(j) \/ W \subseteq commit[head] => W \subseteq commit'[head']
        /\ \A c \in Branch : c \in branches' /\ (c \in branches => W \subseteq commit[c])
              /\ (CommitPending(j) \/ W \subseteq commit[head]) => W \subseteq commit'[c]
    BY <1>4, <2>2, <2>3, GitKeeps
  <2>5. /\ \A k \in Job : k # j => pc'[k] = pc[k] /\ base'[k] = base[k]
        /\ Busy(j)' => \/ CommitPending(j)
                       \/ ReadBase(j) /\ base'[j] = head
                       \/ base'[j] = base[j] /\ Busy(j) /\ (pc[j] = "base" => pc'[j] = "base")
    BY <1>4, Moves
  <2>6. /\ head \in branches /\ head \in Branch /\ \A k \in Job : base[k] \in Branch /\ base'[k] \in Branch
    BY DEF TypeOK
  <2>7. CommitPending(j) => pc'[j] = "base"
    BY DEF CommitPending, Goto, TypeOK
  <2>8. ReadBase(j) => Busy(j)
    BY DEF ReadBase, Busy
  <2>9. ASSUME NEW k \in Job, Busy(k)'
        PROVE  /\ W \subseteq commit'[head']
               /\ pc'[k] # "base" /\ base'[k] \in branches' => W \subseteq commit'[base'[k]]
    <3>1. CASE k # j
      <4>1. Busy(k) /\ pc'[k] = pc[k] /\ base'[k] = base[k]
        BY <2>5, <2>9, <3>1 DEF Busy
      <4>2. QED
        BY <2>3, <2>4, <2>6, <4>1
    <3>2. CASE k = j /\ CommitPending(j)
      BY <2>4, <2>7, <3>2
    <3>3. CASE k = j /\ ~CommitPending(j)
      BY <2>3, <2>4, <2>5, <2>6, <2>8, <2>9, <3>3
    <3>4. QED
      BY <3>1, <3>2, <3>3
  <2>10. QED
    BY <2>1, <2>4, <2>9 DEF W
<1>5. ASSUME UNCHANGED <<pc, git>>, AtRest, Wanted' \subseteq tree',
             \A b \in Branch : gone[b] \cap Wanted' = {}
      PROVE  Kept'
  <2>1. \A j \in Job : ~Busy(j)'
    BY <1>5 DEF AtRest, Busy
  <2>2. QED
    BY <1>5, <2>1 DEF git
<1> HIDE DEF Kept
<1>6. ASSUME NEW n \in Note, Write(n) PROVE Kept'
  <2>1. AtRest /\ "sessions" \notin trouble
    BY <1>6 DEF Write, Upset, Overlap
  <2>2. Kept
    BY <1>2, <2>1
  <2>3. \A b \in Branch : n \notin gone[b]
    BY <1>6 DEF Write, OnlyWrittenNotes
  <2>4. Wanted' \subseteq Wanted \cup {n} /\ tree' = tree \cup {n}
    BY <1>6 DEF Write, Wanted
  <2>5. QED
    BY <1>5, <1>6, <2>1, <2>2, <2>3, <2>4 DEF Kept, Write
<1>7. ASSUME NEW item \in Erasable, Erase(item) PROVE Kept'
  <2>1. AtRest /\ "sessions" \notin trouble
    BY <1>7 DEF Erase, Upset, Overlap
  <2>2. Kept
    BY <1>2, <2>1
  <2>3. Wanted' \subseteq Wanted \ {item} /\ tree' = tree \ {item}
    BY <1>7, FilesApart DEF Erase, Wanted, TypeOK
  <2>4. QED
    BY <1>5, <1>7, <2>1, <2>2, <2>3 DEF Kept, Erase
<1>8. ASSUME UNCHANGED vars PROVE Kept'
  <2>1. Kept
    BY <1>2, <1>8 DEF vars
  <2>2. QED
    BY <1>8, <2>1 DEF vars, git, Kept, Wanted, Busy
<1>9. QED
  BY <1>1, <1>4, <1>6, <1>7, <1>8 DEF Next

LEMMA NotesKeptCorrect == Spec => [](OnlyWrittenNotes /\ NotesKept)
<1>1. Init => OnlyWrittenNotes /\ NotesKept
  BY FilesApart, ReflectAssumption DEF Init, OnlyWrittenNotes, NotesKept, Wanted, Busy
<1>2. TypeOK /\ TypeOK' /\ OnlyWrittenNotes /\ NotesKept /\ [Next]_vars =>
        (OnlyWrittenNotes /\ NotesKept)'
  BY OnlyWrittenStep, NotesKeptStep
<1>3. QED
  BY <1>1, <1>2, ReflectTypeCorrect, PTL DEF Spec

(* A note that a session wrote before or after a reflection, and none has  *)
(* deleted, is in the tree at rest: for any number of reflections that     *)
(* overlap, fail and conflict.                                             *)
THEOREM NotesComeBack == Spec => []NotesSurvive
<1>1. NotesKept => NotesSurvive
  BY DEF NotesKept, NotesSurvive, Wanted
<1>2. QED
  BY <1>1, NotesKeptCorrect, PTL

----------------------------------------------------------------------------
(* One reflection or decision at a time.                                   *)

LEMMA TroubleGrows ==
  ASSUME [Next]_vars
  PROVE  trouble \subseteq trouble'
<1>1. ASSUME NEW j \in Job, Step(j) \/ Accept(j) \/ Accepted(j) \/ Reject(j)
      PROVE  trouble \subseteq trouble'
  BY <1>1 DEF Step, GitFails, CommitPending, ReadBase, NewBranch, ApplyChanges, Reset,
     ReturnToBase, Discard, CommitChanges, ScoreAfter, Pending, MergeBranch, EndBranch,
     Accept, Accepted, Reject, Upset
<1>2. ASSUME NEW n \in Note, Write(n) PROVE trouble \subseteq trouble'
  BY <1>2 DEF Write, Upset
<1>3. ASSUME NEW item \in Erasable, Erase(item) PROVE trouble \subseteq trouble'
  BY <1>3 DEF Erase, Upset
<1>4. QED
  BY <1>1, <1>2, <1>3 DEF Next, vars

(* While the others rest, it is enough to follow the reflection that acts. *)
LEMMA AloneOneStep ==
  ASSUME TypeOK, TypeOK', Alone, NEW j \in Job, Busy(j),
         \A k \in Job : k # j => pc'[k] = pc[k],
         UNCHANGED human, Main \in branches',
         IF Away(j)' THEN head' = j ELSE head' = Main,
         Returns(j)'
  PROVE  Alone'
<1>1. \A k \in Job : k # j => pc'[k] \in {"idle", "ended"} /\ ~Busy(k)' /\ ~Away(k)'
  BY DEF Alone, OneAtATime, Busy, Away
<1>2. OneAtATime'
  BY <1>1 DEF Alone, OneAtATime
<1>3. HeadFollows'
  BY <1>1 DEF HeadFollows
<1>4. \A k \in Job : Returns(k)'
  BY <1>1 DEF Returns
<1>5. QED
  BY <1>2, <1>3, <1>4 DEF Alone

LEMMA AloneAtRest ==
  ASSUME TypeOK, Alone, \A j \in Job : ~Busy(j), UNCHANGED <<pc, head>>,
         \A j, k \in human' : j = k, Main \in branches'
  PROVE  Alone'
<1>1. \A k \in Job : pc'[k] \in {"idle", "ended"} /\ ~Busy(k)' /\ ~Away(k)' /\ ~Away(k)
  BY DEF Busy, Away
<1>2. head' = Main
  BY <1>1 DEF Alone, HeadFollows
<1>3. QED
  BY <1>1, <1>2 DEF Alone, OneAtATime, HeadFollows, Returns

LEMMA AloneStep ==
  ASSUME TypeOK, TypeOK', Alone, [Next]_vars, trouble' \subseteq {"conflict"}
  PROVE  Alone'
<1>1. Main \in branches /\ \A j \in Job : j # Main /\ j \in Branch /\ Main \in Branch
  BY FilesApart DEF Alone
<1>2. /\ commit \in [Branch -> SUBSET Content] /\ head \in Branch
      /\ pc \in [Job -> Place] /\ base \in [Job -> Branch]
  BY DEF TypeOK
<1>3. \A who \in {"others", "sessions"} : Upset(Overlap(who)) => AtRest
  BY DEF Upset, Overlap
<1>4. ASSUME NEW j \in Job, CommitPending(j) PROVE Alone'
  <2>1. AtRest /\ head = Main /\ \A k \in Job : ~Away(k)
    BY <1>3, <1>4 DEF CommitPending, AtRest, Alone, HeadFollows, Away, Busy
  <2>2. /\ pc'[j] = "base" /\ head' = Main /\ merging' = {} /\ UNCHANGED <<human, branches>>
        /\ \A k \in Job : k # j => pc'[k] = pc[k]
    BY <1>2, <1>4, <2>1 DEF CommitPending, CommitAll, Goto
  <2>3. \A k \in Job : k # j => pc'[k] \in {"idle", "ended"}
    BY <2>1, <2>2 DEF AtRest, Busy
  <2>4. (\A k \in Job : Returns(k)' /\ ~Away(k)') /\ OneAtATime'
    BY <2>1, <2>2, <2>3 DEF Returns, Away, Busy, OneAtATime, AtRest
  <2>5. QED
    BY <1>1, <2>2, <2>4 DEF Alone, HeadFollows
<1>5. ASSUME NEW j \in Job, Step(j), ~CommitPending(j) PROVE Alone'
  <2>1. Busy(j) /\ \A k \in Job : k # j => pc'[k] = pc[k]
    BY <1>5, Moves
  <2>2. /\ merging = {} /\ (pc[j] # "base" => base[j] = Main)
        /\ IF Away(j) THEN head = j ELSE head = Main
    BY <2>1 DEF Alone, Returns, HeadFollows, OneAtATime, Away, Busy
  <2>3. /\ pc[j] \in {"change", "commit", "reset", "return"} => commit[j] = commit[Main]
        /\ pc[j] = "after" => tree = commit[j]
    BY DEF Alone, Returns
  <2> DEFINE Goal == /\ UNCHANGED human /\ Main \in branches' /\ Returns(j)'
                     /\ IF Away(j)' THEN head' = j ELSE head' = Main
  <2>4. ~GitFails(j)
    BY DEF GitFails, Upset
  <2>5. ASSUME ReadBase(j) \/ Pending(j) PROVE Goal
    BY <1>1, <1>2, <2>2, <2>5 DEF ReadBase, Pending, End, Fail, Goto, Returns, Away, Busy, git
  <2>6. ASSUME NewBranch(j) PROVE Goal
    BY <1>1, <1>2, <2>2, <2>6 DEF NewBranch, Goto, Returns, Away, Busy
  <2>7. ASSUME ApplyChanges(j) \/ Reset(j) PROVE Goal
    BY <1>1, <1>2, <2>2, <2>3, <2>7 DEF ApplyChanges, Reset, Goto, Returns, Away, Busy, git
  <2>8. ASSUME ReturnToBase(j) \/ ScoreAfter(j) PROVE Goal
    <3>1. ~Refuses(base[j]) /\ base[j] = Main /\ head = j
      BY <1>1, <2>2, <2>3, <2>8 DEF ReturnToBase, ScoreAfter, Refuses, Away
    <3>2. pc'[j] \in {"discard", "wait", "merge", "drop"} /\ UNCHANGED <<base, human>> /\ Return(j)
      BY <1>2, <2>8, <3>1 DEF ReturnToBase, ScoreAfter, Decisions, Goto
    <3>3. QED
      BY <1>1, <2>2, <3>1, <3>2 DEF Return, Checkout, Returns, Away
  <2>9. ASSUME Discard(j) PROVE Goal
    BY <1>1, <1>2, <2>2, <2>9 DEF Discard, Fail, End, Goto, DeleteBranch, Returns, Away, Busy, git
  <2>10. ASSUME CommitChanges(j) PROVE Goal
    BY <1>1, <1>2, <2>2, <2>10 DEF CommitChanges, CommitAll, Goto, Returns, Away, Busy
  <2>11. ASSUME MergeBranch(j) PROVE Goal
    <3>1. pc'[j] \in {"delete", "ended"} /\ UNCHANGED <<human, head, branches>>
          /\ (pc'[j] = "delete" => UNCHANGED <<merging, base>>) /\ pc[j] = "merge"
      BY <1>2, <2>11 DEF MergeBranch, Fail, End, Goto, Merge, MergeConflicts, MergeInTree, git
    <3>2. QED
      BY <1>1, <2>2, <3>1 DEF Returns, Away, Busy
  <2>12. ASSUME EndBranch(j) PROVE Goal
    BY <1>1, <1>2, <2>2, <2>12 DEF EndBranch, Fail, End, Goto, DeleteBranch, Returns, Away, Busy, git
  <2>13. Goal
    BY <1>5, <2>4, <2>5, <2>6, <2>7, <2>8, <2>9, <2>10, <2>11, <2>12 DEF Step
  <2>14. QED
    BY <2>1, <2>13, AloneOneStep
<1>6. ASSUME NEW j \in Job, Accept(j) \/ Accepted(j) \/ Reject(j) PROVE Alone'
  <2>1. /\ UNCHANGED <<pc, head>> /\ Main \in branches'
    BY <1>1, <1>6 DEF Accept, Accepted, Reject, Merge, MergeConflicts, MergeInTree, DeleteBranch, git
  <2>2. \A k \in Job : ~Busy(k)
    <3>1. Accept(j) => AtRest
      BY DEF Accept, Upset, Overlap
    <3>2. Reject(j) => AtRest
      BY <1>3 DEF Reject
    <3>3. QED
      BY <1>6, <3>1, <3>2 DEF AtRest, Accepted, Alone, OneAtATime
  <2>3. \A k, l \in human' : k = l
    <3>1. Accept(j) => human = {}
      BY DEF Accept, Upset, Overlap, AtRest
    <3>2. QED
      BY <1>6, <3>1 DEF Accept, Accepted, Reject, Alone, OneAtATime
  <2>4. QED
    BY <2>1, <2>2, <2>3, AloneAtRest
<1>7. ASSUME UNCHANGED <<pc, base, git, human>>, AtRest PROVE Alone'
  BY <1>1, <1>7, AloneAtRest DEF AtRest, git, Alone, OneAtATime
<1>8. ASSUME NEW n \in Note, Write(n) PROVE Alone'
  BY <1>3, <1>7, <1>8 DEF Write
<1>9. ASSUME NEW item \in Erasable, Erase(item) PROVE Alone'
  BY <1>3, <1>7, <1>9 DEF Erase
<1>10. CASE UNCHANGED vars
  BY <1>10 DEF vars, git, Alone, OneAtATime, HeadFollows, Returns, Away, Busy
<1>11. QED
  BY <1>4, <1>5, <1>6, <1>8, <1>9, <1>10 DEF Next

LEMMA AloneCorrect == Spec => [](trouble \subseteq {"conflict"} => Alone)
<1>1. Init => Alone
  BY DEF Init, Alone, OneAtATime, HeadFollows, Returns, Away, Busy
<1>2. TypeOK /\ TypeOK' /\ (trouble \subseteq {"conflict"} => Alone) /\ [Next]_vars =>
        (trouble \subseteq {"conflict"} => Alone)'
  BY AloneStep, TroubleGrows
<1>3. QED
  BY <1>1, <1>2, ReflectTypeCorrect, PTL DEF Spec

(* Once no reflection and no decision is under way the store is back on its*)
(* main branch, whatever write or score has failed and whatever merge has  *)
(* conflicted, unless two of them overlapped or a git command failed.      *)
THEOREM StoreRestsOnMain == Spec => []RestsOnMain
<1>1. (trouble \subseteq {"conflict"} => Alone) => RestsOnMain
  BY DEF RestsOnMain, AtRest, Alone, HeadFollows, Busy, Away
<1>2. QED
  BY <1>1, AloneCorrect, PTL

----------------------------------------------------------------------------
(* What is on the main branch when no two overlap and nothing fails.       *)

LEMMA OutGrows ==
  ASSUME TypeOK, TypeOK',
         \A k \in Job : Merged(k) => Merged(k)' /\ removed[k] \subseteq removed'[k],
         removed[Main] \subseteq removed'[Main]
  PROVE  /\ Out \subseteq Out' /\ removed'[Main] \subseteq Out'
         /\ \A k \in Job : Merged(k)' => removed'[k] \subseteq Out'
BY DEF Out

(* What the other reflections need of a step.                              *)
LEMMA OthersKeep ==
  ASSUME Serial, NEW k \in Job, ~Busy(k), pc'[k] = pc[k], verdict'[k] = verdict[k],
         k \in branches' <=> k \in branches, k \in human' <=> k \in human,
         commit'[k] = commit[k], gone'[k] = gone[k], removed'[k] = removed[k],
         commit[Main] \cup gone[Main] \subseteq commit'[Main] \cup gone'[Main],
         gone[Main] \subseteq gone'[Main]
  PROVE  /\ Placed(k)' /\ Branched(k)' /\ ~Busy(k)' /\ ~Away(k)'
         /\ (Merged(k)' <=> Merged(k)) /\ (Landed(k)' <=> Landed(k))
<1>1. Branched(k) /\ pc[k] \in {"idle", "ended"}
  BY DEF Serial, Busy
<1>2. (Merged(k)' <=> Merged(k)) /\ (Landed(k)' <=> Landed(k))
  BY DEF Merged, Landed
<1>3. Placed(k)' /\ ~Busy(k)' /\ ~Away(k)'
  BY <1>1 DEF Placed, Busy, Away
<1>4. Made(k) => Made(k)'
  BY DEF Made
<1>5. Branched(k)'
  BY <1>1, <1>3, <1>4 DEF Branched, Branchless, Busy
<1>6. QED
  BY <1>2, <1>3, <1>5

(* A step of one reflection that leaves the main branch alone.             *)
LEMMA SerialOneStep ==
  ASSUME TypeOK, TypeOK', Serial, NEW j \in Job, Busy(j),
         \A k \in Job : k # j =>
           /\ ~Busy(k) /\ pc'[k] = pc[k] /\ verdict'[k] = verdict[k]
           /\ (k \in branches' <=> k \in branches)
           /\ commit'[k] = commit[k] /\ gone'[k] = gone[k] /\ removed'[k] = removed[k],
         commit'[Main] = commit[Main], gone'[Main] = gone[Main], removed'[Main] = removed[Main],
         UNCHANGED human, merging' = {},
         removed[j] \subseteq removed'[j], removed'[j] \subseteq removed[j] \cup commit[Main],
         Merged(j) => Merged(j)',
         commit[Main] \ Replaced \subseteq tree',
         \/ tree' \subseteq commit[Main] \cup {Line(j)}
         \/ ~Landed(j) /\ tree' \subseteq commit[Main] \cup Change(j),
         ~Away(j)' => tree' = commit[Main] \/ tree' = commit[Main] \cup {Line(j)},
         Placed(j)', Branched(j)', Decided(j)'
  PROVE  Serial'
<1>1. /\ \A k \in Job : k # j => /\ Placed(k)' /\ Branched(k)' /\ ~Busy(k)' /\ ~Away(k)'
                                 /\ (Merged(k)' <=> Merged(k)) /\ (Landed(k)' <=> Landed(k))
  BY OthersKeep
<1>2. Out \subseteq Out'
  BY <1>1, OutGrows
<1>3. \A k \in Job : Decided(k) /\ Branched(k)
  BY DEF Serial
<1>4. \A k \in Job : removed[k] \cap (Lines \cup {Line(j)}) = {}
  <2>1. Lines \cap Replaced = {} /\ Line(j) \in Lines
    BY FilesApart
  <2>2. QED
    BY <1>3, <2>1 DEF Branched
<1>5. ~Landed(j) => \A b \in Branch : Change(j) \cap removed[b] = {}
  BY <1>3 DEF Decided
<1>6. ~Landed(j) => Change(j) \cap gone[Main] = {}
  BY <1>3 DEF Decided
<1>7. gone[Main] \cap (commit[Main] \cup Lines) = {} /\ commit[Main] \cap Shared # {}
      /\ {Old, Stale} \ Out \subseteq commit[Main]
  BY DEF Serial, MainHolds
<1>8. MainHolds'
  <2>1. gone[Main] \cap tree' = {}
    <3>1. Line(j) \in Lines
      BY FilesApart
    <3>2. QED
      BY <1>6, <1>7, <3>1
  <2>2. (\A k \in Job : ~Away(k)') =>
           /\ commit'[Main] \ tree' \subseteq removed'[Main] \cap Erasable
           /\ (tree' \ commit'[Main]) \cap Replaced = {}
    <3>1. Line(j) \notin Replaced
      BY FilesApart
    <3>2. (\A k \in Job : ~Away(k)') =>
             tree' = commit[Main] \/ tree' = commit[Main] \cup {Line(j)}
      OBVIOUS
    <3>3. QED
      BY <3>1, <3>2
  <2>3. QED
    BY <1>2, <1>7, <2>1, <2>2 DEF MainHolds
<1>9. ASSUME NEW k \in Job, k # j PROVE Decided(k)'
  <2>1. Decided(k) /\ Branched(k)
    BY <1>3
  <2>2. Merged(k)' => /\ Change(k) \ Out' \subseteq commit'[Main]
                      /\ removed'[k] \cap (commit'[Main] \cup tree') = {}
    BY ZenonT(60), <1>1, <1>2, <1>4, <1>5, <1>9, <2>1, FilesApart DEF Decided
  <2>3. ~Landed(k)' => /\ Change(k) \cap (commit'[Main] \cup gone'[Main]) = {}
                       /\ \A b \in Branch : Change(k) \cap removed'[b] = {}
                       /\ Change(k) \cap tree' = {}
    <3>1. ASSUME ~Landed(k)'
          PROVE  /\ Change(k) \cap (commit[Main] \cup gone[Main]) = {}
                 /\ \A b \in Branch : Change(k) \cap removed[b] = {}
                 /\ Change(k) \cap (Change(j) \cup {Line(j)}) = {}
      <4>1. ~Landed(k)
        BY <1>1, <1>9, <3>1
      <4>2. Change(k) \cap Lines = {} /\ Line(j) \in Lines /\ Change(k) \cap Change(j) = {}
        BY <1>9, FilesApart
      <4>3. QED
        BY <2>1, <4>1, <4>2 DEF Decided
    <3>2. QED
      BY <1>9, <3>1, FilesApart
  <2>4. verdict'[k] \in {"accepted", "rejected"} => Line(k) \in tree' /\ Line(k) \in commit'[Main]
    BY <1>9, <2>1, FilesApart DEF Decided
  <2>5. QED
    BY <1>1, <2>2, <2>3, <2>4 DEF Decided
<1>10. QED
  BY <1>1, <1>8, <1>9 DEF Serial

(* A merge of a branch that waits brings its change, takes out what it has *)
(* removed, and nothing else.                                              *)
LEMMA MergeIsChange ==
  ASSUME TypeOK, Serial, NEW j \in Job, Made(j), ~Landed(j), head = Main,
         \A k \in Job : ~Away(k), Merge(j)
  PROVE  /\ commit'[Main] = (commit[Main] \ removed[j]) \cup Change(j)
         /\ tree' = (tree \ removed[j]) \cup Change(j)
         /\ gone'[Main] = gone[Main] \cup removed[j]
         /\ \A k \in Job : commit'[k] = commit[k] /\ gone'[k] = gone[k]
         /\ UNCHANGED <<head, branches, merging>>
<1>1. /\ commit \in [Branch -> SUBSET Content] /\ gone \in [Branch -> SUBSET Content]
      /\ Main \in Branch /\ j \in Branch /\ \A k \in Job : k # Main /\ k \in Branch
  BY FilesApart DEF TypeOK
<1>2. /\ Change(j) \cap (commit[Main] \cup gone[Main]) = {} /\ removed[j] \subseteq Replaced
      /\ gone[Main] \cap commit[Main] = {} /\ (tree \ commit[Main]) \cap Replaced = {}
      /\ gone[Main] \cap tree = {}
  BY DEF Serial, Decided, Branched, MainHolds
<1>3. Brought(j) = Change(j)
  BY <1>2 DEF Brought, Made
<1>4. Taken(j) = removed[j] \cap commit[Main]
  BY <1>2 DEF Taken, Made
<1>5. /\ commit' = [commit EXCEPT ![Main] = (@ \ Taken(j)) \cup Brought(j)]
      /\ gone' = [gone EXCEPT ![Main] = @ \cup gone[j]]
      /\ tree' = (tree \ Taken(j)) \cup Brought(j) /\ UNCHANGED <<head, branches, merging>>
  BY DEF Merge, MergeInTree
<1>6. tree \ Taken(j) = tree \ removed[j]
  BY <1>2, <1>4
<1>7. commit[Main] \ Taken(j) = commit[Main] \ removed[j]
  BY <1>4
<1>8. gone[Main] \cup gone[j] = gone[Main] \cup removed[j]
  BY DEF Made
<1>9. QED
  BY <1>1, <1>3, <1>5, <1>6, <1>7, <1>8

(* Once it is merged the change is taken in; the others keep their place.  *)
LEMMA MergeSerial ==
  ASSUME TypeOK, TypeOK', Serial, NEW j \in Job, Made(j), ~Landed(j), head = Main,
         \A k \in Job : ~Away(k) /\ ~Away(k)', Merge(j),
         Merged(j)', Busy(j)' => Busy(j), UNCHANGED <<verdict, removed>>,
         \A k \in Job : k # j => /\ ~Busy(k) /\ pc'[k] = pc[k]
                                 /\ (k \in human' <=> k \in human)
  PROVE  /\ MainHolds' /\ merging' = {} /\ Decided(j)'
         /\ \A k \in Job : k # j => Placed(k)' /\ Branched(k)' /\ Decided(k)'
         /\ tree = commit[Main] => tree' = commit'[Main]
<1>1. /\ commit'[Main] = (commit[Main] \ removed[j]) \cup Change(j)
      /\ tree' = (tree \ removed[j]) \cup Change(j)
      /\ gone'[Main] = gone[Main] \cup removed[j]
      /\ \A k \in Job : commit'[k] = commit[k] /\ gone'[k] = gone[k]
      /\ UNCHANGED <<head, branches, merging>>
  BY MergeIsChange
<1>2. \A k \in Job : k # j => /\ Placed(k)' /\ Branched(k)' /\ ~Busy(k)'
                              /\ (Merged(k)' <=> Merged(k)) /\ (Landed(k)' <=> Landed(k))
  BY <1>1, OthersKeep
<1>3. Out \subseteq Out' /\ removed[j] \subseteq Out'
  BY <1>2, OutGrows
<1>4. \A k \in Job : Decided(k) /\ Branched(k)
  BY DEF Serial
<1>5. /\ Change(j) \cap (commit[Main] \cup gone[Main]) = {}
      /\ \A b \in Branch : Change(j) \cap removed[b] = {}
  BY <1>4 DEF Decided
<1>6. /\ removed[j] \subseteq Replaced /\ removed[j] \cap Lines = {}
      /\ Change(j) \cap Lines = {} /\ j \in Branch
  BY <1>4, FilesApart DEF Branched
<1>7. /\ gone[Main] \cap (commit[Main] \cup tree \cup Lines) = {}
      /\ {Old, Stale} \ Out \subseteq commit[Main] /\ merging = {}
      /\ commit[Main] \ tree \subseteq removed[Main] \cap Erasable
      /\ (tree \ commit[Main]) \cap Replaced = {}
  BY DEF Serial, MainHolds
<1>8. MainHolds'
  <2>1. gone'[Main] \cap (commit'[Main] \cup tree' \cup Lines) = {}
    BY <1>1, <1>5, <1>6, <1>7
  <2>2. commit'[Main] \cap Shared # {}
    BY <1>1, FilesApart
  <2>3. {Old, Stale} \ Out' \subseteq commit'[Main]
    BY <1>1, <1>3, <1>7
  <2>4. /\ commit'[Main] \ tree' \subseteq removed'[Main] \cap Erasable
        /\ (tree' \ commit'[Main]) \cap Replaced = {}
    BY <1>1, <1>7
  <2>5. QED
    BY <2>1, <2>2, <2>3, <2>4 DEF MainHolds
<1>9. Decided(j)'
  <2>1. removed'[j] \cap (commit'[Main] \cup tree') = {} /\ Change(j) \subseteq commit'[Main]
    BY <1>1, <1>5, <1>6
  <2>2. Landed(j)' /\ verdict'[j] = "none"
    BY DEF Landed, Made
  <2>3. QED
    BY <2>1, <2>2 DEF Decided
<1>10. ASSUME NEW k \in Job, k # j PROVE Decided(k)'
  <2>1. Decided(k) /\ removed[k] \cap Change(j) = {} /\ Change(k) \cap Change(j) = {} /\ k \in Branch
    BY <1>4, <1>5, <1>10, FilesApart
  <2>2. Merged(k)' => /\ Change(k) \ Out' \subseteq commit'[Main]
                      /\ removed'[k] \cap (commit'[Main] \cup tree') = {}
    BY <1>1, <1>2, <1>3, <1>10, <2>1 DEF Decided
  <2>3. ~Landed(k)' => /\ Change(k) \cap (commit'[Main] \cup gone'[Main]) = {}
                       /\ \A b \in Branch : Change(k) \cap removed'[b] = {}
                       /\ Change(k) \cap tree' = {}
    <3>1. pc[k] \notin {"commit", "after", "reset"}
      BY <1>10 DEF Busy
    <3>2. QED
      BY <1>1, <1>2, <1>6, <1>10, <2>1, <3>1 DEF Decided
  <2>4. verdict'[k] \in {"accepted", "rejected"} => Line(k) \in tree'
        /\ (Line(k) \in commit[Main] => Line(k) \in commit'[Main])
    BY <1>1, <1>6, <2>1, FilesApart DEF Decided
  <2>5. (\E l \in Job : Busy(l)') => \E l \in Job : Busy(l)
    BY <1>2
  <2>6. QED
    BY <1>2, <2>1, <2>2, <2>3, <2>4, <2>5 DEF Decided
<1>11. QED
  BY <1>1, <1>2, <1>7, <1>8, <1>9, <1>10

(* The steps of a reflection after its first.                              *)
LEMMA SerialReflection ==
  ASSUME TypeOK, TypeOK', Alone, Serial, NEW j \in Job, Step(j), ~CommitPending(j),
         trouble' = {}
  PROVE  Serial'
<1>1. /\ j # Main /\ Main \in Branch /\ j \in Branch
      /\ pc \in [Job -> Place] /\ base \in [Job -> Branch]
      /\ commit \in [Branch -> SUBSET Content] /\ gone \in [Branch -> SUBSET Content]
      /\ removed \in [Branch -> SUBSET Content]
      /\ verdict \in [Job -> {"none", "accepted", "rejected", "failed"}]
      /\ \A k \in Job : k # Main /\ k \in Branch
  BY FilesApart DEF TypeOK
<1>2. Busy(j) /\ \A k \in Job : k # j => pc'[k] = pc[k] /\ base'[k] = base[k]
  BY Moves
<1>3. /\ human = {} /\ \A k \in Job : k # j => ~Busy(k)
      /\ merging = {} /\ (pc[j] # "base" => base[j] = Main)
      /\ IF Away(j) THEN head = j ELSE head = Main
  BY <1>2 DEF Alone, Returns, HeadFollows, OneAtATime, Away, Busy
<1>4. Placed(j) /\ Branched(j) /\ Decided(j) /\ MainHolds
  BY DEF Serial
<1>5. /\ pc[j] \in {"change", "commit", "reset", "return"} => commit[j] = commit[Main]
      /\ pc[j] = "after" => tree = commit[j]
  BY DEF Alone, Returns
<1>6. /\ Line(j) \in Lines /\ Line(j) \notin Replaced /\ Line(j) \notin Change(j)
      /\ <<j, 1>> \in Change(j) /\ <<j, 1>> \in Shared /\ Shared \subseteq Replaced
  BY FilesApart
<1>7. /\ gone[Main] \cap (commit[Main] \cup tree \cup Lines) = {} /\ commit[Main] \cap Shared # {}
  BY <1>4 DEF MainHolds
<1>8. ASSUME pc[j] # "delete"
      PROVE  /\ ~Merged(j) /\ ~Landed(j) /\ verdict[j] = "none"
             /\ Change(j) \cap (commit[Main] \cup gone[Main]) = {}
             /\ \A b \in Branch : Change(j) \cap removed[b] = {}
             /\ pc[j] \notin {"commit", "after", "reset"} => Change(j) \cap tree = {}
  <2>1. verdict[j] = "none"
    BY <1>2, <1>4 DEF Branched
  <2>2. ~Merged(j) /\ ~Landed(j)
    BY <1>3, <1>8, <2>1 DEF Merged, Landed
  <2>3. QED
    BY <1>4, <2>1, <2>2 DEF Decided
<1>9. removed[j] \subseteq Replaced /\ removed[j] \cap Lines = {}
  BY <1>4, FilesApart DEF Branched
<1>10. ~GitFails(j)
  BY DEF GitFails, Upset
(* Steps after which the reflection is in the tree as it was, or ended.    *)
<1>11. ASSUME UNCHANGED <<commit, gone, removed, human, merging, branches, verdict>>,
              pc[j] # "delete", tree' = commit[Main], pc'[j] \notin {"delete", "idle", "base"},
              Placed(j)', Branched(j)'
       PROVE  Serial'
  <2>1. /\ ~Merged(j) /\ ~Landed(j) /\ verdict[j] = "none"
        /\ Change(j) \cap (commit[Main] \cup gone[Main]) = {}
        /\ \A b \in Branch : Change(j) \cap removed[b] = {}
    BY <1>8, <1>11
  <2>2. Decided(j)'
    BY <1>3, <1>11, <2>1 DEF Decided, Merged, Landed
  <2>3. QED
    BY <1>2, <1>3, <1>11, <2>1, <2>2, SerialOneStep
<1>12. ASSUME ReadBase(j) PROVE Serial'
  <2>1. /\ pc[j] = "base" /\ UNCHANGED <<git, human, removed>> /\ tree = commit[Main]
        /\ j \notin branches /\ removed[j] = {}
    BY <1>4, <1>12 DEF ReadBase, Placed, Branched, Branchless
  <2>2. CASE pc'[j] = "branch" /\ UNCHANGED <<tree, verdict>>
    <3>1. Placed(j)' /\ Branched(j)'
      BY <1>3, <1>8, <2>1, <2>2 DEF Placed, Branched, Branchless, Busy, git
    <3>2. QED
      BY <1>11, <2>1, <2>2, <3>1 DEF git
  <2>3. CASE \E v \in {"rejected", "failed"} :
               /\ End(j, v)
               /\ (v = "rejected" /\ tree' = tree \cup {Line(j)}) \/ (v = "failed" /\ tree' = tree)
    <3>1. PICK v \in {"rejected", "failed"} :
               /\ End(j, v)
               /\ (v = "rejected" /\ tree' = tree \cup {Line(j)}) \/ (v = "failed" /\ tree' = tree)
      BY <2>3
    <3>2. /\ pc'[j] = "ended" /\ verdict'[j] = v
          /\ \A k \in Job : k # j => verdict'[k] = verdict[k]
      BY <1>1, <3>1 DEF End, Goto
    <3>3. ~Busy(j)' /\ ~Away(j)' /\ \A k \in Job : ~Busy(k)'
      BY <1>2, <1>3, <3>2 DEF Busy, Away
    <3>4. Placed(j)' /\ Branched(j)'
      BY <1>3, <2>1, <3>2, <3>3 DEF Placed, Branched, Branchless, Busy, git
    <3>5. Decided(j)'
      BY <1>3, <1>6, <1>8, <2>1, <3>1, <3>2, <3>3 DEF Decided, Merged, Landed, git
    <3>6. QED
      BY <1>2, <1>3, <1>8, <2>1, <3>1, <3>2, <3>3, <3>4, <3>5, SerialOneStep DEF git
  <2>4. QED
    BY <1>1, <1>12, <2>2, <2>3 DEF ReadBase, Fail, Log, Goto
<1>13. ASSUME NewBranch(j) PROVE Serial'
  <2>1. /\ pc[j] = "branch" /\ pc'[j] = "change" /\ head = Main /\ tree = commit[Main]
        /\ j \notin branches /\ removed[j] = {} /\ verdict[j] = "none"
    BY <1>1, <1>3, <1>4, <1>13 DEF NewBranch, Placed, Branched, Branchless, Goto, Away
  <2>2. /\ \A b \in Branch : /\ commit'[b] = (IF b = j THEN commit[Main] ELSE commit[b])
                             /\ gone'[b] = (IF b = j THEN gone[Main] ELSE gone[b])
        /\ branches' = branches \cup {j} /\ UNCHANGED <<merging, tree, human, verdict, removed>>
    BY <1>1, <1>13, <2>1 DEF NewBranch
  <2>3. Placed(j)' /\ Branched(j)'
    BY <1>1, <1>3, <2>1, <2>2 DEF Placed, Branched, Branchless, Busy
  <2>4. Decided(j)'
    BY <1>1, <1>3, <1>8, <2>1, <2>2 DEF Decided, Merged, Landed
  <2>5. QED
    BY <1>1, <1>2, <1>3, <1>8, <2>1, <2>2, <2>3, <2>4, SerialOneStep
<1>14. ASSUME ApplyChanges(j) PROVE Serial'
  <2>1. /\ pc[j] = "change" /\ tree = commit[Main] /\ removed[j] = {} /\ gone[j] = gone[Main]
        /\ j \in branches /\ UNCHANGED <<base, git, human, verdict, written, trouble>>
        /\ verdict[j] = "none"
    BY <1>4, <1>14 DEF ApplyChanges, Placed, Branched, Branchless, Busy
  <2>2. \/ pc'[j] = "reset" /\ tree' = tree /\ removed' = removed
        \/ /\ \/ pc'[j] = "commit" /\ tree' = (tree \ Replaced) \cup Change(j)
              \/ pc'[j] = "reset" /\ tree' = (tree \ Replaced) \cup {<<j, 1>>}
           /\ removed' = [removed EXCEPT ![j] = @ \cup (tree \cap Replaced)]
    BY <1>1, <1>14 DEF ApplyChanges, Goto
  <2>3. /\ \A k \in Job : k # j => removed'[k] = removed[k]
        /\ removed'[Main] = removed[Main]
        /\ removed'[j] = {} \/ removed'[j] = commit[Main] \cap Replaced
        /\ pc'[j] = "commit" => removed'[j] = commit[Main] \cap Replaced
        /\ \A b \in Branch : b # j => removed'[b] = removed[b]
    BY <1>1, <2>1, <2>2
  <2>4. Placed(j)' /\ Branched(j)'
    BY <1>1, <1>3, <1>6, <2>1, <2>2, <2>3 DEF Placed, Branched, Branchless, Busy, git
  <2>5. Decided(j)'
    BY <1>1, <1>3, <1>8, <2>1, <2>2, <2>3 DEF Decided, Merged, Landed, git
  <2>6. tree' \subseteq commit[Main] \cup Change(j) /\ commit[Main] \ Replaced \subseteq tree' /\ Away(j)'
    BY <1>6, <2>1, <2>2 DEF Away
  <2>7. removed[j] \subseteq removed'[j] /\ removed'[j] \subseteq removed[j] \cup commit[Main]
    BY <2>1, <2>3
  <2>8. QED
    BY <1>1, <1>2, <1>3, <1>8, <2>1, <2>3, <2>4, <2>5, <2>6, <2>7, SerialOneStep DEF git
<1>15. ASSUME Reset(j) PROVE Serial'
  <2>1. /\ pc[j] = "reset" /\ pc'[j] = "return" /\ head = j /\ commit[j] = commit[Main]
        /\ tree \subseteq commit[Main] \cup {<<j, 1>>} /\ j \in branches /\ verdict[j] = "none"
        /\ UNCHANGED <<base, head, branches, commit, gone, human, verdict, removed>> /\ merging' = {}
    BY <1>1, <1>3, <1>4, <1>5, <1>15 DEF Reset, Placed, Branched, Branchless, Busy, Goto, Away
  <2>2. PICK new \in SUBSET (tree \ commit[Main]) :
           ~Meet(new, commit[Main]) /\ tree' = commit[Main] \cup new
    BY <1>15, <2>1 DEF Reset, Uncommitted
  <2>3. tree' = commit[Main]
    BY <1>6, <1>7, <2>1, <2>2 DEF Meet
  <2>4. Placed(j)' /\ Branched(j)'
    BY <1>3, <1>9, <2>1, <2>3 DEF Placed, Branched, Branchless, Busy
  <2>5. QED
    BY <1>3, <1>11, <2>1, <2>3, <2>4
<1>16. ASSUME ReturnToBase(j) \/ ScoreAfter(j) PROVE Serial'
  <2>1. /\ pc[j] \in {"return", "after"} /\ head = j /\ base[j] = Main /\ j \in branches
        /\ verdict[j] = "none"
    BY <1>3, <1>4, <1>16 DEF ReturnToBase, ScoreAfter, Away, Branched, Branchless, Busy
  <2>2. Main \in branches
    BY DEF Alone
  <2>3. ~Refuses(base[j])
    BY <1>3, <1>5, <2>1, <2>2 DEF Refuses
  <2>4. /\ Return(j) /\ UNCHANGED <<base, verdict, human, removed>>
        /\ pc[j] = "return" => pc'[j] = "discard"
        /\ pc[j] = "after" => pc'[j] \in {"wait", "merge", "drop"}
    BY <1>1, <1>16, <2>3 DEF ReturnToBase, ScoreAfter, Decisions, Goto
  <2>5. /\ UNCHANGED <<branches, commit, gone, merging>>
        /\ tree' = (commit[Main] \ (commit[j] \ tree)) \cup (tree \ commit[j])
    BY <2>1, <2>4 DEF Return, Checkout, Uncommitted
  <2>6. pc[j] = "return" => tree = commit[j]
    BY <1>4, <1>5 DEF Placed
  <2>7. tree' = commit[Main]
    BY <1>5, <2>1, <2>5, <2>6
  <2>8. Placed(j)'
    BY <2>1, <2>4, <2>5, <2>7 DEF Placed
  <2>9. pc[j] = "after" => Made(j)
    BY <1>4, <2>1 DEF Branched
  <2>10. Made(j) => Made(j)'
    BY <2>4, <2>5 DEF Made
  <2>11. Branched(j)'
    BY <1>3, <1>9, <2>1, <2>4, <2>5, <2>9, <2>10 DEF Branched, Branchless, Busy
  <2>12. QED
    BY <1>11, <2>1, <2>4, <2>5, <2>7, <2>8, <2>11
<1>17. ASSUME Discard(j) PROVE Serial'
  <2>1. /\ pc[j] = "discard" /\ head = Main /\ tree = commit[Main] /\ j \in branches
        /\ UNCHANGED <<tree, human, removed>>
    BY <1>2, <1>3, <1>4, <1>17 DEF Discard, Placed, Branched, Branchless, Away
  <2>2. Deletable(j)
    BY <1>1, <2>1 DEF Deletable
  <2>3. /\ pc'[j] = "ended" /\ verdict'[j] = "failed" /\ branches' = branches \ {j}
        /\ \A k \in Job : k # j => verdict'[k] = verdict[k]
        /\ \A b \in Branch : b # j => commit'[b] = commit[b] /\ gone'[b] = gone[b]
        /\ UNCHANGED merging
    BY <1>1, <1>17, <2>2 DEF Discard, DeleteBranch, Fail, End, Goto
  <2>4. ~Busy(j)' /\ ~Away(j)'
    BY <2>3 DEF Busy, Away
  <2>5. Placed(j)' /\ Branched(j)' /\ Decided(j)'
    BY <1>3, <1>9, <2>1, <2>3, <2>4 DEF Placed, Branched, Branchless, Decided, Merged, Landed
  <2>6. QED
    BY <1>1, <1>2, <1>3, <1>8, <2>1, <2>3, <2>4, <2>5, SerialOneStep
<1>18. ASSUME CommitChanges(j) PROVE Serial'
  <2>1. /\ pc[j] = "commit" /\ pc'[j] = "after" /\ head = j /\ commit[j] = commit[Main]
        /\ gone[j] = gone[Main] /\ removed[j] = commit[Main] \cap Replaced
        /\ tree = (commit[Main] \ Replaced) \cup Change(j)
        /\ UNCHANGED <<base, tree, human, verdict, removed>> /\ CommitAll
        /\ j \in branches /\ verdict[j] = "none"
    BY <1>1, <1>3, <1>4, <1>5, <1>18 DEF CommitChanges, Placed, Branched, Branchless, Busy, Goto, Away
  <2>2. UNION {commit[b] \cup gone[b] : b \in merging} = {}
    BY <1>3
  <2>3. /\ commit' = [commit EXCEPT ![j] = tree]
        /\ gone' = [gone EXCEPT ![j] = (gone[Main] \cup commit[Main]
                                          \cup UNION {commit[b] \cup gone[b] : b \in merging}) \ tree]
        /\ merging' = {} /\ UNCHANGED branches
    BY <1>1, <2>1 DEF CommitAll
  <2>4. /\ commit'[j] = tree /\ gone'[j] = (gone[Main] \cup commit[Main]) \ tree
        /\ \A b \in Branch : b # j => commit'[b] = commit[b] /\ gone'[b] = gone[b]
    BY <1>1, <2>2, <2>3
  <2>5. Made(j)'
    BY <1>1, <1>7, <1>8, <2>1, <2>4 DEF Made
  <2>6. Placed(j)' /\ Branched(j)'
    BY <1>1, <1>3, <1>9, <2>1, <2>3, <2>4, <2>5 DEF Placed, Branched, Branchless, Busy
  <2>7. Decided(j)'
    BY <1>1, <1>3, <1>8, <2>1, <2>4 DEF Decided, Merged, Landed
  <2>8. tree' \subseteq commit[Main] \cup Change(j) /\ commit[Main] \ Replaced \subseteq tree' /\ Away(j)'
    BY <2>1 DEF Away
  <2>9. QED
    BY <1>1, <1>2, <1>3, <1>8, <2>1, <2>3, <2>4, <2>6, <2>7, <2>8, SerialOneStep
<1>19. ASSUME Pending(j) PROVE Serial'
  <2>1. /\ pc[j] = "wait" /\ tree = commit[Main] /\ j \in branches /\ verdict[j] = "none" /\ Made(j)
        /\ UNCHANGED <<git, human, removed>>
    BY <1>2, <1>4, <1>19 DEF Pending, Placed, Branched, Branchless
  <2>2. /\ pc'[j] = "ended" /\ tree' = tree \cup {Line(j)} /\ verdict'[j] = "none"
        /\ \A k \in Job : k # j => verdict'[k] = verdict[k]
    BY <1>1, <1>19 DEF Pending, End, Goto, Log
  <2>3. Made(j)' /\ ~Busy(j)' /\ ~Away(j)'
    BY <2>1, <2>2 DEF Made, git, Busy, Away
  <2>4. Placed(j)' /\ Branched(j)'
    BY <1>3, <1>9, <2>1, <2>2, <2>3 DEF Placed, Branched, Branchless
  <2>5. Decided(j)'
    BY <1>3, <1>6, <1>8, <2>1, <2>2 DEF Decided, Merged, Landed, git
  <2>6. QED
    BY <1>2, <1>3, <1>8, <2>1, <2>2, <2>3, <2>4, <2>5, SerialOneStep DEF git
<1>20. ASSUME MergeBranch(j) PROVE Serial'
  <2>1. /\ pc[j] = "merge" /\ head = Main /\ tree = commit[Main] /\ j \in branches /\ Made(j)
        /\ UNCHANGED <<human, removed>>
    BY <1>2, <1>3, <1>4, <1>20 DEF MergeBranch, Placed, Branched, Branchless, Away
  <2>2. ~Refuses(j)
    BY <1>3, <2>1 DEF Refuses
  <2>3. pc'[j] = "delete" /\ Merge(j) /\ UNCHANGED verdict
    BY <1>1, <1>20, <2>2 DEF MergeBranch, Upset, Goto
  <2>4. \A k \in Job : ~Away(k) /\ ~Away(k)'
    BY <1>2, <1>3, <2>1, <2>3 DEF Away, Busy
  <2>5. Merged(j)' /\ ~Landed(j)
    BY <1>8, <2>1, <2>3 DEF Merged
  <2>6. /\ MainHolds' /\ merging' = {} /\ Decided(j)'
        /\ \A k \in Job : k # j => Placed(k)' /\ Branched(k)' /\ Decided(k)'
        /\ tree' = commit'[Main]
    BY <1>2, <1>3, <2>1, <2>3, <2>4, <2>5, MergeSerial
  <2>7. /\ commit'[Main] = (commit[Main] \ removed[j]) \cup Change(j)
        /\ gone'[Main] = gone[Main] \cup removed[j]
        /\ commit'[j] = commit[j] /\ gone'[j] = gone[j] /\ UNCHANGED branches
    BY <2>1, <2>3, <2>4, <2>5, MergeIsChange
  <2>8. Made(j)'
    BY <2>1, <2>3, <2>7 DEF Made
  <2>9. Placed(j)' /\ Branched(j)'
    BY <1>3, <1>9, <2>1, <2>3, <2>6, <2>7, <2>8 DEF Placed, Branched, Branchless, Made
  <2>10. QED
    BY <2>6, <2>9 DEF Serial
<1>21. ASSUME EndBranch(j) PROVE Serial'
  <2>1. /\ pc[j] \in {"delete", "drop"} /\ head = Main /\ tree = commit[Main] /\ j \in branches
        /\ UNCHANGED <<human, removed>>
    BY <1>2, <1>3, <1>4, <1>21 DEF EndBranch, Placed, Branched, Branchless, Away
  <2>2. Deletable(j)
    BY <1>1, <2>1 DEF Deletable
  <2>3. /\ pc'[j] = "ended" /\ branches' = branches \ {j} /\ tree' = tree \cup {Line(j)}
        /\ verdict'[j] = (IF pc[j] = "delete" THEN "accepted" ELSE "rejected")
        /\ \A k \in Job : k # j => verdict'[k] = verdict[k]
        /\ \A b \in Branch : b # j => commit'[b] = commit[b] /\ gone'[b] = gone[b]
        /\ UNCHANGED merging
    BY <1>1, <1>21, <2>2 DEF EndBranch, DeleteBranch, Log, End, Goto
  <2>4. ~Busy(j)' /\ ~Away(j)' /\ \A k \in Job : ~Busy(k)'
    BY <1>2, <1>3, <2>3 DEF Busy, Away
  <2>5. Placed(j)' /\ Branched(j)'
    BY <1>1, <1>3, <1>9, <2>1, <2>3, <2>4 DEF Placed, Branched, Branchless, Busy
  <2>6. Merged(j)' <=> pc[j] = "delete"
    BY <1>3, <2>1, <2>3 DEF Merged
  <2>7. Merged(j) => Merged(j)'
    BY <1>8, <2>6
  <2>8. CASE pc[j] = "delete"
    <3>1. \A k \in Job : Merged(k) => Merged(k)'
      BY <1>2, <1>3, <2>1, <2>3, <2>7 DEF Merged
    <3>2. Out \subseteq Out'
      BY <2>1, <3>1, OutGrows
    <3>3. Change(j) \ Out \subseteq commit[Main] /\ removed[j] \cap (commit[Main] \cup tree) = {}
      BY <1>4, <2>8 DEF Decided, Merged
    <3>4. Decided(j)'
      BY <1>1, <1>9, <1>6, <2>1, <2>3, <2>4, <2>8, <3>2, <3>3 DEF Decided, Landed, Merged
    <3>5. QED
      BY <1>1, <1>2, <1>3, <2>1, <2>3, <2>4, <2>5, <2>7, <3>4, SerialOneStep
  <2>9. CASE pc[j] = "drop"
    <3>1. Decided(j)'
      BY <1>1, <1>3, <1>6, <1>8, <2>1, <2>3, <2>4, <2>6, <2>9 DEF Decided, Landed
    <3>2. QED
      BY <1>1, <1>2, <1>3, <2>1, <2>3, <2>4, <2>5, <2>7, <3>1, SerialOneStep
  <2>10. QED
    BY <2>1, <2>8, <2>9
<1>22. QED
  BY <1>10, <1>12, <1>13, <1>14, <1>15, <1>16, <1>17, <1>18, <1>19, <1>20, <1>21 DEF Step

(* The others: decisions, sessions, and the first step of a reflection.    *)
LEMMA SerialStep ==
  ASSUME TypeOK, TypeOK', OnlyWrittenNotes, Alone, Alone', Serial, [Next]_vars, trouble' = {}
  PROVE  Serial'
<1>1. /\ Main \in Branch /\ pc \in [Job -> Place]
      /\ commit \in [Branch -> SUBSET Content] /\ gone \in [Branch -> SUBSET Content]
      /\ removed \in [Branch -> SUBSET Content] /\ human \subseteq Job
      /\ verdict \in [Job -> {"none", "accepted", "rejected", "failed"}]
      /\ \A k \in Job : k # Main /\ k \in Branch
  BY FilesApart DEF TypeOK
<1>2. /\ merging = {} /\ MainHolds /\ gone[Main] \cap (commit[Main] \cup tree \cup Lines) = {}
      /\ commit[Main] \cap Shared # {} /\ {Old, Stale} \ Out \subseteq commit[Main]
      /\ \A k \in Job : Placed(k) /\ Branched(k) /\ Decided(k)
  BY DEF Serial, MainHolds
<1>3. ASSUME \A k \in Job : ~Busy(k)
      PROVE  /\ head = Main /\ \A k \in Job : pc[k] \in {"idle", "ended"} /\ ~Away(k)
             /\ commit[Main] \ tree \subseteq removed[Main] \cap Erasable
             /\ (tree \ commit[Main]) \cap Replaced = {}
             /\ \A k \in Job : ~Landed(k) => Change(k) \cap tree = {}
  <2>1. \A k \in Job : pc[k] \in {"idle", "ended"} /\ ~Away(k)
    BY <1>3 DEF Busy, Away
  <2>2. head = Main
    BY <2>1 DEF Alone, HeadFollows
  <2>3. \A k \in Job : ~Landed(k) => Change(k) \cap tree = {}
    BY <1>2, <2>1 DEF Decided
  <2>4. QED
    BY <1>2, <2>1, <2>2, <2>3 DEF MainHolds
<1>4. \A who : Upset(Overlap(who)) => AtRest
  BY DEF Upset, Overlap
(* Steps that leave all but the tree and what the sessions removed.        *)
<1>5. ASSUME UNCHANGED <<pc, git, human, verdict>>, \A k \in Job : ~Busy(k),
             \A k \in Job : removed'[k] = removed[k],
             removed[Main] \subseteq removed'[Main], tree \cap Lines \subseteq tree',
             tree \ tree' \subseteq removed'[Main] \cap Erasable,
             removed'[Main] \subseteq removed[Main] \cup tree,
             tree' \ tree \subseteq Note \ gone[Main]
      PROVE  Serial'
  <2>1. \A k \in Job : /\ Placed(k)' /\ Branched(k)' /\ ~Busy(k)' /\ ~Away(k)'
                       /\ (Merged(k)' <=> Merged(k)) /\ (Landed(k)' <=> Landed(k))
    BY <1>5, OthersKeep DEF git
  <2>2. Out \subseteq Out'
    BY <1>5, <2>1, OutGrows
  <2>3. MainHolds'
    <3>1. gone'[Main] \cap (commit'[Main] \cup tree' \cup Lines) = {}
      BY <1>2, <1>5 DEF git
    <3>2. commit'[Main] \ tree' \subseteq removed'[Main] \cap Erasable
      BY <1>3, <1>5 DEF git
    <3>3. (tree' \ commit'[Main]) \cap Replaced = {}
      BY <1>3, <1>5, FilesApart DEF git
    <3>4. {Old, Stale} \ Out' \subseteq commit'[Main] /\ commit'[Main] \cap Shared # {}
      BY <1>2, <1>5, <2>2 DEF git
    <3>5. QED
      BY <3>1, <3>2, <3>3, <3>4 DEF MainHolds
  <2>4. ASSUME NEW k \in Job PROVE Decided(k)'
    <3>1. Decided(k) /\ removed[k] \subseteq Replaced
      BY <1>2 DEF Branched
    <3>2. Merged(k)' => /\ Change(k) \ Out' \subseteq commit'[Main]
                        /\ removed'[k] \cap (commit'[Main] \cup tree') = {}
      BY <1>5, <2>1, <2>2, <3>1, FilesApart DEF Decided, git
    <3>3. ~Landed(k)' => /\ Change(k) \cap (commit'[Main] \cup gone'[Main]) = {}
                         /\ \A b \in Branch : Change(k) \cap removed'[b] = {}
                         /\ Change(k) \cap tree' = {}
      <4>1. \A b \in Branch : b = Main \/ b \in Job
        BY FilesApart
      <4>2. Change(k) \cap Note = {}
        BY FilesApart
      <4>3. ~Landed(k)' => /\ Change(k) \cap (commit[Main] \cup gone[Main]) = {}
                           /\ \A b \in Branch : Change(k) \cap removed[b] = {}
                           /\ Change(k) \cap tree = {}
        BY <1>3, <1>5, <2>1, <3>1 DEF Decided
      <4>4. QED
        BY <1>1, <1>5, <4>1, <4>2, <4>3 DEF git
    <3>4. verdict'[k] \in {"accepted", "rejected"} => Line(k) \in tree'
      BY <1>5, <3>1, FilesApart DEF Decided
    <3>5. QED
      BY <2>1, <3>2, <3>3, <3>4 DEF Decided
  <2>5. QED
    BY <1>2, <1>5, <2>1, <2>3, <2>4 DEF Serial, git
<1>6. ASSUME NEW n \in Note, Write(n) PROVE Serial'
  <2>1. AtRest /\ n \notin gone[Main]
    BY <1>1, <1>4, <1>6 DEF Write, OnlyWrittenNotes
  <2>2. QED
    BY <1>5, <1>6, <2>1 DEF Write, AtRest
<1>7. ASSUME NEW item \in Erasable, Erase(item) PROVE Serial'
  <2>1. /\ \A k \in Job : removed'[k] = removed[k]
        /\ removed'[Main] = removed[Main] \cup {item} /\ item \in tree
        /\ item \notin Lines /\ tree' = tree \ {item} /\ AtRest
        /\ UNCHANGED <<pc, git, human, verdict>>
    BY <1>1, <1>4, <1>7, FilesApart DEF Erase
  <2>2. QED
    BY <1>5, <1>7, <2>1 DEF AtRest
<1>8. ASSUME NEW j \in Job, CommitPending(j) PROVE Serial'
  <2>1. /\ AtRest /\ head = Main /\ pc[j] = "idle"
        /\ \A k \in Job : pc'[k] = IF k = j THEN "base" ELSE pc[k]
        /\ UNCHANGED <<base, tree, human, verdict, removed, branches>> /\ CommitAll
    BY <1>1, <1>3, <1>4, <1>8 DEF CommitPending, AtRest, Goto, CommitAll
  <2>2. UNION {commit[b] \cup gone[b] : b \in merging} = {}
    BY <1>2
  <2>3. /\ commit' = [commit EXCEPT ![Main] = tree]
        /\ gone' = [gone EXCEPT ![Main] = (gone[Main] \cup commit[Main]
                                     \cup UNION {commit[b] \cup gone[b] : b \in merging}) \ tree]
        /\ merging' = {}
    BY <2>1 DEF CommitAll
  <2>4. /\ commit'[Main] = tree /\ gone'[Main] = (gone[Main] \cup commit[Main]) \ tree
        /\ \A k \in Job : commit'[k] = commit[k] /\ gone'[k] = gone[k]
    BY <1>1, <2>2, <2>3
  <2>5. /\ commit[Main] \ tree \subseteq removed[Main] \cap Erasable
        /\ \A k \in Job : ~Landed(k) => Change(k) \cap tree = {}
    BY <1>3, <2>1 DEF AtRest
  <2>6. \A k \in Job : (Merged(k)' <=> Merged(k)) /\ (Landed(k)' <=> Landed(k))
    BY <2>1 DEF Merged, Landed
  <2>7. Out' = Out /\ removed[Main] \subseteq Out
    BY <2>1, <2>6 DEF Out
  <2>8. MainHolds'
    <3>1. gone'[Main] \cap (commit'[Main] \cup tree' \cup Lines) = {}
      BY <1>2, <2>1, <2>4, <2>5, FilesApart
    <3>2. commit'[Main] \cap Shared # {}
      BY <1>2, <2>4, <2>5, FilesApart
    <3>3. {Old, Stale} \ Out' \subseteq commit'[Main]
      BY <1>2, <2>4, <2>5, <2>7
    <3>4. QED
      BY <2>1, <2>4, <3>1, <3>2, <3>3 DEF MainHolds
  <2>9. \A k \in Job : k # j => Placed(k)' /\ Branched(k)'
    BY <1>2, <2>1, <2>4, OthersKeep DEF AtRest
  <2>10. Branched(j) /\ j \notin branches /\ verdict[j] = "none" /\ removed[j] = {} /\ human = {}
    BY <1>2, <2>1 DEF Branched, Branchless, AtRest
  <2>11. Placed(j)' /\ Branched(j)'
    BY <2>1, <2>4, <2>10 DEF Placed, Branched, Branchless, Busy
  <2>12. ASSUME NEW k \in Job PROVE Decided(k)'
    <3>1. Decided(k)
      BY <1>2
    <3>2. Merged(k)' => /\ Change(k) \ Out' \subseteq commit'[Main]
                        /\ removed'[k] \cap (commit'[Main] \cup tree') = {}
      BY <2>1, <2>4, <2>5, <2>6, <2>7, <3>1 DEF Decided
    <3>3. ~Landed(k)' => /\ Change(k) \cap (commit'[Main] \cup gone'[Main]) = {}
                         /\ \A b \in Branch : Change(k) \cap removed'[b] = {}
                         /\ Change(k) \cap tree' = {}
      BY <2>1, <2>4, <2>5, <2>6, <3>1 DEF Decided
    <3>4. verdict'[k] \in {"accepted", "rejected"} => Line(k) \in tree' /\ Line(k) \in commit'[Main]
      BY <2>1, <2>4, <3>1 DEF Decided
    <3>5. QED
      BY <3>2, <3>3, <3>4 DEF Decided
  <2>13. QED
    BY <2>3, <2>8, <2>9, <2>11, <2>12 DEF Serial
<1>9. ASSUME NEW j \in Job, Accept(j) PROVE Serial'
  <2>1. /\ AtRest /\ Merge(j) /\ human' = human \cup {j} /\ UNCHANGED <<pc, base, verdict, removed>>
    BY <1>4, <1>9 DEF Accept, Upset
  <2>2. /\ head = Main /\ human = {} /\ \A k \in Job : ~Busy(k) /\ ~Away(k) /\ ~Away(k)'
        /\ pc[j] \in {"idle", "ended"} /\ j \in branches
    BY <1>3, <2>1 DEF AtRest, Away, Merge, MergeInTree
  <2>3. Made(j) /\ removed[j] \subseteq Replaced /\ pc[j] = "ended"
    BY <1>2, <2>2 DEF Branched, Branchless
  <2>4. ~Landed(j) /\ Merged(j)'
    BY <2>1, <2>2, <2>3 DEF Landed, Merged, Made
  <2>5. Busy(j)' => Busy(j)
    BY <2>1 DEF Busy
  <2>6. /\ MainHolds' /\ merging' = {} /\ Decided(j)'
        /\ \A k \in Job : k # j => Placed(k)' /\ Branched(k)' /\ Decided(k)'
    BY <2>1, <2>2, <2>3, <2>4, <2>5, MergeSerial
  <2>7. /\ commit'[Main] = (commit[Main] \ removed[j]) \cup Change(j)
        /\ gone'[Main] = gone[Main] \cup removed[j]
        /\ commit'[j] = commit[j] /\ gone'[j] = gone[j] /\ UNCHANGED branches
    BY <2>1, <2>2, <2>3, <2>4, MergeIsChange
  <2>8. Made(j)'
    BY <2>1, <2>3, <2>7 DEF Made
  <2>9. Placed(j)' /\ Branched(j)'
    BY <2>1, <2>2, <2>3, <2>7, <2>8 DEF Placed, Branched, Branchless, Busy
  <2>10. QED
    BY <2>6, <2>9 DEF Serial
<1>10. ASSUME NEW j \in Job, Accepted(j) \/ Reject(j) PROVE Serial'
  <2>1. /\ \A k \in Job : ~Busy(k)
        /\ human' = human \ {j} /\ UNCHANGED <<pc, removed>>
        /\ j \in branches /\ DeleteBranch(j) /\ Log(j)
        /\ \E v \in {"accepted", "rejected"} :
             /\ verdict' = [verdict EXCEPT ![j] = v]
             /\ v = "accepted" => j \in human
             /\ v = "rejected" => human = {}
    <3>1. CASE Accepted(j)
      BY <1>10, <3>1 DEF Accepted, Upset, Deletable, Alone, OneAtATime
    <3>2. CASE Reject(j)
      BY <1>4, <1>10, <3>2 DEF Reject, Deletable, AtRest
    <3>3. QED
      BY <1>10, <3>1, <3>2
  <2>2. PICK v \in {"accepted", "rejected"} : /\ verdict' = [verdict EXCEPT ![j] = v]
                                              /\ v = "accepted" => j \in human
                                              /\ v = "rejected" => human = {}
    BY <2>1
  <2>3. /\ verdict'[j] = v /\ \A k \in Job : k # j => verdict'[k] = verdict[k]
        /\ \A b \in Branch : b # j => commit'[b] = commit[b] /\ gone'[b] = gone[b]
        /\ branches' = branches \ {j} /\ merging' = {} /\ tree' = tree \cup {Line(j)}
    BY <1>1, <1>2, <2>1, <2>2 DEF DeleteBranch, Log
  <2>4. pc[j] = "ended" /\ Made(j)
    BY <1>2, <1>3, <2>1 DEF Branched, Branchless
  <2>5. /\ Merged(j) <=> v = "accepted"
        /\ Merged(j)' <=> v = "accepted"
    BY <2>1, <2>2, <2>3, <2>4 DEF Merged, Made
  <2>6. \A k \in Job : k # j => /\ Placed(k)' /\ Branched(k)'
                                /\ (Merged(k)' <=> Merged(k)) /\ (Landed(k)' <=> Landed(k))
    BY <1>1, <1>2, <2>1, <2>3, OthersKeep
  <2>7. removed[j] \subseteq Replaced /\ removed[j] \cap Lines = {}
    BY <1>2, FilesApart DEF Branched
  <2>8. Placed(j)' /\ Branched(j)'
    BY <2>1, <2>3, <2>4, <2>7 DEF Placed, Branched, Branchless, Busy
  <2>9. Out \subseteq Out'
    BY <2>1, <2>5, <2>6, OutGrows
  <2>10. /\ Line(j) \in Lines /\ Line(j) \notin Replaced /\ commit'[Main] = commit[Main]
         /\ gone'[Main] = gone[Main]
    BY <1>1, <2>3, FilesApart
  <2>11. MainHolds'
    <3>1. gone'[Main] \cap (commit'[Main] \cup tree' \cup Lines) = {}
      BY <1>2, <2>3, <2>10
    <3>2. /\ commit'[Main] \ tree' \subseteq removed'[Main] \cap Erasable
          /\ (tree' \ commit'[Main]) \cap Replaced = {}
      BY <1>3, <2>1, <2>3, <2>10
    <3>3. QED
      BY <1>2, <2>9, <2>10, <3>1, <3>2 DEF MainHolds
  <2>12. ASSUME NEW k \in Job PROVE Decided(k)'
    <3>1. Decided(k) /\ removed[k] \cap Lines = {}
      BY <1>2, FilesApart DEF Branched
    <3>2. (Merged(k)' <=> Merged(k)) /\ (~Landed(k)' => ~Landed(k))
      BY <2>2, <2>4, <2>5, <2>6 DEF Landed, Made
    <3>3. Merged(k)' => /\ Change(k) \ Out' \subseteq commit'[Main]
                        /\ removed'[k] \cap (commit'[Main] \cup tree') = {}
      BY <2>1, <2>3, <2>9, <2>10, <3>1, <3>2 DEF Decided
    <3>4. Change(k) \cap Lines = {} /\ (~Landed(k)' => Change(k) \cap tree = {})
      BY <1>3, <2>1, <3>2, FilesApart
    <3>5. ~Landed(k)' => /\ Change(k) \cap (commit'[Main] \cup gone'[Main]) = {}
                         /\ \A b \in Branch : Change(k) \cap removed'[b] = {}
                         /\ Change(k) \cap tree' = {}
      BY <2>1, <2>3, <2>10, <3>1, <3>2, <3>4 DEF Decided
    <3>6. verdict'[k] \in {"accepted", "rejected"} => Line(k) \in tree'
      BY <2>3, <3>1 DEF Decided
    <3>7. ~(\E l \in Job : Busy(l)')
      BY <2>1 DEF Busy
    <3>8. QED
      BY <3>3, <3>5, <3>6, <3>7 DEF Decided
  <2>13. QED
    BY <2>3, <2>6, <2>8, <2>11, <2>12 DEF Serial
<1>11. CASE UNCHANGED vars
  BY SMTT(30), <1>11 DEF vars, git, Serial, MainHolds, Placed, Branched, Made, Decided, Merged, Landed,
     Out, Away, Busy, Branchless
<1>12. QED
  BY <1>6, <1>7, <1>8, <1>9, <1>10, <1>11, SerialReflection DEF Next

(* When no two overlap and nothing fails.                                  *)
LEMMA SerialCorrect == Spec => [](trouble = {} => Alone /\ Serial)
<1>1. Init => Serial
  <2>1. SUFFICES ASSUME Init PROVE Serial
    OBVIOUS
  <2>2. /\ commit[Main] = {Old, Stale} /\ gone[Main] = {} /\ tree = {Old, Stale}
        /\ \A b \in Branch : removed[b] = {}
        /\ \A j \in Job : pc[j] = "idle" /\ verdict[j] = "none"
        /\ branches = {Main} /\ human = {} /\ merging = {}
    BY <2>1, FilesApart DEF Init
  <2>3. MainHolds
    BY <2>2, FilesApart DEF MainHolds
  <2>4. ASSUME NEW j \in Job PROVE Placed(j) /\ Branched(j) /\ Decided(j)
    <3>1. j # Main /\ j \in Branch /\ Change(j) \cap {Old, Stale} = {}
      BY FilesApart
    <3>2. Placed(j) /\ Branched(j)
      BY <2>2, <3>1 DEF Placed, Branched, Branchless, Busy
    <3>3. ~Merged(j) /\ Decided(j)
      BY <2>2, <3>1 DEF Decided, Merged
    <3>4. QED
      BY <3>2, <3>3
  <2>5. QED
    BY <2>2, <2>3, <2>4 DEF Serial
<1>2. TypeOK /\ TypeOK' /\ OnlyWrittenNotes
        /\ (trouble \subseteq {"conflict"} => Alone) /\ (trouble \subseteq {"conflict"} => Alone)'
        /\ (trouble = {} => Serial) /\ [Next]_vars => (trouble = {} => Serial)'
  BY SerialStep, TroubleGrows
<1>3. (trouble \subseteq {"conflict"} => Alone) /\ (trouble = {} => Serial)
        => (trouble = {} => Alone /\ Serial)
  OBVIOUS
<1>4. QED
  BY <1>1, <1>2, <1>3, ReflectTypeCorrect, NotesKeptCorrect, AloneCorrect, PTL DEF Spec

(* What that says of the store at rest.                                    *)
LEMMA SerialAtRest ==
  ASSUME TypeOK, Serial, AtRest
  PROVE  /\ Out = TakenOut
         /\ commit[Main] \ tree \subseteq removed[Main]
         /\ \A j \in Job : /\ verdict[j] = "accepted" => Merged(j)
                           /\ verdict[j] \in {"none", "rejected"} => ~Landed(j)
                           /\ Decided(j) /\ pc[j] \notin {"commit", "after", "reset"}
<1>1. \A j \in Job : pc[j] \in {"idle", "ended"} /\ ~Away(j) /\ j \notin human
  BY DEF AtRest, Busy, Away
<1>2. \A j \in Job : Merged(j) <=> verdict[j] = "accepted"
  BY <1>1 DEF Merged
<1>3. Out = TakenOut
  BY <1>2 DEF Out, TakenOut
<1>4. QED
  BY <1>1, <1>2, <1>3 DEF Serial, MainHolds, Landed

(* The change a human or the score accepted is on the main branch and in   *)
(* the tree, what it deleted is in neither; but for what a session or a    *)
(* change accepted later has taken out.                                    *)
THEOREM AcceptedChangeLands == Spec => []AcceptedLands
<1>1. TypeOK /\ (trouble = {} => Alone /\ Serial) => AcceptedLands
  <2>1. SUFFICES ASSUME TypeOK, Serial, AtRest, NEW j \in Job, verdict[j] = "accepted"
                 PROVE  /\ Change(j) \ TakenOut \subseteq commit[Main] \cap tree
                        /\ removed[j] \cap (commit[Main] \cup tree) = {}
    BY DEF AcceptedLands
  <2>2. /\ Change(j) \ TakenOut \subseteq commit[Main]
        /\ removed[j] \cap (commit[Main] \cup tree) = {}
    BY <2>1, SerialAtRest DEF Decided
  <2>3. commit[Main] \ tree \subseteq TakenOut
    BY <2>1, SerialAtRest DEF TakenOut
  <2>4. QED
    BY <2>2, <2>3
<1>2. QED
  BY <1>1, SerialCorrect, ReflectTypeCorrect, PTL

(* A change that was rejected, or waits for a decision, is not on the main *)
(* branch, not in the tree, and what it has rewritten or deleted is there. *)
THEOREM OtherChangesStayOut == Spec => []OthersStayOut
<1>1. TypeOK /\ (trouble = {} => Alone /\ Serial) => OthersStayOut
  <2>1. SUFFICES ASSUME TypeOK, Serial, AtRest
                 PROVE  /\ \A j \in Job : verdict[j] \in {"none", "rejected"} =>
                                            Change(j) \cap (commit[Main] \cup tree) = {}
                        /\ {Old, Stale} \ TakenOut \subseteq commit[Main] \cap tree
    BY DEF OthersStayOut
  <2>2. \A j \in Job : verdict[j] \in {"none", "rejected"} =>
                         Change(j) \cap (commit[Main] \cup tree) = {}
    BY <2>1, SerialAtRest DEF Decided
  <2>3. /\ {Old, Stale} \ TakenOut \subseteq commit[Main]
        /\ commit[Main] \ tree \subseteq TakenOut
    BY <2>1, SerialAtRest DEF Serial, MainHolds, TakenOut
  <2>4. QED
    BY <2>2, <2>3
<1>2. QED
  BY <1>1, SerialCorrect, ReflectTypeCorrect, PTL

(* Every decision is in reflect.log, through all the checkouts and merges  *)
(* of those that come after it.                                            *)
THEOREM DecisionsStayLogged == Spec => []DecisionsLogged
<1>1. TypeOK /\ (trouble = {} => Alone /\ Serial) => DecisionsLogged
  BY SerialAtRest DEF DecisionsLogged, Decided
<1>2. QED
  BY <1>1, SerialCorrect, ReflectTypeCorrect, PTL
=============================================================================
