--------------------------- MODULE MCSessionTree ---------------------------
(* Instances of SessionTree for TLC.                                       *)
EXTENDS SessionTree, TLC

CONSTANTS root, child

TwoSessions == {root, child}
OneSession == {root}

NoFaults == {}
DiskAndTaskFaults == {"panic", "save", "load", "inbox", "crash"}
UnlinkFault == {"unlink"}
EndlessFaults == {"endless", "unread"}

(* The sessions differ by the parent they are spawned with only.           *)
Symmetry == Permutations({root, child})
=============================================================================
