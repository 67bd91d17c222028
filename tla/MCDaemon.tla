------------------------------ MODULE MCDaemon ------------------------------
(* Instances of Daemon for TLC: a session of a client and its child.       *)
EXTENDS Daemon

TwoSessions == {1, 2}
ChildOfFirst == <<Nobody, 1>>
OneSchedule == {"nightly"}
=============================================================================
