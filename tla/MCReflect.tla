----------------------------- MODULE MCReflect -----------------------------
(* Instances of Reflect for TLC.                                           *)
EXTENDS Reflect, TLC

CONSTANTS job1, job2, note

TwoJobs == {job1, job2}
OneNote == {note}
StaleAndNote == {Stale, note}

Symmetry == Permutations(TwoJobs)
=============================================================================
