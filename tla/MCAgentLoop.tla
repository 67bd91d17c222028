---------------------------- MODULE MCAgentLoop ----------------------------
(* Instances of AgentLoop for TLC.                                         *)
EXTENDS AgentLoop

OneToken == {1}

(* A read, a write, a verifier that runs between two writes, a leaf query  *)
(* that ends with done(), a compaction.                                    *)
Read == [early |-> 0, late |-> 0, verify |-> "none", query |-> 0,
         compact |-> FALSE, done |-> FALSE, kind |-> "ReadOutput"]
Write == [Read EXCEPT !.early = 1, !.kind = "Durable"]
VerifyBetween == [Write EXCEPT !.late = 1, !.verify = "ok"]
QueryDone == [Read EXCEPT !.query = 1, !.done = TRUE, !.kind = "Durable"]
Compact == [Read EXCEPT !.compact = TRUE, !.kind = "Durable"]

EveryScript == {Read, Write, VerifyBetween, QueryDone, Compact}

=============================================================================
