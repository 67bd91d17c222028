---------------------------- MODULE DaemonSocket ----------------------------
(***************************************************************************)
(* The processes that serve one store and the file of their socket         *)
(* (daemon.rs serve, client.rs ensure_daemon): how a process finds out     *)
(* that it is alone, and what it leaves behind.  What a daemon does in     *)
(* between is module Daemon.                                               *)
(***************************************************************************)
CONSTANTS
  Process,  \* the processes that may be started
  NoProcess \* bound the file of no socket

VARIABLES
  stage, \* how far each process is in serve
  file   \* the process whose socket the file is; NoProcess is no file

vars == <<stage, file>>

TypeOK ==
  /\ stage \in [Process -> {"off", "check", "remove", "bind", "serving", "closing"}]
  /\ file \in Process \cup {NoProcess}

Init ==
  /\ stage = [p \in Process |-> "off"]
  /\ file = NoProcess

(* A connection to the file is accepted: its process has bound it and has  *)
(* not begun to shut down.                                                 *)
Answers == file # NoProcess /\ stage[file] = "serving"

(* A client whose ping is not answered starts a process (ensure_daemon),   *)
(* or somebody does by hand, whoever answers; it opens the store and the   *)
(* tree before it looks at the socket.                                     *)
Start(p) ==
  /\ stage[p] = "off"
  /\ stage' = [stage EXCEPT ![p] = "check"]
  /\ UNCHANGED file

(* A socket that answers ends the start; a file that does not is removed.  *)
Check(p) ==
  /\ stage[p] = "check"
  /\ stage' = [stage EXCEPT ![p] = IF file = NoProcess THEN "bind"
                                   ELSE IF Answers THEN "off" ELSE "remove"]
  /\ UNCHANGED file

(* The removal and the bind fail, and end the start, when somebody else    *)
(* was faster.                                                             *)
Remove(p) ==
  /\ stage[p] = "remove"
  /\ stage' = [stage EXCEPT ![p] = IF file = NoProcess THEN "off" ELSE "bind"]
  /\ file' = NoProcess

Bind(p) ==
  /\ stage[p] = "bind"
  /\ IF file = NoProcess
     THEN stage' = [stage EXCEPT ![p] = "serving"] /\ file' = p
     ELSE stage' = [stage EXCEPT ![p] = "off"] /\ UNCHANGED file

(* A shutdown is asked for: no connection is accepted any more, while the  *)
(* loops end and the sessions are saved.                                   *)
Close(p) ==
  /\ stage[p] = "serving"
  /\ stage' = [stage EXCEPT ![p] = "closing"]
  /\ UNCHANGED file

(* serve returns; the file is removed, whoever's it is.                    *)
Leave(p) ==
  /\ stage[p] = "closing"
  /\ stage' = [stage EXCEPT ![p] = "off"]
  /\ file' = NoProcess

(* The process dies and leaves the file.                                   *)
Crash(p) ==
  /\ stage[p] # "off"
  /\ stage' = [stage EXCEPT ![p] = "off"]
  /\ UNCHANGED file

Next ==
  \E p \in Process :
    \/ Start(p) \/ Check(p) \/ Remove(p) \/ Bind(p) \/ Close(p) \/ Leave(p) \/ Crash(p)

Spec == Init /\ [][Next]_vars

(* A daemon that serves can be reached: it listens on the socket that      *)
(* clients connect to (daemon.rs "listens on a unix socket").              *)
ServingIsReachable == \A p \in Process : stage[p] = "serving" => file = p
=============================================================================
