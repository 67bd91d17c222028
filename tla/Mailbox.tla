------------------------------ MODULE Mailbox ------------------------------
(***************************************************************************)
(* What the message bus promises to whoever sends (session/bus.rs): an     *)
(* accepted message waits in the box of its session until the session      *)
(* takes the whole box, in order.  A message leaves a box unread in two    *)
(* cases only: it is the oldest of a full box, or the session is killed.   *)
(***************************************************************************)
EXTENDS Naturals, Sequences

CONSTANTS Session, MaxQueue

VARIABLES
  box,    \* the messages that wait for each session, by number
  read,   \* the messages each session has taken
  sent    \* how many messages were accepted

mailVars == <<box, read, sent>>

MailInit ==
  /\ box = [s \in Session |-> <<>>]
  /\ read = [s \in Session |-> <<>>]
  /\ sent = 0

(* A message is accepted for s.                                            *)
Accept(s) ==
  /\ sent' = sent + 1
  /\ box' = [box EXCEPT ![s] = Append(IF Len(@) >= MaxQueue THEN Tail(@) ELSE @, sent')]
  /\ UNCHANGED read

(* s takes everything that waits for it.                                   *)
Take(s) ==
  /\ box[s] # <<>>
  /\ read' = [read EXCEPT ![s] = @ \o box[s]]
  /\ box' = [box EXCEPT ![s] = <<>>]
  /\ UNCHANGED sent

(* A kill may discard what waits for s.                                    *)
Discard(s) ==
  /\ box[s] # <<>>
  /\ box' = [box EXCEPT ![s] = <<>>]
  /\ UNCHANGED <<read, sent>>

MailNext == \E s \in Session : Accept(s) \/ Take(s) \/ Discard(s)

MailSpec == MailInit /\ [][MailNext]_mailVars
=============================================================================
