------------------------------ MODULE Parsing ------------------------------
(***************************************************************************)
(* The two texts the program reads as orders: the reply of a model, turned *)
(* into an action by the loop of a session (parse, Reply), and the         *)
(* schedule of a cron, read again at every tick of the daemon              *)
(* (Schedule::parse, Cron).  Nothing is kept of one for the next.          *)
(***************************************************************************)
EXTENDS Cron, Reply

CONSTANTS
    Replies,     \* replies a model may give
    Schedules    \* the fields of days a cron may name: of the month, of the week

ASSUME ParsingAssumption ==
    /\ Width \in Nat /\ DomMax \in Nat \ {0}
    /\ Replies \subseteq Seq(Tokens)
    /\ \A s \in Schedules : /\ s[1] \in Seq(Parts) /\ Fits(s[1], DomMax)
                            /\ s[2] \in Seq(Parts) /\ Fits(s[2], 7)

VARIABLES
    given,       \* what was read: one order only, for nothing is kept of it
    order        \* the reply or the schedule

parsingVars == <<given, order>>

ParsingInit ==
    /\ given = "none"
    /\ order = <<>>

ReadReply(r) ==
    /\ given' = "reply"
    /\ order' = r

ReadSchedule(s) ==
    /\ given' = "schedule"
    /\ order' = s

ParsingNext ==
    /\ given = "none"
    /\ \/ \E r \in Replies : ReadReply(r)
       \/ \E s \in Schedules : ReadSchedule(s)

----------------------------------------------------------------------------

\* Only code outside leaked tags, in the first block of a language that is
\* run, is executed (Reply; parse.rs).
VisibleCodeRuns == given = "reply" => OnlyVisibleCodeRuns(order)

\* A schedule fires on the days its fields name (Cron; cron.rs).
FiresOnNamedDays == given = "schedule" => FiresWhenNamed(order[1], order[2])

=============================================================================
