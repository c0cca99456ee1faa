------------------------------ MODULE MCReadSide ------------------------------
(***************************************************************************)
(* The read side for TLC: the read model with its reports, and the lists.  *)
(* They share no state, so a behaviour is about one of them.               *)
(***************************************************************************)
EXTENDS ReadModel, Listing, TLC

VARIABLE side    \* which of the two the behaviour is about

ReadSideInit ==
    /\ ProjectionInit
    /\ ListInit
    /\ side \in {"reports", "lists"}
    /\ side = "reports" => scheme = "cursor"

ReadSideNext ==
    /\ UNCHANGED side
    /\ \/ side = "reports" /\ ProjectionNext /\ UNCHANGED listVars
       \/ side = "lists" /\ ListNext /\ UNCHANGED projectionVars

ReadSideSpec == ReadSideInit /\ [][ReadSideNext]_<<projectionVars, listVars, side>> /\ ProjectionFairness

CONSTANTS expense, reversal, second, other, sales, travel, vendor, rival

\* An expense and its reversal, which has a negative amount; two users, one of
\* whom sees a department only.
Base == [department |-> sales, category |-> travel, vendor |-> vendor, project |-> None,
         actor |-> "actor", amount |-> 3, parent |-> None, month |-> 1]

\* The last two are for the ranking of vendors: two expenses of one vendor, and
\* one of its rival with an amount between them and their sum.
MCAttributes ==
    (expense :> Base) @@
    (reversal :> [Base EXCEPT !.amount = -2, !.parent = expense, !.month = 2]) @@
    (second :> Base) @@
    (other :> [Base EXCEPT !.vendor = rival, !.amount = 4])

MCReportGrants == [department_head |-> "department", finance_director |-> "organization"]

Director == {[role |-> "finance_director", department |-> None]}
HeadOf(d) == {[role |-> "department_head", department |-> d]}

MCQueries == {[user |-> Director, from |-> 1, to |-> 1], [user |-> HeadOf(sales), from |-> 1, to |-> 2]}
=============================================================================
