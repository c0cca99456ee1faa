--------------------------- MODULE ExpenseLifecycle ---------------------------
(***************************************************************************)
(* What an expense promises its readers, with the requests that change it  *)
(* taken as atomic: one status, moved only along the edges of the          *)
(* aggregate's assertTransition calls, and one event in the outbox for     *)
(* every move, in the order of the moves.                                  *)
(***************************************************************************)
EXTENDS Sequences

VARIABLES status, outbox

Move(from, to, events) ==
    /\ status \in from
    /\ status' = to
    /\ outbox' = outbox \o events

\* A draft, or an adjustment that CreateAdjustment left waiting for approval.
Init == status \in {"draft", "pending_approval"} /\ outbox = <<>>

Submit  == Move({"draft"}, "pending_approval", <<"ExpenseSubmittedForApproval">>)
AutoApprove ==
    Move({"draft"}, "approved", <<"ExpenseSubmittedForApproval", "ExpenseApproved">>)
Approve == Move({"pending_approval"}, "approved", <<"ExpenseApproved">>)
Reject  == Move({"pending_approval"}, "rejected", <<"ExpenseRejected">>)
Cancel  == Move({"draft", "pending_approval"}, "cancelled", <<"ExpenseCancelled">>)

Next == Submit \/ AutoApprove \/ Approve \/ Reject \/ Cancel

Spec == Init /\ [][Next]_<<status, outbox>>

=============================================================================
