--------------------------- MODULE PayrollLifecycle ---------------------------
(***************************************************************************)
(* What a payroll run promises its readers, with the requests that change  *)
(* it taken as atomic: payslips change only in draft, a run is approved    *)
(* after it was submitted with payslips, paid only after it was approved,  *)
(* and each change is announced by its events, in order.                   *)
(***************************************************************************)
EXTENDS Sequences

CONSTANT Employees

VARIABLES status, payslips, outbox

Move(from, to, events) ==
    /\ status = from
    /\ status' = to
    /\ outbox' = outbox \o events
    /\ UNCHANGED payslips

Init == status = "draft" /\ payslips = {} /\ outbox = <<>>

AddPayslip(e) ==
    /\ status = "draft"
    /\ e \notin payslips
    /\ payslips' = payslips \cup {e}
    /\ outbox' = Append(outbox, "PayslipGenerated")
    /\ UNCHANGED status

Submit ==
    /\ payslips # {}
    /\ Move("draft", "pending_approval", <<"PayrollRunSubmittedForApproval">>)

Approve == Move("pending_approval", "approved", <<"PayrollRunApproved">>)
Reject  == Move("pending_approval", "draft", <<"PayrollRunRejected">>)
Process ==
    Move("approved", "completed", <<"PayrollRunProcessingStarted", "PayrollRunProcessed">>)

Cancel ==
    \E s \in {"draft", "pending_approval"} : Move(s, "cancelled", <<"PayrollRunCancelled">>)

Next ==
    \/ \E e \in Employees : AddPayslip(e)
    \/ Submit \/ Approve \/ Reject \/ Process \/ Cancel

Spec == Init /\ [][Next]_<<status, payslips, outbox>>

=============================================================================
