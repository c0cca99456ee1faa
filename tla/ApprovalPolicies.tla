--------------------------- MODULE ApprovalPolicies ---------------------------
(***************************************************************************)
(* The policies the two contexts inject into the approval framework.       *)
(* Amounts are integers in units of the module's thresholds, which stand   *)
(* for the 100,000 and 1,000,000 naira of ExpenseApprovalPolicy.           *)
(***************************************************************************)
EXTENDS Integers, Sequences

CONSTANTS
    SoleThreshold,      \* up to and including it one department head decides
    DirectorThreshold   \* from it on the finance director decides as well

ASSUME ThresholdsOrdered ==
    /\ SoleThreshold \in Nat
    /\ DirectorThreshold \in Nat
    /\ SoleThreshold < DirectorThreshold

OwnHead  == [role |-> "department_head", scope |-> "department"]
AnyHead  == [role |-> "department_head", scope |-> "organization"]
Director == [role |-> "finance_director", scope |-> "organization"]

AbsoluteAmount(a) == IF a < 0 THEN -a ELSE a

\* ExpenseApprovalPolicy.resolveChain: three tiers on the magnitude.
ExpenseChain(amount) ==
    LET size == AbsoluteAmount(amount)
    IN  CASE size <= SoleThreshold -> <<OwnHead>>
          [] size > SoleThreshold /\ size < DirectorThreshold
                -> <<AnyHead, AnyHead, AnyHead>>
          [] size >= DirectorThreshold -> <<AnyHead, AnyHead, AnyHead, Director>>

\* PayrollApprovalPolicy.resolveChain: the director, whatever the total.
PayrollChain == <<Director>>

=============================================================================
