-------------------------- MODULE MCExpenseApproval --------------------------
(***************************************************************************)
(* Instance of ExpenseApproval for TLC: the three tiers of the expense     *)
(* policy, a requester who is a department head as well, and one other     *)
(* head for each seat of the panel.                                        *)
(***************************************************************************)
EXTENDS ExpenseApproval, ApprovalPolicies, TLC

CONSTANTS requester, head1, head2, head3, director, sales, ops

MCUsers == {requester, head1, head2, head3, director}
MCRoles == {"department_head", "finance_director"}
MCDepartments == {sales, ops}

HeadOf(d) == [role |-> "department_head", department |-> d]

MCRolesOf ==
    [u \in MCUsers |->
        CASE u = requester -> {HeadOf(sales)}
          [] u = head1     -> {HeadOf(sales)}
          [] u \in {head2, head3} -> {HeadOf(ops)}
          [] u = director  -> {[role |-> "finance_director", department |-> NoDepartment]}]

MCItem == [requester |-> requester, department |-> sales]

\* An amount of each tier, at both ends of the policy's boundaries.
SoleChains  == {ExpenseChain(SoleThreshold)}
PanelChains == {ExpenseChain(SoleThreshold + 1), ExpenseChain(1 - DirectorThreshold)}
OnePanelChain == {ExpenseChain(SoleThreshold + 1)}
TierChains  == SoleChains \cup PanelChains \cup {ExpenseChain(DirectorThreshold)}
AnyChains   == TierChains \cup {<<>>}

\* For overlapping requests: three heads outside the requester's department,
\* interchangeable as the request slots are.  Only the panel asks for them.
PanelUsers   == {requester, head1, head2, head3, director}
PanelRolesOf ==
    [u \in PanelUsers |-> IF u \in {head1, head2, head3} THEN {HeadOf(ops)}
                          ELSE MCRolesOf[u]]
Symmetry == Permutations({head1, head2, head3}) \cup Permutations(Requests)
\* Bound: behaviours are cut once the expense has emitted this many events
\* (submit, one resurrection of an ended expense, and its second end).
MaxEvents == 3
FewEvents == Len(outbox) <= MaxEvents
=============================================================================
