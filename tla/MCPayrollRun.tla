----------------------------- MODULE MCPayrollRun -----------------------------
(* Instance of PayrollRun for TLC: the creator, who is a finance director     *)
(* too, one other director, and a department head.                            *)
EXTENDS PayrollRun, TLC

CONSTANTS creator, director, head, sales

MCUsers == {creator, director, head}
MCRoles == {"department_head", "finance_director"}
MCDepartments == {sales}
MCRolesOf ==
    [u \in MCUsers |->
        {IF u = head THEN [role |-> "department_head", department |-> sales]
         ELSE [role |-> "finance_director", department |-> NoDepartment]}]

Symmetry == Permutations(Employees) \cup Permutations(Requests)

\* Bound: behaviours are cut once the run has emitted this many events.
MaxEvents == 6
FewEvents == Len(outbox) <= MaxEvents
=============================================================================
