---------------------------- MODULE WorkflowEngine ----------------------------
(***************************************************************************)
(* The approval framework of the shared kernel, which expenses and payroll *)
(* runs both use: the chain of steps an item needs, the records already    *)
(* decided, and the checks WorkflowEngine makes before it lets a user      *)
(* decide the current step.  The module has no state: progress is the set  *)
(* of approval_records rows a caller has read.                             *)
(*                                                                         *)
(* A chain is a sequence of steps.  ApprovalChain.of sorts the steps by    *)
(* order, every policy numbers them 1, 2, 3 ..., so order is the index.    *)
(***************************************************************************)
EXTENDS Integers, FiniteSets, Sequences

CONSTANTS
    Users,       \* the people who may act
    Roles,       \* role names
    Departments, \* departments of the organization
    RolesOf      \* RolesOf[u]: the role assignments of user u

Scopes == {"department", "organization"}

ApprovalStep == [role : Roles, scope : Scopes]

\* What getRolesForUser returns of a department or an organization role: the
\* latter names no department.  No code writes these tables, they are seeded.
NoDepartment == "none"
RoleAssignment == [role : Roles, department : Departments \cup {NoDepartment}]

ASSUME RolesOfType == RolesOf \in [Users -> SUBSET RoleAssignment]

Decisions == {"approved", "rejected"}

\* A row of approval_records, unique per (progressId, stepOrder).
ApprovalRecord == [stepOrder : Nat \ {0}, approver : Users, decision : Decisions]

\* What a chain may be: a sequence of steps.
ApprovalChain == Seq(ApprovalStep)

\* The requester and the department of an item: what Approvable exposes of it.
Approvable == [requester : Users, department : Departments]

-----------------------------------------------------------------------------

StepOrders(records) == {r.stepOrder : r \in records}

\* ApprovalProgress.currentStepOrder: the number of records plus one.
CurrentStepOrder(records) == Cardinality(records) + 1

\* stepAt(currentStepOrder()) finds a step.
HasCurrentStep(chain, records) == CurrentStepOrder(records) \in DOMAIN chain

\* Mutation: the last step but one taken for the last.
IsNextToFinal(chain, records) == CurrentStepOrder(records) = Len(chain) - 1

\* ApprovalChain.isLastStep, for the step about to be recorded.
IsFinalApproval(chain, records) == CurrentStepOrder(records) = Len(chain)

HoldsStepRole(u, step, item) ==
    \E a \in RolesOf[u] :
        /\ a.role = step.role
        /\ step.scope = "department" => a.department = item.department

\* Mutation: the role is looked at on the last step only.
HoldsFinalStepRole(u, chain, records, item) ==
    IsFinalApproval(chain, records)
        => HoldsStepRole(u, chain[CurrentStepOrder(records)], item)

\* assertHoldsCurrentStepRole returns without a check when no step is left.
HoldsCurrentStepRole(u, chain, records, item) ==
    HasCurrentStep(chain, records)
        => HoldsStepRole(u, chain[CurrentStepOrder(records)], item)

AlreadyApproved(u, records) ==
    \E r \in records : r.decision = "approved" /\ r.approver = u

\* Mutation: nobody asks whether the user approved an earlier step.
MayApproveAgain(u, chain, records, item) ==
    /\ u # item.requester
    /\ HoldsCurrentStepRole(u, chain, records, item)
    /\ HasCurrentStep(chain, records)

\* WorkflowEngine.recordApproval throws unless all of this holds; the last
\* conjunct is ApprovalProgress.recordApproval's own NoSuchApprovalStepError.
MayApprove(u, chain, records, item) ==
    /\ u # item.requester
    /\ ~AlreadyApproved(u, records)
    /\ HoldsCurrentStepRole(u, chain, records, item)
    /\ HasCurrentStep(chain, records)

\* WorkflowEngine.recordRejection: ApprovalProgress.recordRejection looks for
\* no step, and an earlier approver may reject a later one.
MayReject(u, chain, records, item) ==
    /\ u # item.requester
    /\ HoldsCurrentStepRole(u, chain, records, item)

\* The record the decision appends to the progress held in memory.
DecisionRecord(u, records, decision) ==
    [stepOrder |-> CurrentStepOrder(records), approver |-> u, decision |-> decision]

\* Mutation: every record in memory is inserted.
InsertRecords(table, inMemory) == table \cup inMemory

\* PrismaApprovalProgressRepository.save: of the records in memory, those
\* whose step is not in the table yet are inserted, the others dropped.
SaveRecords(table, inMemory) ==
    table \cup {r \in inMemory : r.stepOrder \notin StepOrders(table)}

=============================================================================
