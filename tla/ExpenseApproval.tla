---------------------------- MODULE ExpenseApproval ----------------------------
(***************************************************************************)
(* One expense going through approval, while several requests run at once. *)
(*                                                                         *)
(* A request is a database transaction at READ COMMITTED: each of its      *)
(* reads is a step of its own that sees what is committed at that moment,  *)
(* and its writes become visible together, at commit.  The period is read  *)
(* outside the transaction.  No row carries a version: save writes back    *)
(* the status the request has in memory, whatever was committed since.     *)
(*                                                                         *)
(* The expense's amount is never changed (no handler calls update), so the *)
(* chain the policy resolves is fixed when the behaviour starts.           *)
(***************************************************************************)
EXTENDS WorkflowEngine, PeriodStatus

CONSTANTS
    Requests,    \* request slots: how many requests may be in flight together
    Item,        \* the expense as Approvable
    Chains       \* the chains the policy may resolve for this expense

ASSUME ItemType   == Item \in Approvable
ASSUME ChainsType == Chains \in SUBSET ApprovalChain

VARIABLES
    chain,       \* the chain the policy resolves for the expense
    status,      \* expenses.status
    progress,    \* is there an approval_progress row for the expense?
    records,     \* its approval_records
    outbox,      \* the types of the expense's outbox events, in order
    period,      \* the status of the expense's financial period
    at,          \* at[q]: what request q does next
    op,          \* op[q]: the command of q
    actor,       \* actor[q]: the authenticated user of q
    seen,        \* seen[q]: the expense status q holds in memory
    read         \* read[q]: the records q holds in memory, its own included

database == <<status, progress, records, outbox>>
request  == <<at, op, actor, seen, read>>
vars     == <<chain, database, period, request>>

Statuses == {"draft", "pending_approval", "approved", "rejected", "cancelled"}
Commands == {"submit", "approve", "reject", "cancel"}
Stages   == {"idle", "period", "progress", "save"}

ProgressCommands == {"approve", "reject"}

\* assertTransition's sources, for the transition each command makes.
AllowedFrom == [submit  |-> {"draft"},
                approve |-> {"pending_approval"},
                reject  |-> {"pending_approval"},
                cancel  |-> {"draft", "pending_approval"}]

\* Mutations: a rejected expense may still be approved; an approved cancelled.
ReviveMove(c, s) == s \in AllowedFrom[c] \/ (c = "approve" /\ s = "rejected")
LateCancelMove(c, s) == s \in AllowedFrom[c] \/ (c = "cancel" /\ s = "approved")

MayMove(c, s) == s \in AllowedFrom[c]

\* A draft, or an adjustment that CreateAdjustmentHandler saved as pending
\* together with its approval progress.
Init ==
    /\ chain \in Chains
    /\ \/ status = "draft" /\ progress = FALSE
       \/ status = "pending_approval" /\ progress = TRUE /\ chain # <<>>
    /\ records = {}
    /\ outbox = <<>>
    /\ period = "open"
    /\ at = [q \in Requests |-> "idle"]
    /\ op = [q \in Requests |-> "submit"]
    /\ actor = [q \in Requests |-> Item.requester]
    /\ seen = [q \in Requests |-> "draft"]
    /\ read = [q \in Requests |-> {}]

-----------------------------------------------------------------------------
(* Reads and decisions, in memory. *)

\* The request arrives and findById reads the expense.  Only the decisions
\* look at who makes them.
Begin(q, c, u) ==
    /\ at[q] = "idle"
    /\ c \in ProgressCommands \/ u = Item.requester
    /\ at' = [at EXCEPT ![q] = "period"]
    /\ op' = [op EXCEPT ![q] = c]
    /\ actor' = [actor EXCEPT ![q] = u]
    /\ seen' = [seen EXCEPT ![q] = status]
    /\ UNCHANGED <<chain, database, period, read>>

\* periodStatus.isOpen; then submit and cancel make their transition on the
\* status read, the others go on to read the progress.
CheckPeriod(q) ==
    /\ at[q] = "period"
    /\ IsOpenStatus(period)
    /\ op[q] \in {"submit", "cancel"} => MayMove(op[q], seen[q])
    /\ at' = [at EXCEPT ![q] = IF op[q] \in ProgressCommands THEN "progress" ELSE "save"]
    /\ UNCHANGED <<chain, database, period, op, actor, seen, read>>

\* findByItemId, WorkflowEngine.recordApproval and, on the last step,
\* Expense.approve, which asserts the status read by Begin.
DecideApproval(q) ==
    /\ at[q] = "progress"
    /\ op[q] = "approve"
    /\ progress
    /\ MayApprove(actor[q], chain, records, Item)
    /\ IsFinalApproval(chain, records) => MayMove("approve", seen[q])
    /\ read' = [read EXCEPT ![q] =
                    records \cup {DecisionRecord(actor[q], records, "approved")}]
    /\ seen' = [seen EXCEPT ![q] =
                    IF IsFinalApproval(chain, records) THEN "approved" ELSE @]
    /\ at' = [at EXCEPT ![q] = "save"]
    /\ UNCHANGED <<chain, database, period, op, actor>>

\* findByItemId, WorkflowEngine.recordRejection and Expense.reject.
DecideRejection(q) ==
    /\ at[q] = "progress"
    /\ op[q] = "reject"
    /\ progress
    /\ MayReject(actor[q], chain, records, Item)
    /\ MayMove("reject", seen[q])
    /\ read' = [read EXCEPT ![q] =
                    records \cup {DecisionRecord(actor[q], records, "rejected")}]
    /\ seen' = [seen EXCEPT ![q] = "rejected"]
    /\ at' = [at EXCEPT ![q] = "save"]
    /\ UNCHANGED <<chain, database, period, op, actor>>

-----------------------------------------------------------------------------
(* Commits: every write of the handler, together. *)

\* The request ends and its memory is gone.
Finish(q) ==
    /\ at' = [at EXCEPT ![q] = "idle"]
    /\ op' = [op EXCEPT ![q] = "submit"]
    /\ actor' = [actor EXCEPT ![q] = Item.requester]
    /\ seen' = [seen EXCEPT ![q] = "draft"]
    /\ read' = [read EXCEPT ![q] = {}]
    /\ UNCHANGED <<chain, period>>

\* ApprovalProgressRepository.initialize: itemId is unique, so a second row for
\* the expense makes the request fail.
InitializeProgress == ~progress /\ progress' = TRUE

CommitSubmit(q) ==
    /\ at[q] = "save"
    /\ op[q] = "submit"
    /\ IF chain = <<>>
       THEN /\ status' = "approved"
            /\ outbox' = outbox \o <<"ExpenseSubmittedForApproval", "ExpenseApproved">>
            /\ UNCHANGED progress
       ELSE /\ InitializeProgress
            /\ status' = "pending_approval"
            /\ outbox' = Append(outbox, "ExpenseSubmittedForApproval")
    /\ UNCHANGED records
    /\ Finish(q)

\* save inserts the missing records and overwrites the status; an event went
\* into memory only if the decision was the final one.
CommitApprove(q) ==
    /\ at[q] = "save"
    /\ op[q] = "approve"
    /\ records' = SaveRecords(records, read[q])
    /\ status' = seen[q]
    /\ outbox' = IF Cardinality(read[q]) = Len(chain)
                 THEN Append(outbox, "ExpenseApproved") ELSE outbox
    /\ UNCHANGED progress
    /\ Finish(q)

CommitReject(q) ==
    /\ at[q] = "save"
    /\ op[q] = "reject"
    /\ records' = SaveRecords(records, read[q])
    /\ status' = seen[q]
    /\ outbox' = Append(outbox, "ExpenseRejected")
    /\ UNCHANGED progress
    /\ Finish(q)

CommitCancel(q) ==
    /\ at[q] = "save"
    /\ op[q] = "cancel"
    /\ status' = "cancelled"
    /\ outbox' = Append(outbox, "ExpenseCancelled")
    /\ UNCHANGED <<progress, records>>
    /\ Finish(q)

\* A thrown DomainError, a violated unique constraint, a lost connection or a
\* crash: the transaction rolls back and nothing it did remains.
Rollback(q) ==
    /\ at[q] # "idle"
    /\ Finish(q)
    /\ UNCHANGED database

-----------------------------------------------------------------------------
(* The period, which a period administrator closes and reopens. *)

ClosePeriod ==
    /\ MayClose(period)
    /\ period' = "closed"
    /\ UNCHANGED <<chain, database, request>>

ReopenPeriod ==
    /\ MayReopen(period)
    /\ period' = "reopened"
    /\ UNCHANGED <<chain, database, request>>

-----------------------------------------------------------------------------

Step(q) ==
    \/ \E c \in Commands, u \in Users : Begin(q, c, u)
    \/ CheckPeriod(q)
    \/ DecideApproval(q)
    \/ DecideRejection(q)
    \/ CommitSubmit(q)
    \/ CommitApprove(q)
    \/ CommitReject(q)
    \/ CommitCancel(q)
    \/ Rollback(q)

Next ==
    \/ \E q \in Requests : Step(q)
    \/ ClosePeriod
    \/ ReopenPeriod

Spec == Init /\ [][Next]_vars

-----------------------------------------------------------------------------
(* Properties *)

EventTypes == {"ExpenseSubmittedForApproval", "ExpenseApproved",
               "ExpenseRejected", "ExpenseCancelled"}

\* Every variable keeps its type.
TypeOK ==
    /\ chain \in Chains
    /\ status \in Statuses
    /\ progress \in BOOLEAN
    /\ records \in SUBSET ApprovalRecord
    /\ outbox \in Seq(EventTypes)
    /\ period \in PeriodStatuses
    /\ at \in [Requests -> Stages]
    /\ op \in [Requests -> Commands]
    /\ actor \in [Requests -> Users]
    /\ seen \in [Requests -> Statuses]
    /\ read \in [Requests -> SUBSET ApprovalRecord]

\* Requests that decide the same step at once leave one record for it, and
\* the steps recorded are 1, 2, ... without a gap: what currentStepOrder
\* counts is really the number of the last step decided.
RecordsContiguous == StepOrders(records) = 1 .. Cardinality(records)

\* WorkflowEngine's separation of duties, across the whole chain and whatever
\* runs concurrently: the requester decides nothing, and nobody approves two
\* steps of one chain, although each request checks a copy it read earlier.
SeparationOfDuties ==
    /\ \A r \in records : r.approver # Item.requester
    /\ \A r, s \in records :
          r.decision = "approved" /\ s.decision = "approved" /\ r.approver = s.approver
             => r = s

Announced(e) == \E i \in DOMAIN outbox : outbox[i] = e

\* An expense is approved, and ExpenseApproved announced, only when every
\* step of the chain its amount calls for has a record.
ApprovedOnlyByWholeChain ==
    status = "approved" \/ Announced("ExpenseApproved")
        => DOMAIN chain \subseteq StepOrders(records)

\* Each approval on record is of a step the chain has, by a holder of the role
\* that step requires, in the expense's department if it is so scoped: a
\* request never records its approval at a step other than the one it checked.
ApprovalsAuthorised ==
    \A r \in records :
        r.decision = "approved" =>
            /\ r.stepOrder \in DOMAIN chain
            /\ HoldsStepRole(r.approver, chain[r.stepOrder], Item)

\* An expense that needs approval enters the workflow once, however many
\* submits run at the same time: the unique itemId stops the second.
SubmittedAtMostOnce ==
    chain # <<>> =>
        \A i, j \in DOMAIN outbox :
            outbox[i] = "ExpenseSubmittedForApproval" /\ outbox[j] = outbox[i] => i = j

-----------------------------------------------------------------------------
(* The inductive invariant behind the properties above.                    *)

\* Request q has decided and not committed yet.
Deciding(q) == at[q] = "save" /\ op[q] \in ProgressCommands

\* What q holds is a copy of records committed earlier, and one new record for
\* the step after them which passed the engine's checks against that copy.
SnapshotOK(q) ==
    \E d \in read[q] :
        LET base == read[q] \ {d}
        IN  /\ base \subseteq records
            /\ StepOrders(base) = 1 .. Cardinality(base)
            /\ d.stepOrder = Cardinality(base) + 1
            /\ d.approver # Item.requester
            /\ d.decision = "approved" =>
                  /\ ~AlreadyApproved(d.approver, base)
                  /\ d.stepOrder \in DOMAIN chain
                  /\ HoldsStepRole(d.approver, chain[d.stepOrder], Item)

WholeChain == DOMAIN chain \subseteq StepOrders(records)

\* The final approval: the records in memory are as many as the steps.
HoldsFinalApproval(q) ==
    at[q] = "save" /\ op[q] = "approve" /\ Cardinality(read[q]) = Len(chain)

IInv ==
    /\ TypeOK
    /\ IsFiniteSet(records)
    /\ RecordsContiguous
    /\ SeparationOfDuties
    /\ ApprovalsAuthorised
    /\ ApprovedOnlyByWholeChain
    /\ SubmittedAtMostOnce
    /\ chain # <<>> /\ Announced("ExpenseSubmittedForApproval") => progress
    /\ \A q \in Requests :
          /\ IsFiniteSet(read[q])
          /\ Deciding(q) => SnapshotOK(q)
          /\ seen[q] = "approved" => WholeChain \/ HoldsFinalApproval(q)

-----------------------------------------------------------------------------
(* Properties of requests that do not overlap (one request slot). *)

\* Of all the state, the readers see the status of the row and its events.
Lifecycle == INSTANCE ExpenseLifecycle WITH status <- status, outbox <- outbox

\* Taken one at a time, the handlers implement the expense's lifecycle: no
\* move but the aggregate's, and one event for each.
ImplementsLifecycle == Lifecycle!Spec

\* Taken one at a time, the status tells what is on record: approved means
\* each step approved, and a rejection is on record exactly when the status
\* says so.
StatusMatchesRecords ==
    /\ status = "approved" => \A r \in records : r.decision = "approved"
    /\ status = "rejected" <=> \E r \in records : r.decision = "rejected"

-----------------------------------------------------------------------------
(* What the documentation says of the expense, and the code does not do. *)

\* reject-expense.handler.ts: "Rejection at any step ends the whole workflow".
RejectionEndsWorkflow ==
    \A r, s \in records : r.decision = "rejected" => s.stepOrder <= r.stepOrder

\* WorkflowEngine.recordRejection: "the role/department/self checks that
\* recordApproval() already had are added here too".
RejectionsAuthorised ==
    \A r \in records :
        r.decision = "rejected" =>
            /\ r.stepOrder \in DOMAIN chain
            /\ HoldsStepRole(r.approver, chain[r.stepOrder], Item)

\* TECH_DEBT.md #11: Expense has a "terminal rejected status".
RejectedIsTerminal == [][status = "rejected" => status' = "rejected"]_vars

\* FinancialPeriodController: "Closing a period makes every Expense and
\* Payroll mutation throw PeriodClosedError".
ClosedPeriodFreezes == [][~IsOpenStatus(period) => UNCHANGED database]_vars

=============================================================================
