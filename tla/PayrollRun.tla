------------------------------ MODULE PayrollRun ------------------------------
(***************************************************************************)
(* One payroll run, from its creation to its end, while several requests   *)
(* run at once.  As in ExpenseApproval, a request is a transaction at READ *)
(* COMMITTED that loads the run with its payslips, decides in memory and   *)
(* writes everything at commit; save writes back the status the request    *)
(* has in memory and inserts the payslips the table does not have yet.     *)
(*                                                                         *)
(* "processing" is never stored: the handler completes the run it started. *)
(***************************************************************************)
EXTENDS WorkflowEngine, ApprovalPolicies, PeriodStatus

CONSTANTS
    Requests,    \* request slots: how many requests may be in flight together
    Creator,     \* the payroll admin who created the run
    Employees    \* employees with an active salary structure

ASSUME CreatorType == Creator \in Users

VARIABLES
    status,      \* payroll_runs.status
    payslips,    \* the employees with a row in payslips
    progress,    \* is there an approval_progress row for the run?
    records,     \* its approval_records
    outbox,      \* the types of the run's outbox events after PayrollRunCreated
    period,      \* the status of the run's financial period
    request      \* request[q]: what request q is doing and holds in memory, for
                 \* the slots q in use: with a single one requests take turns

database == <<status, payslips, progress, records, outbox>>
vars     == <<database, period, request>>

Statuses == {"draft", "pending_approval", "approved", "completed", "cancelled"}
Commands == {"addPayslip", "submit", "approve", "reject", "process", "cancel"}

\* payrollRunToApprovable: no department, the steps are scoped organization-wide.
Item == [requester |-> Creator]

\* What assertTransition and addPayslip accept, and where the command leads.
AllowedFrom == [addPayslip |-> {"draft"},
                submit     |-> {"draft"},
                approve    |-> {"pending_approval"},
                reject     |-> {"pending_approval"},
                process    |-> {"approved"},
                cancel     |-> {"draft", "pending_approval"}]

Target == [addPayslip |-> "draft", submit |-> "pending_approval", approve |-> "approved",
           reject |-> "draft", process |-> "completed", cancel |-> "cancelled"]

\* Mutations: a run on its way to the director still takes payslips; a run
\* waiting for approval can be processed.
PendingMayMove(c, s) == s \in AllowedFrom[c] \/ (c = "addPayslip" /\ s = "pending_approval")
UnapprovedMayMove(c, s) == s \in AllowedFrom[c] \/ (c = "process" /\ s = "pending_approval")

MayMove(c, s) == s \in AllowedFrom[c]

\* The events recordEvent collects while the command runs.
EventsOf == [addPayslip |-> <<"PayslipGenerated">>,
             submit     |-> <<"PayrollRunSubmittedForApproval">>,
             approve    |-> <<"PayrollRunApproved">>,
             reject     |-> <<"PayrollRunRejected">>,
             process    |-> <<"PayrollRunProcessingStarted", "PayrollRunProcessed">>,
             cancel     |-> <<"PayrollRunCancelled">>]

Idle == [at |-> "idle", command |-> "cancel", user |-> Creator, adding |-> {},
         status |-> "draft", payslips |-> {}, records |-> {}, events |-> <<>>]

Init ==
    /\ status = "draft"
    /\ payslips = {}
    /\ progress = FALSE
    /\ records = {}
    /\ outbox = <<>>
    /\ period = "open"
    /\ \E slots \in (SUBSET Requests) \ {{}} : request = [q \in slots |-> Idle]

-----------------------------------------------------------------------------
(* Reads and decisions, in memory. *)

\* The request arrives and findById loads the run with its payslips.  Only the
\* decisions look at the user; process and cancel do not ask for the period.
Begin(q, c, u, adding) ==
    /\ request[q].at = "idle"
    /\ c \in {"approve", "reject"} \/ u = Creator
    /\ IF c = "addPayslip" THEN \E e \in Employees : adding = {e} ELSE adding = {}
    /\ request' = [request EXCEPT ![q] =
          [Idle EXCEPT !.at = IF c \in {"process", "cancel"} THEN "decide" ELSE "period",
                       !.command = c, !.user = u, !.adding = adding,
                       !.status = status, !.payslips = payslips]]
    /\ UNCHANGED <<database, period>>

\* periodStatus.isOpen, outside the transaction.
CheckPeriod(q) ==
    /\ request[q].at = "period"
    /\ IsOpenStatus(period)
    /\ request' = [request EXCEPT ![q].at = "decide"]
    /\ UNCHANGED <<database, period>>

\* The run in memory after command c, ready to be saved.
Decided(m, c) ==
    [m EXCEPT !.at = "save", !.status = Target[c], !.events = EventsOf[c],
              !.payslips = @ \cup m.adding]

\* PayrollRun.addPayslip, submitForApproval, startProcessing with complete, and
\* cancel, on the run as loaded.
Decide(q) ==
    LET m == request[q]
    IN  /\ m.at = "decide"
        /\ m.command \notin {"approve", "reject"}
        /\ MayMove(m.command, m.status)
        /\ m.adding \cap m.payslips = {}
        /\ m.command = "submit" => m.payslips # {}
        /\ request' = [request EXCEPT ![q] = Decided(m, m.command)]
        /\ UNCHANGED <<database, period>>

\* findByItemId, WorkflowEngine.recordApproval and, on the last step,
\* PayrollRun.approve.
DecideApproval(q) ==
    LET m == request[q]
        decided == records \cup {DecisionRecord(m.user, records, "approved")}
    IN  /\ m.at = "decide"
        /\ m.command = "approve"
        /\ progress
        /\ MayApprove(m.user, PayrollChain, records, Item)
        /\ IF IsFinalApproval(PayrollChain, records)
           THEN /\ MayMove("approve", m.status)
                /\ request' = [request EXCEPT ![q] =
                                  [Decided(m, "approve") EXCEPT !.records = decided]]
           ELSE request' = [request EXCEPT ![q].at = "save", ![q].records = decided]
        /\ UNCHANGED <<database, period>>

\* findByItemId, WorkflowEngine.recordRejection and PayrollRun.reject.
DecideRejection(q) ==
    LET m == request[q]
    IN  /\ m.at = "decide"
        /\ m.command = "reject"
        /\ progress
        /\ MayReject(m.user, PayrollChain, records, Item)
        /\ MayMove("reject", m.status)
        /\ request' = [request EXCEPT ![q] =
              [Decided(m, "reject") EXCEPT
                  !.records = records \cup {DecisionRecord(m.user, records, "rejected")}]]
        /\ UNCHANGED <<database, period>>

-----------------------------------------------------------------------------
(* Commit: every write of the handler, together. *)

\* Mutation: initialize without the unique itemId.
UpsertProgress == progress' = TRUE

\* ApprovalProgressRepository.initialize: itemId is unique, so a second row for
\* the run makes the request fail.
InitializeProgress == ~progress /\ progress' = TRUE

\* pullDomainEvents, which enqueue writes to the outbox.
EnqueuedEvents(m) == m.events

Commit(q) ==
    LET m == request[q]
    IN  /\ m.at = "save"
        /\ IF m.command = "submit" THEN InitializeProgress ELSE UNCHANGED progress
        /\ records' = SaveRecords(records, m.records)
        /\ status' = m.status
        /\ payslips' = payslips \cup m.payslips
        /\ outbox' = outbox \o EnqueuedEvents(m)
        /\ request' = [request EXCEPT ![q] = Idle]
        /\ UNCHANGED period

\* A thrown DomainError, a violated unique constraint, a lost connection or a
\* crash: the transaction rolls back and nothing it did remains.
Rollback(q) ==
    /\ request[q].at # "idle"
    /\ request' = [request EXCEPT ![q] = Idle]
    /\ UNCHANGED <<database, period>>

ClosePeriod ==
    /\ MayClose(period)
    /\ period' = "closed"
    /\ UNCHANGED <<database, request>>

ReopenPeriod ==
    /\ MayReopen(period)
    /\ period' = "reopened"
    /\ UNCHANGED <<database, request>>

-----------------------------------------------------------------------------

Step(q) ==
    \/ \E c \in Commands, u \in Users, adding \in SUBSET Employees : Begin(q, c, u, adding)
    \/ CheckPeriod(q)
    \/ Decide(q)
    \/ DecideApproval(q)
    \/ DecideRejection(q)
    \/ Commit(q)
    \/ Rollback(q)

Next ==
    \/ \E q \in DOMAIN request : Step(q)
    \/ ClosePeriod
    \/ ReopenPeriod

Spec == Init /\ [][Next]_vars

-----------------------------------------------------------------------------
(* Properties *)

EventTypes == {"PayslipGenerated", "PayrollRunSubmittedForApproval", "PayrollRunApproved",
               "PayrollRunRejected", "PayrollRunProcessingStarted", "PayrollRunProcessed",
               "PayrollRunCancelled"}

Memory == [at : {"idle", "period", "decide", "save"}, command : Commands, user : Users,
           adding : SUBSET Employees, status : Statuses, payslips : SUBSET Employees,
           records : SUBSET ApprovalRecord, events : Seq(EventTypes)]

\* Every variable keeps its type.
TypeOK ==
    /\ status \in Statuses
    /\ payslips \in SUBSET Employees
    /\ progress \in BOOLEAN
    /\ records \in SUBSET ApprovalRecord
    /\ outbox \in Seq(EventTypes)
    /\ period \in PeriodStatuses
    /\ DOMAIN request \subseteq Requests
    /\ \A q \in DOMAIN request : request[q] \in Memory

Announced(e) == {i \in DOMAIN outbox : outbox[i] = e}

\* The run enters the workflow once and its one step is decided once in its
\* whole life, by a finance director other than the creator, however many
\* submits, approvals and rejections overlap.  (A rejection that overlaps the
\* approval may leave a second record, for a step the chain does not have.)
DecidedOnceByDirector ==
    /\ Cardinality(Announced("PayrollRunSubmittedForApproval")) <= 1
    /\ \A r \in records :
          /\ r.approver # Creator
          /\ r.decision = "approved" => r.stepOrder = 1
          /\ r.stepOrder = 1 => HoldsStepRole(r.approver, Director, Item)
    /\ \A r, s \in records : r.stepOrder = s.stepOrder => r = s

\* Payment comes after approval, and approval after the submission of a run
\* with payslips, although the status a request writes back may be stale.
PaidOnlyWhenApproved ==
    /\ status = "completed" => Announced("PayrollRunProcessed") # {}
    /\ \A i \in Announced("PayrollRunProcessed") :
          \E j \in Announced("PayrollRunApproved") : j < i
    /\ Announced("PayrollRunApproved") # {} => payslips # {} /\ records # {}

-----------------------------------------------------------------------------
(* Properties of requests that do not overlap.                             *)

TakeTurns == \E q \in Requests : DOMAIN request = {q}

\* Of all the state, the readers see the row, its payslips and its events.
Lifecycle ==
    INSTANCE PayrollLifecycle WITH
        Employees <- Employees, status <- status, payslips <- payslips, outbox <- outbox

\* Taken one at a time, the handlers implement the payroll run's lifecycle: no
\* move but the aggregate's, payslips in draft only, and one event for each.
ImplementsLifecycle ==
    /\ Lifecycle!Init
    /\ [][TakeTurns => [Lifecycle!Next]_<<status, payslips, outbox>>]_vars

-----------------------------------------------------------------------------
(* What the documentation says of the run, and the code does not do. *)

\* reject-payroll-run.handler.ts: after a rejection "the payroll admin can now
\* addPayslip/edit and resubmit, which will call progressRepo.initialize()
\* fresh next time": a draft has no approval progress in its way.
DraftCanBeSubmitted == status = "draft" => ~progress

\* PayrollRun.addPayslip: "Adding a payslip is only legal while the run is
\* still 'draft'".
PayslipsChangeOnlyInDraft == [][payslips' # payslips => status = "draft"]_vars

\* FinancialPeriodController: "Closing a period makes every Expense and
\* Payroll mutation throw PeriodClosedError".
ClosedPeriodFreezes == [][~IsOpenStatus(period) => UNCHANGED database]_vars

=============================================================================
