------------------------------- MODULE AuditTrail -------------------------------
(***************************************************************************)
(* What the audit log says of one payroll run, field by field.  The        *)
(* aggregate diffs its state with a baseline whenever it records an event, *)
(* the event carries the changes, and AuditSubscriber writes an entry with *)
(* the old values for each event it is given.  Requests are transactions   *)
(* at READ COMMITTED, as in PayrollRun; what they may decide is left to    *)
(* that module, here they are any commands the aggregate allows.           *)
(***************************************************************************)
EXTENDS Naturals, Sequences, FiniteSets, SequencesExt

CONSTANTS
    TrailRequests,    \* how many requests may overlap
    Payees,           \* the employees payslips are added for
    Nobody, Director, \* approvedById: NULL, or the approver
    MaxEvents         \* bound: the events of the run

VARIABLES
    run,           \* the payroll_runs row with its payslips
    events,        \* its outbox events in commit order, [type, changes]
    trail,         \* its audit_log_entries, [event, old]: event is an index
    trailRequest,  \* trailRequest[q]: the aggregate in the memory of q, or NotLoaded
    overtaken      \* history: has a request saved a run changed since it loaded it?

trailVars == <<run, events, trail, trailRequest, overtaken>>

NotLoaded == [at |-> "none"]

TrailInit ==
    /\ run = [status |-> "draft", approvedById |-> Nobody, payslips |-> {}]
    /\ events = <<>>
    /\ trail = <<>>
    /\ trailRequest = [q \in TrailRequests |-> NotLoaded]
    /\ overtaken = FALSE

-----------------------------------------------------------------------------
(* AggregateRoot. *)

\* PayrollRun.snapshotState: the row, and how many payslips there are.
Snapshot(state) ==
    [status |-> state.status, approvedById |-> state.approvedById,
     payslipCount |-> Cardinality(state.payslips)]

\* diffAgainstBaseline: the fields that differ, with their two values.
Changes(from, to) == [f \in {g \in DOMAIN to : from[g] # to[g]} |-> <<from[f], to[f]>>]

\* Mutation: the baseline stays what was loaded.
BaselineAsLoaded(aggregate) == aggregate.baseline

BaselineAfter(aggregate) == Snapshot(aggregate.state)

\* A mutating method: it assigns, then records its event.
Mutate(aggregate, type, state) ==
    LET mutated == [aggregate EXCEPT !.state = state]
    IN  [mutated EXCEPT
            !.events = Append(@, [type |-> type,
                                  changes |-> Changes(aggregate.baseline, Snapshot(state))]),
            !.baseline = BaselineAfter(mutated)]

\* reconstitute: the before-image of the first event is what was loaded.
Loaded == [at |-> "loaded", state |-> run, baseline |-> Snapshot(run), events |-> <<>>,
           seen |-> Len(events)]

-----------------------------------------------------------------------------
(* The methods of PayrollRun that the handlers call. *)

StatusMoves ==
    {[type |-> "PayrollRunSubmittedForApproval", from |-> {"draft"}, to |-> "pending_approval"],
     [type |-> "PayrollRunRejected", from |-> {"pending_approval"}, to |-> "draft"],
     [type |-> "PayrollRunCancelled", from |-> {"draft", "pending_approval"}, to |-> "cancelled"]}

To(aggregate, type, status) == Mutate(aggregate, type, [aggregate.state EXCEPT !.status = status])

Move(aggregate, move) ==
    IF aggregate.state.status \in move.from THEN {To(aggregate, move.type, move.to)} ELSE {}

Approve(aggregate) ==
    IF aggregate.state.status # "pending_approval" THEN {}
    ELSE {Mutate(aggregate, "PayrollRunApproved",
                 [aggregate.state EXCEPT !.status = "approved", !.approvedById = Director])}

\* startProcessing, then complete: two events of one request.
Process(aggregate) ==
    IF aggregate.state.status # "approved" THEN {}
    ELSE {To(To(aggregate, "PayrollRunProcessingStarted", "processing"),
             "PayrollRunProcessed", "completed")}

AddPayslip(aggregate) ==
    IF aggregate.state.status # "draft" THEN {}
    ELSE {Mutate(aggregate, "PayslipGenerated", [aggregate.state EXCEPT !.payslips = @ \cup {e}]) :
             e \in Payees \ aggregate.state.payslips}

Results(aggregate) ==
    (UNION {Move(aggregate, move) : move \in StatusMoves}) \cup Approve(aggregate) \cup
    Process(aggregate) \cup AddPayslip(aggregate)

-----------------------------------------------------------------------------

Load(q) ==
    /\ trailRequest[q] = NotLoaded
    /\ trailRequest' = [trailRequest EXCEPT ![q] = Loaded]
    /\ UNCHANGED <<run, events, trail, overtaken>>

\* The command runs and the transaction commits: save writes back the fields and
\* inserts the payslips the table does not have, and the events are enqueued.
Save(q) ==
    /\ trailRequest[q] # NotLoaded
    /\ \E result \in Results(trailRequest[q]) :
          /\ Len(events) + Len(result.events) <= MaxEvents
          /\ run' = [result.state EXCEPT !.payslips = @ \cup run.payslips]
          /\ events' = events \o result.events
    /\ overtaken' = (overtaken \/ trailRequest[q].seen # Len(events))
    /\ trailRequest' = [trailRequest EXCEPT ![q] = NotLoaded]
    /\ UNCHANGED trail

RolledBack(q) ==
    /\ trailRequest[q] # NotLoaded
    /\ trailRequest' = [trailRequest EXCEPT ![q] = NotLoaded]
    /\ UNCHANGED <<run, events, trail, overtaken>>

\* AuditSubscriber.handle: the old values are the changes' from side.  Events of
\* one commit have the same createdAt, by which they are polled, and a delivery
\* that failed comes later: any order is possible.
Audit(i) ==
    /\ \A n \in DOMAIN trail : trail[n].event # i
    /\ trail' = Append(trail, [event |-> i,
                               old |-> [f \in DOMAIN events[i].changes |-> events[i].changes[f][1]]])
    /\ UNCHANGED <<run, events, trailRequest, overtaken>>

TrailNext ==
    \/ \E q \in TrailRequests : Load(q) \/ Save(q) \/ RolledBack(q)
    \/ \E i \in DOMAIN events : Audit(i)

TrailSpec == TrailInit /\ [][TrailNext]_trailVars

-----------------------------------------------------------------------------
(* Properties *)

Created == [status |-> "draft", approvedById |-> Nobody, payslipCount |-> 0]

Applied(state, changes) ==
    [f \in DOMAIN state |-> IF f \in DOMAIN changes THEN changes[f][2] ELSE state[f]]

\* What replaying these events from the creation of the run gives.
Replayed(sequence) == FoldLeft(LAMBDA state, e : Applied(state, e.changes), Created, sequence)

\* The run as the first n events leave it.
RunAfter(n) == Replayed(SubSeq(events, 1, n))

\* The events tell the whole history of the run: as long as no request saves a
\* run that changed since it was loaded, replaying them from its creation gives
\* the row, and the old values of each audit entry are those its predecessors
\* left, whatever it is that one request changed in two steps.
TrailReplays ==
    ~overtaken =>
        /\ RunAfter(Len(events)) = Snapshot(run)
        /\ \A n \in DOMAIN trail : \A f \in DOMAIN trail[n].old :
              trail[n].old[f] = RunAfter(trail[n].event - 1)[f]

-----------------------------------------------------------------------------
(* What the documentation says of the trail, and the code does not do. *)

\* audit.subscriber.ts: "event-sourced-style audit (reconstructible history via
\* events)": the entries, in the order of the log, each begin where those before
\* them ended.
TrailInOrder ==
    ~overtaken =>
        \A n \in DOMAIN trail : \A m \in 1 .. (n - 1) : trail[m].event < trail[n].event
=============================================================================
