----------------------------- MODULE EventDelivery -----------------------------
(***************************************************************************)
(* From the outbox to the subscribers: OutboxDispatchService polls the     *)
(* committed events and hands each to every subscriber; what a subscriber  *)
(* failed to process becomes a failed_event_deliveries row and a BullMQ    *)
(* job that redelivers it; an operator may requeue what was given up.      *)
(*                                                                         *)
(* Every await is a step.  Pollers may overlap (a second instance, or a    *)
(* poll longer than the 3 s period).  The queue is external: it keeps one  *)
(* job per jobId, and drops a finished job (removeOnComplete/Fail).        *)
(***************************************************************************)
EXTENDS Integers, FiniteSets

CONSTANTS
    Events,        \* outbox_events rows that business transactions may commit
    Subscribers,   \* subscribers registered for these events
    Pollers,       \* concurrent runs of dispatchPendingBatch
    Operators,     \* concurrent runs of RetryEventDeliveryHandler
    MaxAttempts,   \* EVENT_REDELIVERY_JOB_OPTIONS.attempts
    MaxFailures,   \* bound: how often a subscriber throws
    MaxFaults,     \* bound: crashes, failing database writes or queue calls
    MaxRetries     \* bound: operator requests

ASSUME BoundsType ==
    /\ MaxAttempts \in Nat \ {0}
    /\ MaxFailures \in Nat /\ MaxFaults \in Nat /\ MaxRetries \in Nat

\* DomainEventDispatcher keeps its subscribers in an array.
ASSUME SubscribersFinite == IsFiniteSet(Subscribers)

Pairs == Events \X Subscribers

RowStatuses == {"none", "pending_retry", "recovered", "permanently_failed"}
JobStates   == {"none", "waiting", "running", "succeeded", "threw", "done"}

VARIABLES
    outbox,      \* outbox[e]: "absent" until committed, then the row's status
    processed,   \* processed[r]: how often the subscriber completed the event
    thrown,      \* thrown[r]: how often it threw instead
    row,         \* row[r]: status of the pair's failed_event_deliveries row
    attempts,    \* attempts[r]: the row's count of attempts
    job,         \* job[r]: the pair's redelivery job and its attemptsMade
    poller,      \* poller[p]: what it does, with which events and failures
    operator,    \* operator[o]: what it does, with which pair
    failures, faults, retries   \* what is left of the bounds

invoked  == <<processed, thrown>>
failed_event_deliveries == <<row, attempts>>
database == <<outbox, invoked, failed_event_deliveries>>
budgets  == <<failures, faults, retries>>
vars     == <<database, job, poller, operator, budgets>>

NoJob == [state |-> "none", made |-> 0]

\* failed: subscribers to record; recorded: rows whose retry is to be scheduled.
IdlePoller == [at |-> "idle", batch |-> {}, event |-> {}, failed |-> {}, recorded |-> {}]
IdleOperator == [at |-> "idle", pair |-> {}]

Init ==
    /\ outbox = [e \in Events |-> "absent"]
    /\ processed = [r \in Pairs |-> 0]
    /\ thrown = [r \in Pairs |-> 0]
    /\ row = [r \in Pairs |-> "none"]
    /\ attempts = [r \in Pairs |-> 0]
    /\ job = [r \in Pairs |-> NoJob]
    /\ poller = [p \in Pollers |-> IdlePoller]
    /\ operator = [o \in Operators |-> IdleOperator]
    /\ failures = MaxFailures
    /\ faults = MaxFaults
    /\ retries = MaxRetries

Fault == faults > 0 /\ faults' = faults - 1 /\ UNCHANGED <<failures, retries>>

\* queue.add: nothing happens if a job of that id is still there.
WithJob(jobs, r) ==
    IF jobs[r].state = "none" THEN [jobs EXCEPT ![r] = [state |-> "waiting", made |-> 0]]
    ELSE jobs

-----------------------------------------------------------------------------
(* OutboxService and OutboxDispatchService *)

\* A business transaction commits with its event.
Enqueue(e) ==
    /\ outbox[e] = "absent"
    /\ outbox' = [outbox EXCEPT ![e] = "pending"]
    /\ UNCHANGED <<invoked, failed_event_deliveries, job, poller, operator, budgets>>

\* Mutation: the query forgets where status = 'pending'.
CommittedEvents == {e \in Events : outbox[e] # "absent"}

PendingEvents == {e \in Events : outbox[e] = "pending"}

Poll(p) ==
    /\ poller[p].at = "idle"
    /\ PendingEvents # {}
    /\ poller' = [poller EXCEPT ![p].at = "dispatch", ![p].batch = PendingEvents]
    /\ UNCHANGED <<database, job, operator, budgets>>

\* DomainEventDispatcher.dispatch: every subscriber runs, bad is the set of
\* those that threw.
Dispatch(p, e, bad) ==
    /\ poller[p].at = "dispatch"
    /\ e \in poller[p].batch
    /\ Cardinality(bad) <= failures
    /\ failures' = failures - Cardinality(bad)
    /\ processed' = [r \in Pairs |->
          IF r[1] = e /\ r[2] \notin bad THEN processed[r] + 1 ELSE processed[r]]
    /\ thrown' = [r \in Pairs |->
          IF r[1] = e /\ r[2] \in bad THEN thrown[r] + 1 ELSE thrown[r]]
    /\ poller' = [poller EXCEPT ![p].at = "mark", ![p].event = {e},
                                ![p].batch = @ \ {e}, ![p].failed = bad]
    /\ UNCHANGED <<outbox, failed_event_deliveries, job, operator, faults, retries>>

\* Where the loop goes after one event.
NextEvent(s) ==
    [s EXCEPT !.at = IF s.batch = {} THEN "idle" ELSE "dispatch",
              !.event = {}, !.failed = {}, !.recorded = {}]

\* Mutation: the failures of the dispatch are swallowed.
SwallowFailures(s) == NextEvent(s)

AfterMark(s) == IF s.failed = {} THEN NextEvent(s) ELSE [s EXCEPT !.at = "record"]

\* updateMany ... where status = 'pending'; the failures come after it.
MarkDispatched(p) ==
    /\ poller[p].at = "mark"
    /\ outbox' = [e \in Events |-> IF e \in poller[p].event THEN "dispatched" ELSE outbox[e]]
    /\ poller' = [poller EXCEPT ![p] = AfterMark(@)]
    /\ UNCHANGED <<invoked, failed_event_deliveries, job, operator, budgets>>

\* Mutation: attempts computed from the attempt of this job, not incremented.
SetRowAbsolutely(r, s, more) ==
    /\ row' = [row EXCEPT ![r] = s]
    /\ attempts' = [attempts EXCEPT ![r] = IF more = 1 THEN job[r].made + 2 ELSE @]

\* A row's status and attempts are written by one statement.
SetRow(r, s, more) ==
    /\ row' = [row EXCEPT ![r] = s]
    /\ attempts' = [attempts EXCEPT ![r] = @ + more]

\* recordFailures: one upsert per failure, to pending_retry whatever it was.
RecordFailure(p, e, s) ==
    /\ poller[p].at = "record"
    /\ e \in poller[p].event /\ s \in poller[p].failed
    /\ SetRow(<<e, s>>, "pending_retry", 1)
    /\ poller' = [poller EXCEPT ![p].failed = @ \ {s}, ![p].recorded = @ \cup {s},
                                ![p].at = IF poller[p].failed = {s} THEN "schedule" ELSE @]
    /\ UNCHANGED <<outbox, invoked, job, operator, budgets>>

AfterSchedule(q, s) ==
    IF q.recorded = {s} THEN NextEvent(q) ELSE [q EXCEPT !.recorded = @ \ {s}]

Scheduled(p, s) == poller' = [poller EXCEPT ![p] = AfterSchedule(@, s)]

ScheduleRetry(p, e, s) ==
    /\ poller[p].at = "schedule"
    /\ e \in poller[p].event /\ s \in poller[p].recorded
    /\ job' = WithJob(job, <<e, s>>)
    /\ Scheduled(p, s)
    /\ UNCHANGED <<database, operator, budgets>>

\* scheduleRetry throws: caught, the row waits for an operator.
ScheduleRetryFails(p, s) ==
    /\ poller[p].at = "schedule"
    /\ s \in poller[p].recorded
    /\ Fault
    /\ Scheduled(p, s)
    /\ UNCHANGED <<database, job, operator>>

\* A write throws and the catch of the loop goes on with the next event, or the
\* process dies and the next poll starts afresh.
PollerFault(p) ==
    /\ poller[p].at # "idle"
    /\ Fault
    /\ \/ poller[p].at \in {"mark", "record"} /\ poller' = [poller EXCEPT ![p] = NextEvent(@)]
       \/ poller' = [poller EXCEPT ![p] = IdlePoller]
    /\ UNCHANGED <<database, job, operator>>

-----------------------------------------------------------------------------
(* EventRedeliveryProcessor and EventRedeliveryService *)

Becomes(r, state) == job' = [job EXCEPT ![r].state = state]

\* A worker takes the job and reads the row: recovered means nothing to do.
TakeJob(r) ==
    /\ job[r].state = "waiting"
    /\ Becomes(r, IF row[r] = "recovered" THEN "done" ELSE "running")
    /\ UNCHANGED <<database, poller, operator, budgets>>

\* dispatchTo: only the one subscriber is invoked.
Redeliver(r) ==
    /\ job[r].state = "running"
    /\ \/ /\ processed' = [processed EXCEPT ![r] = @ + 1]
          /\ Becomes(r, "succeeded")
          /\ UNCHANGED <<thrown, failures>>
       \/ /\ failures > 0 /\ failures' = failures - 1
          /\ thrown' = [thrown EXCEPT ![r] = @ + 1]
          /\ Becomes(r, "threw")
          /\ UNCHANGED processed
    /\ UNCHANGED <<outbox, failed_event_deliveries, poller, operator, faults, retries>>

\* Mutation: the row is marked before the subscriber has run.
MarkRecoveredEarly(r) ==
    /\ job[r].state = "running"
    /\ SetRow(r, "recovered", 1)
    /\ Becomes(r, "done")
    /\ UNCHANGED <<outbox, invoked, poller, operator, budgets>>

MarkRecovered(r) ==
    /\ job[r].state = "succeeded"
    /\ SetRow(r, "recovered", 1)
    /\ Becomes(r, "done")
    /\ UNCHANGED <<outbox, invoked, poller, operator, budgets>>

LastAttempt(r) == job[r].made + 1 >= MaxAttempts

\* Mutation: the error is not thrown again, so BullMQ takes the job as completed.
GiveUp(r) == Becomes(r, "done")

\* BullMQ queues the job again.
TryAgain(r) == job' = [job EXCEPT ![r] = [state |-> "waiting", made |-> @.made + 1]]

\* recordAttempt, and the rethrow that makes BullMQ try again.
RecordAttempt(r) ==
    /\ job[r].state = "threw"
    /\ ~LastAttempt(r)
    /\ SetRow(r, row[r], 1)
    /\ TryAgain(r)
    /\ UNCHANGED <<outbox, invoked, poller, operator, budgets>>

MarkPermanentlyFailed(r) ==
    /\ job[r].state = "threw"
    /\ LastAttempt(r)
    /\ SetRow(r, "permanently_failed", 1)
    /\ Becomes(r, "done")
    /\ UNCHANGED <<outbox, invoked, poller, operator, budgets>>

\* The processor has returned, or thrown for the last time: the job is removed.
RemoveJob(r) ==
    /\ job[r].state = "done"
    /\ job' = [job EXCEPT ![r] = NoJob]
    /\ UNCHANGED <<database, poller, operator, budgets>>

\* A worker dies and BullMQ hands the stalled job out again; a query throws
\* before the subscriber ran, or markRecovered after it; or the write of the
\* catch block throws, which ends the attempt all the same.
WorkerFault(r) ==
    /\ Fault
    /\ \/ job[r].state \in {"running", "succeeded", "threw", "done"} /\ Becomes(r, "waiting")
       \/ job[r].state \in {"running", "succeeded"} /\ Becomes(r, "threw")
       \/ job[r].state = "threw" /\ LastAttempt(r) /\ Becomes(r, "done")
       \/ job[r].state = "threw" /\ ~LastAttempt(r) /\ TryAgain(r)
    /\ UNCHANGED <<database, poller, operator>>

-----------------------------------------------------------------------------
(* RetryEventDeliveryHandler *)

\* Only a permanently failed row is accepted.
AcceptRetry(o, r) ==
    /\ operator[o].at = "idle"
    /\ retries > 0
    /\ row[r] = "permanently_failed"
    /\ retries' = retries - 1
    /\ operator' = [operator EXCEPT ![o] = [at |-> "enqueue", pair |-> {r}]]
    /\ UNCHANGED <<database, job, poller, failures, faults>>

\* The job first ...
EnqueueRetry(o, r) ==
    /\ operator[o].at = "enqueue"
    /\ r \in operator[o].pair
    /\ job' = WithJob(job, r)
    /\ operator' = [operator EXCEPT ![o].at = "flip"]
    /\ UNCHANGED <<database, poller, budgets>>

\* ... then the status.
FlipStatus(o, r) ==
    /\ operator[o].at = "flip"
    /\ r \in operator[o].pair
    /\ SetRow(r, "pending_retry", 0)
    /\ operator' = [operator EXCEPT ![o] = IdleOperator]
    /\ UNCHANGED <<outbox, invoked, job, poller, budgets>>

\* The enqueue or the status write throws, or the process dies.
OperatorFault(o) ==
    /\ operator[o].at # "idle"
    /\ Fault
    /\ operator' = [operator EXCEPT ![o] = IdleOperator]
    /\ UNCHANGED <<database, job, poller>>

-----------------------------------------------------------------------------

PollerStep(p) ==
    \/ Poll(p)
    \/ \E e \in Events, bad \in SUBSET Subscribers : Dispatch(p, e, bad)
    \/ MarkDispatched(p)
    \/ \E e \in Events, s \in Subscribers : RecordFailure(p, e, s) \/ ScheduleRetry(p, e, s)

JobStep(r) ==
    \/ TakeJob(r)
    \/ Redeliver(r)
    \/ MarkRecovered(r)
    \/ RecordAttempt(r)
    \/ MarkPermanentlyFailed(r)
    \/ RemoveJob(r)

OperatorStep(o) ==
    \E r \in Pairs : AcceptRetry(o, r) \/ EnqueueRetry(o, r) \/ FlipStatus(o, r)

Faults ==
    \/ \E p \in Pollers : PollerFault(p) \/ \E s \in Subscribers : ScheduleRetryFails(p, s)
    \/ \E r \in Pairs : WorkerFault(r)
    \/ \E o \in Operators : OperatorFault(o)

Next ==
    \/ \E e \in Events : Enqueue(e)
    \/ \E p \in Pollers : PollerStep(p)
    \/ \E r \in Pairs : JobStep(r)
    \/ \E o \in Operators : OperatorStep(o)
    \/ Faults

Spec == Init /\ [][Next]_vars

\* The poll job repeats every 3 s, and a BullMQ worker serves each job.
Fairness ==
    /\ \A p \in Pollers : WF_vars(PollerStep(p))
    /\ \A r \in Pairs : WF_vars(JobStep(r))

FairSpec == Spec /\ Fairness

-----------------------------------------------------------------------------
(* Properties *)

PollerState == [at : {"idle", "dispatch", "mark", "record", "schedule"},
                batch : SUBSET Events, event : SUBSET Events,
                failed : SUBSET Subscribers, recorded : SUBSET Subscribers]

JobType == [state : JobStates, made : 0 .. MaxAttempts - 1]

\* Every variable keeps its type.
TypeOK ==
    /\ outbox \in [Events -> {"absent", "pending", "dispatched"}]
    /\ processed \in [Pairs -> Nat] /\ thrown \in [Pairs -> Nat]
    /\ attempts \in [Pairs -> Nat]
    /\ row \in [Pairs -> RowStatuses]
    /\ job \in [Pairs -> JobType]
    /\ poller \in [Pollers -> PollerState]
    /\ operator \in [Operators -> [at : {"idle", "enqueue", "flip"}, pair : SUBSET Pairs]]
    /\ failures \in 0 .. MaxFailures
    /\ faults \in 0 .. MaxFaults
    /\ retries \in 0 .. MaxRetries

\* Some poller still holds the subscriber's failure in memory.
HeldInMemory(r) ==
    \E p \in Pollers : r[1] \in poller[p].event /\ r[2] \in poller[p].failed

\* What #9 is about: once an event is marked dispatched, each subscriber has
\* completed it or its failure is on record (or about to be).
NoSilentLoss ==
    \A r \in Pairs :
        outbox[r[1]] = "dispatched" => processed[r] > 0 \/ row[r] # "none" \/ HeldInMemory(r)

\* A row says "recovered" only of a subscriber that completed the event: what
\* the operator reads is true, whatever pollers, workers, operators and faults
\* interleave.
RecoveredMeansProcessed ==
    \A r \in Pairs : row[r] = "recovered" => processed[r] > 0

\* FailedEventDeliveryService: attempts "counts TOTAL delivery attempts ever made
\* for this pair ... across every failure episode".  While nothing crashes it
\* does, but for the attempt a worker is about to add.
AttemptsCountDeliveries ==
    \A r \in Pairs :
        row[r] # "none" =>
            attempts[r] + (IF job[r].state \in {"succeeded", "threw"} THEN 1 ELSE 0)
                = processed[r] + thrown[r]

\* While nothing crashes, no two polls overlap and operators take turns, a failure of one subscriber
\* makes no subscriber complete an event twice.
ProcessedAtMostOnce == \A r \in Pairs : processed[r] <= 1

\* Redelivery ends: each committed event is completed by each subscriber, or
\* its loss is shown to the operator, as long as nothing crashes.
Settled ==
    \A r \in Pairs :
        outbox[r[1]] = "pending" ~> processed[r] > 0 \/ row[r] = "permanently_failed"

\* RetryEventDeliveryHandler's comment rejects an order of its two writes that
\* "would leave a row claiming `pending_retry` with no job in existence".
BeingScheduled(r) ==
    \E p \in Pollers : r[1] \in poller[p].event /\ r[2] \in poller[p].recorded

NoOrphanRetry ==
    \A r \in Pairs :
        row[r] = "pending_retry" => job[r].state # "none" \/ BeingScheduled(r)

=============================================================================
