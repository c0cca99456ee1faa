------------------------- MODULE EventDeliveryProofs -------------------------
(***************************************************************************)
(* The invariants of EventDelivery, for every set of events, subscribers,  *)
(* pollers and operators and every bound: its types, that a recovered row  *)
(* is true, and, while nothing crashes, that no failure is lost; and, if   *)
(* neither polls nor operators overlap, that each subscriber completes an  *)
(* event at most once and that a row counts the deliveries of its pair.    *)
(***************************************************************************)
EXTENDS EventDelivery, TLAPS, FiniteSetTheorems

USE DEF Pairs, RowStatuses, JobStates, NoJob, IdlePoller, IdleOperator, invoked,
        failed_event_deliveries, database, budgets, vars

\* What a poller writes is its own state.
LEMMA OnePoller ==
    ASSUME poller \in [Pollers -> PollerState], NEW p \in Pollers, NEW s \in PollerState
    PROVE  [poller EXCEPT ![p] = s] \in [Pollers -> PollerState]
OBVIOUS

\* Going on with the next event keeps the type of a poller.
LEMMA NextEventType ==
    ASSUME NEW s \in PollerState
    PROVE  NextEvent(s) \in PollerState
<1>1. CASE s.batch = {}
  BY <1>1 DEF PollerState, NextEvent
<1>2. CASE s.batch # {}
  BY <1>2 DEF PollerState, NextEvent
<1>3. QED
  BY <1>1, <1>2

\* A job keeps its type when its state changes or it is queued again.
LEMMA OneJob ==
    ASSUME job \in [Pairs -> JobType], NEW r \in Pairs, NEW s \in JobStates
    PROVE  [job EXCEPT ![r].state = s] \in [Pairs -> JobType]
BY DEF JobType

LEMMA JobAgain ==
    ASSUME job \in [Pairs -> JobType], NEW r \in Pairs, ~LastAttempt(r), TryAgain(r)
    PROVE  job' \in [Pairs -> JobType]
BY BoundsType DEF JobType, LastAttempt, TryAgain

\* A job is queued for a pair unless it has one.
LEMMA OneMoreJob ==
    ASSUME job \in [Pairs -> JobType], NEW r \in Pairs
    PROVE  WithJob(job, r) \in [Pairs -> JobType]
<1>1. [state |-> "waiting", made |-> 0] \in JobType
  BY BoundsType DEF JobType
<1>2. QED
  BY <1>1 DEF WithJob

LEMMA ScheduledType ==
    ASSUME poller \in [Pollers -> PollerState], NEW p \in Pollers,
           NEW s \in Subscribers, Scheduled(p, s)
    PROVE  poller' \in [Pollers -> PollerState]
<1> DEFINE q == poller[p]
<1>1. poller' = [poller EXCEPT ![p] = AfterSchedule(q, s)] /\ q \in PollerState
  BY DEF Scheduled
<1> HIDE DEF q
<1>2. [q EXCEPT !.recorded = @ \ {s}] \in PollerState
  BY <1>1 DEF PollerState
<1>3. AfterSchedule(q, s) \in PollerState
  BY <1>1, <1>2, NextEventType DEF AfterSchedule
<1>4. QED
  BY <1>1, <1>3, OnePoller

\* Every variable keeps its type (TypeOK of EventDelivery).
THEOREM TypeCorrect == Spec => []TypeOK
<1>1. Init => TypeOK
  BY BoundsType DEF Init, TypeOK, PollerState, JobType
<1>2. TypeOK /\ [Next]_vars => TypeOK'
  <2> SUFFICES ASSUME TypeOK, [Next]_vars PROVE TypeOK'
    OBVIOUS
  <2> USE BoundsType
  <2>1. CASE UNCHANGED vars
    BY <2>1 DEF TypeOK, PollerState, JobType
  <2>2. ASSUME NEW e \in Events, Enqueue(e) PROVE TypeOK'
    BY <2>2 DEF TypeOK, PollerState, JobType, Enqueue
  <2>3. ASSUME NEW p \in Pollers, PollerStep(p) PROVE TypeOK'
    <3>1. CASE Poll(p)
      <4>1. PendingEvents \in SUBSET Events
        BY DEF PendingEvents
      <4>2. poller' \in [Pollers -> PollerState]
        <5> DEFINE q == poller[p]
        <5>1. q \in PollerState
          BY DEF TypeOK
        <5>2. poller' = [poller EXCEPT ![p] =
                  [q EXCEPT !.at = "dispatch", !.batch = PendingEvents]]
          BY <3>1 DEF Poll
        <5> HIDE DEF q
        <5>3. [q EXCEPT !.at = "dispatch", !.batch = PendingEvents] \in PollerState
          BY <4>1, <5>1 DEF PollerState
        <5>4. QED
          BY <5>2, <5>3, OnePoller DEF TypeOK
      <4>3. QED
        BY <3>1, <4>2 DEF TypeOK, PollerState, JobType, Poll
    <3>2. ASSUME NEW e \in Events, NEW bad \in SUBSET Subscribers, Dispatch(p, e, bad)
          PROVE  TypeOK'
      <4>1. Cardinality(bad) \in Nat
        BY SubscribersFinite, FS_Subset, FS_CardinalityType
      <4>2. failures' \in 0 .. MaxFailures
        BY <3>2, <4>1 DEF TypeOK, PollerState, JobType, Dispatch
      <4>3. processed' \in [Pairs -> Nat] /\ thrown' \in [Pairs -> Nat]
        BY <3>2 DEF TypeOK, PollerState, JobType, Dispatch
      <4>4. poller' \in [Pollers -> PollerState]
        <5> DEFINE q == poller[p]
        <5>1. q \in PollerState
          BY DEF TypeOK
        <5>2. poller' = [poller EXCEPT ![p] =
                  [q EXCEPT !.at = "mark", !.event = {e}, !.batch = q.batch \ {e},
                            !.failed = bad]]
          BY <3>2 DEF Dispatch
        <5> HIDE DEF q
        <5>3. [q EXCEPT !.at = "mark", !.event = {e}, !.batch = q.batch \ {e},
                        !.failed = bad] \in PollerState
          BY <5>1 DEF PollerState
        <5>4. QED
          BY <5>2, <5>3, OnePoller DEF TypeOK
      <4>5. QED
        BY <3>2, <4>2, <4>3, <4>4 DEF TypeOK, PollerState, JobType, Dispatch
    <3>3. CASE MarkDispatched(p)
      <4>1. poller' \in [Pollers -> PollerState]
        <5> DEFINE q == poller[p]
        <5>1. q \in PollerState
          BY DEF TypeOK
        <5>2. poller' = [poller EXCEPT ![p] = AfterMark(q)]
          BY <3>3 DEF MarkDispatched
        <5> HIDE DEF q
        <5>3. [q EXCEPT !.at = "record"] \in PollerState
          BY <5>1 DEF PollerState
        <5>4. AfterMark(q) \in PollerState
          BY <5>1, <5>3, NextEventType DEF AfterMark
        <5>5. QED
          BY <5>2, <5>4, OnePoller DEF TypeOK
      <4>2. outbox' \in [Events -> {"absent", "pending", "dispatched"}]
        BY <3>3 DEF TypeOK, MarkDispatched
      <4>3. QED
        BY <3>3, <4>1, <4>2 DEF TypeOK, PollerState, JobType, MarkDispatched
    <3>4. ASSUME NEW e \in Events, NEW s \in Subscribers, RecordFailure(p, e, s)
          PROVE  TypeOK'
      <4>1. poller' \in [Pollers -> PollerState]
        <5> DEFINE q == poller[p]
                   next == IF q.failed = {s} THEN "schedule" ELSE q.at
        <5>1. q \in PollerState
          BY DEF TypeOK
        <5>2. poller' = [poller EXCEPT ![p] =
                  [q EXCEPT !.failed = q.failed \ {s}, !.recorded = q.recorded \cup {s},
                            !.at = next]]
          BY <3>4 DEF RecordFailure
        <5> HIDE DEF q
        <5>3. next \in {"idle", "dispatch", "mark", "record", "schedule"}
          BY <5>1 DEF PollerState
        <5> HIDE DEF next
        <5>4. [q EXCEPT !.failed = q.failed \ {s}, !.recorded = q.recorded \cup {s},
                        !.at = next] \in PollerState
          BY <5>1, <5>3 DEF PollerState
        <5>5. QED
          BY <5>2, <5>4, OnePoller DEF TypeOK
      <4>2. row' \in [Pairs -> RowStatuses] /\ attempts' \in [Pairs -> Nat]
        BY <3>4 DEF TypeOK, RecordFailure, SetRow
      <4>3. QED
        BY <3>4, <4>1, <4>2 DEF TypeOK, PollerState, JobType, RecordFailure
    <3>5. ASSUME NEW e \in Events, NEW s \in Subscribers, ScheduleRetry(p, e, s)
          PROVE  TypeOK'
      <4>1. poller' \in [Pollers -> PollerState]
        BY <3>5, ScheduledType DEF ScheduleRetry, TypeOK
      <4>2. job' \in [Pairs -> JobType]
        BY <3>5, OneMoreJob DEF TypeOK, ScheduleRetry
      <4>3. QED
        BY <3>5, <4>1, <4>2 DEF TypeOK, ScheduleRetry
    <3>6. QED
      BY <2>3, <3>1, <3>2, <3>3, <3>4, <3>5 DEF PollerStep
  <2>4. ASSUME NEW r \in Pairs, JobStep(r) PROVE TypeOK'
    <3>1. CASE TakeJob(r)
      BY <3>1 DEF TypeOK, PollerState, JobType, TakeJob, Becomes
    <3>2. CASE Redeliver(r)
      <4>1. job' \in [Pairs -> JobType]
        <5>1. \E s \in JobStates : job' = [job EXCEPT ![r].state = s]
          BY <3>2 DEF Redeliver, Becomes
        <5>2. PICK s \in JobStates : job' = [job EXCEPT ![r].state = s]
          BY <5>1
        <5>3. job \in [Pairs -> JobType]
          BY DEF TypeOK
        <5> HIDE DEF JobStates, Pairs
        <5>4. QED
          BY <5>2, <5>3, OneJob
      <4>2. /\ processed' \in [Pairs -> Nat] /\ thrown' \in [Pairs -> Nat]
            /\ failures' \in 0 .. MaxFailures
        BY <3>2 DEF TypeOK, Redeliver
      <4>3. QED
        BY <3>2, <4>1, <4>2 DEF TypeOK, PollerState, JobType, Redeliver
    <3>a. ASSUME NEW s \in JobStates, Becomes(r, s) PROVE job' \in [Pairs -> JobType]
      BY <3>a, OneJob DEF TypeOK, Becomes
    <3>b. ASSUME NEW s \in RowStatuses, SetRow(r, s, 1)
          PROVE  row' \in [Pairs -> RowStatuses] /\ attempts' \in [Pairs -> Nat]
      BY <3>b DEF TypeOK, SetRow
    <3>3. CASE MarkRecovered(r)
      <4>1. job' \in [Pairs -> JobType]
        BY <3>3, <3>a DEF MarkRecovered
      <4>2. row' \in [Pairs -> RowStatuses] /\ attempts' \in [Pairs -> Nat]
        BY <3>3, <3>b DEF MarkRecovered
      <4>3. QED
        BY <3>3, <4>1, <4>2 DEF TypeOK, MarkRecovered
    <3>4. CASE RecordAttempt(r)
      <4>1. job' \in [Pairs -> JobType]
        BY <3>4, JobAgain DEF TypeOK, RecordAttempt
      <4>2. row' \in [Pairs -> RowStatuses] /\ attempts' \in [Pairs -> Nat]
        BY <3>4, <3>b DEF TypeOK, RecordAttempt
      <4>3. QED
        BY <3>4, <4>1, <4>2 DEF TypeOK, RecordAttempt
    <3>5. CASE MarkPermanentlyFailed(r)
      <4>1. job' \in [Pairs -> JobType]
        BY <3>5, <3>a DEF MarkPermanentlyFailed
      <4>2. row' \in [Pairs -> RowStatuses] /\ attempts' \in [Pairs -> Nat]
        BY <3>5, <3>b DEF MarkPermanentlyFailed
      <4>3. QED
        BY <3>5, <4>1, <4>2 DEF TypeOK, MarkPermanentlyFailed
    <3>6. CASE RemoveJob(r)
      BY <3>6 DEF TypeOK, PollerState, JobType, RemoveJob
    <3>7. QED
      BY <2>4, <3>1, <3>2, <3>3, <3>4, <3>5, <3>6 DEF JobStep
  <2>5. ASSUME NEW o \in Operators, OperatorStep(o) PROVE TypeOK'
    <3>1. ASSUME NEW r \in Pairs, AcceptRetry(o, r) PROVE TypeOK'
      BY <3>1 DEF TypeOK, PollerState, JobType, AcceptRetry
    <3>2. ASSUME NEW r \in Pairs, EnqueueRetry(o, r) PROVE TypeOK'
      <4>1. job' \in [Pairs -> JobType]
        BY <3>2, OneMoreJob DEF TypeOK, EnqueueRetry
      <4>2. operator' \in [Operators -> [at : {"idle", "enqueue", "flip"}, pair : SUBSET Pairs]]
        BY <3>2 DEF TypeOK, EnqueueRetry
      <4>3. QED
        BY <3>2, <4>1, <4>2 DEF TypeOK, EnqueueRetry
    <3>3. ASSUME NEW r \in Pairs, FlipStatus(o, r) PROVE TypeOK'
      BY <3>3 DEF TypeOK, PollerState, JobType, FlipStatus, SetRow
    <3>4. QED
      BY <2>5, <3>1, <3>2, <3>3 DEF OperatorStep
  <2>6. CASE Faults
    <3>1. ASSUME NEW p \in Pollers, PollerFault(p) PROVE TypeOK'
      <4>1. poller' \in [Pollers -> PollerState]
        <5> DEFINE q == poller[p]
        <5>1. q \in PollerState
          BY DEF TypeOK
        <5>2. \/ poller' = [poller EXCEPT ![p] = NextEvent(q)]
              \/ poller' = [poller EXCEPT ![p] = IdlePoller]
          BY <3>1 DEF PollerFault
        <5> HIDE DEF q
        <5>3. NextEvent(q) \in PollerState /\ IdlePoller \in PollerState
          BY <5>1, NextEventType DEF PollerState
        <5>4. QED
          BY <5>2, <5>3, OnePoller DEF TypeOK
      <4>2. QED
        BY <3>1, <4>1 DEF TypeOK, PollerState, JobType, PollerFault, Fault
    <3>2. ASSUME NEW p \in Pollers, NEW s \in Subscribers, ScheduleRetryFails(p, s)
          PROVE  TypeOK'
      BY <3>2, ScheduledType DEF TypeOK, PollerState, JobType, ScheduleRetryFails, Fault
    <3>3. ASSUME NEW r \in Pairs, WorkerFault(r) PROVE TypeOK'
      <4>1. CASE \E s \in JobStates : Becomes(r, s)
        <5>1. job' \in [Pairs -> JobType]
          <6>1. PICK s \in JobStates : job' = [job EXCEPT ![r].state = s]
            BY <4>1 DEF Becomes
          <6>2. job \in [Pairs -> JobType]
            BY DEF TypeOK
          <6> HIDE DEF JobStates, Pairs
          <6>3. QED
            BY <6>1, <6>2, OneJob
        <5>2. QED
          BY <3>3, <5>1 DEF TypeOK, PollerState, JobType, WorkerFault, Fault
      <4>2. CASE ~LastAttempt(r) /\ TryAgain(r)
        BY <3>3, <4>2, JobAgain DEF TypeOK, PollerState, JobType, WorkerFault, Fault
      <4>3. QED
        BY <3>3, <4>1, <4>2 DEF WorkerFault
    <3>4. ASSUME NEW o \in Operators, OperatorFault(o) PROVE TypeOK'
      BY <3>4 DEF TypeOK, PollerState, JobType, OperatorFault, Fault
    <3>5. QED
      BY <2>6, <3>1, <3>2, <3>3, <3>4 DEF Faults
  <2>7. QED
    BY <2>1, <2>2, <2>3, <2>4, <2>5, <2>6 DEF Next
<1>3. QED
  BY <1>1, <1>2, PTL DEF Spec

-----------------------------------------------------------------------------
(* What a recovered row says *)

\* A worker that is about to mark the row has seen the subscriber complete.
SuccessMeansProcessed ==
    \A r \in Pairs :
        job[r].state = "succeeded" \/ row[r] = "recovered" => processed[r] > 0

\* A step that adds to no subscriber's count, recovers no row and ends no job
\* with success keeps what the rows say.
LEMMA KeepsSuccess ==
    ASSUME SuccessMeansProcessed, TypeOK, processed' = processed,
           \A r \in Pairs : row'[r] = "recovered" =>
               row[r] = "recovered" \/ job[r].state = "succeeded",
           \A r \in Pairs : job'[r].state = "succeeded" => job[r].state = "succeeded"
    PROVE  SuccessMeansProcessed'
BY DEF SuccessMeansProcessed, TypeOK, JobType

\* Whatever pollers, workers, operators and faults interleave, a row is
\* "recovered" only if its subscriber has completed the event.
THEOREM RecoveredIsTrue == Spec => []RecoveredMeansProcessed
<1>1. Init => SuccessMeansProcessed
  BY DEF Init, SuccessMeansProcessed
<1>2. TypeOK /\ SuccessMeansProcessed /\ [Next]_vars => SuccessMeansProcessed'
  <2> SUFFICES ASSUME TypeOK, SuccessMeansProcessed, [Next]_vars
               PROVE  SuccessMeansProcessed'
    OBVIOUS
  <2>1. CASE UNCHANGED vars
    BY <2>1 DEF SuccessMeansProcessed
  <2>2. ASSUME NEW e \in Events, Enqueue(e) PROVE SuccessMeansProcessed'
    BY <2>2, KeepsSuccess DEF Enqueue
  <2>3. ASSUME NEW p \in Pollers, PollerStep(p) PROVE SuccessMeansProcessed'
    <3>1. CASE Poll(p)
      BY <3>1, KeepsSuccess DEF Poll
    <3>2. ASSUME NEW e \in Events, NEW bad \in SUBSET Subscribers, Dispatch(p, e, bad)
          PROVE  SuccessMeansProcessed'
      BY <3>2 DEF Dispatch, SuccessMeansProcessed, TypeOK, JobType
    <3>3. CASE MarkDispatched(p)
      BY <3>3, KeepsSuccess DEF MarkDispatched
    <3>4. ASSUME NEW e \in Events, NEW s \in Subscribers, RecordFailure(p, e, s)
          PROVE  SuccessMeansProcessed'
      BY <3>4, KeepsSuccess DEF RecordFailure, SetRow, TypeOK, JobType
    <3>5. ASSUME NEW e \in Events, NEW s \in Subscribers, ScheduleRetry(p, e, s)
          PROVE  SuccessMeansProcessed'
      BY <3>5, KeepsSuccess DEF ScheduleRetry, WithJob, TypeOK, JobType
    <3>6. QED
      BY <2>3, <3>1, <3>2, <3>3, <3>4, <3>5 DEF PollerStep
  <2>4. ASSUME NEW r \in Pairs, JobStep(r) PROVE SuccessMeansProcessed'
    <3>1. CASE TakeJob(r)
      BY <3>1, KeepsSuccess DEF TakeJob, Becomes, TypeOK, JobType
    <3>2. CASE Redeliver(r)
      BY <3>2 DEF Redeliver, Becomes, SuccessMeansProcessed, TypeOK, JobType
    <3>3. CASE MarkRecovered(r)
      BY <3>3, KeepsSuccess DEF MarkRecovered, Becomes, SetRow, TypeOK, JobType
    <3>4. CASE RecordAttempt(r)
      BY <3>4, KeepsSuccess DEF RecordAttempt, TryAgain, SetRow, TypeOK, JobType
    <3>5. CASE MarkPermanentlyFailed(r)
      BY <3>5, KeepsSuccess DEF MarkPermanentlyFailed, Becomes, SetRow, TypeOK, JobType
    <3>6. CASE RemoveJob(r)
      BY <3>6, KeepsSuccess DEF RemoveJob, TypeOK, JobType
    <3>7. QED
      BY <2>4, <3>1, <3>2, <3>3, <3>4, <3>5, <3>6 DEF JobStep
  <2>5. ASSUME NEW o \in Operators, OperatorStep(o) PROVE SuccessMeansProcessed'
    <3>1. ASSUME NEW r \in Pairs, AcceptRetry(o, r) PROVE SuccessMeansProcessed'
      BY <3>1, KeepsSuccess DEF AcceptRetry
    <3>2. ASSUME NEW r \in Pairs, EnqueueRetry(o, r) PROVE SuccessMeansProcessed'
      BY <3>2, KeepsSuccess DEF EnqueueRetry, WithJob, TypeOK, JobType
    <3>3. ASSUME NEW r \in Pairs, FlipStatus(o, r) PROVE SuccessMeansProcessed'
      BY <3>3, KeepsSuccess DEF FlipStatus, SetRow, TypeOK, JobType
    <3>4. QED
      BY <2>5, <3>1, <3>2, <3>3 DEF OperatorStep
  <2>6. CASE Faults
    <3>1. ASSUME NEW p \in Pollers,
                 PollerFault(p) \/ \E s \in Subscribers : ScheduleRetryFails(p, s)
          PROVE  SuccessMeansProcessed'
      BY <3>1, KeepsSuccess DEF PollerFault, ScheduleRetryFails
    <3>2. ASSUME NEW r \in Pairs, WorkerFault(r) PROVE SuccessMeansProcessed'
      BY <3>2, KeepsSuccess DEF WorkerFault, Becomes, TryAgain, TypeOK, JobType
    <3>3. ASSUME NEW o \in Operators, OperatorFault(o) PROVE SuccessMeansProcessed'
      BY <3>3, KeepsSuccess DEF OperatorFault
    <3>4. QED
      BY <2>6, <3>1, <3>2, <3>3 DEF Faults
  <2>7. QED
    BY <2>1, <2>2, <2>3, <2>4, <2>5, <2>6 DEF Next
<1>3. SuccessMeansProcessed => RecoveredMeansProcessed
  BY DEF SuccessMeansProcessed, RecoveredMeansProcessed
<1>4. QED
  BY <1>1, <1>2, <1>3, TypeCorrect, PTL DEF Spec

-----------------------------------------------------------------------------
(* No failure is lost while nothing crashes *)

\* A poller holds the failures of one event, from its dispatch until they are
\* recorded.
PollersHoldFailures ==
    \A p \in Pollers :
        /\ \A e, f \in poller[p].event : e = f
        /\ poller[p].at \in {"idle", "dispatch"} => poller[p].event = {}
        /\ poller[p].at = "schedule" => poller[p].failed = {}
        /\ poller[p].at = "mark" =>
              \A e \in poller[p].event, s \in Subscribers :
                  processed[<<e, s>>] > 0 \/ s \in poller[p].failed

FailuresAccounted == faults = 0 /\ PollersHoldFailures /\ NoSilentLoss

\* A step that neither dispatches an event nor moves a poller loses no failure.
LEMMA KeepsAccount ==
    ASSUME TypeOK, FailuresAccounted, poller' = poller, faults' = faults,
           \A e \in Events : outbox'[e] = "dispatched" => outbox[e] = "dispatched",
           \A r \in Pairs : processed[r] > 0 => processed'[r] > 0,
           \A r \in Pairs : row'[r] = "none" => row[r] = "none"
    PROVE  FailuresAccounted'
<1>1. PollersHoldFailures'
  BY DEF FailuresAccounted, PollersHoldFailures, TypeOK, PollerState
<1>2. NoSilentLoss'
  <2> SUFFICES ASSUME NEW r \in Pairs, outbox'[r[1]] = "dispatched"
               PROVE  processed'[r] > 0 \/ row'[r] # "none" \/ HeldInMemory(r)'
    BY DEF NoSilentLoss
  <2>1. HeldInMemory(r)' = HeldInMemory(r)
    BY DEF HeldInMemory
  <2>2. processed[r] > 0 \/ row[r] # "none" \/ HeldInMemory(r)
    BY DEF FailuresAccounted, NoSilentLoss
  <2>3. QED
    BY <2>1, <2>2
<1>3. QED
  BY <1>1, <1>2 DEF FailuresAccounted

\* A step of poller p that keeps what it holds, or records it, loses no failure.
LEMMA PollerKeepsAccount ==
    ASSUME TypeOK, FailuresAccounted, faults' = faults,
           NEW p \in Pollers, NEW q, poller' = [poller EXCEPT ![p] = q],
           /\ \A e, f \in q.event : e = f
           /\ q.at \in {"idle", "dispatch"} => q.event = {}
           /\ q.at = "schedule" => q.failed = {}
           /\ q.at = "mark" =>
                 \A e \in q.event, s \in Subscribers :
                     processed'[<<e, s>>] > 0 \/ s \in q.failed,
           \A r \in Pairs : processed[r] > 0 => processed'[r] > 0,
           \A r \in Pairs : row'[r] = "none" => row[r] = "none",
           \A r \in Pairs :
               outbox'[r[1]] = "dispatched" =>
                   \/ outbox[r[1]] = "dispatched"
                   \/ processed'[r] > 0 \/ (r[1] \in q.event /\ r[2] \in q.failed),
           \A r \in Pairs :
               r[1] \in poller[p].event /\ r[2] \in poller[p].failed =>
                   (r[1] \in q.event /\ r[2] \in q.failed) \/ row'[r] # "none"
    PROVE  FailuresAccounted'
<1>1. poller'[p] = q /\ \A o \in Pollers \ {p} : poller'[o] = poller[o]
  BY DEF TypeOK
<1>2. PollersHoldFailures'
  BY <1>1 DEF FailuresAccounted, PollersHoldFailures, TypeOK, PollerState
<1>3. NoSilentLoss'
  <2> SUFFICES ASSUME NEW r \in Pairs, outbox'[r[1]] = "dispatched",
                      ~(processed'[r] > 0), row'[r] = "none"
               PROVE  HeldInMemory(r)'
    BY DEF NoSilentLoss
  <2>1. CASE outbox[r[1]] = "dispatched"
    <3>1. HeldInMemory(r)
      BY <2>1 DEF FailuresAccounted, NoSilentLoss
    <3>2. PICK o \in Pollers : r[1] \in poller[o].event /\ r[2] \in poller[o].failed
      BY <3>1 DEF HeldInMemory
    <3>3. r[1] \in poller'[o].event /\ r[2] \in poller'[o].failed
      BY <1>1, <3>2
    <3>4. QED
      BY <3>3 DEF HeldInMemory
  <2>2. CASE r[1] \in q.event /\ r[2] \in q.failed
    BY <1>1, <2>2 DEF HeldInMemory
  <2>3. QED
    BY <2>1, <2>2
<1>4. QED
  BY <1>2, <1>3 DEF FailuresAccounted

\* The dispatcher's promise (#9), as long as no process dies and no write or
\* queue call fails: each subscriber of a dispatched event has completed it, or
\* its failure is on record or about to be, whatever pollers, workers and
\* operators interleave.
THEOREM NoFailureIsLost == MaxFaults = 0 => (Spec => []NoSilentLoss)
<1> SUFFICES ASSUME MaxFaults = 0 PROVE Spec => []NoSilentLoss
  OBVIOUS
<1>1. Init => FailuresAccounted
  BY DEF Init, FailuresAccounted, PollersHoldFailures, NoSilentLoss
<1>2. TypeOK /\ FailuresAccounted /\ [Next]_vars => FailuresAccounted'
  <2> SUFFICES ASSUME TypeOK, FailuresAccounted, [Next]_vars
               PROVE  FailuresAccounted'
    OBVIOUS
  <2>1. CASE UNCHANGED vars
    BY <2>1, KeepsAccount
  <2>2. ASSUME NEW e \in Events, Enqueue(e) PROVE FailuresAccounted'
    BY <2>2, KeepsAccount DEF Enqueue, TypeOK
  <2>3. ASSUME NEW p \in Pollers, PollerStep(p) PROVE FailuresAccounted'
    <3> DEFINE q == poller'[p]
    <3>a. /\ \A e, f \in poller[p].event : e = f
          /\ poller[p].at \in {"idle", "dispatch"} => poller[p].event = {}
          /\ poller[p].at = "schedule" => poller[p].failed = {}
          /\ poller[p].at = "mark" =>
                \A e \in poller[p].event, s \in Subscribers :
                    processed[<<e, s>>] > 0 \/ s \in poller[p].failed
      BY DEF FailuresAccounted, PollersHoldFailures
    <3>1. CASE Poll(p)
      <4>1. /\ poller' = [poller EXCEPT ![p] = q]
            /\ q.at = "dispatch" /\ q.event = {} /\ poller[p].event = {}
        <5>1. poller[p] \in PollerState /\ poller[p].event = {}
          BY <3>1, <3>a DEF Poll, TypeOK
        <5>2. poller' = [poller EXCEPT ![p] =
                  [poller[p] EXCEPT !.at = "dispatch", !.batch = PendingEvents]]
          BY <3>1 DEF Poll
        <5>3. q = [poller[p] EXCEPT !.at = "dispatch", !.batch = PendingEvents]
          BY <5>2 DEF TypeOK
        <5>4. poller' = [poller EXCEPT ![p] = q]
          BY <5>2, <5>3
        <5> HIDE DEF q
        <5>5. q.at = "dispatch" /\ q.event = {}
          BY <5>1, <5>3 DEF PollerState
        <5>6. QED
          BY <5>1, <5>4, <5>5
      <4> HIDE DEF q
      <4>2. QED
        BY <3>1, <4>1, PollerKeepsAccount DEF Poll
    <3>2. ASSUME NEW e \in Events, NEW bad \in SUBSET Subscribers, Dispatch(p, e, bad)
          PROVE  FailuresAccounted'
      <4>1. /\ poller' = [poller EXCEPT ![p] = q]
            /\ q.at = "mark" /\ q.event = {e} /\ q.failed = bad /\ poller[p].event = {}
        BY <3>2, <3>a DEF Dispatch, TypeOK, PollerState
      <4>2. /\ \A s \in Subscribers : processed'[<<e, s>>] > 0 \/ s \in bad
            /\ \A r \in Pairs : processed[r] > 0 => processed'[r] > 0
        BY <3>2 DEF Dispatch, TypeOK
      <4>3. faults' = faults /\ row' = row /\ outbox' = outbox
        BY <3>2 DEF Dispatch
      <4> HIDE DEF q
      <4>4. \A f \in q.event, s \in Subscribers : processed'[<<f, s>>] > 0 \/ s \in q.failed
        BY <4>1, <4>2
      <4>5. \A f, g \in q.event : f = g
        BY <4>1
      <4> HIDE DEF Pairs
      <4>6. QED
        BY <4>1, <4>2, <4>3, <4>4, <4>5, PollerKeepsAccount
    <3>3. CASE MarkDispatched(p)
      <4>1. /\ poller' = [poller EXCEPT ![p] = q]
            /\ \/ poller[p].failed = {} /\ q.event = {} /\ q.at \in {"idle", "dispatch"}
               \/ /\ q.at = "record"
                  /\ q.event = poller[p].event /\ q.failed = poller[p].failed
        BY <3>3 DEF MarkDispatched, AfterMark, NextEvent, TypeOK, PollerState
      <4>2. \A r \in Pairs :
                outbox'[r[1]] = "dispatched" =>
                    outbox[r[1]] = "dispatched" \/ r[1] \in poller[p].event
        BY <3>3 DEF MarkDispatched, TypeOK
      <4>3. \A r \in Pairs : r[1] \in poller[p].event =>
                processed[r] > 0 \/ r[2] \in poller[p].failed
        BY <3>3, <3>a DEF MarkDispatched
      <4>4. faults' = faults /\ row' = row /\ processed' = processed
        BY <3>3 DEF MarkDispatched
      <4> HIDE DEF q
      <4>5. /\ \A e, f \in q.event : e = f
            /\ q.at \in {"idle", "dispatch"} => q.event = {}
            /\ q.at \notin {"schedule", "mark"}
        BY <3>a, <4>1, <3>3 DEF MarkDispatched
      <4>6. \A r \in Pairs :
                /\ outbox'[r[1]] = "dispatched" =>
                      \/ outbox[r[1]] = "dispatched"
                      \/ processed'[r] > 0 \/ (r[1] \in q.event /\ r[2] \in q.failed)
                /\ r[1] \in poller[p].event /\ r[2] \in poller[p].failed =>
                      r[1] \in q.event /\ r[2] \in q.failed
        BY <4>1, <4>2, <4>3, <4>4
      <4> HIDE DEF Pairs
      <4>7. QED
        BY <4>1, <4>4, <4>5, <4>6, PollerKeepsAccount
    <3>4. ASSUME NEW e \in Events, NEW s \in Subscribers, RecordFailure(p, e, s)
          PROVE  FailuresAccounted'
      <4>1. /\ poller' = [poller EXCEPT ![p] = q]
            /\ q.event = poller[p].event /\ q.failed = poller[p].failed \ {s}
            /\ q.at = "record" \/ (q.at = "schedule" /\ q.failed = {})
        <5>1. poller[p] \in PollerState
          BY DEF TypeOK
        <5>2. poller[p].at = "record" /\ s \in poller[p].failed
          BY <3>4 DEF RecordFailure
        <5>3. poller' = [poller EXCEPT ![p] =
                  [poller[p] EXCEPT !.failed = poller[p].failed \ {s},
                                    !.recorded = poller[p].recorded \cup {s},
                                    !.at = IF poller[p].failed = {s} THEN "schedule"
                                           ELSE poller[p].at]]
          BY <3>4 DEF RecordFailure
        <5>4. q = [poller[p] EXCEPT !.failed = poller[p].failed \ {s},
                                    !.recorded = poller[p].recorded \cup {s},
                                    !.at = IF poller[p].failed = {s} THEN "schedule"
                                           ELSE poller[p].at]
          BY <5>3 DEF TypeOK
        <5>5. poller' = [poller EXCEPT ![p] = q]
          BY <5>3, <5>4
        <5> HIDE DEF q
        <5>6. q.event = poller[p].event /\ q.failed = poller[p].failed \ {s}
          BY <5>1, <5>4 DEF PollerState
        <5>7. q.at = "record" \/ (q.at = "schedule" /\ q.failed = {})
          BY <5>1, <5>2, <5>4 DEF PollerState
        <5>8. QED
          BY <5>5, <5>6, <5>7
      <4>2. /\ \A f \in poller[p].event : f = e
            /\ row' = [row EXCEPT ![<<e, s>>] = "pending_retry"]
        BY <3>4, <3>a DEF RecordFailure, SetRow
      <4>3. /\ \A r \in Pairs : row'[r] = "none" => row[r] = "none"
            /\ row'[<<e, s>>] # "none"
        BY <4>2 DEF TypeOK
      <4>4. \A r \in Pairs :
                r[1] \in poller[p].event /\ r[2] \in poller[p].failed =>
                    (r[1] \in poller'[p].event /\ r[2] \in poller'[p].failed)
                        \/ row'[r] # "none"
        BY <4>1, <4>2, <4>3
      <4>5. /\ faults' = faults /\ outbox' = outbox /\ processed' = processed
            /\ poller[p].at = "record" /\ e \in poller[p].event
        BY <3>4 DEF RecordFailure
      <4>6. /\ \A f, g \in q.event : f = g
            /\ q.at \notin {"idle", "dispatch", "mark"}
        BY <3>a, <4>1
      <4> HIDE DEF q
      <4>7. \A r \in Pairs :
                r[1] \in poller[p].event /\ r[2] \in poller[p].failed =>
                    (r[1] \in q.event /\ r[2] \in q.failed) \/ row'[r] # "none"
        BY <4>4 DEF q
      <4> HIDE DEF Pairs
      <4>8. QED
        BY <4>1, <4>3, <4>5, <4>6, <4>7, PollerKeepsAccount
    <3>5. ASSUME NEW e \in Events, NEW s \in Subscribers, ScheduleRetry(p, e, s)
          PROVE  FailuresAccounted'
      <4>1. /\ poller' = [poller EXCEPT ![p] = q]
            /\ poller[p].failed = {} /\ poller[p].at = "schedule"
            /\ \/ q.event = {} /\ q.failed = {} /\ q.at \in {"idle", "dispatch"}
               \/ q.event = poller[p].event /\ q.failed = {} /\ q.at = "schedule"
        BY <3>5, <3>a DEF ScheduleRetry, Scheduled, AfterSchedule, NextEvent, TypeOK,
                          PollerState
      <4>2. faults' = faults /\ row' = row /\ outbox' = outbox /\ processed' = processed
        BY <3>5 DEF ScheduleRetry
      <4> HIDE DEF q
      <4>3. /\ \A f, g \in q.event : f = g
            /\ q.at \in {"idle", "dispatch"} => q.event = {}
            /\ q.at # "mark" /\ q.failed = {}
        BY <3>a, <4>1
      <4> HIDE DEF Pairs
      <4>4. QED
        BY <4>1, <4>2, <4>3, PollerKeepsAccount
    <3>6. QED
      BY <2>3, <3>1, <3>2, <3>3, <3>4, <3>5 DEF PollerStep
  <2>4. ASSUME NEW r \in Pairs, JobStep(r) PROVE FailuresAccounted'
    <3>1. CASE TakeJob(r) \/ RemoveJob(r)
      BY <3>1, KeepsAccount DEF TakeJob, RemoveJob
    <3>2. CASE Redeliver(r)
      BY <3>2, KeepsAccount DEF Redeliver, TypeOK
    <3>3. CASE MarkRecovered(r)
      BY <3>3, KeepsAccount DEF MarkRecovered, SetRow, TypeOK
    <3>4. CASE RecordAttempt(r)
      BY <3>4, KeepsAccount DEF RecordAttempt, SetRow, TypeOK
    <3>5. CASE MarkPermanentlyFailed(r)
      BY <3>5, KeepsAccount DEF MarkPermanentlyFailed, SetRow, TypeOK
    <3>6. QED
      BY <2>4, <3>1, <3>2, <3>3, <3>4, <3>5 DEF JobStep
  <2>5. ASSUME NEW o \in Operators, OperatorStep(o) PROVE FailuresAccounted'
    <3>1. ASSUME NEW r \in Pairs, AcceptRetry(o, r) \/ EnqueueRetry(o, r)
          PROVE  FailuresAccounted'
      BY <3>1, KeepsAccount DEF AcceptRetry, EnqueueRetry
    <3>2. ASSUME NEW r \in Pairs, FlipStatus(o, r) PROVE FailuresAccounted'
      BY <3>2, KeepsAccount DEF FlipStatus, SetRow, TypeOK
    <3>3. QED
      BY <2>5, <3>1, <3>2 DEF OperatorStep
  <2>6. CASE Faults
    <3>1. ~Fault
      BY DEF Fault, FailuresAccounted
    <3>2. QED
      BY <2>6, <3>1 DEF Faults, PollerFault, ScheduleRetryFails, WorkerFault, OperatorFault
  <2>7. QED
    BY <2>1, <2>2, <2>3, <2>4, <2>5, <2>6 DEF Next
<1>3. FailuresAccounted => NoSilentLoss
  BY DEF FailuresAccounted
<1>4. QED
  BY <1>1, <1>2, <1>3, TypeCorrect, PTL DEF Spec

-----------------------------------------------------------------------------
(* Once and counted, while nothing crashes and nobody overlaps *)

OnePollerAtATime   == \A p, q \in Pollers : p = q
OperatorsTakeTurns == \A o, n \in Operators : o = n

\* The event has been dispatched, or is being so.
Dispatched(r) ==
    outbox[r[1]] = "dispatched" \/ \E p \in Pollers : r[1] \in poller[p].event

\* What an operator is about to do for the pair.
Requested(r) == \E o \in Operators : operator[o].at = "enqueue" /\ r \in operator[o].pair
Flipping(r)  == \E o \in Operators : operator[o].at = "flip" /\ r \in operator[o].pair

\* How much of a delivery the row does not count yet.
Uncounted(state) == IF state \in {"succeeded", "threw"} THEN 1 ELSE 0

\* What fits together, of one pair: its row's status and attempts, how often the
\* subscriber completed and threw, the state of the job, and who is at work on it.
PairFits(status, n, completed, threw, state, dispatched, held, scheduled, requested, flipping) ==
    /\ completed <= 1
    /\ ~dispatched => completed = 0 /\ threw = 0 /\ status = "none"
    /\ status = "none" => /\ n = 0 /\ state = "none"
                          /\ ~scheduled /\ ~requested /\ ~flipping
    /\ held => status = "none" /\ completed = 0 /\ threw = 1
    /\ status # "none" => n + Uncounted(state) = completed + threw
    /\ scheduled => /\ status = "pending_retry" /\ state = "none" /\ completed = 0
                    /\ ~requested /\ ~flipping
    /\ state \in {"waiting", "running", "threw"} => completed = 0
    /\ status = "permanently_failed" =>
          flipping \/ (completed = 0 /\ state \in {"done", "none"})
    /\ requested => /\ status = "permanently_failed" /\ completed = 0
                    /\ state \in {"done", "none"}

PairOK(r) ==
    PairFits(row[r], attempts[r], processed[r], thrown[r], job[r].state, Dispatched(r),
             HeldInMemory(r), BeingScheduled(r), Requested(r), Flipping(r))

\* The poller has one event in hand, which is marked before its failures are
\* recorded; what it has still to dispatch nobody has dispatched.
PollerOK(p) ==
    LET q == poller[p]
    IN  /\ \A e, f \in q.event : e = f
        /\ q.at \in {"idle", "dispatch"} => q.event = {} /\ q.failed = {}
        /\ q.at \in {"idle", "dispatch", "mark"} => q.recorded = {}
        /\ q.at \in {"record", "schedule"} => \A e \in q.event : outbox[e] = "dispatched"
        /\ \A e \in q.batch : outbox[e] = "pending" /\ e \notin q.event

\* A request is about one pair.
OperatorOK(o) ==
    /\ operator[o].at = "idle" => operator[o].pair = {}
    /\ \A x, y \in operator[o].pair : x = y

NoFaultInv ==
    /\ faults = 0
    /\ \A r \in Pairs : PairOK(r)
    /\ \A p \in Pollers : PollerOK(p)
    /\ \A o \in Operators : OperatorOK(o)

\* With one poller and one operator at a time, who is at work on a pair is a
\* matter of that poller's and that operator's state.
LEMMA OnlyPoller ==
    ASSUME OnePollerAtATime, NEW p \in Pollers, NEW r
    PROVE  /\ Dispatched(r) <=> outbox[r[1]] = "dispatched" \/ r[1] \in poller[p].event
           /\ HeldInMemory(r) <=> r[1] \in poller[p].event /\ r[2] \in poller[p].failed
           /\ BeingScheduled(r) <=> r[1] \in poller[p].event /\ r[2] \in poller[p].recorded
           /\ Dispatched(r)' <=> outbox'[r[1]] = "dispatched" \/ r[1] \in poller'[p].event
           /\ HeldInMemory(r)' <=> r[1] \in poller'[p].event /\ r[2] \in poller'[p].failed
           /\ BeingScheduled(r)' <=> r[1] \in poller'[p].event /\ r[2] \in poller'[p].recorded
BY DEF OnePollerAtATime, Dispatched, HeldInMemory, BeingScheduled

LEMMA OnlyOperator ==
    ASSUME OperatorsTakeTurns, NEW o \in Operators, NEW r
    PROVE  /\ Requested(r) <=> operator[o].at = "enqueue" /\ r \in operator[o].pair
           /\ Flipping(r) <=> operator[o].at = "flip" /\ r \in operator[o].pair
           /\ Requested(r)' <=> operator'[o].at = "enqueue" /\ r \in operator'[o].pair
           /\ Flipping(r)' <=> operator'[o].at = "flip" /\ r \in operator'[o].pair
BY DEF OperatorsTakeTurns, Requested, Flipping

\* A pair still fits when nothing of it changes but that fewer are at work on it.
LEMMA StillFits ==
    ASSUME NEW r, PairOK(r), UNCHANGED <<row[r], attempts[r], processed[r], thrown[r]>>,
           job'[r].state = job[r].state, Dispatched(r) => Dispatched(r)',
           HeldInMemory(r)' => HeldInMemory(r), BeingScheduled(r)' => BeingScheduled(r),
           Requested(r)' => Requested(r), Flipping(r)' <=> Flipping(r)
    PROVE  PairOK(r)'
BY DEF PairOK, PairFits, Uncounted

\* Nobody but the poller moves: all pairs fit if those it works on do.
LEMMA PollerMoved ==
    ASSUME OnePollerAtATime, NoFaultInv, NEW p \in Pollers, PollerOK(p)',
           operator' = operator, faults' = faults, \A r \in Pairs : PairOK(r)'
    PROVE  NoFaultInv'
BY DEF OnePollerAtATime, NoFaultInv, OperatorOK

\* A step of a worker or an operator, for one pair: the others are as they were.
LEMMA PairMoved ==
    ASSUME NoFaultInv, TypeOK, NEW r \in Pairs, PairOK(r)', poller' = poller, outbox' = outbox,
           faults' = faults, \A o \in Operators : OperatorOK(o)',
           \A x \in Pairs \ {r} :
               /\ UNCHANGED <<row[x], attempts[x], processed[x], thrown[x]>>
               /\ job'[x].state = job[x].state
               /\ Requested(x)' => Requested(x)
               /\ Flipping(x)' <=> Flipping(x)
    PROVE  NoFaultInv'
<1>1. \A x \in Pairs : /\ Dispatched(x)' = Dispatched(x)
                       /\ HeldInMemory(x)' = HeldInMemory(x)
                       /\ BeingScheduled(x)' = BeingScheduled(x)
  BY DEF Dispatched, HeldInMemory, BeingScheduled
<1>2. \A x \in Pairs \ {r} : PairOK(x)'
  <2> HIDE DEF Pairs
  <2>1. SUFFICES ASSUME NEW x \in Pairs \ {r} PROVE PairOK(x)'
    OBVIOUS
  <2>2. PairOK(x)
    BY DEF NoFaultInv
  <2>3. QED
    BY <1>1, <2>2, StillFits
<1>3. \A p \in Pollers : PollerOK(p)'
  BY DEF NoFaultInv, PollerOK
<1>4. QED
  BY <1>2, <1>3 DEF NoFaultInv

\* A worker's steps: it marks what it delivered, and delivers only what nobody
\* completed.
LEMMA JobFits ==
    ASSUME NoFaultInv, TypeOK, NEW r \in Pairs, JobStep(r)
    PROVE  NoFaultInv'
<1>1. /\ poller' = poller /\ operator' = operator /\ outbox' = outbox /\ faults' = faults
  BY DEF JobStep, TakeJob, Redeliver, MarkRecovered, RecordAttempt, MarkPermanentlyFailed,
         RemoveJob
<1>2. \A x \in Pairs \ {r} :
         /\ UNCHANGED <<row[x], attempts[x], processed[x], thrown[x]>>
         /\ job'[x].state = job[x].state
  BY DEF JobStep, TakeJob, Redeliver, MarkRecovered, RecordAttempt, MarkPermanentlyFailed,
         RemoveJob, SetRow, Becomes, TryAgain, TypeOK, JobType
<1>3. \A x : /\ Requested(x)' = Requested(x) /\ Flipping(x)' = Flipping(x)
             /\ Dispatched(x)' = Dispatched(x) /\ HeldInMemory(x)' = HeldInMemory(x)
             /\ BeingScheduled(x)' = BeingScheduled(x)
  BY <1>1 DEF Requested, Flipping, Dispatched, HeldInMemory, BeingScheduled
<1>4. \A o \in Operators : OperatorOK(o)'
  BY <1>1 DEF NoFaultInv, OperatorOK
<1>5. PairOK(r)
  BY DEF NoFaultInv
<1>6. /\ row[r] \in RowStatuses /\ attempts[r] \in Nat /\ job[r].state \in JobStates
      /\ processed[r] \in Nat /\ thrown[r] \in Nat
  BY DEF TypeOK, JobType
<1>7. PairOK(r)'
  <2>1. CASE TakeJob(r)
    <3>1. /\ UNCHANGED <<row[r], attempts[r], processed[r], thrown[r]>>
          /\ job[r].state = "waiting" /\ job'[r].state \in {"done", "running"}
      BY <2>1 DEF TakeJob, Becomes, TypeOK, JobType
    <3>2. QED
      BY <1>3, <1>5, <1>6, <3>1 DEF PairOK, PairFits, Uncounted
  <2>2. CASE Redeliver(r)
    <3>1. /\ UNCHANGED <<row[r], attempts[r]>> /\ job[r].state = "running"
          /\ \/ /\ processed'[r] = processed[r] + 1 /\ thrown'[r] = thrown[r]
                /\ job'[r].state = "succeeded"
             \/ /\ processed'[r] = processed[r] /\ thrown'[r] = thrown[r] + 1
                /\ job'[r].state = "threw"
      BY <2>2 DEF Redeliver, Becomes, TypeOK, JobType
    <3>2. QED
      BY <1>3, <1>5, <1>6, <3>1 DEF PairOK, PairFits, Uncounted
  <2>3. CASE MarkRecovered(r)
    <3>1. /\ UNCHANGED <<processed[r], thrown[r]>> /\ attempts'[r] = attempts[r] + 1
          /\ row'[r] = "recovered"
          /\ job[r].state = "succeeded" /\ job'[r].state = "done"
      BY <2>3 DEF MarkRecovered, Becomes, SetRow, TypeOK, JobType
    <3>2. QED
      BY <1>3, <1>5, <1>6, <3>1 DEF PairOK, PairFits, Uncounted
  <2>4. CASE RecordAttempt(r)
    <3>1. /\ UNCHANGED <<row[r], processed[r], thrown[r]>> /\ attempts'[r] = attempts[r] + 1
          /\ job[r].state = "threw" /\ job'[r].state = "waiting"
      BY <2>4 DEF RecordAttempt, TryAgain, SetRow, TypeOK, JobType
    <3>2. QED
      BY <1>3, <1>5, <1>6, <3>1 DEF PairOK, PairFits, Uncounted
  <2>5. CASE MarkPermanentlyFailed(r)
    <3>1. /\ UNCHANGED <<processed[r], thrown[r]>> /\ attempts'[r] = attempts[r] + 1
          /\ row'[r] = "permanently_failed"
          /\ job[r].state = "threw" /\ job'[r].state = "done"
      BY <2>5 DEF MarkPermanentlyFailed, Becomes, SetRow, TypeOK, JobType
    <3>2. QED
      BY <1>3, <1>5, <1>6, <3>1 DEF PairOK, PairFits, Uncounted
  <2>6. CASE RemoveJob(r)
    <3>1. /\ UNCHANGED <<row[r], attempts[r], processed[r], thrown[r]>>
          /\ job[r].state = "done" /\ job'[r].state = "none"
      BY <2>6 DEF RemoveJob, TypeOK, JobType
    <3>2. QED
      BY <1>3, <1>5, <1>6, <3>1 DEF PairOK, PairFits, Uncounted
  <2>7. QED
    BY <2>1, <2>2, <2>3, <2>4, <2>5, <2>6 DEF JobStep
<1> HIDE DEF Pairs
<1>8. QED
  BY <1>1, <1>2, <1>3, <1>4, <1>7, PairMoved

\* An operator's steps: only what was given up is requeued, by one operator.
LEMMA OperatorFits ==
    ASSUME OperatorsTakeTurns, NoFaultInv, TypeOK, NEW o \in Operators, OperatorStep(o)
    PROVE  NoFaultInv'
<1> HIDE DEF Pairs
<1>1. /\ poller' = poller /\ outbox' = outbox /\ faults' = faults
      /\ processed' = processed /\ thrown' = thrown /\ attempts' \in [Pairs -> Nat]
      /\ \A x \in Pairs : attempts'[x] = attempts[x]
  BY DEF OperatorStep, AcceptRetry, EnqueueRetry, FlipStatus, SetRow, TypeOK
<1>2. \A x : /\ Dispatched(x)' = Dispatched(x) /\ HeldInMemory(x)' = HeldInMemory(x)
             /\ BeingScheduled(x)' = BeingScheduled(x)
  BY <1>1 DEF Dispatched, HeldInMemory, BeingScheduled
<1>3. OperatorOK(o) /\ \A x \in Pairs : PairOK(x)
  BY DEF NoFaultInv
<1>4. PICK r \in Pairs : AcceptRetry(o, r) \/ EnqueueRetry(o, r) \/ FlipStatus(o, r)
  BY DEF OperatorStep
<1>5. /\ row[r] \in RowStatuses /\ attempts[r] \in Nat /\ job[r].state \in JobStates
      /\ processed[r] \in Nat /\ thrown[r] \in Nat
  BY DEF TypeOK, JobType
<1>6. \A n \in Operators : n = o
  BY DEF OperatorsTakeTurns
<1>7. CASE AcceptRetry(o, r)
  <2>1. /\ row' = row /\ job' = job /\ row[r] = "permanently_failed"
        /\ operator[o].at = "idle"
        /\ operator'[o].at = "enqueue" /\ operator'[o].pair = {r}
    BY <1>7 DEF AcceptRetry, TypeOK
  <2>2. /\ Requested(r)' /\ ~Requested(r) /\ ~Flipping(r) /\ ~Flipping(r)'
        /\ \A x \in Pairs : x # r => ~Requested(x)' /\ ~Flipping(x)' /\ ~Flipping(x)
    BY <1>3, <2>1, OnlyOperator DEF OperatorOK
  <2>3. PairOK(r)'
    BY <1>1, <1>2, <1>3, <2>1, <2>2 DEF PairOK, PairFits, Uncounted
  <2>4. OperatorOK(o)'
    BY <2>1 DEF OperatorOK
  <2>5. \A x \in Pairs \ {r} :
            /\ row'[x] = row[x] /\ attempts'[x] = attempts[x]
            /\ processed'[x] = processed[x] /\ thrown'[x] = thrown[x]
            /\ job'[x].state = job[x].state
    BY <1>1, <2>1
  <2>6. QED
    BY <1>1, <1>6, <2>2, <2>3, <2>4, <2>5, PairMoved
<1>8. CASE EnqueueRetry(o, r)
  <2>1. /\ row' = row /\ job' = WithJob(job, r)
        /\ operator[o].at = "enqueue" /\ r \in operator[o].pair
        /\ operator'[o].at = "flip" /\ operator'[o].pair = operator[o].pair
    BY <1>8 DEF EnqueueRetry, TypeOK
  <2>2. /\ \A x \in Pairs : x \in operator[o].pair => Requested(x)
        /\ Requested(r) /\ Flipping(r)' /\ ~Requested(r)'
    BY <2>1, OnlyOperator
  <2>3. operator[o].pair = {r}
    BY <1>3, <2>1 DEF OperatorOK
  <2>4. \A x \in Pairs : x # r => ~Requested(x)' /\ ~Flipping(x)' /\ ~Flipping(x)
    BY <2>1, <2>3, OnlyOperator
  <2>5. job'[r].state = IF job[r].state = "none" THEN "waiting" ELSE job[r].state
    BY <2>1 DEF WithJob, TypeOK, JobType
  <2>6. \A x \in Pairs \ {r} : job'[x].state = job[x].state
    BY <2>1 DEF WithJob, TypeOK, JobType
  <2>7. PairOK(r)'
    BY <1>1, <1>2, <1>3, <1>5, <2>1, <2>2, <2>5 DEF PairOK, PairFits, Uncounted
  <2>8. OperatorOK(o)'
    BY <2>1, <2>3 DEF OperatorOK
  <2>9. QED
    BY <1>1, <1>6, <2>1, <2>4, <2>6, <2>7, <2>8, PairMoved
<1>9. CASE FlipStatus(o, r)
  <2>1. /\ row' = [row EXCEPT ![r] = "pending_retry"] /\ job' = job
        /\ operator[o].at = "flip" /\ r \in operator[o].pair
        /\ operator'[o].at = "idle" /\ operator'[o].pair = {}
    BY <1>9 DEF FlipStatus, SetRow, TypeOK
  <2>2. /\ row'[r] = "pending_retry"
        /\ \A x \in Pairs \ {r} : row'[x] = row[x]
    BY <2>1 DEF TypeOK
  <2>3. operator[o].pair = {r}
    BY <1>3, <2>1 DEF OperatorOK
  <2>4. /\ Flipping(r) /\ ~Requested(r)' /\ ~Flipping(r)'
        /\ \A x \in Pairs : x # r => ~Requested(x)' /\ ~Flipping(x)' /\ ~Flipping(x)
    BY <2>1, <2>3, OnlyOperator
  <2>5. /\ attempts'[r] = attempts[r] /\ job'[r] = job[r]
        /\ processed'[r] = processed[r] /\ thrown'[r] = thrown[r]
    BY <1>1, <2>1
  <2>6. PairOK(r)'
    BY <1>2, <1>3, <1>5, <2>2, <2>4, <2>5 DEF PairOK, PairFits, Uncounted
  <2>7. OperatorOK(o)'
    BY <2>1 DEF OperatorOK
  <2>8. \A x \in Pairs \ {r} :
            /\ row'[x] = row[x] /\ attempts'[x] = attempts[x]
            /\ processed'[x] = processed[x] /\ thrown'[x] = thrown[x]
            /\ job'[x].state = job[x].state
    BY <1>1, <2>1, <2>2
  <2>9. QED
    BY <1>1, <1>6, <2>4, <2>6, <2>7, <2>8, PairMoved
<1>10. QED
  BY <1>4, <1>7, <1>8, <1>9

\* Going on, the poller keeps what it has to dispatch and nothing else.
LEMMA NextEventEffect ==
    ASSUME NEW s \in PollerState
    PROVE  /\ NextEvent(s).at \in {"idle", "dispatch"} /\ NextEvent(s).batch = s.batch
           /\ NextEvent(s).event = {} /\ NextEvent(s).failed = {} /\ NextEvent(s).recorded = {}
<1> DEFINE next == IF s.batch = {} THEN "idle" ELSE "dispatch"
<1>1. NextEvent(s) = [s EXCEPT !.at = next, !.event = {}, !.failed = {}, !.recorded = {}]
  BY DEF NextEvent
<1>2. next \in {"idle", "dispatch"}
  OBVIOUS
<1> HIDE DEF next
<1>3. QED
  BY <1>1, <1>2 DEF PollerState

\* What the poller's steps do to its own state.
LEMMA PollerEffect ==
    ASSUME TypeOK, NEW p \in Pollers, PollerStep(p)
    PROVE  /\ Poll(p) =>
                 /\ poller[p].at = "idle" /\ poller'[p].at = "dispatch"
                 /\ poller'[p].batch = PendingEvents /\ poller'[p].event = poller[p].event
                 /\ poller'[p].failed = poller[p].failed
                 /\ poller'[p].recorded = poller[p].recorded
           /\ \A e \in Events, bad \in SUBSET Subscribers :
                 Dispatch(p, e, bad) =>
                    /\ poller[p].at = "dispatch" /\ poller'[p].at = "mark"
                    /\ e \in poller[p].batch
                    /\ poller'[p].batch = poller[p].batch \ {e} /\ poller'[p].event = {e}
                    /\ poller'[p].failed = bad /\ poller'[p].recorded = poller[p].recorded
           /\ MarkDispatched(p) =>
                 /\ poller[p].at = "mark" /\ poller'[p].batch = poller[p].batch
                 /\ \/ /\ poller'[p].at \in {"idle", "dispatch"}
                       /\ poller[p].failed = {} /\ poller'[p].event = {}
                       /\ poller'[p].failed = {} /\ poller'[p].recorded = {}
                    \/ /\ poller'[p].at = "record" /\ poller'[p].event = poller[p].event
                       /\ poller'[p].failed = poller[p].failed
                       /\ poller'[p].recorded = poller[p].recorded
<1> DEFINE q == poller[p]
<1>1. q \in PollerState
  BY DEF TypeOK
<1>2. ASSUME NEW x, poller' = [poller EXCEPT ![p] = x] PROVE poller'[p] = x
  BY <1>2 DEF TypeOK
<1>3. ASSUME Poll(p)
      PROVE  /\ q.at = "idle" /\ poller'[p].at = "dispatch"
             /\ poller'[p].batch = PendingEvents /\ poller'[p].event = q.event
             /\ poller'[p].failed = q.failed /\ poller'[p].recorded = q.recorded
  <2>1. /\ poller' = [poller EXCEPT ![p] = [q EXCEPT !.at = "dispatch", !.batch = PendingEvents]]
        /\ q.at = "idle"
    BY <1>3 DEF Poll
  <2>2. poller'[p] = [q EXCEPT !.at = "dispatch", !.batch = PendingEvents]
    BY <1>2, <2>1
  <2> HIDE DEF q
  <2>3. QED
    BY <1>1, <2>1, <2>2 DEF PollerState
<1>4. ASSUME NEW e \in Events, NEW bad \in SUBSET Subscribers, Dispatch(p, e, bad)
      PROVE  /\ q.at = "dispatch" /\ poller'[p].at = "mark" /\ e \in q.batch
             /\ poller'[p].batch = q.batch \ {e} /\ poller'[p].event = {e}
             /\ poller'[p].failed = bad /\ poller'[p].recorded = q.recorded
  <2>1. /\ poller' = [poller EXCEPT ![p] =
              [q EXCEPT !.at = "mark", !.event = {e}, !.batch = q.batch \ {e}, !.failed = bad]]
        /\ q.at = "dispatch" /\ e \in q.batch
    BY <1>4 DEF Dispatch
  <2> DEFINE rest == q.batch \ {e}
             hand == {e}
  <2>2. poller'[p] =
            [q EXCEPT !.at = "mark", !.event = hand, !.batch = rest, !.failed = bad]
    BY <1>2, <2>1
  <2> HIDE DEF q, rest, hand
  <2>3. /\ poller'[p].at = "mark" /\ poller'[p].batch = rest /\ poller'[p].event = hand
        /\ poller'[p].failed = bad /\ poller'[p].recorded = q.recorded
    BY <1>1, <2>2 DEF PollerState
  <2>4. QED
    BY <2>1, <2>3 DEF rest, hand
<1>5. ASSUME MarkDispatched(p)
      PROVE  /\ q.at = "mark" /\ poller'[p].batch = q.batch
             /\ \/ /\ poller'[p].at \in {"idle", "dispatch"}
                   /\ q.failed = {} /\ poller'[p].event = {}
                   /\ poller'[p].failed = {} /\ poller'[p].recorded = {}
                \/ /\ poller'[p].at = "record" /\ poller'[p].event = q.event
                   /\ poller'[p].failed = q.failed /\ poller'[p].recorded = q.recorded
  <2>1. poller' = [poller EXCEPT ![p] = AfterMark(q)] /\ q.at = "mark"
    BY <1>5 DEF MarkDispatched
  <2>2. poller'[p] = AfterMark(q)
    BY <1>2, <2>1
  <2> HIDE DEF q
  <2>3. CASE q.failed = {}
    BY <1>1, <2>1, <2>2, <2>3, NextEventEffect DEF AfterMark
  <2>4. CASE q.failed # {}
    BY <1>1, <2>1, <2>2, <2>4 DEF PollerState, AfterMark
  <2>5. QED
    BY <2>3, <2>4
<1>6. Poll(p) => ~MarkDispatched(p) /\ \A e, bad : ~Dispatch(p, e, bad)
  BY DEF Poll, MarkDispatched, Dispatch
<1>7. QED
  BY <1>3, <1>4, <1>5, <1>6

\* What a record and a scheduled retry do to it.
LEMMA FailureEffect ==
    ASSUME TypeOK, NEW p \in Pollers, NEW s \in Subscribers
    PROVE  /\ \A e \in Events :
                 RecordFailure(p, e, s) =>
                    /\ poller[p].at = "record" /\ e \in poller[p].event /\ s \in poller[p].failed
                    /\ poller'[p].at \in {"record", "schedule"}
                    /\ poller'[p].batch = poller[p].batch
                    /\ poller'[p].event = poller[p].event
                    /\ poller'[p].failed = poller[p].failed \ {s}
                    /\ poller'[p].recorded = poller[p].recorded \cup {s}
           /\ poller[p].at = "schedule" /\ Scheduled(p, s) =>
                 /\ poller'[p].batch = poller[p].batch
                 /\ \/ /\ poller'[p].at \in {"idle", "dispatch"} /\ poller'[p].event = {}
                       /\ poller'[p].failed = {} /\ poller'[p].recorded = {}
                    \/ /\ poller'[p].at = "schedule" /\ poller'[p].event = poller[p].event
                       /\ poller'[p].failed = poller[p].failed
                       /\ poller'[p].recorded = poller[p].recorded \ {s}
<1> DEFINE q == poller[p]
<1>1. q \in PollerState
  BY DEF TypeOK
<1>2. ASSUME NEW x, poller' = [poller EXCEPT ![p] = x] PROVE poller'[p] = x
  BY <1>2 DEF TypeOK
<1>3. ASSUME NEW e \in Events, RecordFailure(p, e, s)
      PROVE  /\ q.at = "record" /\ e \in q.event /\ s \in q.failed
             /\ poller'[p].at \in {"record", "schedule"}
             /\ poller'[p].batch = q.batch /\ poller'[p].event = q.event
             /\ poller'[p].failed = q.failed \ {s}
             /\ poller'[p].recorded = q.recorded \cup {s}
  <2> DEFINE next == IF q.failed = {s} THEN "schedule" ELSE q.at
  <2>1. /\ poller' = [poller EXCEPT ![p] =
              [q EXCEPT !.failed = q.failed \ {s}, !.recorded = q.recorded \cup {s}, !.at = next]]
        /\ q.at = "record" /\ e \in q.event /\ s \in q.failed
    BY <1>3 DEF RecordFailure
  <2> DEFINE left == q.failed \ {s}
             done == q.recorded \cup {s}
  <2>2. poller'[p] = [q EXCEPT !.failed = left, !.recorded = done, !.at = next]
    BY <1>2, <2>1
  <2>3. next \in {"record", "schedule"}
    BY <2>1
  <2> HIDE DEF q, next, left, done
  <2>4. /\ poller'[p].at = next /\ poller'[p].batch = q.batch /\ poller'[p].event = q.event
        /\ poller'[p].failed = left /\ poller'[p].recorded = done
    BY <1>1, <2>2 DEF PollerState
  <2>5. QED
    BY <2>1, <2>3, <2>4 DEF left, done
<1>4. ASSUME q.at = "schedule", Scheduled(p, s)
      PROVE  /\ poller'[p].batch = q.batch
             /\ \/ /\ poller'[p].at \in {"idle", "dispatch"} /\ poller'[p].event = {}
                   /\ poller'[p].failed = {} /\ poller'[p].recorded = {}
                \/ /\ poller'[p].at = "schedule" /\ poller'[p].event = q.event
                   /\ poller'[p].failed = q.failed /\ poller'[p].recorded = q.recorded \ {s}
  <2>1. poller'[p] = AfterSchedule(q, s)
    BY <1>2, <1>4 DEF Scheduled
  <2> HIDE DEF q
  <2>2. CASE q.recorded = {s}
    BY <1>1, <2>1, <2>2, NextEventEffect DEF AfterSchedule
  <2>3. CASE q.recorded # {s}
    BY <1>1, <1>4, <2>1, <2>3 DEF PollerState, AfterSchedule
  <2>4. QED
    BY <2>2, <2>3
<1>5. QED
  BY <1>3, <1>4

\* The poller's steps: it dispatches what nobody dispatched, and each failure
\* becomes one row, counted once, and one job.
LEMMA PollerFits ==
    ASSUME OnePollerAtATime, NoFaultInv, TypeOK, NEW p \in Pollers, PollerStep(p)
    PROVE  NoFaultInv'
<1>1. operator' = operator /\ faults' = faults
  BY DEF PollerStep, Poll, Dispatch, MarkDispatched, RecordFailure, ScheduleRetry
<1>2. PollerOK(p) /\ \A r \in Pairs : PairOK(r)
  BY DEF NoFaultInv
<1>3. \A r : Requested(r)' = Requested(r) /\ Flipping(r)' = Flipping(r)
  BY <1>1 DEF Requested, Flipping
<1>4. \A r \in Pairs : /\ row[r] \in RowStatuses /\ attempts[r] \in Nat
                      /\ job[r].state \in JobStates
                      /\ processed[r] \in Nat /\ thrown[r] \in Nat
  BY DEF TypeOK, JobType
<1>5. CASE Poll(p)
  <2>1. /\ UNCHANGED <<outbox, processed, thrown, row, attempts, job>>
        /\ \A e \in PendingEvents : outbox[e] = "pending"
    BY <1>5 DEF Poll, PendingEvents
  <2>2. /\ poller'[p].event = poller[p].event /\ poller'[p].failed = poller[p].failed
        /\ poller'[p].recorded = poller[p].recorded /\ poller'[p].at = "dispatch"
        /\ poller'[p].batch = PendingEvents /\ poller[p].at = "idle"
    BY <1>5, PollerEffect
  <2>3. PollerOK(p)'
    BY <1>2, <2>1, <2>2 DEF PollerOK
  <2>4. ASSUME NEW r \in Pairs PROVE PairOK(r)'
    <3>1. /\ Dispatched(r)' <=> Dispatched(r)
          /\ HeldInMemory(r)' <=> HeldInMemory(r)
          /\ BeingScheduled(r)' <=> BeingScheduled(r)
      BY <2>1, <2>2, OnlyPoller
    <3>2. PairOK(r)
      BY <1>2
    <3>3. QED
      BY <1>3, <2>1, <3>1, <3>2, StillFits
  <2>5. QED
    BY <1>1, <2>3, <2>4, PollerMoved
<1>6. ASSUME NEW e \in Events, NEW bad \in SUBSET Subscribers, Dispatch(p, e, bad)
      PROVE  NoFaultInv'
  <2>1. /\ UNCHANGED <<outbox, row, attempts, job>>
        /\ processed' = [r \in Pairs |->
              IF r[1] = e /\ r[2] \notin bad THEN processed[r] + 1 ELSE processed[r]]
        /\ thrown' = [r \in Pairs |->
              IF r[1] = e /\ r[2] \in bad THEN thrown[r] + 1 ELSE thrown[r]]
    BY <1>6 DEF Dispatch
  <2>2. /\ poller[p].at = "dispatch" /\ poller'[p].at = "mark" /\ e \in poller[p].batch
        /\ poller'[p].batch = poller[p].batch \ {e} /\ poller'[p].event = {e}
        /\ poller'[p].failed = bad /\ poller'[p].recorded = poller[p].recorded
    BY <1>6, PollerEffect
  <2>3. /\ poller[p].event = {} /\ poller[p].recorded = {} /\ outbox[e] = "pending"
        /\ \A f \in poller[p].batch : outbox[f] = "pending"
    BY <1>2, <2>2 DEF PollerOK
  <2>4. PollerOK(p)'
    BY <2>1, <2>2, <2>3 DEF PollerOK
  <2>5. ASSUME NEW r \in Pairs PROVE PairOK(r)'
    <3>1. /\ Dispatched(r) <=> outbox[r[1]] = "dispatched"
          /\ ~HeldInMemory(r) /\ ~BeingScheduled(r) /\ ~BeingScheduled(r)'
          /\ Dispatched(r)' <=> outbox[r[1]] = "dispatched" \/ r[1] = e
          /\ HeldInMemory(r)' <=> r[1] = e /\ r[2] \in bad
      BY <2>1, <2>2, <2>3, OnlyPoller
    <3>2. PairOK(r)
      BY <1>2
    <3>3. CASE r[1] # e
      <4>1. processed'[r] = processed[r] /\ thrown'[r] = thrown[r]
        BY <2>1, <3>3
      <4>2. ~HeldInMemory(r)' /\ (Dispatched(r) => Dispatched(r)')
        BY <3>1, <3>3
      <4>3. QED
        BY <1>3, <2>1, <3>1, <3>2, <4>1, <4>2, StillFits
    <3>4. CASE r[1] = e /\ r[2] \in bad
      <4>1. processed'[r] = processed[r] /\ thrown'[r] = thrown[r] + 1
        BY <2>1, <3>4
      <4>2. ~Dispatched(r) /\ Dispatched(r)'
        BY <2>3, <3>1, <3>4
      <4> HIDE DEF Pairs
      <4>3. QED
        BY <1>3, <1>4, <2>1, <3>1, <3>2, <4>1, <4>2 DEF PairOK, PairFits, Uncounted
    <3>5. CASE r[1] = e /\ r[2] \notin bad
      <4>1. processed'[r] = processed[r] + 1 /\ thrown'[r] = thrown[r]
        BY <2>1, <3>5
      <4>2. ~Dispatched(r) /\ Dispatched(r)' /\ ~HeldInMemory(r)'
        BY <2>3, <3>1, <3>5
      <4> HIDE DEF Pairs
      <4>3. QED
        BY <1>3, <1>4, <2>1, <3>1, <3>2, <4>1, <4>2 DEF PairOK, PairFits, Uncounted
    <3>6. QED
      BY <3>3, <3>4, <3>5
  <2>6. QED
    BY <1>1, <2>4, <2>5, PollerMoved
<1>7. CASE MarkDispatched(p)
  <2>1. /\ UNCHANGED <<processed, thrown, row, attempts, job>>
        /\ outbox' = [f \in Events |->
                         IF f \in poller[p].event THEN "dispatched" ELSE outbox[f]]
    BY <1>7 DEF MarkDispatched
  <2>2. /\ poller[p].at = "mark" /\ poller'[p].batch = poller[p].batch
        /\ \/ /\ poller'[p].at \in {"idle", "dispatch"}
              /\ poller[p].failed = {} /\ poller'[p].event = {}
              /\ poller'[p].failed = {} /\ poller'[p].recorded = {}
           \/ /\ poller'[p].at = "record" /\ poller'[p].event = poller[p].event
              /\ poller'[p].failed = poller[p].failed
              /\ poller'[p].recorded = poller[p].recorded
    BY <1>7, PollerEffect
  <2>3. poller[p].event \in SUBSET Events /\ poller[p].batch \in SUBSET Events
    BY DEF TypeOK, PollerState
  <2>4. PollerOK(p)'
    BY <1>2, <2>1, <2>2, <2>3 DEF PollerOK
  <2>5. ASSUME NEW r \in Pairs PROVE PairOK(r)'
    <3>1. outbox'[r[1]] = "dispatched" <=> outbox[r[1]] = "dispatched" \/ r[1] \in poller[p].event
      BY <2>1
    <3>2. /\ Dispatched(r) => Dispatched(r)'
          /\ HeldInMemory(r)' => HeldInMemory(r)
          /\ BeingScheduled(r)' => BeingScheduled(r)
      BY <2>2, <3>1, OnlyPoller
    <3>3. PairOK(r)
      BY <1>2
    <3>4. QED
      BY <1>3, <2>1, <3>2, <3>3, StillFits
  <2>6. QED
    BY <1>1, <2>4, <2>5, PollerMoved
<1>8. ASSUME NEW e \in Events, NEW s \in Subscribers, RecordFailure(p, e, s)
      PROVE  NoFaultInv'
  <2> DEFINE x == <<e, s>>
  <2>1. /\ UNCHANGED <<outbox, processed, thrown, job>>
        /\ row' = [row EXCEPT ![x] = "pending_retry"]
        /\ attempts' = [attempts EXCEPT ![x] = attempts[x] + 1]
    BY <1>8 DEF RecordFailure, SetRow
  <2>2. /\ poller[p].at = "record" /\ e \in poller[p].event /\ s \in poller[p].failed
        /\ poller'[p].at \in {"record", "schedule"}
        /\ poller'[p].batch = poller[p].batch /\ poller'[p].event = poller[p].event
        /\ poller'[p].failed = poller[p].failed \ {s}
        /\ poller'[p].recorded = poller[p].recorded \cup {s}
    BY <1>8, FailureEffect
  <2>3. PollerOK(p)' /\ \A f \in poller[p].event : f = e
    BY <1>2, <2>1, <2>2 DEF PollerOK
  <2>4. x \in Pairs /\ \A r \in Pairs : r[1] = e /\ r[2] = s => r = x
    OBVIOUS
  <2>5. /\ row'[x] = "pending_retry" /\ attempts'[x] = attempts[x] + 1
        /\ \A r \in Pairs \ {x} : row'[r] = row[r] /\ attempts'[r] = attempts[r]
    BY <2>1, <2>4 DEF TypeOK
  <2>6. /\ Dispatched(x) /\ HeldInMemory(x)
        /\ Dispatched(x)' /\ ~HeldInMemory(x)' /\ BeingScheduled(x)'
    BY <2>1, <2>2, OnlyPoller
  <2>7. PairOK(x)'
    <3> HIDE DEF x, Pairs
    <3>1. PairOK(x)
      BY <1>2, <2>4
    <3>2. QED
      BY <1>3, <1>4, <2>1, <2>4, <2>5, <2>6, <3>1 DEF PairOK, PairFits, Uncounted
  <2>8. ASSUME NEW r \in Pairs \ {x} PROVE PairOK(r)'
    <3>1. r[1] = e => r[2] # s
      BY <2>4
    <3>2. /\ Dispatched(r) => Dispatched(r)'
          /\ HeldInMemory(r)' => HeldInMemory(r)
          /\ BeingScheduled(r)' => BeingScheduled(r)
      BY <2>1, <2>2, <2>3, <3>1, OnlyPoller
    <3> HIDE DEF x, Pairs
    <3>3. PairOK(r)
      BY <1>2
    <3>4. QED
      BY <1>3, <2>1, <2>5, <3>2, <3>3, StillFits
  <2>9. \A r \in Pairs : PairOK(r)'
    BY <2>7, <2>8
  <2>10. QED
    BY <1>1, <2>3, <2>9, PollerMoved
<1>9. ASSUME NEW e \in Events, NEW s \in Subscribers, ScheduleRetry(p, e, s)
      PROVE  NoFaultInv'
  <2> DEFINE x == <<e, s>>
  <2>1. /\ UNCHANGED <<outbox, processed, thrown, row, attempts>>
        /\ job' = WithJob(job, x) /\ Scheduled(p, s) /\ poller[p].at = "schedule"
        /\ e \in poller[p].event /\ s \in poller[p].recorded
    BY <1>9 DEF ScheduleRetry
  <2>2. /\ poller'[p].batch = poller[p].batch
        /\ \/ /\ poller'[p].at \in {"idle", "dispatch"} /\ poller'[p].event = {}
              /\ poller'[p].failed = {} /\ poller'[p].recorded = {}
           \/ /\ poller'[p].at = "schedule" /\ poller'[p].event = poller[p].event
              /\ poller'[p].failed = poller[p].failed
              /\ poller'[p].recorded = poller[p].recorded \ {s}
    BY <2>1, FailureEffect
  <2>3. PollerOK(p)' /\ \A f \in poller[p].event : f = e /\ outbox[f] = "dispatched"
    BY <1>2, <2>1, <2>2 DEF PollerOK
  <2>4. x \in Pairs /\ \A r \in Pairs : r[1] = e /\ r[2] = s => r = x
    OBVIOUS
  <2>5. /\ job[x].state = "none" => job'[x].state = "waiting"
        /\ \A r \in Pairs \ {x} : job'[r] = job[r]
    BY <2>1, <2>4 DEF TypeOK, JobType, WithJob
  <2>6. /\ Dispatched(x) /\ BeingScheduled(x) /\ Dispatched(x)' /\ ~BeingScheduled(x)'
        /\ HeldInMemory(x)' => HeldInMemory(x)
    BY <2>1, <2>2, <2>3, OnlyPoller
  <2>7. PairOK(x)'
    <3> HIDE DEF x, Pairs
    <3>1. PairOK(x)
      BY <1>2, <2>4
    <3>2. QED
      BY <1>3, <1>4, <2>1, <2>4, <2>5, <2>6, <3>1 DEF PairOK, PairFits, Uncounted
  <2>8. ASSUME NEW r \in Pairs \ {x} PROVE PairOK(r)'
    <3>1. /\ Dispatched(r) => Dispatched(r)'
          /\ HeldInMemory(r)' => HeldInMemory(r)
          /\ BeingScheduled(r)' => BeingScheduled(r)
      BY <2>1, <2>2, <2>3, OnlyPoller
    <3> HIDE DEF x, Pairs
    <3>2. PairOK(r) /\ job'[r].state = job[r].state
      BY <1>2, <2>5
    <3>3. QED
      BY <1>3, <2>1, <3>1, <3>2, StillFits
  <2>9. \A r \in Pairs : PairOK(r)'
    BY <2>7, <2>8
  <2>10. QED
    BY <1>1, <2>3, <2>9, PollerMoved
<1>10. QED
  BY <1>5, <1>6, <1>7, <1>8, <1>9 DEF PollerStep

\* A committed event is pending, and nobody has dispatched it.
LEMMA EnqueueFits ==
    ASSUME NoFaultInv, TypeOK, NEW e \in Events, Enqueue(e)
    PROVE  NoFaultInv'
<1>1. /\ UNCHANGED <<processed, thrown, row, attempts, job, poller, operator, faults>>
      /\ outbox[e] = "absent" /\ outbox' = [outbox EXCEPT ![e] = "pending"]
  BY DEF Enqueue
<1>2. /\ outbox'[e] = "pending"
      /\ \A f \in Events : f # e => outbox'[f] = outbox[f]
  BY <1>1 DEF TypeOK
<1>3. \A r \in Pairs : /\ r[1] \in Events
                       /\ Dispatched(r)' = Dispatched(r)
                       /\ HeldInMemory(r)' = HeldInMemory(r)
                       /\ BeingScheduled(r)' = BeingScheduled(r)
                       /\ Requested(r)' = Requested(r) /\ Flipping(r)' = Flipping(r)
  BY <1>1, <1>2 DEF Dispatched, HeldInMemory, BeingScheduled, Requested, Flipping
<1>4. ASSUME NEW r \in Pairs PROVE PairOK(r)'
  <2> HIDE DEF Pairs
  <2>1. PairOK(r)
    BY DEF NoFaultInv
  <2>2. QED
    BY <1>1, <1>3, <2>1, StillFits
<1>5. ASSUME NEW p \in Pollers PROVE PollerOK(p)'
  <2>1. PollerOK(p) /\ poller[p] \in PollerState
    BY DEF NoFaultInv, TypeOK
  <2>2. \A f \in Events : outbox[f] \in {"pending", "dispatched"} => outbox'[f] = outbox[f]
    BY <1>1, <1>2
  <2>3. QED
    BY <1>1, <2>1, <2>2 DEF PollerOK, PollerState
<1>6. QED
  BY <1>1, <1>4, <1>5 DEF NoFaultInv, OperatorOK

\* Everything starts idle, with nothing dispatched.
LEMMA InitFits == MaxFaults = 0 /\ Init => NoFaultInv
<1> SUFFICES ASSUME MaxFaults = 0, Init PROVE NoFaultInv
  OBVIOUS
<1>1. faults = 0
  BY DEF Init
<1>2. ASSUME NEW r \in Pairs PROVE PairOK(r)
  <2>1. /\ row[r] = "none" /\ attempts[r] = 0 /\ processed[r] = 0 /\ thrown[r] = 0
        /\ job[r].state = "none" /\ outbox[r[1]] = "absent"
    BY DEF Init
  <2>2. ~Dispatched(r) /\ ~HeldInMemory(r) /\ ~BeingScheduled(r)
    BY <2>1 DEF Init, Dispatched, HeldInMemory, BeingScheduled
  <2>3. ~Requested(r) /\ ~Flipping(r)
    BY DEF Init, Requested, Flipping
  <2>4. QED
    BY <2>1, <2>2, <2>3 DEF PairOK, PairFits
<1>3. \A p \in Pollers : PollerOK(p)
  BY DEF Init, PollerOK
<1>4. \A o \in Operators : OperatorOK(o)
  BY DEF Init, OperatorOK
<1>5. QED
  BY <1>1, <1>2, <1>3, <1>4 DEF NoFaultInv

LEMMA NoFaultHolds ==
    ASSUME MaxFaults = 0, OnePollerAtATime, OperatorsTakeTurns
    PROVE  Spec => [](TypeOK /\ NoFaultInv)
<1>1. Init => NoFaultInv
  BY InitFits
<1>2. TypeOK /\ NoFaultInv /\ [Next]_vars => NoFaultInv'
  <2> SUFFICES ASSUME TypeOK, NoFaultInv, [Next]_vars PROVE NoFaultInv'
    OBVIOUS
  <2>1. CASE UNCHANGED vars
    <3>1. \A r : /\ Dispatched(r)' = Dispatched(r) /\ HeldInMemory(r)' = HeldInMemory(r)
                 /\ BeingScheduled(r)' = BeingScheduled(r)
                 /\ Requested(r)' = Requested(r) /\ Flipping(r)' = Flipping(r)
      BY <2>1 DEF Dispatched, HeldInMemory, BeingScheduled, Requested, Flipping
    <3>2. ASSUME NEW r \in Pairs PROVE PairOK(r)'
      BY <2>1, <3>1, StillFits DEF NoFaultInv
    <3>3. QED
      BY <2>1, <3>2 DEF NoFaultInv, PollerOK, OperatorOK
  <2>2. ~Faults
    BY DEF NoFaultInv, Faults, PollerFault, ScheduleRetryFails, WorkerFault, OperatorFault, Fault
  <2>3. QED
    BY <2>1, <2>2, EnqueueFits, PollerFits, JobFits, OperatorFits DEF Next
<1>3. QED
  BY <1>1, <1>2, TypeCorrect, PTL DEF Spec

\* While nothing crashes, one poll runs at a time and operators take turns, a
\* failure of one subscriber, its redeliveries and the requeues of an operator
\* make no subscriber complete an event twice.
THEOREM CompletedOnce ==
    ASSUME MaxFaults = 0, OnePollerAtATime, OperatorsTakeTurns
    PROVE  Spec => []ProcessedAtMostOnce
<1>1. NoFaultInv => ProcessedAtMostOnce
  BY DEF NoFaultInv, PairOK, PairFits, ProcessedAtMostOnce
<1>2. QED
  BY <1>1, NoFaultHolds, PTL

\* Under the same hypotheses the attempts of a row are all the deliveries of the
\* pair, those of the first dispatch and of every episode after it.
THEOREM AttemptsAreCounted ==
    ASSUME MaxFaults = 0, OnePollerAtATime, OperatorsTakeTurns
    PROVE  Spec => []AttemptsCountDeliveries
<1>1. NoFaultInv => AttemptsCountDeliveries
  BY DEF NoFaultInv, PairOK, PairFits, Uncounted, AttemptsCountDeliveries
<1>2. QED
  BY <1>1, NoFaultHolds, PTL

=============================================================================
