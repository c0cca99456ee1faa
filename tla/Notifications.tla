------------------------------ MODULE Notifications ------------------------------
(***************************************************************************)
(* The mails about one event.  NotificationSubscriber finds out who is to  *)
(* be told and adds a job to the notification queue for each, one after    *)
(* the other; if it throws, the whole event is delivered to it again (see  *)
(* EventDelivery).  A worker of the queue writes a log row, sends the mail *)
(* and marks the row, in three calls; when one of them throws, the queue   *)
(* runs the job again.  An operator may ask for a failed mail once more.   *)
(***************************************************************************)
EXTENDS Naturals, Sequences, FiniteSets, SequencesExt

CONSTANTS
    Requester,       \* the user who created the expense or the payroll run
    PayslipUsers,    \* the user linked to each payslip's employee, or NoUser
    Assignments,     \* the users of each assignment of a role with a period permission
    NoUser,
    Gone,            \* users whose row is not found
    Mailers,         \* workers of the notification queue
    MailAttempts,    \* the attempts of a job
    MaxMailFaults    \* bound: failures, stalls and retries by an operator

ASSUME MailAssumption ==
    /\ PayslipUsers \in Seq(ToSet(PayslipUsers))
    /\ Assignments \in Seq(ToSet(Assignments))
    /\ IsFiniteSet(Mailers)

VARIABLES
    event,           \* the type of the event
    mailing,         \* the delivery of the event to the subscriber: [state, left]
    jobs,            \* the jobs of the queue
    logs,            \* notification_logs; mailed is history
    mailer,          \* mailer[w]: what a worker of the queue does
    repeats,         \* history: how often there was a reason to tell a user again
    mailFaults

notificationVars == <<event, mailing, jobs, logs, mailer, repeats, mailFaults>>

-----------------------------------------------------------------------------
(* Who is to be told. *)

\* handleExpenseApproved and handleExpenseRejected, handlePayrollRunRejected.
RequesterOnly == <<Requester>>

\* handlePayrollRunApproved: the creator, and the employee of each payslip.
CreatorAndEmployees == <<Requester>> \o PayslipUsers

\* Mutation: one mail for each assignment.
EveryAssignment == Assignments

\* handlePeriodStatusChange: the holders of a permission on periods, once each.
PermissionHolders == SetToSeq(ToSet(Assignments))

Recipients ==
    CASE event \in {"ExpenseApproved", "ExpenseRejected", "PayrollRunRejected"} -> RequesterOnly
      [] event = "PayrollRunApproved" -> CreatorAndEmployees
      [] event \in {"PeriodClosed", "PeriodReopened"} -> PermissionHolders

\* Everyone who may be told.
Told == ({Requester} \cup ToSet(PayslipUsers) \cup ToSet(Assignments)) \ {NoUser}

MailInit ==
    /\ event \in {"ExpenseApproved", "PayrollRunApproved", "PeriodClosed"}
    /\ mailing = [state |-> "pending", left |-> <<>>]
    /\ jobs = <<>>
    /\ logs = <<>>
    /\ mailer = [w \in Mailers |-> [at |-> "idle", job |-> 0, log |-> 0]]
    /\ repeats = [u \in Told |-> 0]
    /\ mailFaults = 0

MailFault == mailFaults < MaxMailFaults /\ mailFaults' = mailFaults + 1

NewJob(u) == [user |-> u, state |-> "waiting", attempts |-> 0, stalls |-> 0, holder |-> {}]

-----------------------------------------------------------------------------
(* NotificationSubscriber. *)

\* The event is dispatched, and the recipients are read.
Dispatch ==
    /\ mailing.state = "pending"
    /\ mailing' = [state |-> "adding", left |-> Recipients]
    /\ UNCHANGED <<event, jobs, logs, mailer, repeats, mailFaults>>

\* An employee without a user is skipped.
AddMailJob ==
    /\ mailing.state = "adding"
    /\ IF mailing.left = <<>>
       THEN mailing' = [mailing EXCEPT !.state = "done"] /\ UNCHANGED jobs
       ELSE /\ mailing' = [mailing EXCEPT !.left = Tail(@)]
            /\ jobs' = IF Head(mailing.left) = NoUser THEN jobs
                       ELSE Append(jobs, NewJob(Head(mailing.left)))
    /\ UNCHANGED <<event, logs, mailer, repeats, mailFaults>>

\* Mutation: the rest is given up.
RestDropped == mailing' = [state |-> "done", left |-> <<>>]

\* All of it is delivered again, or it was the last attempt.
DeliveredAgain ==
    \/ mailing' = [state |-> "pending", left |-> <<>>]
    \/ mailing' = [state |-> "failed", left |-> <<>>]

Times(u, users) == Cardinality({i \in DOMAIN users : users[i] = u})

\* The recipients whose job has been added by this delivery.
Added == IF mailing.state = "pending" THEN <<>>
         ELSE SubSeq(Recipients, 1, Len(Recipients) - Len(mailing.left))

\* A read or an add throws.
DispatchThrows ==
    /\ mailing.state \in {"pending", "adding"}
    /\ MailFault
    /\ DeliveredAgain
    /\ repeats' = [u \in Told |-> repeats[u] + Times(u, Added)]
    /\ UNCHANGED <<event, jobs, logs, mailer>>

-----------------------------------------------------------------------------
(* NotificationProcessor.process. *)

Job(w) == jobs[mailer[w].job]
KeepsJob(w) == w \in Job(w).holder
EndJob(w, j) == jobs' = IF KeepsJob(w) THEN [jobs EXCEPT ![mailer[w].job] = j] ELSE jobs
Rest(w) == mailer' = [mailer EXCEPT ![w] = [at |-> "idle", job |-> 0, log |-> 0]]

Done(j) == [j EXCEPT !.state = "done", !.holder = {}]

\* What BullMQ does with a job whose process threw.
Thrown(j) ==
    [j EXCEPT !.state = IF j.attempts + 1 < MailAttempts THEN "waiting" ELSE "failed",
              !.attempts = @ + 1, !.holder = {}]

\* The worker takes a job; a recipient who is not found is skipped.
TakeMail(w, i) ==
    /\ mailer[w].at = "idle"
    /\ i \in DOMAIN jobs
    /\ jobs[i].state = "waiting"
    /\ IF jobs[i].user \in Gone
       THEN jobs' = [jobs EXCEPT ![i] = Done(@)] /\ UNCHANGED mailer
       ELSE /\ jobs' = [jobs EXCEPT ![i].state = "active", ![i].holder = {w}]
            /\ mailer' = [mailer EXCEPT ![w] = [at |-> "log", job |-> i, log |-> 0]]
    /\ UNCHANGED <<event, mailing, logs, repeats, mailFaults>>

\* A row of its own for each attempt.
CreateLog(w) ==
    /\ mailer[w].at = "log"
    /\ logs' = Append(logs, [user |-> Job(w).user, status |-> "pending", mailed |-> FALSE])
    /\ mailer' = [mailer EXCEPT ![w].at = "send", ![w].log = Len(logs')]
    /\ UNCHANGED <<event, mailing, jobs, repeats, mailFaults>>

Send(w) ==
    /\ mailer[w].at = "send"
    /\ logs' = [logs EXCEPT ![mailer[w].log].mailed = TRUE]
    /\ mailer' = [mailer EXCEPT ![w].at = "mark"]
    /\ UNCHANGED <<event, mailing, jobs, repeats, mailFaults>>

MarkSent(w) ==
    /\ mailer[w].at = "mark"
    /\ logs' = [logs EXCEPT ![mailer[w].log].status = "sent"]
    /\ EndJob(w, Done(Job(w)))
    /\ Rest(w)
    /\ UNCHANGED <<event, mailing, repeats, mailFaults>>

\* The row cannot be created, and the job throws.
LogThrows(w) ==
    /\ mailer[w].at = "log"
    /\ MailFault
    /\ EndJob(w, Thrown(Job(w)))
    /\ Rest(w)
    /\ UNCHANGED <<event, mailing, logs, repeats>>

\* The mail server refuses, or the mark after a mail that went out fails.
SendThrows(w) ==
    /\ mailer[w].at \in {"send", "mark"}
    /\ MailFault
    /\ mailer' = [mailer EXCEPT ![w].at = "catch"]
    /\ repeats' = IF mailer[w].at = "mark" THEN [repeats EXCEPT ![Job(w).user] = @ + 1]
                  ELSE repeats
    /\ UNCHANGED <<event, mailing, jobs, logs>>

\* The catch block marks the row as failed.
CaughtFailed(w) == logs' = [logs EXCEPT ![mailer[w].log].status = "failed"]

Catch(w) ==
    /\ mailer[w].at = "catch"
    /\ CaughtFailed(w)
    /\ EndJob(w, Thrown(Job(w)))
    /\ Rest(w)
    /\ UNCHANGED <<event, mailing, repeats, mailFaults>>

\* That update fails as well: the row stays pending.
CatchThrows(w) ==
    /\ mailer[w].at = "catch"
    /\ MailFault
    /\ EndJob(w, Thrown(Job(w)))
    /\ Rest(w)
    /\ UNCHANGED <<event, mailing, logs, repeats>>

\* The worker's lock runs out: another one takes the job, or it failed.  The
\* first one is dead or goes on.
StallMail(w) ==
    /\ mailer[w].at # "idle"
    /\ KeepsJob(w)
    /\ MailFault
    /\ EndJob(w, [Job(w) EXCEPT !.state = IF @ = "active" /\ Job(w).stalls = 0 THEN "waiting"
                                          ELSE "failed",
                                !.stalls = @ + 1, !.holder = {}])
    /\ Rest(w) \/ UNCHANGED mailer
    /\ repeats' = [repeats EXCEPT ![Job(w).user] = @ + 1]
    /\ UNCHANGED <<event, mailing, logs>>

\* RetryNotificationHandler: a new job for a failed row, which stays as it is.
RetryMail(i) ==
    /\ i \in DOMAIN logs
    /\ logs[i].status = "failed"
    /\ MailFault
    /\ jobs' = Append(jobs, NewJob(logs[i].user))
    /\ repeats' = [repeats EXCEPT ![logs[i].user] = @ + 1]
    /\ UNCHANGED <<event, mailing, logs, mailer>>

-----------------------------------------------------------------------------

Mail(w) == (\E i \in DOMAIN jobs : TakeMail(w, i)) \/ CreateLog(w) \/ Send(w) \/ MarkSent(w)
             \/ Catch(w)

MailNext ==
    \/ Dispatch \/ AddMailJob \/ DispatchThrows
    \/ \E w \in Mailers : Mail(w) \/ LogThrows(w) \/ SendThrows(w) \/ CatchThrows(w) \/ StallMail(w)
    \/ \E i \in DOMAIN logs : RetryMail(i)

\* The event is delivered until its attempts are used up, and the queue works.
MailFairness ==
    /\ WF_notificationVars(Dispatch \/ AddMailJob)
    /\ \A w \in Mailers : WF_notificationVars(Mail(w))

MailSpec == MailInit /\ [][MailNext]_notificationVars /\ MailFairness

-----------------------------------------------------------------------------
(* Properties *)

LogsOf(u, P(_)) == Cardinality({i \in DOMAIN logs : logs[i].user = u /\ P(logs[i])})
Mails(u) == LogsOf(u, LAMBDA l : l.mailed)

\* How many mails about the event are meant for u: one, but for the creator of a
\* payroll run who is on its payslips.
Meant(u) ==
    CASE event = "PayrollRunApproved" ->
            Times(u, PayslipUsers) + (IF u = Requester THEN 1 ELSE 0)
      [] event \in {"PeriodClosed", "PeriodReopened"} -> IF u \in ToSet(Assignments) THEN 1 ELSE 0
      [] OTHER -> IF u = Requester THEN 1 ELSE 0

\* Nobody is told more often than is meant, but for the times something went
\* wrong after a job was added or a mail went out, or an operator asked.
TwiceForAReason == \A u \in Told : Mails(u) <= Meant(u) + repeats[u]

\* Once the event has been dispatched, everyone who is meant to be told gets a
\* mail in the end, unless the log has a row that says otherwise, a job failed
\* before it could write one, the user is gone, or the delivery of the event was
\* given up.
EveryoneTold ==
    \A u \in Told :
        <>(mailing.state = "adding") =>
            <>[](\/ Mails(u) >= Meant(u)
                 \/ LogsOf(u, LAMBDA l : l.status # "sent") > 0
                 \/ \E i \in DOMAIN jobs : jobs[i].user = u /\ jobs[i].state = "failed"
                 \/ u \in Gone
                 \/ mailing.state = "failed")

-----------------------------------------------------------------------------
(* What the documentation says, and the code does not do. *)

\* TECH_DEBT on event delivery: each subscriber is retried on its own, as "would
\* re-run the ones that already succeeded and send duplicates".
NoDuplicates == \A u \in Told : Mails(u) <= Meant(u)
=============================================================================
