-------------------------------- MODULE MCJobs --------------------------------
(***************************************************************************)
(* The jobs that work through the queues of BullMQ, for TLC: a CSV import, *)
(* the scans of attachments, and the mails about an event.  They share no  *)
(* state, so a behaviour is about one of them, and fairness is of its      *)
(* actions only.                                                           *)
(***************************************************************************)
EXTENDS ImportJob, Attachments, Notifications

VARIABLE side    \* which of the three the behaviour is about

JobsInit ==
    /\ Init
    /\ AttachmentInit
    /\ MailInit
    /\ side \in {"import", "scan", "mail"}
    /\ side # "mail" => event = "ExpenseApproved"

JobsNext ==
    /\ UNCHANGED side
    /\ \/ side = "import" /\ Next /\ UNCHANGED <<attachmentVars, notificationVars>>
       \/ side = "scan" /\ AttachmentNext /\ UNCHANGED <<vars, notificationVars>>
       \/ side = "mail" /\ MailNext /\ UNCHANGED <<vars, attachmentVars>>

JobsSpec ==
    /\ JobsInit
    /\ [][JobsNext]_<<vars, attachmentVars, notificationVars, side>>
    /\ \A w \in Workers : WF_vars(side = "import" /\ Work(w))
    /\ \A f \in Files : WF_attachmentVars(side = "scan" /\ Handle(f))
    /\ \A w \in Scanners : WF_attachmentVars(side = "scan" /\ ScanWork(w))
    /\ WF_notificationVars(side = "mail" /\ (Dispatch \/ AddMailJob))
    /\ \A w \in Mailers : WF_notificationVars(side = "mail" /\ Mail(w))

\* No job is under way for ever: an import that was enqueued ends completed or
\* failed, unless its workers stall twice, and a scan ends with a verdict or with
\* a job that is out of attempts, though the scanner never comes back.
JobsEnd == ImportEnds /\ ScansEnd

-----------------------------------------------------------------------------

CONSTANTS a, b, bad, admin, leaver

\* A file with a repeated row and a bad one.
MCFile == <<a, bad, b, a>>

\* One employee has no user, and one has a user who is gone.
MCPayslipUsers == <<NoUser, leaver>>

\* The admin holds two roles with period permissions.
MCAssignments == <<admin, leaver, admin>>
=============================================================================
