------------------------------- MODULE ImportJob -------------------------------
(***************************************************************************)
(* One CSV import, from the upload to its end.  The controller stores the  *)
(* file, creates the import job and enqueues it; a worker of the queue     *)
(* creates an expense for each row, and notes in the inbox which rows are  *)
(* done, so that a second delivery of the job skips them.  Every step is a *)
(* database or storage call of its own: there is no transaction around two *)
(* of them.                                                                *)
(*                                                                         *)
(* The queue delivers a job again when its worker stalls, once             *)
(* (BullMQ's maxStalledCount); the stalled worker may be dead, or slow.    *)
(* An operator may also enqueue a job again after it ended.                *)
(***************************************************************************)
EXTENDS Naturals, Sequences, FiniteSets, SequencesExt

CONSTANTS
    Workers,      \* the deliveries of the job
    File,         \* the content of each row of the file
    Invalid,      \* the contents that normalize refuses
    Stalls,       \* may a worker stall?
    Survivors     \* may a stalled worker go on?

ASSUME StallsType == Survivors \in BOOLEAN /\ Stalls \in BOOLEAN

VARIABLES
    upload,        \* how far the controller is
    job,           \* the import_jobs row
    queue,         \* the BullMQ job
    expenses,      \* the contents of the expenses created, one entry each
    inbox,         \* inbox_records: the contents marked as processed
    failed,        \* failed_import_records, one entry <<row, cause>> each
    worker         \* worker[w]: what a delivery is doing and has counted

vars == <<upload, job, queue, expenses, inbox, failed, worker>>

Contents == ToSet(File)
Rows == DOMAIN File

ASSUME FileType == File \in Seq(Contents)

NoJob == [status |-> "none", reason |-> FALSE, total |-> 0, success |-> 0, failure |-> 0]
Idle == [at |-> "idle", row |-> 1, success |-> 0, failure |-> 0]

Init ==
    /\ upload = "new"
    /\ job = NoJob
    /\ queue = [state |-> "none", holder |-> {}, stalled |-> 0]
    /\ expenses = <<>>
    /\ inbox = {}
    /\ failed = <<>>
    /\ worker = [w \in Workers |-> Idle]

database == <<job, expenses, inbox, failed>>

-----------------------------------------------------------------------------
(* ImportController.create. *)

\* The file is validated and stored, before anything refers to it.
StoreFile ==
    /\ upload = "new"
    /\ upload' = "stored"
    /\ UNCHANGED <<database, queue, worker>>

CreateJob ==
    /\ upload = "stored"
    /\ upload' = "created"
    /\ job' = [NoJob EXCEPT !.status = "pending"]
    /\ UNCHANGED <<queue, expenses, inbox, failed, worker>>

EnqueueJob ==
    /\ upload = "created"
    /\ upload' = "enqueued"
    /\ queue' = [queue EXCEPT !.state = "waiting"]
    /\ UNCHANGED <<database, worker>>

-----------------------------------------------------------------------------
(* ImportJobProcessor.process. *)

Processing == [job EXCEPT !.status = "processing", !.reason = FALSE]

\* The queue gives the job to a worker, which updates the row.
Take(w) ==
    /\ worker[w].at = "idle"
    /\ queue.state = "waiting"
    /\ queue' = [queue EXCEPT !.state = "active", !.holder = {w}]
    /\ job' = Processing
    /\ worker' = [worker EXCEPT ![w].at = "download"]
    /\ UNCHANGED <<upload, expenses, inbox, failed>>

\* process returns: the queue's job is done, if the worker still holds its lock.
Return(w) ==
    /\ worker' = [worker EXCEPT ![w].at = "done"]
    /\ queue' = IF w \in queue.holder THEN [queue EXCEPT !.state = "done", !.holder = {}]
                ELSE queue

Download(w) ==
    /\ worker[w].at = "download"
    /\ worker' = [worker EXCEPT ![w].at = "row"]
    /\ UNCHANGED <<upload, database, queue>>

\* Mutation: the error only ends the queue's job.
DownloadFailsSilently(w) ==
    /\ worker[w].at = "download"
    /\ Return(w)
    /\ UNCHANGED <<upload, database>>

\* The file cannot be fetched or parsed: the job ends failed, with the reason.
DownloadFails(w) ==
    /\ worker[w].at = "download"
    /\ job' = [job EXCEPT !.status = "failed", !.reason = TRUE]
    /\ Return(w)
    /\ UNCHANGED <<upload, expenses, inbox, failed>>

Content(w) == File[worker[w].row]
NextRow(w) == [worker EXCEPT ![w].at = "row", ![w].row = @ + 1]

\* Mutation: the inbox is not asked.
CheckRowBlindly(w) ==
    /\ worker[w].at = "row"
    /\ worker[w].row \in Rows
    /\ Content(w) \notin Invalid
    /\ worker' = [worker EXCEPT ![w].at = "create"]
    /\ UNCHANGED <<upload, database, queue>>

\* The row is normalized and looked up in the inbox, and so skipped or begun.
CheckRow(w) ==
    /\ worker[w].at = "row"
    /\ worker[w].row \in Rows
    /\ Content(w) \notin Invalid
    /\ worker' = IF Content(w) \in inbox THEN NextRow(w) ELSE [worker EXCEPT ![w].at = "create"]
    /\ UNCHANGED <<upload, database, queue>>

\* CreateExpenseHandler.execute, a transaction of its own.
CreateExpense(w) ==
    /\ worker[w].at = "create"
    /\ expenses' = Append(expenses, Content(w))
    /\ worker' = [worker EXCEPT ![w].at = "mark"]
    /\ UNCHANGED <<upload, job, queue, inbox, failed>>

\* markProcessed: the primary key refuses a second record.
MarkProcessed(w) ==
    /\ worker[w].at = "mark"
    /\ Content(w) \notin inbox
    /\ inbox' = inbox \cup {Content(w)}
    /\ worker' = [NextRow(w) EXCEPT ![w].success = @ + 1]
    /\ UNCHANGED <<upload, job, queue, expenses, failed>>

\* Mutation: a row that fails is only counted.
FailureCounted(w, cause) == UNCHANGED failed

FailureRecorded(w, cause) == failed' = Append(failed, <<worker[w].row, cause>>)

\* The catch of the loop: whatever was thrown, the row is recorded as failed.
FailRow(w, cause) ==
    /\ FailureRecorded(w, cause)
    /\ worker' = [NextRow(w) EXCEPT ![w].failure = @ + 1]
    /\ UNCHANGED <<upload, job, queue, expenses, inbox>>

RefuseRow(w) ==
    /\ worker[w].at = "row"
    /\ worker[w].row \in Rows
    /\ Content(w) \in Invalid
    /\ FailRow(w, "refused")

\* toCreateExpenseCommand finds no department or category, or the handler throws.
CreateFails(w) == worker[w].at = "create" /\ FailRow(w, "refused")

\* The mark is there already.
MarkFails(w) == worker[w].at = "mark" /\ Content(w) \in inbox /\ FailRow(w, "marked")

\* After the last row the counts are written, whoever else works on the job.
Finish(w) ==
    /\ worker[w].at = "row"
    /\ worker[w].row \notin Rows
    /\ job' = [job EXCEPT !.status = "completed", !.total = Len(File),
                          !.success = worker[w].success, !.failure = worker[w].failure]
    /\ Return(w)
    /\ UNCHANGED <<upload, expenses, inbox, failed>>

\* The lock of the active job runs out: its worker died, or is only slow.  The
\* queue delivers the job a second time; a third time, it fails the job.
Stall(w) ==
    /\ Stalls
    /\ w \in queue.holder
    /\ queue' = [state |-> IF queue.stalled = 0 THEN "waiting" ELSE "done",
                 holder |-> {}, stalled |-> queue.stalled + 1]
    /\ \/ worker' = [worker EXCEPT ![w].at = "done"]
       \/ Survivors /\ UNCHANGED worker
    /\ UNCHANGED <<upload, database>>

\* An operator enqueues the job again.
Reenqueue ==
    /\ queue.state = "done"
    /\ queue' = [queue EXCEPT !.state = "waiting", !.stalled = 0]
    /\ UNCHANGED <<upload, database, worker>>

-----------------------------------------------------------------------------

Work(w) ==
    \/ Take(w)
    \/ Download(w)
    \/ DownloadFails(w)
    \/ CheckRow(w)
    \/ CreateExpense(w)
    \/ MarkProcessed(w)
    \/ RefuseRow(w)
    \/ CreateFails(w)
    \/ MarkFails(w)
    \/ Finish(w)

Next ==
    \/ StoreFile
    \/ CreateJob
    \/ EnqueueJob
    \/ Reenqueue
    \/ \E w \in Workers : Work(w) \/ Stall(w)

\* The queue and its workers go on; nothing makes a controller go on.
Fairness == \A w \in Workers : WF_vars(Work(w))

Spec == Init /\ [][Next]_vars /\ Fairness

-----------------------------------------------------------------------------
(* Properties *)

Deliveries == Cardinality({w \in Workers : worker[w].at # "idle"})
CreatedFor(c) == Cardinality({i \in DOMAIN expenses : expenses[i] = c})

\* When a job is completed, each row of the file became an expense or is on the
\* list of failures, however often the job was delivered: a delivery never skips
\* a row that the inbox holds without its expense.
NoRowLost ==
    /\ inbox \subseteq ToSet(expenses)
    /\ job.status = "completed" =>
          \A r \in Rows : File[r] \in ToSet(expenses) \/ \E i \in DOMAIN failed : failed[i][1] = r

\* A delivery adds at most one expense for a row that has one already: only the
\* step between the creation and its mark can be repeated.
OneExpensePerDelivery == \A c \in Contents : CreatedFor(c) <= Deliveries

\* Once it is enqueued, an import ends, unless its workers stall twice.
ImportEnds ==
    (upload = "enqueued" /\ job.status = "pending")
        ~> (job.status \in {"completed", "failed"} \/ queue.stalled > 1)

-----------------------------------------------------------------------------
(* What the documentation says of imports, and the code does not do. *)

\* PHASES.md: the hash of a row is "used as an idempotency key so replaying a job
\* doesn't double-create expenses".
NoDoubleCreation == \A c \in Contents : CreatedFor(c) <= 1

\* InboxService.markProcessed: "a duplicate insert throws, which the caller
\* catches and treats as already-processed rather than a genuine failure".
DuplicateIsNoFailure == \A i \in DOMAIN failed : failed[i][2] # "marked"
=============================================================================
