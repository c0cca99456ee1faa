------------------------------- MODULE Attachments -------------------------------
(***************************************************************************)
(* Files attached to expenses, from the upload to the verdict of the virus *)
(* scan.  AttachFileHandler stores the object, inserts the row and adds a  *)
(* job to the scan queue: three calls to three systems, with no            *)
(* transaction around them.  A worker of the queue downloads the object,   *)
(* asks the scanner and writes the verdict; a file can be downloaded only  *)
(* when the verdict is "clean".                                            *)
(*                                                                         *)
(* The queue gives a job to another worker when the first one stalls,      *)
(* which may be dead or only slow.  The scanner is a daemon of its own,    *)
(* and its client is made once in each process.                            *)
(***************************************************************************)
EXTENDS Naturals, Sequences, FiniteSets

CONSTANTS
    Files,
    Harmful,       \* those in which the scanner finds something
    Scanners,      \* workers of the scan queue, in one process
    Attempts,      \* the attempts of a job
    MaxStalls,     \* BullMQ's maxStalledCount
    MaxScanFaults      \* bound: failed calls, restarts, stalls and outages

ASSUME AttachmentAssumption == Harmful \subseteq Files /\ Attempts \in Nat \ {0}

VARIABLES
    handler,       \* handler[f]: the steps the upload's handler still has to do
    object,        \* the files in the object storage
    scanStatus,    \* scanStatus[f]: the attachments row, or "none"
    scanJob,       \* scanJob[f]: the job of the scan queue
    client,        \* scannerPromise: "none", "ready" or "rejected"
    daemon,        \* is clamd reachable?
    scanWorker,    \* scanWorker[w]: what a worker of the queue does
    scanFaults

attachmentVars == <<handler, object, scanStatus, scanJob, client, daemon, scanWorker, scanFaults>>

NoScanJob == [state |-> "none", attempts |-> 0, stalls |-> 0, holder |-> {}]
Resting == [at |-> "idle", file |-> {}, verdict |-> "none"]

\* Mutation: the job is added before there is a row.
JobFirst == <<"upload", "add", "create">>

\* What AttachFileHandler does once the file is valid and the expense found.
AttachSteps == <<"upload", "create", "add">>

AttachmentInit ==
    /\ handler = [f \in Files |-> AttachSteps]
    /\ object = {}
    /\ scanStatus = [f \in Files |-> "none"]
    /\ scanJob = [f \in Files |-> NoScanJob]
    /\ client = "none"
    /\ daemon = TRUE
    /\ scanWorker = [w \in Scanners |-> Resting]
    /\ scanFaults = 0

ScanFault == scanFaults < MaxScanFaults /\ scanFaults' = scanFaults + 1

-----------------------------------------------------------------------------
(* AttachFileHandler. *)

NextStep(f, step) ==
    /\ handler[f] # <<>>
    /\ Head(handler[f]) = step
    /\ handler' = [handler EXCEPT ![f] = Tail(@)]

Upload(f) ==
    /\ NextStep(f, "upload")
    /\ object' = object \cup {f}
    /\ UNCHANGED <<scanStatus, scanJob, client, daemon, scanWorker, scanFaults>>

CreateRow(f) ==
    /\ NextStep(f, "create")
    /\ scanStatus' = [scanStatus EXCEPT ![f] = "unscanned"]
    /\ UNCHANGED <<object, scanJob, client, daemon, scanWorker, scanFaults>>

AddJob(f) ==
    /\ NextStep(f, "add")
    /\ scanJob' = [scanJob EXCEPT ![f].state = "waiting"]
    /\ UNCHANGED <<object, scanStatus, client, daemon, scanWorker, scanFaults>>

\* A call throws or the process ends: the steps that are left are never done.
Abandon(f) ==
    /\ handler[f] # <<>>
    /\ ScanFault
    /\ handler' = [handler EXCEPT ![f] = <<>>]
    /\ UNCHANGED <<object, scanStatus, scanJob, client, daemon, scanWorker>>

-----------------------------------------------------------------------------
(* AttachmentScanProcessor.process. *)

FileOf(w) == CHOOSE f \in scanWorker[w].file : TRUE
Holds(w) == w \in scanJob[FileOf(w)].holder

\* The worker takes the job and finds the row, or returns.
TakeScan(w, f) ==
    /\ scanWorker[w].at = "idle"
    /\ scanJob[f].state = "waiting"
    /\ IF scanStatus[f] = "none"
       THEN scanJob' = [scanJob EXCEPT ![f].state = "done"] /\ UNCHANGED scanWorker
       ELSE /\ scanJob' = [scanJob EXCEPT ![f].state = "active", ![f].holder = {w}]
            /\ scanWorker' = [scanWorker EXCEPT ![w] = [Resting EXCEPT !.at = "download", !.file = {f}]]
    /\ UNCHANGED <<handler, object, scanStatus, client, daemon, scanFaults>>

FetchObject(w) ==
    /\ scanWorker[w].at = "download"
    /\ FileOf(w) \in object
    /\ scanWorker' = [scanWorker EXCEPT ![w].at = "scan"]
    /\ UNCHANGED <<handler, object, scanStatus, scanJob, client, daemon, scanFaults>>

Verdict(f) == IF f \in Harmful THEN "infected" ELSE "clean"

\* getScanner: init is called once, and what it returned is kept, an error too.
Connected == IF client # "none" THEN client ELSE IF daemon THEN "ready" ELSE "rejected"

Scan(w) ==
    /\ scanWorker[w].at = "scan"
    /\ daemon /\ Connected = "ready"
    /\ client' = Connected
    /\ scanWorker' = [scanWorker EXCEPT ![w].at = "save", ![w].verdict = Verdict(FileOf(w))]
    /\ UNCHANGED <<handler, object, scanStatus, scanJob, daemon, scanFaults>>

\* process returns: the queue's job is done, if the worker still has its lock.
SaveVerdict(w) ==
    /\ scanWorker[w].at = "save"
    /\ scanStatus' = [scanStatus EXCEPT ![FileOf(w)] = scanWorker[w].verdict]
    /\ scanJob' = IF Holds(w) THEN [scanJob EXCEPT ![FileOf(w)].state = "done",
                                           ![FileOf(w)].holder = {}] ELSE scanJob
    /\ scanWorker' = [scanWorker EXCEPT ![w] = Resting]
    /\ UNCHANGED <<handler, object, client, daemon, scanFaults>>

\* Mutation: the failure is not counted as an attempt.
FailedUncounted(j) == [j EXCEPT !.state = "waiting", !.holder = {}]

\* What BullMQ does with a job whose process threw.
FailedJob(j) ==
    [j EXCEPT !.state = IF j.attempts + 1 < Attempts THEN "waiting" ELSE "failed",
              !.attempts = @ + 1, !.holder = {}]

\* The catch block leaves the status as it is.
FailClosed(f) == UNCHANGED scanStatus

Throw(w) ==
    /\ scanJob' = IF Holds(w) THEN [scanJob EXCEPT ![FileOf(w)] = FailedJob(@)] ELSE scanJob
    /\ FailClosed(FileOf(w))
    /\ scanWorker' = [scanWorker EXCEPT ![w] = Resting]
    /\ UNCHANGED <<handler, object, daemon>>

\* The scanner cannot be reached, or could not when the process first tried.
ScanThrows(w) ==
    /\ scanWorker[w].at = "scan"
    /\ ~daemon \/ Connected = "rejected"
    /\ client' = Connected
    /\ Throw(w)
    /\ UNCHANGED scanFaults

\* The storage or the database fails.
CallThrows(w) ==
    /\ scanWorker[w].at \in {"download", "save"}
    /\ ScanFault
    /\ Throw(w)
    /\ UNCHANGED client

-----------------------------------------------------------------------------
(* The queue, the process and the daemon. *)

\* A job whose lock ran out is moved back to wait, or failed the second time.
StalledJob(j) ==
    [j EXCEPT !.state = IF j.stalls < MaxStalls THEN "waiting" ELSE "failed",
              !.stalls = @ + 1, !.holder = {}]

\* The worker is slow and goes on without its lock.
StallScan(w) ==
    /\ scanWorker[w].at # "idle"
    /\ Holds(w)
    /\ ScanFault
    /\ scanJob' = [scanJob EXCEPT ![FileOf(w)] = StalledJob(@)]
    /\ UNCHANGED <<handler, object, scanStatus, client, daemon, scanWorker>>

\* The process ends with all its workers and starts anew.
Restart ==
    /\ ScanFault
    /\ scanJob' = [f \in Files |-> IF scanJob[f].state = "active" THEN StalledJob(scanJob[f]) ELSE scanJob[f]]
    /\ scanWorker' = [w \in Scanners |-> Resting]
    /\ client' = "none"
    /\ UNCHANGED <<handler, object, scanStatus, daemon>>

Outage ==
    /\ daemon
    /\ ScanFault
    /\ daemon' = FALSE
    /\ UNCHANGED <<handler, object, scanStatus, scanJob, client, scanWorker>>

DaemonBack ==
    /\ ~daemon
    /\ daemon' = TRUE
    /\ UNCHANGED <<handler, object, scanStatus, scanJob, client, scanWorker, scanFaults>>

-----------------------------------------------------------------------------

Handle(f) == Upload(f) \/ CreateRow(f) \/ AddJob(f)

ScanWork(w) == (\E f \in Files : TakeScan(w, f)) \/ FetchObject(w) \/ Scan(w) \/ SaveVerdict(w)
             \/ ScanThrows(w)

AttachmentNext ==
    \/ \E f \in Files : Handle(f) \/ Abandon(f)
    \/ \E w \in Scanners : ScanWork(w) \/ CallThrows(w) \/ StallScan(w)
    \/ Restart \/ Outage \/ DaemonBack

\* The requests go on, and so do the workers.
AttachmentFairness ==
    /\ \A f \in Files : WF_attachmentVars(Handle(f))
    /\ \A w \in Scanners : WF_attachmentVars(ScanWork(w))

AttachmentSpec == AttachmentInit /\ [][AttachmentNext]_attachmentVars /\ AttachmentFairness

-----------------------------------------------------------------------------
(* Properties *)

\* What can be downloaded is in the storage and was found clean, and a job is
\* done only when its row has the verdict on its file, however often the scan
\* failed, was given to another worker, or was written late.  A job that found
\* nothing to do would leave its file unscanned for good: nothing adds another.
VerdictsHold ==
    \A f \in Files :
        /\ scanStatus[f] = "clean" => f \in object \ Harmful
        /\ scanJob[f].state = "done" => scanStatus[f] = Verdict(f)

\* A job that was added ends with a verdict or failed for good, though the
\* scanner never comes back: no job is tried for ever.
ScansEnd ==
    \A f \in Files :
        scanJob[f].state = "waiting"
            ~> (scanJob[f].state = "failed" \/ scanStatus[f] \in {"clean", "infected"})

-----------------------------------------------------------------------------
(* What the documentation says, and the code does not do. *)

\* TECH_DEBT #26: "a transient scanner outage" ends when the scanner is back;
\* the process keeps the client that could not connect until it is restarted.
OutagePasses == daemon ~> client # "rejected"
=============================================================================
