---------------------------- MODULE BackgroundProofs ----------------------------
(***************************************************************************)
(* What goes on behind the requests, for every bound and every number of   *)
(* workers: the virus scan of attachments, the import of a CSV file, the   *)
(* reporting read model, the audit log's hash chain and its trail, a walk  *)
(* through the pages of a list, and the mails about an event.              *)
(***************************************************************************)
EXTENDS ImportJob, Attachments, ReadModel, AuditChain, AuditTrail, Listing, Notifications,
        FiniteSetTheorems, SequenceTheorems, WellFoundedInduction, TLAPS

-----------------------------------------------------------------------------
(* A set of numbers that is not empty has a least one, by which a claim about   *)
(* all numbers, or all sequences, is proved: its least counterexample is none.  *)

LEMMA LeastOfNat ==
    ASSUME NEW S, S \subseteq Nat, S # {}
    PROVE  \E n \in S : \A m \in S : n <= m
<1>1. PICK n \in S : \A m \in S : <<m, n>> \notin OpToRel(<, Nat)
  BY NatLessThanWellFounded, WFMin
<1>2. \A m \in S : ~(m < n)
  BY <1>1 DEF OpToRel
<1>3. QED
  BY <1>2

-----------------------------------------------------------------------------
(* Attachments: the verdicts *)

ScanJobType == [state : {"none", "waiting", "active", "done", "failed"}, attempts : Nat,
                stalls : Nat, holder : SUBSET Scanners]

ScanWorkerType == [at : {"idle", "download", "scan", "save"}, file : SUBSET Files,
                   verdict : {"none", "infected", "clean"}]

\* How far the handler of an upload may be.
StepsLeft == {<<"upload", "create", "add">>, <<"create", "add">>, <<"add">>, <<>>}

AttachmentTypeOK ==
    /\ handler \in [Files -> StepsLeft]
    /\ object \subseteq Files
    /\ scanStatus \in [Files -> {"none", "unscanned", "infected", "clean"}]
    /\ scanJob \in [Files -> ScanJobType]
    /\ scanWorker \in [Scanners -> ScanWorkerType]

\* A file has a row before it has a job, and the verdict of its row is the one
\* on the file that is stored.
FileOK(f) ==
    /\ handler[f] \in {<<"upload", "create", "add">>, <<"create", "add">>} =>
          scanStatus[f] = "none" /\ scanJob[f].state = "none"
    /\ handler[f] = <<"add">> => scanStatus[f] # "none"
    /\ scanJob[f].state # "none" => scanStatus[f] # "none"
    /\ scanStatus[f] \in {"none", "unscanned", Verdict(f)}
    /\ scanStatus[f] = Verdict(f) => f \in object
    /\ scanJob[f].state = "done" => scanStatus[f] = Verdict(f)

\* A worker is at work on a file with a row, with or without its lock, and what
\* it is about to save is the verdict on that file.
ScannerOK(w) ==
    scanWorker[w].at # "idle" =>
        \E f \in Files :
            /\ scanWorker[w].file = {f}
            /\ scanStatus[f] # "none"
            /\ scanWorker[w].at \in {"scan", "save"} => f \in object
            /\ scanWorker[w].at = "save" => scanWorker[w].verdict = Verdict(f)

VerdictInv ==
    /\ AttachmentTypeOK
    /\ \A f \in Files : FileOK(f)
    /\ \A w \in Scanners : ScannerOK(w)

\* The steps of an upload are done in their order.
LEMMA StepsInOrder ==
    ASSUME AttachmentTypeOK, NEW f \in Files
    PROVE  /\ NextStep(f, "upload") =>
                 /\ handler[f] = <<"upload", "create", "add">>
                 /\ handler' = [handler EXCEPT ![f] = <<"create", "add">>]
           /\ NextStep(f, "create") =>
                 /\ handler[f] = <<"create", "add">> /\ handler' = [handler EXCEPT ![f] = <<"add">>]
           /\ NextStep(f, "add") =>
                 handler[f] = <<"add">> /\ handler' = [handler EXCEPT ![f] = <<>>]
<1>1. handler[f] \in StepsLeft
  BY DEF AttachmentTypeOK
<1>2. /\ Head(<<"upload", "create", "add">>) = "upload"
      /\ Tail(<<"upload", "create", "add">>) = <<"create", "add">>
      /\ Head(<<"create", "add">>) = "create" /\ Tail(<<"create", "add">>) = <<"add">>
      /\ Head(<<"add">>) = "add" /\ Tail(<<"add">>) = <<>>
  OBVIOUS
<1>3. QED
  BY <1>1, <1>2 DEF NextStep, StepsLeft

\* The file a worker is at work on.
LEMMA FileOfWorker ==
    ASSUME NEW w, NEW f, scanWorker[w].file = {f}
    PROVE  FileOf(w) = f
BY DEF FileOf

\* A step that leaves the rows and the workers alone, and ends no job.
LEMMA VerdictsKept ==
    ASSUME VerdictInv, AttachmentTypeOK', UNCHANGED <<handler, scanStatus>>,
           object \subseteq object', \A f \in Files :
               scanJob'[f].state # "none" /\ scanJob'[f] # scanJob[f] =>
                   scanStatus[f] # "none" /\ scanJob'[f].state # "done",
           \A w \in Scanners : ScannerOK(w)'
    PROVE  VerdictInv'
BY DEF VerdictInv, FileOK, Verdict

\* A job that failed or stalled waits again or has failed for good.
LEMMA FailedJobType ==
    ASSUME NEW j \in ScanJobType
    PROVE  /\ FailedJob(j) \in ScanJobType /\ FailedJob(j).state \in {"waiting", "failed"}
           /\ StalledJob(j) \in ScanJobType /\ StalledJob(j).state \in {"waiting", "failed"}
<1> DEFINE afterFailure == IF j.attempts + 1 < Attempts THEN "waiting" ELSE "failed"
           afterStall == IF j.stalls < MaxStalls THEN "waiting" ELSE "failed"
           tried == j.attempts + 1
           stalled == j.stalls + 1
<1>1. /\ FailedJob(j) = [j EXCEPT !.state = afterFailure, !.attempts = tried, !.holder = {}]
      /\ StalledJob(j) = [j EXCEPT !.state = afterStall, !.stalls = stalled, !.holder = {}]
  BY DEF FailedJob, StalledJob
<1>2. /\ afterFailure \in {"waiting", "failed"} /\ afterStall \in {"waiting", "failed"}
      /\ tried \in Nat /\ stalled \in Nat
  BY DEF ScanJobType
<1> HIDE DEF afterFailure, afterStall, tried, stalled
<1>3. QED
  BY <1>1, <1>2 DEF ScanJobType

\* A worker that gives its job up leaves the file as it was.
LEMMA ThrowKeepsVerdicts ==
    ASSUME VerdictInv, NEW w \in Scanners, scanWorker[w].at # "idle", Throw(w)
    PROVE  VerdictInv'
<1>1. PICK f \in Files : scanWorker[w].file = {f} /\ scanStatus[f] # "none"
  BY DEF VerdictInv, ScannerOK
<1>2. FileOf(w) = f
  BY <1>1, FileOfWorker
<1>3. /\ FailedJob(scanJob[f]) \in ScanJobType
      /\ FailedJob(scanJob[f]).state \in {"waiting", "failed"}
  BY FailedJobType DEF VerdictInv, AttachmentTypeOK
<1>5. /\ UNCHANGED <<handler, object, scanStatus>>
      /\ scanJob' = scanJob \/ scanJob' = [scanJob EXCEPT ![f] = FailedJob(scanJob[f])]
      /\ scanWorker' = [scanWorker EXCEPT ![w] = Resting]
  BY <1>2 DEF Throw, FailClosed
<1>6. Resting \in ScanWorkerType /\ Resting.at = "idle"
  BY DEF Resting, ScanWorkerType
<1>7. AttachmentTypeOK'
  BY <1>3, <1>5, <1>6 DEF VerdictInv, AttachmentTypeOK
<1>8. \A g \in Files : scanJob'[g] # scanJob[g] => g = f /\ scanJob'[g].state # "done"
  BY <1>3, <1>5 DEF VerdictInv, AttachmentTypeOK
<1>9. \A v \in Scanners : ScannerOK(v)'
  BY <1>5, <1>6 DEF VerdictInv, AttachmentTypeOK, ScannerOK, Verdict
<1>10. QED
  BY <1>1, <1>5, <1>7, <1>8, <1>9, VerdictsKept

\* What the handler of an upload does.
LEMMA HandleKeepsVerdicts ==
    ASSUME VerdictInv, NEW f \in Files, Handle(f) \/ Abandon(f)
    PROVE  VerdictInv'
<1>1. AttachmentTypeOK /\ FileOK(f)
  BY DEF VerdictInv
<1>2. CASE Upload(f)
  <2>1. /\ handler[f] = <<"upload", "create", "add">>
        /\ handler' = [handler EXCEPT ![f] = <<"create", "add">>]
        /\ object' = object \cup {f} /\ UNCHANGED <<scanStatus, scanJob, scanWorker>>
    BY <1>1, <1>2, StepsInOrder DEF Upload
  <2>2. AttachmentTypeOK'
    BY <1>1, <2>1 DEF AttachmentTypeOK, StepsLeft
  <2>3. \A g \in Files : FileOK(g)'
    BY <1>1, <2>1 DEF VerdictInv, AttachmentTypeOK, FileOK, Verdict
  <2>4. QED
    BY <2>1, <2>2, <2>3 DEF VerdictInv, ScannerOK, Verdict
<1>3. CASE CreateRow(f)
  <2>1. /\ handler[f] = <<"create", "add">>
        /\ handler' = [handler EXCEPT ![f] = <<"add">>]
        /\ scanStatus' = [scanStatus EXCEPT ![f] = "unscanned"]
        /\ UNCHANGED <<object, scanJob, scanWorker>>
    BY <1>1, <1>3, StepsInOrder DEF CreateRow
  <2>2. AttachmentTypeOK'
    BY <1>1, <2>1 DEF AttachmentTypeOK, StepsLeft
  <2>3. \A g \in Files : FileOK(g)'
    BY <1>1, <2>1 DEF VerdictInv, AttachmentTypeOK, FileOK, Verdict
  <2>4. \A w \in Scanners : ScannerOK(w)'
    BY <1>1, <2>1 DEF VerdictInv, AttachmentTypeOK, ScannerOK, Verdict
  <2>5. QED
    BY <2>2, <2>3, <2>4 DEF VerdictInv
<1>4. CASE AddJob(f)
  <2>1. /\ handler[f] = <<"add">> /\ handler' = [handler EXCEPT ![f] = <<>>]
        /\ scanJob' = [scanJob EXCEPT ![f].state = "waiting"]
        /\ UNCHANGED <<object, scanStatus, scanWorker>>
    BY <1>1, <1>4, StepsInOrder DEF AddJob
  <2>2. AttachmentTypeOK'
    BY <1>1, <2>1 DEF AttachmentTypeOK, StepsLeft, ScanJobType
  <2>3. \A g \in Files : FileOK(g)'
    BY <1>1, <2>1 DEF VerdictInv, AttachmentTypeOK, ScanJobType, FileOK, Verdict
  <2>4. QED
    BY <2>1, <2>2, <2>3 DEF VerdictInv, ScannerOK, Verdict
<1>5. CASE Abandon(f)
  <2>1. /\ handler' = [handler EXCEPT ![f] = <<>>]
        /\ UNCHANGED <<object, scanStatus, scanJob, scanWorker>>
    BY <1>5 DEF Abandon
  <2>2. AttachmentTypeOK'
    BY <1>1, <2>1 DEF AttachmentTypeOK, StepsLeft
  <2>3. \A g \in Files : FileOK(g)'
    BY <1>1, <2>1 DEF VerdictInv, AttachmentTypeOK, FileOK, Verdict
  <2>4. QED
    BY <2>1, <2>2, <2>3 DEF VerdictInv, ScannerOK, Verdict
<1>6. QED
  BY <1>2, <1>3, <1>4, <1>5 DEF Handle

\* What a worker does with a job.
LEMMA ScanKeepsVerdicts ==
    ASSUME VerdictInv, NEW w \in Scanners, ScanWork(w) \/ CallThrows(w) \/ StallScan(w)
    PROVE  VerdictInv'
<1>1. AttachmentTypeOK /\ scanWorker[w] \in ScanWorkerType
  BY DEF VerdictInv, AttachmentTypeOK
<1>2. ASSUME NEW f \in Files, TakeScan(w, f) PROVE VerdictInv'
  <2>1. /\ scanStatus[f] # "none" /\ scanJob[f].state = "waiting"
        /\ UNCHANGED <<handler, object, scanStatus>>
    BY <1>2 DEF TakeScan, VerdictInv, FileOK
  <2> DEFINE taken == [Resting EXCEPT !.at = "download", !.file = {f}]
  <2>2. /\ scanJob' = [scanJob EXCEPT ![f].state = "active", ![f].holder = {w}]
        /\ scanWorker' = [scanWorker EXCEPT ![w] = taken]
    BY <1>2, <2>1 DEF TakeScan
  <2>3. taken \in ScanWorkerType /\ taken.at = "download" /\ taken.file = {f}
    BY DEF Resting, ScanWorkerType
  <2> HIDE DEF taken
  <2>4. AttachmentTypeOK'
    <3> DEFINE active == [scanJob[f] EXCEPT !.state = "active", !.holder = {w}]
    <3>1. scanJob' \in [Files -> ScanJobType]
      <4>1. active \in ScanJobType
        BY <1>1 DEF AttachmentTypeOK, ScanJobType
      <4>2. scanJob' = [scanJob EXCEPT ![f] = active]
        BY <1>1, <2>2 DEF AttachmentTypeOK, ScanJobType
      <4> HIDE DEF active
      <4>3. QED
        BY <1>1, <4>1, <4>2 DEF AttachmentTypeOK
    <3>2. scanWorker' \in [Scanners -> ScanWorkerType]
      BY <1>1, <2>2, <2>3 DEF AttachmentTypeOK
    <3>3. QED
      BY <1>1, <2>1, <3>1, <3>2 DEF AttachmentTypeOK
  <2>5. \A g \in Files : scanJob'[g] # scanJob[g] => g = f /\ scanJob'[g].state # "done"
    BY <1>1, <2>2 DEF AttachmentTypeOK, ScanJobType
  <2>6. \A v \in Scanners : ScannerOK(v)'
    BY <1>1, <2>1, <2>2, <2>3 DEF VerdictInv, AttachmentTypeOK, ScannerOK, Verdict
  <2>7. QED
    BY <2>1, <2>4, <2>5, <2>6, VerdictsKept
<1>3. ASSUME scanWorker[w].at # "idle"
      PROVE  \E f \in Files : /\ scanWorker[w].file = {f} /\ FileOf(w) = f
                              /\ scanStatus[f] # "none"
                              /\ scanWorker[w].at \in {"scan", "save"} => f \in object
                              /\ scanWorker[w].at = "save" => scanWorker[w].verdict = Verdict(f)
  BY <1>3, FileOfWorker DEF VerdictInv, ScannerOK
<1>4. CASE FetchObject(w)
  <2>1. /\ scanWorker[w].at = "download" /\ FileOf(w) \in object
        /\ scanWorker' = [scanWorker EXCEPT ![w].at = "scan"]
        /\ UNCHANGED <<handler, object, scanStatus, scanJob>>
    BY <1>4 DEF FetchObject
  <2>2. AttachmentTypeOK'
    BY <1>1, <2>1 DEF AttachmentTypeOK, ScanWorkerType
  <2>3. ScannerOK(w)'
    BY <1>1, <1>3, <2>1 DEF AttachmentTypeOK, ScanWorkerType, ScannerOK, Verdict
  <2>4. \A v \in Scanners : ScannerOK(v)'
    BY <1>1, <2>1, <2>3 DEF VerdictInv, AttachmentTypeOK, ScannerOK, Verdict
  <2>5. QED
    BY <2>1, <2>2, <2>4, VerdictsKept
<1>5. CASE Scan(w)
  <2>1. PICK f \in Files : /\ scanWorker[w].file = {f} /\ FileOf(w) = f
                           /\ scanStatus[f] # "none" /\ f \in object
    BY <1>3, <1>5 DEF Scan
  <2>2. /\ scanWorker' = [scanWorker EXCEPT ![w].at = "save", ![w].verdict = Verdict(f)]
        /\ UNCHANGED <<handler, object, scanStatus, scanJob>>
    BY <1>5, <2>1 DEF Scan
  <2>3. Verdict(f) \in {"infected", "clean"}
    BY DEF Verdict
  <2>4. AttachmentTypeOK'
    BY <1>1, <2>2, <2>3 DEF AttachmentTypeOK, ScanWorkerType
  <2>5. ScannerOK(w)'
    <3>1. /\ scanWorker'[w].file = {f} /\ scanWorker'[w].verdict = Verdict(f)
      BY <1>1, <2>1, <2>2 DEF AttachmentTypeOK, ScanWorkerType
    <3>2. QED
      BY <2>1, <2>2, <3>1 DEF ScannerOK, Verdict
  <2>6. \A v \in Scanners : ScannerOK(v)'
    BY <1>1, <2>2, <2>5 DEF VerdictInv, AttachmentTypeOK, ScannerOK, Verdict
  <2>7. QED
    BY <2>2, <2>4, <2>6, VerdictsKept
<1>6. CASE SaveVerdict(w)
  <2>1. PICK f \in Files : /\ scanWorker[w].file = {f} /\ FileOf(w) = f
                           /\ scanStatus[f] # "none" /\ f \in object
                           /\ scanWorker[w].verdict = Verdict(f)
    BY <1>3, <1>6 DEF SaveVerdict
  <2>2. /\ scanStatus' = [scanStatus EXCEPT ![f] = Verdict(f)]
        /\ \/ scanJob' = [scanJob EXCEPT ![f].state = "done", ![f].holder = {}]
           \/ scanJob' = scanJob
        /\ scanWorker' = [scanWorker EXCEPT ![w] = Resting]
        /\ UNCHANGED <<handler, object>>
    BY <1>6, <2>1 DEF SaveVerdict
  <2>3. Resting \in ScanWorkerType /\ Resting.at = "idle"
    BY DEF Resting, ScanWorkerType
  <2>4. Verdict(f) \in {"infected", "clean"}
    BY DEF Verdict
  <2>5. AttachmentTypeOK'
    BY <1>1, <2>2, <2>3, <2>4 DEF AttachmentTypeOK, ScanJobType
  <2>6. scanStatus'[f] = Verdict(f)
    BY <1>1, <2>2 DEF AttachmentTypeOK
  <2>7. FileOK(f)'
    BY <1>1, <2>1, <2>2, <2>4, <2>6 DEF VerdictInv, FileOK, Verdict
  <2>8. \A g \in Files \ {f} : FileOK(g)'
    BY <1>1, <2>2 DEF VerdictInv, AttachmentTypeOK, FileOK, Verdict
  <2>9. \A v \in Scanners : ScannerOK(v)'
    BY <1>1, <2>2, <2>3, <2>4 DEF VerdictInv, AttachmentTypeOK, ScannerOK, Verdict
  <2>10. QED
    BY <2>5, <2>7, <2>8, <2>9 DEF VerdictInv
<1>7. CASE ScanThrows(w) \/ CallThrows(w)
  BY <1>7, ThrowKeepsVerdicts DEF ScanThrows, CallThrows
<1>8. CASE StallScan(w)
  <2>1. PICK f \in Files : FileOf(w) = f /\ scanStatus[f] # "none"
    BY <1>3, <1>8 DEF StallScan
  <2>2. /\ scanJob' = [scanJob EXCEPT ![f] = StalledJob(scanJob[f])]
        /\ UNCHANGED <<handler, object, scanStatus, scanWorker>>
    BY <1>8, <2>1 DEF StallScan
  <2>3. StalledJob(scanJob[f]) \in ScanJobType /\ StalledJob(scanJob[f]).state # "done"
    BY <1>1, FailedJobType DEF AttachmentTypeOK
  <2>4. AttachmentTypeOK'
    BY <1>1, <2>2, <2>3 DEF AttachmentTypeOK
  <2>5. \A g \in Files : scanJob'[g] # scanJob[g] => g = f /\ scanJob'[g].state # "done"
    BY <1>1, <2>2, <2>3 DEF AttachmentTypeOK
  <2>6. \A v \in Scanners : ScannerOK(v)'
    BY <2>2 DEF VerdictInv, ScannerOK, Verdict
  <2>7. QED
    BY <2>1, <2>2, <2>4, <2>5, <2>6, VerdictsKept
<1>9. QED
  BY <1>2, <1>4, <1>5, <1>6, <1>7, <1>8 DEF ScanWork

\* The process ends, with its workers, and the jobs it held are stalled.
LEMMA RestartKeepsVerdicts ==
    ASSUME VerdictInv, Restart
    PROVE  VerdictInv'
<1>1. /\ scanJob' = [f \in Files |-> IF scanJob[f].state = "active" THEN StalledJob(scanJob[f])
                                      ELSE scanJob[f]]
      /\ scanWorker' = [w \in Scanners |-> Resting]
      /\ UNCHANGED <<handler, object, scanStatus>>
  BY DEF Restart
<1>2. Resting \in ScanWorkerType /\ Resting.at = "idle"
  BY DEF Resting, ScanWorkerType
<1>3. \A f \in Files : /\ scanJob[f] \in ScanJobType /\ StalledJob(scanJob[f]) \in ScanJobType
                       /\ StalledJob(scanJob[f]).state # "done"
  BY FailedJobType DEF VerdictInv, AttachmentTypeOK
<1>4. AttachmentTypeOK'
  BY <1>1, <1>2, <1>3 DEF VerdictInv, AttachmentTypeOK
<1>5. ASSUME NEW f \in Files, scanJob'[f] # scanJob[f]
      PROVE  scanStatus[f] # "none" /\ scanJob'[f].state # "done"
  BY <1>1, <1>3, <1>5 DEF VerdictInv, FileOK
<1>6. \A w \in Scanners : ScannerOK(w)'
  BY <1>1, <1>2 DEF ScannerOK
<1>7. QED
  BY <1>1, <1>4, <1>5, <1>6, VerdictsKept

\* For every set of files and workers and every bound, what is "clean" was found
\* so, and a job of the scan queue is done only when its row has the verdict on
\* its file, whatever stalls, throws or restarts.
THEOREM VerdictsAreRight == AttachmentSpec => []VerdictsHold
<1>1. AttachmentInit => VerdictInv
  <2> SUFFICES ASSUME AttachmentInit PROVE VerdictInv
    OBVIOUS
  <2>1. /\ Resting \in ScanWorkerType /\ Resting.at = "idle"
        /\ NoScanJob \in ScanJobType /\ NoScanJob.state = "none"
        /\ AttachSteps = <<"upload", "create", "add">>
    BY DEF Resting, ScanWorkerType, NoScanJob, ScanJobType, AttachSteps
  <2>2. AttachmentTypeOK
    BY <2>1 DEF AttachmentInit, AttachmentTypeOK, StepsLeft
  <2>3. \A f \in Files : FileOK(f)
    <3>1. ASSUME NEW f \in Files PROVE FileOK(f)
      <4>1. /\ handler[f] = <<"upload", "create", "add">> /\ scanStatus[f] = "none"
            /\ scanJob[f].state = "none"
        BY <2>1 DEF AttachmentInit
      <4>2. <<"upload", "create", "add">> # <<"add">>
        OBVIOUS
      <4>3. QED
        BY <4>1, <4>2 DEF FileOK, Verdict
    <3>2. QED
      BY <3>1
  <2>4. \A w \in Scanners : ScannerOK(w)
    BY <2>1 DEF AttachmentInit, ScannerOK
  <2>5. QED
    BY <2>2, <2>3, <2>4 DEF VerdictInv
<1>2. VerdictInv /\ [AttachmentNext]_attachmentVars => VerdictInv'
  <2> SUFFICES ASSUME VerdictInv, [AttachmentNext]_attachmentVars PROVE VerdictInv'
    OBVIOUS
  <2>1. CASE UNCHANGED <<handler, object, scanStatus, scanJob, scanWorker>>
    BY <2>1 DEF VerdictInv, AttachmentTypeOK, FileOK, ScannerOK, Verdict
  <2>2. CASE Restart
    BY <2>2, RestartKeepsVerdicts
  <2>3. QED
    BY <2>1, <2>2, HandleKeepsVerdicts, ScanKeepsVerdicts
       DEF AttachmentNext, Outage, DaemonBack, attachmentVars
<1>3. VerdictInv => VerdictsHold
  BY DEF VerdictInv, FileOK, VerdictsHold, Verdict
<1>4. QED
  BY <1>1, <1>2, <1>3, PTL DEF AttachmentSpec

-----------------------------------------------------------------------------
(* ImportJob: the rows *)

ImportWorkerType == [at : {"idle", "download", "row", "create", "mark", "done"},
                     row : Nat \ {0}, success : Nat, failure : Nat]

ImportJobType == [status : {"none", "pending", "processing", "completed", "failed"},
                  reason : BOOLEAN, total : Nat, success : Nat, failure : Nat]

Failures == Nat \X {"refused", "marked"}

ImportTypeOK ==
    /\ job \in ImportJobType
    /\ expenses \in Seq(Contents)
    /\ failed \in Seq(Failures)
    /\ worker \in [Workers -> ImportWorkerType]

\* The row became an expense or is on the list of failures.
Accounted(r) ==
    File[r] \in ToSet(expenses) \/ \E i \in DOMAIN failed : failed[i][1] = r

\* A delivery has accounted for the rows it has passed.
ImporterOK(w) ==
    /\ worker[w].at \in {"idle", "download"} => worker[w].row = 1
    /\ worker[w].at \in {"row", "create", "mark"} =>
          /\ worker[w].row \in 1 .. Len(File) + 1
          /\ \A r \in 1 .. (worker[w].row - 1) : Accounted(r)
    /\ worker[w].at \in {"create", "mark"} => worker[w].row \in Rows
    /\ worker[w].at = "mark" => Content(w) \in ToSet(expenses)

ImportInv ==
    /\ ImportTypeOK
    /\ \A w \in Workers : ImporterOK(w)
    /\ inbox \subseteq ToSet(expenses)
    /\ job.status = "completed" => \A r \in Rows : Accounted(r)

\* An expense or a failure that is added takes nothing away.
LEMMA AccountedStays ==
    ASSUME ImportTypeOK,
           expenses' = expenses \/ \E c \in Contents : expenses' = Append(expenses, c),
           failed' = failed \/ \E x \in Failures : failed' = Append(failed, x)
    PROVE  /\ ToSet(expenses) \subseteq ToSet(expenses')
           /\ \A r : Accounted(r) => Accounted(r)'
<1>a. ASSUME NEW S, NEW s \in Seq(S), NEW x \in S
      PROVE  /\ DOMAIN s \subseteq DOMAIN Append(s, x)
             /\ \A i \in DOMAIN s : Append(s, x)[i] = s[i]
  OBVIOUS
<1>1. /\ DOMAIN expenses \subseteq DOMAIN expenses'
      /\ \A i \in DOMAIN expenses : expenses'[i] = expenses[i]
  <2>1. CASE expenses' = expenses
    BY <2>1
  <2>2. ASSUME NEW c \in Contents, expenses' = Append(expenses, c) PROVE <1>1!:
    BY <1>a, <2>2 DEF ImportTypeOK
  <2>3. QED
    BY <2>1, <2>2
<1>2. /\ DOMAIN failed \subseteq DOMAIN failed'
      /\ \A i \in DOMAIN failed : failed'[i] = failed[i]
  <2>1. CASE failed' = failed
    BY <2>1
  <2>2. ASSUME NEW x \in Failures, failed' = Append(failed, x) PROVE <1>2!:
    BY <1>a, <2>2 DEF ImportTypeOK
  <2>3. QED
    BY <2>1, <2>2
<1>3. ToSet(expenses) \subseteq ToSet(expenses')
  BY <1>1 DEF ToSet
<1>4. QED
  BY <1>2, <1>3 DEF Accounted

\* One delivery moves, and what it has passed is accounted for.
LEMMA OneDelivery ==
    ASSUME ImportInv, ImportTypeOK', NEW w \in Workers, ImporterOK(w)',
           ToSet(expenses) \subseteq ToSet(expenses'), \A r : Accounted(r) => Accounted(r)',
           \A v \in Workers \ {w} : worker'[v] = worker[v],
           inbox' \subseteq ToSet(expenses'),
           job'.status = "completed" =>
               job.status = "completed" \/ \A r \in Rows : Accounted(r)
    PROVE  ImportInv'
<1>1. ASSUME NEW v \in Workers \ {w} PROVE ImporterOK(v)'
  <2>1. ImporterOK(v) /\ worker'[v] = worker[v]
    BY DEF ImportInv
  <2>2. QED
    BY <2>1 DEF ImporterOK, Content
<1>2. QED
  BY <1>1 DEF ImportInv

\* Going on to the next row, and counting this one.
LEMMA NextRowEffect ==
    ASSUME worker \in [Workers -> ImportWorkerType], NEW w \in Workers,
           \/ worker' = NextRow(w)
           \/ worker' = [NextRow(w) EXCEPT ![w].success = @ + 1]
           \/ worker' = [NextRow(w) EXCEPT ![w].failure = @ + 1]
    PROVE  /\ worker' \in [Workers -> ImportWorkerType]
           /\ worker'[w].at = "row" /\ worker'[w].row = worker[w].row + 1
           /\ \A v \in Workers \ {w} : worker'[v] = worker[v]
<1> DEFINE q == worker[w]
           passed == [q EXCEPT !.at = "row", !.row = q.row + 1]
<1>1. q \in ImportWorkerType
  OBVIOUS
<1>2. NextRow(w) = [worker EXCEPT ![w] = passed]
  BY DEF NextRow
<1> DEFINE successes == passed.success + 1
           mistakes == passed.failure + 1
<1>3. \/ worker' = [worker EXCEPT ![w] = passed]
      \/ worker' = [worker EXCEPT ![w] = [passed EXCEPT !.success = successes]]
      \/ worker' = [worker EXCEPT ![w] = [passed EXCEPT !.failure = mistakes]]
  BY <1>2
<1>4. /\ passed \in ImportWorkerType /\ passed.at = "row" /\ passed.row = q.row + 1
      /\ successes \in Nat /\ mistakes \in Nat
  <2> DEFINE next == q.row + 1
  <2>1. passed = [q EXCEPT !.at = "row", !.row = next]
    OBVIOUS
  <2>2. next \in Nat \ {0}
    BY <1>1 DEF ImportWorkerType
  <2> HIDE DEF q, passed, next
  <2>3. /\ passed \in ImportWorkerType /\ passed.at = "row" /\ passed.row = next
    BY <1>1, <2>1, <2>2 DEF ImportWorkerType
  <2>4. successes \in Nat /\ mistakes \in Nat
    BY <2>3 DEF ImportWorkerType
  <2>5. QED
    BY <2>3, <2>4 DEF next
<1> HIDE DEF q, passed, successes, mistakes
<1>5. \A x \in {passed, [passed EXCEPT !.success = successes], [passed EXCEPT !.failure = mistakes]} :
         x \in ImportWorkerType /\ x.at = "row" /\ x.row = q.row + 1
  BY <1>4 DEF ImportWorkerType
<1>6. QED
  BY <1>3, <1>5 DEF q

\* A delivery that is somewhere else in the same row.
LEMMA SameRowEffect ==
    ASSUME worker \in [Workers -> ImportWorkerType], NEW w \in Workers,
           NEW at \in {"idle", "download", "row", "create", "mark", "done"},
           worker' = [worker EXCEPT ![w].at = at]
    PROVE  /\ worker' \in [Workers -> ImportWorkerType]
           /\ worker'[w].at = at /\ worker'[w].row = worker[w].row
           /\ \A v \in Workers \ {w} : worker'[v] = worker[v]
BY DEF ImportWorkerType

\* What a delivery of the job does.
LEMMA WorkKeepsRows ==
    ASSUME ImportInv, NEW w \in Workers, Work(w) \/ Stall(w)
    PROVE  ImportInv'
<1>1. /\ ImportTypeOK /\ ImporterOK(w) /\ worker[w] \in ImportWorkerType
      /\ worker \in [Workers -> ImportWorkerType] /\ job \in ImportJobType
      /\ inbox \subseteq ToSet(expenses)
  BY DEF ImportInv, ImportTypeOK
<1>2. CASE Take(w) \/ Download(w) \/ DownloadFails(w) \/ Stall(w)
  <2>1. UNCHANGED <<expenses, inbox, failed>>
    BY <1>2 DEF Take, Download, DownloadFails, Stall, database
  <2>2. job' \in ImportJobType /\ (job'.status = "completed" => job.status = "completed")
    BY <1>1, <1>2 DEF Take, Download, DownloadFails, Stall, database, Processing, ImportJobType
  <2>3. \/ worker' = worker
        \/ worker[w].at = "idle" /\ worker' = [worker EXCEPT ![w].at = "download"]
        \/ worker[w].at = "download" /\ worker' = [worker EXCEPT ![w].at = "row"]
        \/ worker' = [worker EXCEPT ![w].at = "done"]
    BY <1>2 DEF Take, Download, DownloadFails, Stall, Return
  <2>4. /\ worker' \in [Workers -> ImportWorkerType]
        /\ \A v \in Workers \ {w} : worker'[v] = worker[v]
    BY <1>1, <2>3, SameRowEffect
  <2>5. ImportTypeOK' /\ \A r : Accounted(r)' = Accounted(r)
    BY <1>1, <2>1, <2>2, <2>4 DEF ImportTypeOK, Accounted
  <2>6. ImporterOK(w)'
    <3>1. CASE worker' = worker
      BY <1>1, <2>1, <2>5, <3>1 DEF ImporterOK, Content
    <3>2. CASE worker[w].at = "idle" /\ worker' = [worker EXCEPT ![w].at = "download"]
      BY <1>1, <3>2, SameRowEffect DEF ImporterOK
    <3>3. CASE worker[w].at = "download" /\ worker' = [worker EXCEPT ![w].at = "row"]
      <4>1. worker'[w].at = "row" /\ worker'[w].row = 1 /\ Len(File) \in Nat
        BY <1>1, <3>3, SameRowEffect, FileType DEF ImporterOK
      <4>2. QED
        BY <4>1 DEF ImporterOK
    <3>4. CASE worker' = [worker EXCEPT ![w].at = "done"]
      BY <1>1, <3>4, SameRowEffect DEF ImporterOK
    <3>5. QED
      BY <2>3, <3>1, <3>2, <3>3, <3>4
  <2>7. QED
    BY <1>1, <2>1, <2>2, <2>4, <2>5, <2>6, OneDelivery
<1>3. CASE CheckRow(w)
  <2>1. /\ UNCHANGED <<job, expenses, inbox, failed>>
        /\ worker[w].at = "row" /\ worker[w].row \in Rows
        /\ \/ Content(w) \in inbox /\ worker' = NextRow(w)
           \/ worker' = [worker EXCEPT ![w].at = "create"]
    BY <1>3 DEF CheckRow, database
  <2>2. /\ worker' \in [Workers -> ImportWorkerType]
        /\ \A v \in Workers \ {w} : worker'[v] = worker[v]
    BY <1>1, <2>1, NextRowEffect, SameRowEffect
  <2>3. ImportTypeOK' /\ \A r : Accounted(r)' = Accounted(r)
    BY <1>1, <2>1, <2>2 DEF ImportTypeOK, Accounted
  <2>4. ImporterOK(w)'
    <3>1. CASE Content(w) \in inbox /\ worker' = NextRow(w)
      <4>1. Accounted(worker[w].row)
        BY <1>1, <3>1 DEF Accounted, Content
      <4>2. /\ worker'[w].at = "row" /\ worker'[w].row = worker[w].row + 1
            /\ worker[w].row \in 1 .. Len(File) /\ Len(File) \in Nat
        BY <1>1, <2>1, <3>1, NextRowEffect, FileType DEF Rows
      <4>3. \A r \in 1 .. (worker[w].row - 1) : Accounted(r)
        BY <1>1, <2>1 DEF ImporterOK
      <4>4. \A r \in 1 .. (worker'[w].row - 1) : Accounted(r)
        BY <4>1, <4>2, <4>3
      <4>5. QED
        BY <2>3, <4>2, <4>4 DEF ImporterOK
    <3>2. CASE worker' = [worker EXCEPT ![w].at = "create"]
      BY <1>1, <2>1, <2>3, <3>2, SameRowEffect DEF ImporterOK
    <3>3. QED
      BY <2>1, <3>1, <3>2
  <2>5. QED
    BY <1>1, <2>1, <2>2, <2>3, <2>4, OneDelivery
<1>4. CASE CreateExpense(w)
  <2>1. /\ UNCHANGED <<job, inbox, failed>> /\ worker[w].at = "create"
        /\ expenses' = Append(expenses, Content(w))
        /\ worker' = [worker EXCEPT ![w].at = "mark"]
    BY <1>4 DEF CreateExpense
  <2>2. Content(w) \in Contents /\ worker[w].row \in Rows
    BY <1>1, <2>1 DEF ImporterOK, Content, Contents, Rows, ToSet
  <2>3. ToSet(expenses) \subseteq ToSet(expenses') /\ \A r : Accounted(r) => Accounted(r)'
    BY <1>1, <2>1, <2>2, AccountedStays
  <2>4. /\ worker' \in [Workers -> ImportWorkerType]
        /\ worker'[w].at = "mark" /\ worker'[w].row = worker[w].row
        /\ \A v \in Workers \ {w} : worker'[v] = worker[v]
    BY <1>1, <2>1, SameRowEffect
  <2>5. ImportTypeOK'
    BY <1>1, <2>1, <2>2, <2>4 DEF ImportTypeOK
  <2>6. Content(w)' \in ToSet(expenses')
    <3>1. /\ Len(expenses) + 1 \in DOMAIN expenses'
          /\ expenses'[Len(expenses) + 1] = Content(w)
      BY <1>1, <2>1, <2>2 DEF ImportTypeOK
    <3>2. Content(w)' = Content(w)
      BY <2>4 DEF Content
    <3>3. QED
      BY <3>1, <3>2 DEF ToSet
  <2>7. ImporterOK(w)'
    BY <1>1, <2>1, <2>2, <2>3, <2>4, <2>6 DEF ImporterOK
  <2>8. QED
    BY <1>1, <2>1, <2>3, <2>4, <2>5, <2>7, OneDelivery
<1>5. CASE MarkProcessed(w)
  <2>1. /\ UNCHANGED <<job, expenses, failed>> /\ worker[w].at = "mark"
        /\ inbox' = inbox \cup {Content(w)}
        /\ worker' = [NextRow(w) EXCEPT ![w].success = @ + 1]
    BY <1>5 DEF MarkProcessed
  <2>2. /\ worker' \in [Workers -> ImportWorkerType]
        /\ worker'[w].at = "row" /\ worker'[w].row = worker[w].row + 1
        /\ \A v \in Workers \ {w} : worker'[v] = worker[v]
    BY <1>1, <2>1, NextRowEffect
  <2>3. ImportTypeOK' /\ \A r : Accounted(r)' = Accounted(r)
    BY <1>1, <2>1, <2>2 DEF ImportTypeOK, Accounted
  <2>4. Content(w) \in ToSet(expenses) /\ Accounted(worker[w].row)
    BY <1>1, <2>1 DEF ImporterOK, Accounted, Content
  <2>5. worker[w].row \in 1 .. Len(File) /\ Len(File) \in Nat
    BY <1>1, <2>1, FileType DEF ImporterOK, Rows
  <2>6. \A r \in 1 .. (worker[w].row - 1) : Accounted(r)
    BY <1>1, <2>1 DEF ImporterOK
  <2>7. \A r \in 1 .. (worker'[w].row - 1) : Accounted(r)
    BY <2>2, <2>4, <2>5, <2>6
  <2>8. ImporterOK(w)'
    BY <2>2, <2>3, <2>5, <2>7 DEF ImporterOK
  <2>9. QED
    BY <1>1, <2>1, <2>2, <2>3, <2>4, <2>8, OneDelivery
<1>6. ASSUME NEW cause \in {"refused", "marked"}, FailRow(w, cause),
             worker[w].at \in {"row", "create", "mark"}, worker[w].row \in Rows
      PROVE  ImportInv'
  <2>1. /\ UNCHANGED <<job, expenses, inbox>>
        /\ failed' = Append(failed, <<worker[w].row, cause>>)
        /\ worker' = [NextRow(w) EXCEPT ![w].failure = @ + 1]
    BY <1>6 DEF FailRow, FailureRecorded
  <2>2. /\ worker' \in [Workers -> ImportWorkerType]
        /\ worker'[w].at = "row" /\ worker'[w].row = worker[w].row + 1
        /\ \A v \in Workers \ {w} : worker'[v] = worker[v]
    BY <1>1, <2>1, NextRowEffect
  <2>3. <<worker[w].row, cause>> \in Failures
    BY <1>1 DEF ImportWorkerType, Failures
  <2>4. ImportTypeOK'
    BY <1>1, <2>1, <2>2, <2>3 DEF ImportTypeOK
  <2>5. ToSet(expenses) \subseteq ToSet(expenses') /\ \A r : Accounted(r) => Accounted(r)'
    BY <1>1, <2>1, <2>3, AccountedStays
  <2>6. \A r : r = worker[w].row => Accounted(r)'
    <3>1. /\ Len(failed) + 1 \in DOMAIN failed'
          /\ failed'[Len(failed) + 1] = <<worker[w].row, cause>>
      BY <1>1, <2>1, <2>3 DEF ImportTypeOK
    <3>2. failed'[Len(failed) + 1][1] = worker[w].row
      BY <3>1
    <3>3. QED
      BY <3>1, <3>2 DEF Accounted
  <2>7. worker[w].row \in 1 .. Len(File) /\ Len(File) \in Nat
    BY <1>6, FileType DEF Rows
  <2>8. \A r \in 1 .. (worker[w].row - 1) : Accounted(r)
    BY <1>1, <1>6 DEF ImporterOK
  <2>9. \A r \in 1 .. (worker'[w].row - 1) : Accounted(r)'
    BY <2>2, <2>5, <2>6, <2>7, <2>8
  <2>10. ImporterOK(w)'
    BY <2>2, <2>7, <2>9 DEF ImporterOK
  <2>11. QED
    BY <1>1, <2>1, <2>2, <2>4, <2>5, <2>10, OneDelivery
<1>7. CASE RefuseRow(w) \/ CreateFails(w) \/ MarkFails(w)
  BY <1>1, <1>6, <1>7 DEF RefuseRow, CreateFails, MarkFails, ImporterOK
<1>8. CASE Finish(w)
  <2>1. /\ UNCHANGED <<expenses, inbox, failed>>
        /\ worker[w].at = "row" /\ worker[w].row \notin Rows
        /\ job' = [job EXCEPT !.status = "completed", !.total = Len(File),
                              !.success = worker[w].success, !.failure = worker[w].failure]
        /\ worker' = [worker EXCEPT ![w].at = "done"]
    BY <1>8 DEF Finish, Return
  <2>2. /\ worker' \in [Workers -> ImportWorkerType] /\ worker'[w].at = "done"
        /\ \A v \in Workers \ {w} : worker'[v] = worker[v]
    BY <1>1, <2>1, SameRowEffect
  <2>3. job' \in ImportJobType
    <3>1. Len(File) \in Nat /\ worker[w].success \in Nat /\ worker[w].failure \in Nat
      BY <1>1, FileType DEF ImportWorkerType
    <3>2. QED
      BY <1>1, <2>1, <3>1 DEF ImportJobType
  <2>4. ImportTypeOK' /\ \A r : Accounted(r)' = Accounted(r)
    BY <1>1, <2>1, <2>2, <2>3 DEF ImportTypeOK, Accounted
  <2>5. \A r \in Rows : Accounted(r)
    <3>1. Rows = 1 .. Len(File) /\ Len(File) \in Nat /\ worker[w].row = Len(File) + 1
      BY <1>1, <2>1, FileType DEF ImporterOK, Rows
    <3>2. QED
      BY <1>1, <2>1, <3>1 DEF ImporterOK
  <2>6. ImporterOK(w)'
    BY <2>2 DEF ImporterOK
  <2>7. QED
    BY <1>1, <2>1, <2>2, <2>4, <2>5, <2>6, OneDelivery
<1>9. QED
  BY <1>2, <1>3, <1>4, <1>5, <1>7, <1>8 DEF Work

LEMMA ImportInvariant == Spec => []ImportInv
<1>1. Init => ImportInv
  <2> SUFFICES ASSUME Init PROVE ImportInv
    OBVIOUS
  <2>1. NoJob \in ImportJobType /\ NoJob.status # "completed"
    BY DEF NoJob, ImportJobType
  <2>2. Idle \in ImportWorkerType /\ Idle.at = "idle" /\ Idle.row = 1
    BY DEF Idle, ImportWorkerType
  <2>3. ImportTypeOK
    BY <2>1, <2>2 DEF Init, ImportTypeOK
  <2>4. \A w \in Workers : ImporterOK(w)
    BY <2>2 DEF Init, ImporterOK
  <2>5. QED
    BY <2>1, <2>3, <2>4 DEF Init, ImportInv
<1>2. ImportInv /\ [Next]_vars => ImportInv'
  <2> SUFFICES ASSUME ImportInv, [Next]_vars PROVE ImportInv'
    OBVIOUS
  <2>1. ASSUME UNCHANGED <<expenses, inbox, failed, worker>>, job' \in ImportJobType,
               job'.status = "completed" => job.status = "completed"
        PROVE  ImportInv'
    <3>1. \A r : Accounted(r)' = Accounted(r)
      BY <2>1 DEF Accounted
    <3>2. \A w \in Workers : ImporterOK(w)'
      BY <2>1, <3>1 DEF ImportInv, ImporterOK, Content
    <3>3. QED
      BY <2>1, <3>1, <3>2 DEF ImportInv, ImportTypeOK
  <2>2. CASE UNCHANGED vars \/ StoreFile \/ CreateJob \/ EnqueueJob \/ Reenqueue
    <3>1. job' = job \/ job' = [NoJob EXCEPT !.status = "pending"]
      BY <2>2 DEF vars, StoreFile, CreateJob, EnqueueJob, Reenqueue, database
    <3>2. job' \in ImportJobType /\ (job'.status = "completed" => job.status = "completed")
      <4>1. /\ [NoJob EXCEPT !.status = "pending"] \in ImportJobType
            /\ [NoJob EXCEPT !.status = "pending"].status = "pending"
        BY DEF ImportJobType, NoJob
      <4>2. QED
        BY <3>1, <4>1 DEF ImportInv, ImportTypeOK
    <3>3. UNCHANGED <<expenses, inbox, failed, worker>>
      BY <2>2 DEF vars, StoreFile, CreateJob, EnqueueJob, Reenqueue, database
    <3>4. QED
      BY <2>1, <3>2, <3>3
  <2>3. QED
    BY <2>2, WorkKeepsRows DEF Next
<1>3. QED
  BY <1>1, <1>2, PTL DEF Spec

\* For every file and every number of deliveries of its job, a completed import
\* lost no row, whatever stalls, overlaps or is enqueued again.
THEOREM ImportsLoseNoRow == Spec => []NoRowLost
<1>1. ImportInv => NoRowLost
  BY DEF ImportInv, NoRowLost, Accounted
<1>2. QED
  BY <1>1, ImportInvariant, PTL

-----------------------------------------------------------------------------
(* ImportJob: how often an expense is created *)

\* The deliveries that will not create an expense for c any more.
Working == {w \in Workers : worker[w].at # "idle"}
PastIt(c) ==
    {w \in Working :
        /\ c \in inbox \/ worker[w].at = "done" \/ (worker[w].at = "mark" /\ Content(w) = c)
        /\ ~(worker[w].at = "create" /\ Content(w) = c)}

CountInv ==
    /\ IsFiniteSet(Working)
    /\ \A c \in Contents : CreatedFor(c) <= Cardinality(PastIt(c))

LEMMA PastItMembers ==
    ASSUME NEW c, NEW v
    PROVE  /\ v \in PastIt(c) <=>
                 /\ v \in Workers /\ worker[v].at # "idle"
                 /\ c \in inbox \/ worker[v].at = "done" \/ (worker[v].at = "mark" /\ Content(v) = c)
                 /\ ~(worker[v].at = "create" /\ Content(v) = c)
           /\ v \in PastIt(c)' <=>
                 /\ v \in Workers /\ worker'[v].at # "idle"
                 /\ \/ c \in inbox' \/ worker'[v].at = "done"
                    \/ worker'[v].at = "mark" /\ Content(v)' = c
                 /\ ~(worker'[v].at = "create" /\ Content(v)' = c)
BY DEF PastIt, Working

\* Who is past c stays so, and begins to work before it is.
LEMMA PastItStays ==
    ASSUME ImportInv, NEW w \in Workers, Work(w) \/ Stall(w), NEW c
    PROVE  /\ PastIt(c) \subseteq PastIt(c)'
           /\ Working' = Working \/ Working' = Working \cup {w}
<1>1. /\ worker[w] \in ImportWorkerType /\ worker \in [Workers -> ImportWorkerType]
      /\ ImporterOK(w)
  BY DEF ImportInv, ImportTypeOK
<1> DEFINE at == worker[w].at
<1>2. /\ inbox \subseteq inbox'
      /\ worker'[w].at # "idle" \/ worker' = worker
      /\ \A v \in Workers \ {w} : worker'[v] = worker[v]
      /\ \/ at = "idle"
         \/ worker' = worker
         \/ worker'[w].at = "done"
         \/ at = "download" /\ worker'[w].at = "row"
         \/ at = "row" /\ worker'[w].at = "row"
         \/ /\ at = "row" /\ worker'[w].at = "create"
            /\ Content(w) \notin inbox /\ Content(w)' = Content(w)
         \/ /\ at = "create" /\ worker'[w].at = "mark" /\ Content(w)' = Content(w)
         \/ at = "create" /\ worker'[w].at = "row"
         \/ at = "mark" /\ worker'[w].at = "row" /\ Content(w) \in inbox'
  <2>1. CASE Take(w) \/ Download(w) \/ DownloadFails(w) \/ Finish(w) \/ Stall(w)
    <3>1. inbox' = inbox
      BY <2>1 DEF Take, Download, DownloadFails, Finish, Stall, database
    <3>2. \/ worker' = worker
          \/ at = "idle" /\ worker' = [worker EXCEPT ![w].at = "download"]
          \/ at = "download" /\ worker' = [worker EXCEPT ![w].at = "row"]
          \/ worker' = [worker EXCEPT ![w].at = "done"]
      BY <2>1 DEF Take, Download, DownloadFails, Finish, Stall, Return
    <3>3. QED
      BY <1>1, <3>1, <3>2, SameRowEffect
  <2>2. CASE CheckRow(w)
    <3>1. inbox' = inbox /\ at = "row"
      BY <2>2 DEF CheckRow, database
    <3>2. CASE worker' = NextRow(w)
      BY <1>1, <3>1, <3>2, NextRowEffect
    <3>3. CASE Content(w) \notin inbox /\ worker' = [worker EXCEPT ![w].at = "create"]
      BY <1>1, <3>1, <3>3, SameRowEffect DEF Content
    <3>4. QED
      BY <2>2, <3>2, <3>3 DEF CheckRow
  <2>3. CASE CreateExpense(w)
    <3>1. inbox' = inbox /\ at = "create" /\ worker' = [worker EXCEPT ![w].at = "mark"]
      BY <2>3 DEF CreateExpense
    <3>2. QED
      BY <1>1, <3>1, SameRowEffect DEF Content
  <2>4. CASE MarkProcessed(w)
    <3>1. /\ inbox' = inbox \cup {Content(w)} /\ at = "mark"
          /\ worker' = [NextRow(w) EXCEPT ![w].success = @ + 1]
      BY <2>4 DEF MarkProcessed
    <3>2. QED
      BY <1>1, <3>1, NextRowEffect
  <2>5. CASE RefuseRow(w) \/ CreateFails(w) \/ MarkFails(w)
    <3>1. /\ inbox' = inbox /\ worker' = [NextRow(w) EXCEPT ![w].failure = @ + 1]
          /\ at = "row" \/ at = "create" \/ (at = "mark" /\ Content(w) \in inbox)
      BY <2>5 DEF RefuseRow, CreateFails, MarkFails, FailRow
    <3>2. QED
      BY <1>1, <3>1, NextRowEffect
  <2>6. QED
    BY <2>1, <2>2, <2>3, <2>4, <2>5 DEF Work
<1>3. w \in PastIt(c) => w \in PastIt(c)'
  <2>1. CASE worker' = worker
    BY <1>2, <2>1, PastItMembers DEF Content
  <2>2. CASE worker' # worker
    BY <1>2, <2>2, PastItMembers
  <2>3. QED
    BY <2>1, <2>2
<1>4. ASSUME NEW v \in PastIt(c), v # w PROVE v \in PastIt(c)'
  <2>1. v \in Workers /\ worker'[v] = worker[v] /\ Content(v)' = Content(v)
    BY <1>2, <1>4 DEF PastIt, Working, Content
  <2>2. inbox \subseteq inbox' /\ v \in PastIt(c)
    BY <1>2, <1>4
  <2>3. QED
    BY <2>1, <2>2, PastItMembers DEF Content
<1>5. Working' = Working \/ Working' = Working \cup {w}
  BY <1>2 DEF Working
<1>6. QED
  BY <1>3, <1>4, <1>5

LEMMA CreatedIsNat ==
    ASSUME expenses \in Seq(Contents), NEW c
    PROVE  /\ IsFiniteSet({i \in DOMAIN expenses : expenses[i] = c})
           /\ CreatedFor(c) \in Nat
<1> DEFINE created == {i \in DOMAIN expenses : expenses[i] = c}
<1>1. DOMAIN expenses = 1 .. Len(expenses) /\ Len(expenses) \in Nat
  OBVIOUS
<1>2. IsFiniteSet(1 .. Len(expenses)) /\ created \in SUBSET (1 .. Len(expenses))
  BY <1>1, FS_Interval
<1> HIDE DEF created
<1>3. IsFiniteSet(created)
  BY <1>2, FS_Subset
<1>4. QED
  BY <1>3, FS_CardinalityType DEF CreatedFor, created

\* An expense more counts for its content only.
LEMMA OneMoreCreated ==
    ASSUME expenses \in Seq(Contents), NEW x \in Contents, expenses' = Append(expenses, x),
           NEW c
    PROVE  /\ CreatedFor(c) \in Nat
           /\ CreatedFor(c)' = CreatedFor(c) + (IF x = c THEN 1 ELSE 0)
<1> DEFINE before == {i \in DOMAIN expenses : expenses[i] = c}
           after == {i \in DOMAIN expenses' : expenses'[i] = c}
           n == Len(expenses)
<1>1. n \in Nat /\ DOMAIN expenses = 1 .. n
  OBVIOUS
<1>2. IsFiniteSet(before)
  BY CreatedIsNat
<1>3. /\ DOMAIN expenses' = 1 .. (n + 1) /\ expenses'[n + 1] = x
      /\ \A i \in 1 .. n : expenses'[i] = expenses[i]
  BY AppendProperties
<1>4. after = IF x = c THEN before \cup {n + 1} ELSE before
  BY <1>1, <1>3
<1>5. n + 1 \notin before
  BY <1>1
<1> HIDE DEF before, after, n
<1>6. Cardinality(before) \in Nat
  BY <1>2, FS_CardinalityType
<1>7. Cardinality(after) = Cardinality(before) + (IF x = c THEN 1 ELSE 0)
  <2>1. CASE x = c
    BY <1>2, <1>4, <1>5, <2>1, FS_AddElement
  <2>2. CASE x # c
    BY <1>4, <1>6, <2>2
  <2>3. QED
    BY <2>1, <2>2
<1>8. QED
  BY <1>6, <1>7 DEF CreatedFor, before, after

\* For every file and every number of deliveries, each content of a row becomes
\* at most one expense for each delivery of the job, though the row may occur
\* several times and every delivery may be slow, dead or late.
THEOREM ExpensesPerDelivery == Spec => []OneExpensePerDelivery
<1>1. Init => CountInv
  <2> SUFFICES ASSUME Init PROVE CountInv
    OBVIOUS
  <2>1. Working = {} /\ \A c : PastIt(c) = {}
    BY DEF Init, Working, PastIt, Idle
  <2>2. \A c : {i \in DOMAIN expenses : expenses[i] = c} = {}
    BY DEF Init
  <2>3. QED
    BY <2>1, <2>2, FS_EmptySet DEF CountInv, CreatedFor
<1>2. ImportInv /\ CountInv /\ [Next]_vars => CountInv'
  <2> SUFFICES ASSUME ImportInv, CountInv, [Next]_vars PROVE CountInv'
    OBVIOUS
  <2>1. CASE UNCHANGED <<expenses, inbox, worker>>
    BY <2>1 DEF CountInv, Working, PastIt, Content, CreatedFor
  <2>2. ASSUME NEW w \in Workers, Work(w) \/ Stall(w) PROVE CountInv'
    <3>1. IsFiniteSet(Working')
      <4>1. ASSUME NEW c PROVE Working' = Working \/ Working' = Working \cup {w}
        BY <2>2, PastItStays
      <4>2. IsFiniteSet(Working)
        BY DEF CountInv
      <4>3. QED
        BY <4>1, <4>2, FS_AddElement
    <3>2. ASSUME NEW c \in Contents PROVE CreatedFor(c)' <= Cardinality(PastIt(c)')
      <4>1. /\ PastIt(c) \subseteq PastIt(c)' /\ CreatedFor(c) <= Cardinality(PastIt(c))
        BY <2>2, PastItStays DEF CountInv
      <4>2. PastIt(c) \subseteq Working /\ PastIt(c)' \subseteq Working'
        BY DEF PastIt
      <4>3. IsFiniteSet(PastIt(c)) /\ IsFiniteSet(PastIt(c)')
        BY <3>1, <4>2, FS_Subset DEF CountInv
      <4>4. /\ Cardinality(PastIt(c)) \in Nat /\ Cardinality(PastIt(c)') \in Nat
            /\ Cardinality(PastIt(c)) <= Cardinality(PastIt(c)')
        BY <4>1, <4>3, FS_CardinalityType, FS_Subset
      <4>5. CASE expenses' = expenses
        <5>1. CreatedFor(c)' = CreatedFor(c) /\ CreatedFor(c) \in Nat
          <6>1. CreatedFor(c) \in Nat
            BY CreatedIsNat DEF ImportInv, ImportTypeOK
          <6>2. QED
            BY <4>5, <6>1 DEF CreatedFor
        <5>2. QED
          BY <4>1, <4>4, <5>1
      <4>6. CASE CreateExpense(w)
        <5>1. /\ worker[w].at = "create" /\ worker[w].row \in Rows
              /\ expenses' = Append(expenses, Content(w)) /\ inbox' = inbox
              /\ worker' = [worker EXCEPT ![w].at = "mark"]
              /\ expenses \in Seq(Contents) /\ worker \in [Workers -> ImportWorkerType]
          BY <4>6 DEF CreateExpense, ImportInv, ImporterOK, ImportTypeOK
        <5>2. Content(w) \in Contents
          BY <5>1 DEF Content, Contents, Rows, ToSet
        <5>3. /\ CreatedFor(c) \in Nat
              /\ CreatedFor(c)' = CreatedFor(c) + (IF Content(w) = c THEN 1 ELSE 0)
          BY <5>1, <5>2, OneMoreCreated
        <5>4. CASE Content(w) # c
          BY <4>1, <4>4, <5>3, <5>4
        <5>5. CASE Content(w) = c
          <6>1. w \notin PastIt(c)
            BY <5>1, <5>5 DEF PastIt
          <6>2. worker'[w].at = "mark" /\ Content(w)' = Content(w)
            BY <5>1, SameRowEffect DEF Content
          <6>3. w \in PastIt(c)'
            BY <5>5, <6>2 DEF PastIt, Working
          <6>4. /\ PastIt(c) \cup {w} \subseteq PastIt(c)'
                /\ Cardinality(PastIt(c) \cup {w}) = Cardinality(PastIt(c)) + 1
            BY <4>1, <4>3, <6>1, <6>3, FS_AddElement
          <6>5. Cardinality(PastIt(c)) + 1 <= Cardinality(PastIt(c)')
            BY <4>3, <6>4, FS_Subset
          <6>6. QED
            BY <4>1, <4>4, <5>3, <5>5, <6>5
        <5>6. QED
          BY <5>4, <5>5
      <4>7. QED
        BY <2>2, <4>5, <4>6
           DEF Work, Stall, Take, Download, DownloadFails, CheckRow, MarkProcessed, RefuseRow,
               CreateFails, MarkFails, FailRow, Finish, database
    <3>3. Contents' = Contents
      BY DEF Contents
    <3>4. QED
      BY <3>1, <3>2, <3>3 DEF CountInv
  <2>3. QED
    BY <2>1, <2>2 DEF Next, vars, StoreFile, CreateJob, EnqueueJob, Reenqueue, database
<1>3. ImportInv /\ CountInv => OneExpensePerDelivery
  <2> SUFFICES ASSUME ImportInv, CountInv, NEW c \in Contents PROVE CreatedFor(c) <= Deliveries
    BY DEF OneExpensePerDelivery
  <2>1. IsFiniteSet(Working) /\ PastIt(c) \subseteq Working
    BY DEF CountInv, PastIt
  <2>2. /\ Cardinality(PastIt(c)) <= Cardinality(Working) /\ IsFiniteSet(PastIt(c))
    BY <2>1, FS_Subset
  <2>3. QED
    <3>1. CreatedFor(c) <= Cardinality(PastIt(c)) /\ Deliveries = Cardinality(Working)
      BY DEF CountInv, Deliveries, Working
    <3>2. /\ Cardinality(PastIt(c)) \in Nat /\ Cardinality(Working) \in Nat
          /\ CreatedFor(c) \in Nat
      BY <2>1, <2>2, FS_CardinalityType, CreatedIsNat DEF ImportInv, ImportTypeOK
    <3>3. QED
      BY <2>2, <3>1, <3>2
<1>4. Spec => []ImportInv
  BY ImportInvariant
<1>5. QED
  BY <1>1, <1>2, <1>3, <1>4, PTL DEF Spec

-----------------------------------------------------------------------------
(* ReadModel: why a row may be behind *)

\* NULL is neither a row nor a delivery.
NoneIsNoRecord ==
    /\ \A s, n : [status |-> s, names |-> n] # None
    /\ \A e, a, s, n, o :
          [expense |-> e, at |-> a, status |-> s, names |-> n, overtaken |-> o] # None

\* A delivery under way; which names it found does not matter here.
DeliveryOK(d) ==
    d \in [expense : Expenses, at : {"names", "upsert"}, status : {d.status},
           names : {d.names}, overtaken : BOOLEAN]

Reason(e) ==
    \/ pending[e] > 0
    \/ \E h \in InHand(e) : delivery[h].status = source[e]
    \/ e \in excused

\* A delivery that read an older status and that none has overtaken.
LateDelivery(e) ==
    \E h \in InHand(e) : delivery[h].status # source[e] /\ ~delivery[h].overtaken

\* An older status that may still be written has a reason too.
LagInv ==
    /\ DOMAIN source = Expenses /\ DOMAIN copy = Expenses
    /\ pending \in [Expenses -> Nat]
    /\ DOMAIN delivery = Handlers
    /\ \A h \in Handlers : delivery[h] = None \/ DeliveryOK(delivery[h])
    /\ \A e \in Expenses : Stale(e) \/ LateDelivery(e) => Reason(e)

\* A step that changes nothing the reasons of e depend on.
LEMMA LagUnchanged ==
    ASSUME NEW e, Stale(e) \/ LateDelivery(e) => Reason(e),
           source'[e] = source[e], copy'[e] = copy[e], pending'[e] = pending[e],
           e \in excused => e \in excused',
           InHand(e)' = InHand(e),
           \A h \in InHand(e) :
              /\ delivery'[h].status = delivery[h].status
              /\ delivery[h].overtaken => delivery'[h].overtaken
    PROVE  (Stale(e) \/ LateDelivery(e) => Reason(e))'
<1>1. Stale(e)' = Stale(e)
  BY DEF Stale
<1>2. LateDelivery(e)' => LateDelivery(e)
  <2>1. ASSUME NEW h \in InHand(e)', delivery'[h].status # source'[e], ~delivery'[h].overtaken
        PROVE  LateDelivery(e)
    <3>1. h \in InHand(e)
      BY <2>1
    <3>2. delivery[h].status # source[e] /\ ~delivery[h].overtaken
      BY <2>1, <3>1
    <3>3. QED
      BY <3>1, <3>2 DEF LateDelivery
  <2>2. QED
    BY <2>1 DEF LateDelivery
<1>3. Reason(e) => Reason(e)'
  <2>1. ASSUME NEW h \in InHand(e), delivery[h].status = source[e]
        PROVE  Reason(e)'
    <3>1. h \in InHand(e)' /\ delivery'[h].status = source'[e]
      BY <2>1
    <3>2. QED
      BY <3>1 DEF Reason
  <2>2. QED
    BY <2>1 DEF Reason
<1>4. QED
  BY <1>1, <1>2, <1>3

\* The expense changes, with or without an event.
LEMMA ChangesHaveReasons ==
    ASSUME LagInv, NEW e \in Expenses,
           (\E move \in Moves \cup Creations(e) : Change(e, move)) \/ WriteBack(e)
    PROVE  LagInv'
<1>1. /\ UNCHANGED <<copy, delivery>>
      /\ \E s : source' = [source EXCEPT ![e] = s]
      /\ \/ \E n \in {1, 2} : pending' = [pending EXCEPT ![e] = @ + n] /\ excused' = excused
         \/ pending' = pending /\ excused' = excused \cup {e}
  <2>1. \A move \in Moves \cup Creations(e) : move[3] \in {1, 2}
    BY DEF Moves, Creations
  <2>2. QED
    BY <2>1 DEF Change, WriteBack
<1>2. /\ DOMAIN source' = Expenses /\ pending' \in [Expenses -> Nat]
      /\ excused \subseteq excused'
      /\ pending'[e] > 0 \/ e \in excused'
      /\ \A x \in Expenses \ {e} : source'[x] = source[x] /\ pending'[x] = pending[x]
  BY <1>1 DEF LagInv
<1>3. Reason(e)'
  BY <1>2 DEF Reason
<1>4. ASSUME NEW x \in Expenses \ {e} PROVE (Stale(x) \/ LateDelivery(x) => Reason(x))'
  <2>1. /\ source'[x] = source[x] /\ copy'[x] = copy[x] /\ pending'[x] = pending[x]
        /\ InHand(x)' = InHand(x)
        /\ x \in excused => x \in excused'
    BY <1>1, <1>2 DEF InHand
  <2>2. QED
    BY <1>1, <2>1, LagUnchanged DEF LagInv
<1>5. QED
  BY <1>1, <1>2, <1>3, <1>4 DEF LagInv, DeliveryOK

\* A delivery begins with the present status.
LEMMA BeginningsHaveReasons ==
    ASSUME NoneIsNoRecord, LagInv, NEW h \in Handlers, NEW e \in Expenses,
           Begin(h, e) \/ BeginAgain(h, e)
    PROVE  LagInv'
<1>1. /\ UNCHANGED <<source, copy, excused>>
      /\ delivery[h] = None /\ delivery' = [delivery EXCEPT ![h] = Read(e)]
      /\ pending[e] > 0
      /\ pending' = pending \/ pending' = [pending EXCEPT ![e] = @ - 1]
  BY DEF Begin, BeginAgain
<1>2. /\ Read(e) # None /\ DeliveryOK(Read(e))
      /\ Read(e).expense = e /\ Read(e).status = source[e]
  BY DEF Read, NoneIsNoRecord, DeliveryOK
<1>3. /\ pending' \in [Expenses -> Nat]
      /\ \A x \in Expenses \ {e} : pending'[x] = pending[x]
  BY <1>1 DEF LagInv
<1>4. /\ DOMAIN delivery' = Handlers /\ delivery'[h] = Read(e)
      /\ \A g \in Handlers \ {h} : delivery'[g] = delivery[g]
  BY <1>1 DEF LagInv
<1>5. \A g \in Handlers : delivery'[g] = None \/ DeliveryOK(delivery'[g])
  BY <1>2, <1>4 DEF LagInv
<1>6. Reason(e)'
  BY <1>1, <1>2, <1>4 DEF Reason, InHand
<1>7. ASSUME NEW x \in Expenses \ {e} PROVE (Stale(x) \/ LateDelivery(x) => Reason(x))'
  <2>1. h \notin InHand(x) /\ h \notin InHand(x)'
    BY <1>1, <1>2, <1>4 DEF InHand
  <2>2. InHand(x)' = InHand(x)
    BY <1>4, <2>1 DEF InHand
  <2>3. \A g \in InHand(x) : delivery'[g] = delivery[g]
    BY <1>4, <2>1 DEF InHand
  <2>4. QED
    BY <1>1, <1>3, <2>2, <2>3, LagUnchanged DEF LagInv
<1>8. QED
  BY <1>1, <1>3, <1>4, <1>5, <1>6, <1>7 DEF LagInv, DeliveryOK

\* The names are looked up after the status.
LEMMA NamesHaveReasons ==
    ASSUME NoneIsNoRecord, LagInv, NEW h \in Handlers, ReadNames(h)
    PROVE  LagInv'
<1> DEFINE d == delivery[h]
           found == NamesOf(d.expense)
           next == [d EXCEPT !.at = "upsert", !.names = found]
<1>1. /\ UNCHANGED <<source, copy, pending, excused>>
      /\ d # None /\ delivery' = [delivery EXCEPT ![h] = next]
  BY DEF ReadNames
<1>2. DeliveryOK(d)
  BY <1>1 DEF LagInv
<1> HIDE DEF d, found
<1>a. next = [expense |-> d.expense, at |-> "upsert", status |-> d.status,
              names |-> found, overtaken |-> d.overtaken]
  <2>1. PICK e, a, s, n, o : d = [expense |-> e, at |-> a, status |-> s, names |-> n,
                                  overtaken |-> o]
    BY <1>2 DEF DeliveryOK
  <2>2. [d EXCEPT !.at = "upsert"]
        = [expense |-> e, at |-> "upsert", status |-> s, names |-> n, overtaken |-> o]
    BY <2>1
  <2>3. [[expense |-> e, at |-> "upsert", status |-> s, names |-> n, overtaken |-> o]
         EXCEPT !.names = found]
        = [expense |-> e, at |-> "upsert", status |-> s, names |-> found, overtaken |-> o]
    OBVIOUS
  <2>4. next = [expense |-> e, at |-> "upsert", status |-> s, names |-> found, overtaken |-> o]
    BY <2>2, <2>3
  <2>5. QED
    BY <2>1, <2>4
<1>3. /\ DeliveryOK(next) /\ next.expense = d.expense /\ next.status = d.status
      /\ next.overtaken = d.overtaken
  <2> HIDE DEF next
  <2>1. d.expense \in Expenses /\ d.overtaken \in BOOLEAN
    BY <1>2 DEF DeliveryOK
  <2>2. QED
    BY <1>a, <2>1 DEF DeliveryOK
<1>4. next # None
  BY <1>a DEF NoneIsNoRecord
<1> HIDE DEF next
<1>5. /\ DOMAIN delivery' = Handlers /\ delivery'[h] = next
      /\ \A g \in Handlers \ {h} : delivery'[g] = delivery[g]
  BY <1>1 DEF LagInv
<1>6. \A g \in Handlers : delivery'[g] = None \/ DeliveryOK(delivery'[g])
  BY <1>3, <1>5 DEF LagInv
<1>7. ASSUME NEW x \in Expenses PROVE (Stale(x) \/ LateDelivery(x) => Reason(x))'
  <2>1. InHand(x)' = InHand(x)
    BY <1>1, <1>3, <1>4, <1>5 DEF InHand, d
  <2>2. \A g \in InHand(x) : /\ delivery'[g].status = delivery[g].status
                             /\ delivery'[g].overtaken = delivery[g].overtaken
    BY <1>3, <1>5 DEF InHand, d
  <2>3. QED
    BY <1>1, <2>1, <2>2, LagUnchanged DEF LagInv
<1>8. QED
  BY <1>1, <1>5, <1>6, <1>7 DEF LagInv, DeliveryOK

\* What is written late was overtaken, or there is an event still to come.
LEMMA UpsertsHaveReasons ==
    ASSUME NoneIsNoRecord, LagInv, NEW h \in Handlers, Upsert(h)
    PROVE  LagInv'
<1> DEFINE d == delivery[h]
           Marked(g) == [delivery[g] EXCEPT !.overtaken = TRUE]
<1>0. PICK e \in Expenses : d # None /\ DeliveryOK(d) /\ e = d.expense
  BY DEF Upsert, LagInv, DeliveryOK
<1>1. /\ UNCHANGED <<source, pending>>
      /\ copy' = [copy EXCEPT ![e] = Projected(d)]
      /\ delivery' = [g \in Handlers |-> IF g = h THEN None
                                       ELSE IF g \in Overlapping(h) THEN Marked(g)
                                       ELSE delivery[g]]
      /\ excused' = IF d.status = source[e] THEN excused \ {e}
                    ELSE IF d.overtaken THEN excused \cup {e} ELSE excused
  BY <1>0 DEF Upsert
<1>2. d.overtaken \in BOOLEAN
  BY <1>0 DEF DeliveryOK
<1>3. Projected(d) # None /\ Projected(d).status = d.status
  BY DEF NoneIsNoRecord, Projected
<1>4. ASSUME NEW g \in Overlapping(h)
      PROVE  /\ g \in Handlers \ {h} /\ delivery[g] # None /\ delivery[g].expense = e
             /\ delivery'[g] # None /\ DeliveryOK(delivery'[g])
             /\ delivery'[g].expense = e /\ delivery'[g].overtaken = TRUE
             /\ delivery'[g].status = delivery[g].status
  <2> DEFINE c == delivery[g]
  <2>1. /\ g \in Handlers \ {h} /\ c # None /\ c.expense = e
        /\ delivery'[g] = [c EXCEPT !.overtaken = TRUE]
    BY <1>0, <1>1 DEF Overlapping
  <2>2. DeliveryOK(c)
    BY <2>1 DEF LagInv
  <2> HIDE DEF c
  <2>a. delivery'[g] = [expense |-> c.expense, at |-> c.at, status |-> c.status,
                        names |-> c.names, overtaken |-> TRUE]
    BY <2>1, <2>2 DEF DeliveryOK
  <2>b. c.expense \in Expenses /\ c.at \in {"names", "upsert"}
    BY <2>2 DEF DeliveryOK
  <2>3. DeliveryOK(delivery'[g]) /\ delivery'[g].expense = e /\ delivery'[g].overtaken = TRUE
        /\ delivery'[g].status = c.status
    BY <2>1, <2>a, <2>b DEF DeliveryOK
  <2>4. delivery'[g] # None
    BY <2>a DEF NoneIsNoRecord
  <2>5. QED
    BY <2>1, <2>3, <2>4 DEF c
<1>5. /\ DOMAIN delivery' = Handlers /\ delivery'[h] = None
      /\ \A g \in Handlers : g # h /\ g \notin Overlapping(h) => delivery'[g] = delivery[g]
  BY <1>1
<1>6. \A g \in Handlers : delivery'[g] = None \/ DeliveryOK(delivery'[g])
  BY <1>4, <1>5 DEF LagInv
<1>7. /\ DOMAIN copy' = Expenses /\ copy'[e] = Projected(d)
      /\ \A x \in Expenses \ {e} : copy'[x] = copy[x]
  BY <1>1, <1>2 DEF LagInv
<1>8. InHand(e) = Overlapping(h) \cup {h}
  BY <1>0 DEF InHand, Overlapping
<1> HIDE DEF d, Marked
<1>9. InHand(e)' = Overlapping(h)
  <2>1. \A g \in Handlers : g # h /\ g \notin Overlapping(h) => g \notin InHand(e)
    BY <1>8
  <2>2. \A g \in Overlapping(h) : g \in InHand(e)'
    BY <1>4 DEF InHand
  <2>3. ASSUME NEW g \in InHand(e)' PROVE g \in Overlapping(h)
    <3>1. g \in Handlers /\ delivery'[g] # None /\ delivery'[g].expense = e
      BY <2>3 DEF InHand
    <3>2. CASE g \notin Overlapping(h)
      <4>1. g # h /\ delivery'[g] = delivery[g]
        BY <1>5, <3>1, <3>2
      <4>2. g \in InHand(e)
        BY <3>1, <4>1 DEF InHand
      <4>3. QED
        BY <2>1, <3>1, <3>2, <4>1, <4>2
    <3>3. QED
      BY <3>2
  <2>4. QED
    BY <2>2, <2>3
<1>10. (Stale(e) \/ LateDelivery(e) => Reason(e))'
  <2>1. ~LateDelivery(e)'
    BY <1>4, <1>9 DEF LateDelivery
  <2>2. CASE d.status = source[e]
    <3>1. copy'[e] # None /\ copy'[e].status = source'[e]
      BY <1>1, <1>3, <1>7, <2>2
    <3>2. QED
      BY <2>1, <3>1 DEF Stale
  <2>3. CASE d.status # source[e] /\ d.overtaken
    BY <1>1, <2>3 DEF Reason
  <2>4. CASE d.status # source[e] /\ ~d.overtaken
    <3>1. LateDelivery(e)
      BY <1>8, <2>4 DEF LateDelivery, d
    <3>2. Reason(e) /\ excused' = excused
      BY <1>1, <1>2, <2>4, <3>1 DEF LagInv
    <3>3. ASSUME NEW g \in InHand(e), delivery[g].status = source[e] PROVE Reason(e)'
      <4>1. g \in Overlapping(h)
        BY <1>8, <2>4, <3>3 DEF d
      <4>2. g \in InHand(e)' /\ delivery'[g].status = source'[e]
        BY <1>1, <1>4, <1>9, <3>3, <4>1
      <4>3. QED
        BY <4>2 DEF Reason
    <3>4. QED
      BY <1>1, <3>2, <3>3 DEF Reason
  <2>5. QED
    BY <2>2, <2>3, <2>4
<1>11. ASSUME NEW x \in Expenses \ {e} PROVE (Stale(x) \/ LateDelivery(x) => Reason(x))'
  <2>1. \A g \in Handlers : g = h \/ g \in Overlapping(h) => g \notin InHand(x) /\ g \notin InHand(x)'
    BY <1>0, <1>4, <1>5 DEF InHand, d
  <2>2. InHand(x)' = InHand(x)
    BY <1>5, <2>1 DEF InHand
  <2>3. \A g \in InHand(x) : delivery'[g] = delivery[g]
    BY <1>5, <2>1 DEF InHand
  <2>4. x \in excused => x \in excused'
    BY <1>1
  <2>5. QED
    BY <1>1, <1>7, <2>2, <2>3, <2>4, LagUnchanged DEF LagInv
<1>12. QED
  BY <1>1, <1>5, <1>6, <1>7, <1>10, <1>11 DEF LagInv, DeliveryOK

\* A delivery that throws is tried again, or is excused.
LEMMA FailuresHaveReasons ==
    ASSUME LagInv, NEW h \in Handlers, Fail(h)
    PROVE  LagInv'
<1>0. PICK e \in Expenses : delivery[h] # None /\ e = delivery[h].expense
  BY DEF Fail, LagInv, DeliveryOK
<1>1. /\ UNCHANGED <<source, copy>>
      /\ delivery' = [delivery EXCEPT ![h] = None]
      /\ \/ pending' = [pending EXCEPT ![e] = @ + 1] /\ excused' = excused
         \/ pending' = pending /\ excused' = excused \cup {e}
  BY <1>0 DEF Fail, RetryOrGiveUp
<1>3. /\ pending' \in [Expenses -> Nat] /\ excused \subseteq excused'
      /\ pending'[e] > 0 \/ e \in excused'
      /\ \A x \in Expenses \ {e} : pending'[x] = pending[x]
  BY <1>1 DEF LagInv
<1>4. Reason(e)'
  BY <1>3 DEF Reason
<1>5. /\ DOMAIN delivery' = Handlers /\ delivery'[h] = None
      /\ \A g \in Handlers \ {h} : delivery'[g] = delivery[g]
  BY <1>1 DEF LagInv
<1>6. ASSUME NEW x \in Expenses \ {e} PROVE (Stale(x) \/ LateDelivery(x) => Reason(x))'
  <2>1. h \notin InHand(x) /\ h \notin InHand(x)'
    BY <1>0, <1>5 DEF InHand
  <2>2. InHand(x)' = InHand(x)
    BY <1>5, <2>1 DEF InHand
  <2>3. \A g \in InHand(x) : delivery'[g] = delivery[g]
    BY <1>5, <2>1 DEF InHand
  <2>4. QED
    BY <1>1, <1>3, <2>2, <2>3, LagUnchanged DEF LagInv
<1>7. QED
  BY <1>1, <1>3, <1>4, <1>5, <1>6 DEF LagInv, DeliveryOK

LEMMA LagBegins == ProjectionInit => LagInv
<1> SUFFICES ASSUME ProjectionInit PROVE LagInv
  OBVIOUS
<1>1. \A e \in Expenses : ~Stale(e) /\ ~LateDelivery(e)
  BY DEF ProjectionInit, Stale, LateDelivery, InHand
<1>2. QED
  BY <1>1 DEF ProjectionInit, LagInv

LEMMA LagStep == NoneIsNoRecord => (LagInv /\ [ProjectionNext]_projectionVars => LagInv')
<1> SUFFICES ASSUME NoneIsNoRecord, LagInv, [ProjectionNext]_projectionVars PROVE LagInv'
  OBVIOUS
<1>1. CASE UNCHANGED <<source, copy, pending, delivery, excused>>
  BY <1>1 DEF LagInv, Stale, LateDelivery, Reason, InHand, DeliveryOK
<1>2. QED
  BY <1>1, ChangesHaveReasons, BeginningsHaveReasons, NamesHaveReasons, UpsertsHaveReasons,
     FailuresHaveReasons DEF ProjectionNext, Deliver, Rename, projectionVars

\* For any number of overlapping deliveries and every bound, the row of an
\* expense is behind only for a reason that has a name.
THEOREM LagHasAReason == NoneIsNoRecord => (ProjectionSpec => []LagsForAReason)
<1> SUFFICES ASSUME NoneIsNoRecord PROVE ProjectionSpec => []LagsForAReason
  OBVIOUS
<1>1. LagInv => LagsForAReason
  BY DEF LagInv, LagsForAReason, Reason
<1>2. QED
  BY <1>1, LagBegins, LagStep, PTL DEF ProjectionSpec

-----------------------------------------------------------------------------
(* Reports: sums over finite sets *)

\* Among the subsets of a finite set that have a property there is one that
\* loses it with any element taken away: by this, a claim about the subsets of a
\* finite set is proved one element at a time.
LEMMA SmallestSet ==
    ASSUME NEW U, IsFiniteSet(U), NEW Bad \in SUBSET SUBSET U, Bad # {}
    PROVE  \E S \in Bad : \A x \in S : S \ {x} \notin Bad
<1> DEFINE sizes == {Cardinality(S) : S \in Bad}
<1>1. \A S \in Bad : IsFiniteSet(S) /\ Cardinality(S) \in Nat
  BY FS_Subset, FS_CardinalityType
<1>2. PICK n \in sizes : \A m \in sizes : n <= m
  <2>1. sizes \subseteq Nat /\ sizes # {}
    BY <1>1
  <2> HIDE DEF sizes
  <2>2. QED
    BY <2>1, LeastOfNat
<1>3. PICK S \in Bad : n = Cardinality(S)
  BY <1>2
<1>4. ASSUME NEW x \in S, S \ {x} \in Bad PROVE FALSE
  <2>1. n <= Cardinality(S \ {x})
    BY <1>2, <1>4
  <2>2. Cardinality(S \ {x}) = Cardinality(S) - 1
    BY <1>1, <1>3, <1>4, FS_RemoveElement
  <2>3. Cardinality(S) \in Nat
    BY <1>1, <1>3
  <2>4. QED
    BY <1>3, <2>1, <2>2, <2>3
<1>5. QED
  BY <1>3, <1>4

\* The element that a sum takes first, and the table of the sums of all subsets.
Picked(T) == CHOOSE x \in T : TRUE

IsSum(f, S, g) ==
    g = [T \in SUBSET S |-> IF T = {} THEN 0 ELSE f[Picked(T)] + g[T \ {Picked(T)}]]

Sum(f, S) == (CHOOSE g : IsSum(f, S, g))[S]

LEMMA PickedIn ==
    ASSUME NEW T, T # {}
    PROVE  Picked(T) \in T
BY DEF Picked

AgreeOn(f1, f2, S) == \A x \in S : f1[x] = f2[x]

\* Two tables agree on the sets they share.
LEMMA SumsAgree ==
    ASSUME NEW f1, NEW f2, NEW S1, NEW S2, NEW g1, NEW g2, NEW S,
           IsFiniteSet(S), S \in SUBSET S1, S \in SUBSET S2,
           IsSum(f1, S1, g1), IsSum(f2, S2, g2), AgreeOn(f1, f2, S)
    PROVE  g1[S] = g2[S]
<1> DEFINE bad == {T \in SUBSET S : g1[T] # g2[T]}
<1>1. SUFFICES ASSUME bad # {} PROVE FALSE
  OBVIOUS
<1>2. PICK T \in bad : \A x \in T : T \ {x} \notin bad
  <2>1. bad \in SUBSET SUBSET S
    OBVIOUS
  <2> HIDE DEF bad
  <2>2. QED
    BY <1>1, <2>1, SmallestSet
<1>3. T \subseteq S1 /\ T \subseteq S2 /\ T \subseteq S
  OBVIOUS
<1>4. T # {}
  BY <1>3 DEF IsSum
<1>5. Picked(T) \in T
  BY <1>4, PickedIn
<1>6. g1[T \ {Picked(T)}] = g2[T \ {Picked(T)}] /\ f1[Picked(T)] = f2[Picked(T)]
  BY <1>2, <1>3, <1>5 DEF AgreeOn
<1>7. g1[T] = f1[Picked(T)] + g1[T \ {Picked(T)}]
  BY <1>3, <1>4 DEF IsSum
<1>8. g2[T] = f2[Picked(T)] + g2[T \ {Picked(T)}]
  BY <1>3, <1>4 DEF IsSum
<1>9. QED
  BY <1>6, <1>7, <1>8

LEMMA SumIsTable ==
    ASSUME NEW f, NEW S, NEW g, IsFiniteSet(S), IsSum(f, S, g), NEW T \in SUBSET S
    PROVE  Sum(f, T) = g[T]
<1> DEFINE h == [R \in SUBSET T |-> g[R]]
<1>1. IsSum(f, T, h)
  <2>1. ASSUME NEW R \in SUBSET T
        PROVE  h[R] = IF R = {} THEN 0 ELSE f[Picked(R)] + h[R \ {Picked(R)}]
    <3>1. g[R] = IF R = {} THEN 0 ELSE f[Picked(R)] + g[R \ {Picked(R)}]
      BY DEF IsSum
    <3>2. R \ {Picked(R)} \in SUBSET T
      OBVIOUS
    <3>3. QED
      BY <3>1, <3>2
  <2>2. h = [R \in SUBSET T |-> h[R]]
    OBVIOUS
  <2> HIDE DEF h
  <2>3. QED
    BY <2>1, <2>2 DEF IsSum
<1> DEFINE it == CHOOSE k : IsSum(f, T, k)
<1>2. IsSum(f, T, it)
  BY <1>1
<1>3. IsFiniteSet(T)
  BY FS_Subset
<1>4. it[T] = g[T]
  <2> HIDE DEF it
  <2>1. T \in SUBSET T /\ AgreeOn(f, f, T)
    BY DEF AgreeOn
  <2>2. QED
    BY <1>2, <1>3, <2>1, SumsAgree
<1>5. QED
  BY <1>4 DEF Sum

LEMMA SumExists ==
    ASSUME NEW f, NEW S, IsFiniteSet(S)
    PROVE  \E g : IsSum(f, S, g)
<1> DEFINE bad == {T \in SUBSET S : ~ \E g : IsSum(f, T, g)}
<1>1. SUFFICES ASSUME bad # {} PROVE FALSE
  OBVIOUS
<1>2. PICK T \in bad : \A x \in T : T \ {x} \notin bad
  <2>1. bad \in SUBSET SUBSET S
    OBVIOUS
  <2> HIDE DEF bad
  <2>2. QED
    BY <1>1, <2>1, SmallestSet
<1>3. ASSUME NEW R \in SUBSET T, R # T
      PROVE  /\ R = {} => Sum(f, R) = 0
             /\ R # {} => Sum(f, R) = f[Picked(R)] + Sum(f, R \ {Picked(R)})
  <2>1. PICK x \in T : R \in SUBSET (T \ {x})
    BY <1>3
  <2>2. PICK g : IsSum(f, T \ {x}, g)
    BY <1>2, <2>1
  <2>3. IsFiniteSet(T \ {x})
    BY FS_Subset
  <2>4. \A Q \in SUBSET (T \ {x}) : Sum(f, Q) = g[Q]
    BY <2>2, <2>3, SumIsTable
  <2>5. g[R] = IF R = {} THEN 0 ELSE f[Picked(R)] + g[R \ {Picked(R)}]
    BY <2>1, <2>2 DEF IsSum
  <2>6. R \ {Picked(R)} \in SUBSET (T \ {x})
    BY <2>1
  <2>7. QED
    BY <2>1, <2>4, <2>5, <2>6
<1> DEFINE h == [R \in SUBSET T |->
                   IF R # T THEN Sum(f, R)
                   ELSE IF T = {} THEN 0 ELSE f[Picked(T)] + Sum(f, T \ {Picked(T)})]
<1>4. IsSum(f, T, h)
  <2>1. ASSUME NEW R \in SUBSET T
        PROVE  h[R] = IF R = {} THEN 0 ELSE f[Picked(R)] + h[R \ {Picked(R)}]
    <3>1. CASE R = {}
      BY <1>3, <3>1
    <3>2. CASE R # {}
      <4>1. Picked(R) \in R
        BY <3>2, PickedIn
      <4>2. R \ {Picked(R)} # T /\ R \ {Picked(R)} \in SUBSET T
        BY <4>1
      <4>3. h[R \ {Picked(R)}] = Sum(f, R \ {Picked(R)})
        BY <4>2
      <4>4. QED
        BY <1>3, <3>2, <4>3
    <3>3. QED
      BY <3>1, <3>2
  <2>2. h = [R \in SUBSET T |-> h[R]]
    OBVIOUS
  <2> HIDE DEF h
  <2>3. QED
    BY <2>1, <2>2 DEF IsSum
<1>5. QED
  BY <1>2, <1>4

LEMMA SumStep ==
    ASSUME NEW f, NEW S, IsFiniteSet(S)
    PROVE  /\ S = {} => Sum(f, S) = 0
           /\ S # {} => Sum(f, S) = f[Picked(S)] + Sum(f, S \ {Picked(S)})
<1>1. PICK g : IsSum(f, S, g)
  BY SumExists
<1>2. \A T \in SUBSET S : Sum(f, T) = g[T]
  BY <1>1, SumIsTable
<1>3. g[S] = IF S = {} THEN 0 ELSE f[Picked(S)] + g[S \ {Picked(S)}]
  BY <1>1 DEF IsSum
<1>4. QED
  BY <1>2, <1>3

\* Functions that agree on a set have the same sum over it, which is a number
\* when their values are.
LEMMA SumSame ==
    ASSUME NEW S, IsFiniteSet(S), NEW f1, NEW f2, \A x \in S : f1[x] = f2[x]
    PROVE  Sum(f1, S) = Sum(f2, S)
<1>1. PICK g1 : IsSum(f1, S, g1)
  BY SumExists
<1>2. PICK g2 : IsSum(f2, S, g2)
  BY SumExists
<1>3. S \in SUBSET S /\ AgreeOn(f1, f2, S)
  BY DEF AgreeOn
<1>4. g1[S] = g2[S]
  BY <1>1, <1>2, <1>3, SumsAgree
<1>5. Sum(f1, S) = g1[S] /\ Sum(f2, S) = g2[S]
  BY <1>1, <1>2, <1>3, SumIsTable
<1>6. QED
  BY <1>4, <1>5

LEMMA SumType ==
    ASSUME NEW S, IsFiniteSet(S), NEW f, \A x \in S : f[x] \in Int
    PROVE  Sum(f, S) \in Int
<1> DEFINE bad == {T \in SUBSET S : Sum(f, T) \notin Int}
<1>1. SUFFICES ASSUME bad # {} PROVE FALSE
  OBVIOUS
<1>2. PICK T \in bad : \A x \in T : T \ {x} \notin bad
  <2>1. bad \in SUBSET SUBSET S
    OBVIOUS
  <2> HIDE DEF bad
  <2>2. QED
    BY <1>1, <2>1, SmallestSet
<1>3. IsFiniteSet(T) /\ T \subseteq S
  BY FS_Subset
<1>4. T # {}
  <2>1. ASSUME T = {} PROVE FALSE
    <3>1. Sum(f, T) = 0
      BY <1>3, <2>1, SumStep
    <3>2. QED
      BY <1>2, <3>1
  <2>2. QED
    BY <2>1
<1>5. Picked(T) \in T
  BY <1>4, PickedIn
<1>6. f[Picked(T)] \in Int /\ Sum(f, T \ {Picked(T)}) \in Int
  BY <1>2, <1>3, <1>5
<1>7. Sum(f, T) = f[Picked(T)] + Sum(f, T \ {Picked(T)})
  BY <1>3, <1>4, SumStep
<1>8. QED
  BY <1>6, <1>7

\* The sum with one more element, whichever it is.
LEMMA SumAdd ==
    ASSUME NEW S, IsFiniteSet(S), NEW f, NEW z, z \notin S,
           f[z] \in Int, \A y \in S : f[y] \in Int
    PROVE  Sum(f, S \cup {z}) = f[z] + Sum(f, S)
<1> DEFINE Adds(T) == \A y \in (S \cup {z}) \ T : Sum(f, T \cup {y}) = f[y] + Sum(f, T)
           bad == {T \in SUBSET S : ~Adds(T)}
<1>1. SUFFICES ASSUME bad # {} PROVE FALSE
  OBVIOUS
<1>2. PICK T \in bad : \A y \in T : T \ {y} \notin bad
  <2>1. bad \in SUBSET SUBSET S
    OBVIOUS
  <2> HIDE DEF bad
  <2>2. QED
    BY <1>1, <2>1, SmallestSet
<1>3. IsFiniteSet(T) /\ T \subseteq S
  BY FS_Subset
<1>4. PICK x \in (S \cup {z}) \ T : Sum(f, T \cup {x}) # f[x] + Sum(f, T)
  BY <1>2
<1> DEFINE p == Picked(T \cup {x})
<1>5. IsFiniteSet(T \cup {x}) /\ T \cup {x} # {} /\ p \in T \cup {x}
  <2> DEFINE more == T \cup {x}
  <2>1. IsFiniteSet(more) /\ more # {}
    BY <1>3, FS_AddElement
  <2>2. p = Picked(more)
    OBVIOUS
  <2> HIDE DEF more, p
  <2>3. p \in more
    BY <2>1, <2>2, PickedIn
  <2>4. QED
    BY <2>1, <2>3 DEF more
<1>6. Sum(f, T \cup {x}) = f[p] + Sum(f, (T \cup {x}) \ {p})
  BY <1>5, SumStep
<1> HIDE DEF p
<1>7. p # x
  <2>1. ASSUME p = x PROVE FALSE
    <3>1. (T \cup {x}) \ {p} = T
      BY <1>4, <2>1
    <3>2. QED
      BY <1>4, <1>6, <2>1, <3>1
  <2>2. QED
    BY <2>1
<1>8. p \in T /\ (T \cup {x}) \ {p} = (T \ {p}) \cup {x}
  BY <1>4, <1>5, <1>7
<1>9. Adds(T \ {p})
  <2>1. T \ {p} \in SUBSET S
    BY <1>3
  <2>2. T \ {p} \notin bad
    BY <1>2, <1>8
  <2>3. QED
    BY <2>1, <2>2
<1>10. Sum(f, (T \ {p}) \cup {x}) = f[x] + Sum(f, T \ {p})
  <2>1. x \in (S \cup {z}) \ (T \ {p})
    BY <1>4
  <2>2. QED
    BY <1>9, <2>1
<1>11. Sum(f, T) = f[p] + Sum(f, T \ {p})
  <2>1. p \in (S \cup {z}) \ (T \ {p}) /\ (T \ {p}) \cup {p} = T
    BY <1>3, <1>8
  <2>2. QED
    BY <1>9, <2>1
<1>12. f[p] \in Int /\ f[x] \in Int
  BY <1>3, <1>4, <1>8
<1>13. Sum(f, T \ {p}) \in Int
  <2>1. IsFiniteSet(T \ {p}) /\ \A y \in T \ {p} : f[y] \in Int
    BY <1>3, FS_RemoveElement
  <2>2. QED
    BY <2>1, SumType
<1>14. QED
  <2> DEFINE s == Sum(f, T \ {p})
             a == f[p]
             b == f[x]
  <2>1. Sum(f, T \cup {x}) = a + (b + s) /\ Sum(f, T) = a + s
    BY <1>6, <1>8, <1>10, <1>11
  <2>2. a \in Int /\ b \in Int /\ s \in Int
    BY <1>12, <1>13
  <2>3. Sum(f, T \cup {x}) # b + Sum(f, T)
    BY <1>4
  <2> HIDE DEF a, b, s
  <2>4. QED
    BY <2>1, <2>2, <2>3

\* The sum over two sets that share no element.
LEMMA SumOfBoth ==
    ASSUME NEW S, IsFiniteSet(S), NEW f, \A x \in S : f[x] \in Int,
           NEW A \in SUBSET S, NEW B \in SUBSET S, A \cap B = {}
    PROVE  Sum(f, A \cup B) = Sum(f, A) + Sum(f, B)
<1> DEFINE bad == {T \in SUBSET B : Sum(f, A \cup T) # Sum(f, A) + Sum(f, T)}
<1>1. SUFFICES ASSUME bad # {} PROVE FALSE
  OBVIOUS
<1>2. IsFiniteSet(A) /\ IsFiniteSet(B)
  BY FS_Subset
<1>3. PICK T \in bad : \A x \in T : T \ {x} \notin bad
  <2>1. bad \in SUBSET SUBSET B
    OBVIOUS
  <2> HIDE DEF bad
  <2>2. QED
    BY <1>1, <1>2, <2>1, SmallestSet
<1>4. T \in SUBSET B /\ Sum(f, A \cup T) # Sum(f, A) + Sum(f, T)
  BY <1>3
<1>5. Sum(f, A) \in Int
  BY <1>2, SumType
<1>6. T # {}
  <2>1. ASSUME T = {} PROVE FALSE
    <3>1. A \cup T = A /\ Sum(f, T) = 0
      BY <2>1, FS_EmptySet, SumStep
    <3>2. Sum(f, A \cup T) = Sum(f, A)
      BY <3>1
    <3> DEFINE a == Sum(f, A)
    <3>3. a \in Int /\ a # a + 0
      BY <1>4, <1>5, <3>1, <3>2
    <3> HIDE DEF a
    <3>4. QED
      BY <3>3
  <2>2. QED
    BY <2>1
<1>7. PICK x \in T : TRUE
  BY <1>6
<1> DEFINE R == T \ {x}
<1>8. R \in SUBSET B /\ x \in B /\ x \notin R /\ R \cup {x} = T
  BY <1>4, <1>7
<1>9. Sum(f, A \cup R) = Sum(f, A) + Sum(f, R)
  BY <1>3, <1>7, <1>8
<1> HIDE DEF R, bad
<1>10. IsFiniteSet(R) /\ IsFiniteSet(A \cup R) /\ x \notin A \cup R /\ A \cup R \subseteq S
  <2>1. A \cup R \in SUBSET S
    BY <1>8
  <2>2. QED
    BY <1>2, <1>8, <2>1, FS_Subset
<1>11. f[x] \in Int /\ (\A y \in R : f[y] \in Int) /\ \A y \in A \cup R : f[y] \in Int
  BY <1>8, <1>10
<1>12. Sum(f, T) = f[x] + Sum(f, R)
  BY <1>8, <1>10, <1>11, SumAdd
<1>13. Sum(f, A \cup T) = f[x] + Sum(f, A \cup R)
  <2>1. (A \cup R) \cup {x} = A \cup T
    BY <1>8
  <2>2. Sum(f, (A \cup R) \cup {x}) = f[x] + Sum(f, A \cup R)
    BY <1>10, <1>11, SumAdd
  <2>3. QED
    BY <2>1, <2>2
<1>14. Sum(f, R) \in Int
  BY <1>10, <1>11, SumType
<1>15. QED
  <2> DEFINE a == Sum(f, A)
             r == Sum(f, R)
             v == f[x]
  <2>1. Sum(f, A \cup T) = v + (a + r) /\ Sum(f, T) = v + r /\ Sum(f, A \cup T) # a + Sum(f, T)
    BY <1>4, <1>9, <1>12, <1>13
  <2>2. a \in Int /\ r \in Int /\ v \in Int
    BY <1>5, <1>11, <1>14
  <2> HIDE DEF a, r, v
  <2>3. QED
    BY <2>1, <2>2

LEMMA FiniteImage ==
    ASSUME NEW S, IsFiniteSet(S), NEW h
    PROVE  /\ IsFiniteSet({h[x] : x \in S})
           /\ Cardinality({h[x] : x \in S}) <= Cardinality(S)
<1> DEFINE T == {h[x] : x \in S}
           onto == [x \in S |-> h[x]]
<1>1. onto \in [S -> T] /\ \A t \in T : \E x \in S : onto[x] = t
  OBVIOUS
<1>2. onto \in Surjection(S, T)
  BY <1>1 DEF Surjection
<1>3. QED
  <2> HIDE DEF T, onto
  <2>1. IsFiniteSet(T) /\ Cardinality(T) <= Cardinality(S)
    BY <1>2, FS_Surjection
  <2>2. QED
    BY <2>1 DEF T

LEMMA SumOfOnes ==
    ASSUME NEW S, IsFiniteSet(S), NEW f, \A x \in S : f[x] = 1
    PROVE  Sum(f, S) = Cardinality(S)
<1> DEFINE bad == {T \in SUBSET S : Sum(f, T) # Cardinality(T)}
<1>1. SUFFICES ASSUME bad # {} PROVE FALSE
  OBVIOUS
<1>2. PICK T \in bad : \A x \in T : T \ {x} \notin bad
  <2>1. bad \in SUBSET SUBSET S
    OBVIOUS
  <2> HIDE DEF bad
  <2>2. QED
    BY <1>1, <2>1, SmallestSet
<1>3. IsFiniteSet(T) /\ T \subseteq S
  BY FS_Subset
<1>4. T # {}
  <2>1. ASSUME T = {} PROVE FALSE
    <3>1. Sum(f, T) = 0 /\ Cardinality(T) = 0
      BY <1>3, <2>1, SumStep, FS_EmptySet
    <3>2. QED
      BY <1>2, <3>1
  <2>2. QED
    BY <2>1
<1>5. Picked(T) \in T
  BY <1>4, PickedIn
<1>6. f[Picked(T)] = 1 /\ Sum(f, T \ {Picked(T)}) = Cardinality(T \ {Picked(T)})
  BY <1>2, <1>3, <1>5
<1>7. Sum(f, T) = f[Picked(T)] + Sum(f, T \ {Picked(T)})
  BY <1>3, <1>4, SumStep
<1>8. Cardinality(T \ {Picked(T)}) = Cardinality(T) - 1 /\ Cardinality(T) \in Nat
  BY <1>3, <1>5, FS_RemoveElement, FS_CardinalityType
<1>9. Sum(f, T) # Cardinality(T)
  BY <1>2
<1>10. QED
  BY <1>6, <1>7, <1>8, <1>9

\* Summing over names instead of what they name.
LEMMA SumOfNamed ==
    ASSUME NEW K, IsFiniteSet(K), NEW h, \A x, y \in K : h[x] = h[y] => x = y,
           NEW f, \A x \in K : f[h[x]] \in Int, NEW g, \A x \in K : g[x] = f[h[x]]
    PROVE  Sum(f, {h[x] : x \in K}) = Sum(g, K)
<1> DEFINE Image(T) == {h[x] : x \in T}
           bad == {T \in SUBSET K : Sum(f, Image(T)) # Sum(g, T)}
<1>1. SUFFICES ASSUME bad # {} PROVE FALSE
  OBVIOUS
<1>2. PICK T \in bad : \A x \in T : T \ {x} \notin bad
  <2>1. bad \in SUBSET SUBSET K
    OBVIOUS
  <2> HIDE DEF bad
  <2>2. QED
    BY <1>1, <2>1, SmallestSet
<1>3. T \in SUBSET K /\ Sum(f, Image(T)) # Sum(g, T)
  BY <1>2
<1>4. T # {}
  <2>1. ASSUME T = {} PROVE FALSE
    <3>1. Image(T) = {} /\ IsFiniteSet({})
      BY <2>1, FS_EmptySet
    <3>2. QED
      BY <1>3, <2>1, <3>1, SumStep
  <2>2. QED
    BY <2>1
<1>5. PICK x \in T : TRUE
  BY <1>4
<1> DEFINE R == T \ {x}
<1>6. R \in SUBSET K /\ x \in K /\ x \notin R /\ R \cup {x} = T
  BY <1>3, <1>5
<1>7. Sum(f, Image(R)) = Sum(g, R)
  BY <1>2, <1>5, <1>6
<1>8. Image(T) = Image(R) \cup {h[x]} /\ h[x] \notin Image(R)
  <2>1. Image(T) = Image(R) \cup {h[x]}
    BY <1>6
  <2>2. h[x] \notin Image(R)
    BY <1>6
  <2>3. QED
    BY <2>1, <2>2
<1>9. IsFiniteSet(R)
  BY <1>6, FS_Subset
<1>10. IsFiniteSet(Image(R))
  <2> HIDE DEF R
  <2>1. QED
    BY <1>9, FiniteImage
<1>11. f[h[x]] \in Int /\ (\A v \in Image(R) : f[v] \in Int)
  BY <1>6
<1>12. Sum(f, Image(T)) = f[h[x]] + Sum(f, Image(R))
  <2> DEFINE im == Image(R)
             v == h[x]
  <2>1. v \notin im /\ f[v] \in Int /\ (\A y \in im : f[y] \in Int) /\ IsFiniteSet(im)
    BY <1>8, <1>10, <1>11
  <2> HIDE DEF im, v
  <2>2. Sum(f, im \cup {v}) = f[v] + Sum(f, im)
    BY <2>1, SumAdd
  <2>3. QED
    BY <1>8, <2>2 DEF im, v
<1>13. Sum(g, T) = g[x] + Sum(g, R)
  <2>1. g[x] \in Int /\ \A y \in R : g[y] \in Int
    BY <1>6
  <2> HIDE DEF R
  <2>2. Sum(g, R \cup {x}) = g[x] + Sum(g, R)
    BY <1>6, <1>9, <2>1, SumAdd
  <2>3. QED
    BY <1>6, <2>2
<1>14. g[x] = f[h[x]]
  BY <1>6
<1>15. QED
  <2> HIDE DEF Image, R, bad
  <2>1. QED
    BY <1>3, <1>7, <1>12, <1>13, <1>14

\* The elements of each class together are all of them.
LEMMA SumOfClasses ==
    ASSUME NEW S, IsFiniteSet(S), NEW f, \A x \in S : f[x] \in Int, NEW key,
           NEW g, \A x \in S : g[key[x]] = Sum(f, {y \in S : key[y] = key[x]})
    PROVE  Sum(g, {key[x] : x \in S}) = Sum(f, S)
<1> DEFINE K == {key[x] : x \in S}
           Members(L) == {x \in S : key[x] \in L}
           bad == {L \in SUBSET K : Sum(g, L) # Sum(f, Members(L))}
<1>1. IsFiniteSet(K)
  BY FiniteImage
<1>2. bad = {}
  <2>1. SUFFICES ASSUME bad # {} PROVE FALSE
    OBVIOUS
  <2>2. PICK L \in bad : \A k \in L : L \ {k} \notin bad
    <3>1. bad \in SUBSET SUBSET K
      OBVIOUS
    <3> HIDE DEF bad, K
    <3>2. QED
      BY <1>1, <2>1, <3>1, SmallestSet
  <2>3. L \in SUBSET K /\ Sum(g, L) # Sum(f, Members(L))
    BY <2>2
  <2>4. L # {}
    <3>1. ASSUME L = {} PROVE FALSE
      <4>1. Members(L) = {} /\ IsFiniteSet({})
        BY <3>1, FS_EmptySet
      <4>2. Sum(f, {}) = 0 /\ Sum(g, {}) = 0
        BY <4>1, SumStep
      <4>3. QED
        BY <2>3, <3>1, <4>1, <4>2
    <3>2. QED
      BY <3>1
  <2>5. PICK k \in L : TRUE
    BY <2>4
  <2> DEFINE R == L \ {k}
             class == Members({k})
  <2>6. R \in SUBSET K /\ k \in K /\ k \notin R /\ R \cup {k} = L
    BY <2>3, <2>5
  <2>7. Sum(g, R) = Sum(f, Members(R))
    BY <2>2, <2>5, <2>6
  <2>8. g[k] = Sum(f, class)
    <3>1. PICK x \in S : k = key[x]
      BY <2>6
    <3>2. class = {y \in S : key[y] = key[x]}
      BY <3>1
    <3>3. QED
      BY <3>1, <3>2
  <2>9. IsFiniteSet(R) /\ IsFiniteSet(Members(R)) /\ IsFiniteSet(class)
    <3>1. Members(R) \in SUBSET S /\ class \in SUBSET S
      OBVIOUS
    <3>2. QED
      BY <1>1, <2>6, <3>1, FS_Subset
  <2>10. Sum(f, Members(L)) = Sum(f, Members(R)) + Sum(f, class)
    <3>1. Members(L) = Members(R) \cup class /\ Members(R) \cap class = {}
      BY <2>6
    <3>2. Members(R) \in SUBSET S /\ class \in SUBSET S
      OBVIOUS
    <3> DEFINE A == Members(R)
    <3> HIDE DEF A, class
    <3>3. QED
      BY <3>1, <3>2, SumOfBoth DEF A
  <2>11. \A l \in K : g[l] \in Int
    <3>1. ASSUME NEW x \in S PROVE g[key[x]] \in Int
      <4> DEFINE T == {y \in S : key[y] = key[x]}
      <4>1. T \in SUBSET S
        OBVIOUS
      <4>2. IsFiniteSet(T) /\ \A y \in T : f[y] \in Int
        BY <4>1, FS_Subset
      <4>3. Sum(f, T) \in Int
        <5> HIDE DEF T
        <5>1. QED
          BY <4>2, SumType
      <4>4. QED
        BY <4>3
    <3>2. QED
      BY <3>1
  <2>12. Sum(g, L) = g[k] + Sum(g, R)
    <3>1. g[k] \in Int /\ \A l \in R : g[l] \in Int
      BY <2>6, <2>11
    <3> HIDE DEF R
    <3>2. Sum(g, R \cup {k}) = g[k] + Sum(g, R)
      BY <2>6, <2>9, <3>1, SumAdd
    <3>3. QED
      BY <2>6, <3>2
  <2>13. Sum(f, Members(R)) \in Int /\ Sum(f, class) \in Int
    <3>1. (\A y \in Members(R) : f[y] \in Int) /\ \A y \in class : f[y] \in Int
      OBVIOUS
    <3> DEFINE A == Members(R)
    <3> HIDE DEF A, class
    <3>2. QED
      BY <2>9, <3>1, SumType DEF A
  <2>14. QED
    <3> DEFINE a == Sum(f, Members(R))
               b == Sum(f, class)
    <3>1. Sum(g, L) = b + a /\ Sum(f, Members(L)) = a + b /\ Sum(g, L) # Sum(f, Members(L))
      BY <2>3, <2>7, <2>8, <2>10, <2>12
    <3>2. a \in Int /\ b \in Int
      BY <2>13
    <3> HIDE DEF a, b
    <3>3. QED
      BY <3>1, <3>2
<1>3. Members(K) = S
  OBVIOUS
<1>4. QED
  <2>1. K \in SUBSET K
    OBVIOUS
  <2>2. Sum(g, K) = Sum(f, Members(K))
    BY <1>2, <2>1
  <2>3. QED
    BY <1>3, <2>2

-----------------------------------------------------------------------------
(* Reports: what their lines add up to *)

\* The tables of Reports' sums, as MapThenSumSet computes them.
AmountTable(rows, g) ==
    g = [T \in SUBSET rows |->
           IF T = {} THEN 0 ELSE Picked(T).amount + g[T \ {Picked(T)}]]

TotalTable(report, g) ==
    g = [T \in SUBSET report |->
           IF T = {} THEN 0 ELSE Picked(T).total + g[T \ {Picked(T)}]]

CountTable(report, g) ==
    g = [T \in SUBSET report |->
           IF T = {} THEN 0 ELSE Picked(T).count + g[T \ {Picked(T)}]]

Amounts(rows) == [r \in rows |-> r.amount]
Totals(report) == [l \in report |-> l.total]
Counts(report) == [l \in report |-> l.count]

LEMMA TotalIsSum ==
    ASSUME NEW rows, IsFiniteSet(rows)
    PROVE  Total(rows) = Sum(Amounts(rows), rows)
<1>1. ASSUME NEW g PROVE IsSum(Amounts(rows), rows, g) <=> AmountTable(rows, g)
  <2>1. ASSUME NEW T \in SUBSET rows
        PROVE  (IF T = {} THEN 0 ELSE Amounts(rows)[Picked(T)] + g[T \ {Picked(T)}])
                 = (IF T = {} THEN 0 ELSE Picked(T).amount + g[T \ {Picked(T)}])
    <3>1. T # {} => Picked(T) \in rows
      BY PickedIn
    <3>2. QED
      BY <3>1 DEF Amounts
  <2>2. QED
    BY <2>1 DEF IsSum, AmountTable
<1>2. PICK g : IsSum(Amounts(rows), rows, g)
  BY SumExists
<1> DEFINE it == CHOOSE h : AmountTable(rows, h)
<1>3. IsSum(Amounts(rows), rows, it)
  BY <1>1, <1>2
<1>4. Total(rows) = it[rows]
  BY DEF Total, MapThenSumSet, MapThenFoldSet, AmountTable, Picked
<1>5. QED
  <2> HIDE DEF it
  <2>1. rows \in SUBSET rows
    OBVIOUS
  <2>2. QED
    BY <1>3, <1>4, <2>1, SumIsTable

LEMMA LineTotalIsSum ==
    ASSUME NEW report, IsFiniteSet(report)
    PROVE  LineTotal(report) = Sum(Totals(report), report)
<1>1. ASSUME NEW g PROVE IsSum(Totals(report), report, g) <=> TotalTable(report, g)
  <2>1. ASSUME NEW T \in SUBSET report
        PROVE  (IF T = {} THEN 0 ELSE Totals(report)[Picked(T)] + g[T \ {Picked(T)}])
                 = (IF T = {} THEN 0 ELSE Picked(T).total + g[T \ {Picked(T)}])
    <3>1. T # {} => Picked(T) \in report
      BY PickedIn
    <3>2. QED
      BY <3>1 DEF Totals
  <2>2. QED
    BY <2>1 DEF IsSum, TotalTable
<1>2. PICK g : IsSum(Totals(report), report, g)
  BY SumExists
<1> DEFINE it == CHOOSE h : TotalTable(report, h)
<1>3. IsSum(Totals(report), report, it)
  BY <1>1, <1>2
<1>4. LineTotal(report) = it[report]
  BY DEF LineTotal, MapThenSumSet, MapThenFoldSet, TotalTable, Picked
<1>5. QED
  <2> HIDE DEF it
  <2>1. report \in SUBSET report
    OBVIOUS
  <2>2. QED
    BY <1>3, <1>4, <2>1, SumIsTable

LEMMA LineCountIsSum ==
    ASSUME NEW report, IsFiniteSet(report)
    PROVE  LineCount(report) = Sum(Counts(report), report)
<1>1. ASSUME NEW g PROVE IsSum(Counts(report), report, g) <=> CountTable(report, g)
  <2>1. ASSUME NEW T \in SUBSET report
        PROVE  (IF T = {} THEN 0 ELSE Counts(report)[Picked(T)] + g[T \ {Picked(T)}])
                 = (IF T = {} THEN 0 ELSE Picked(T).count + g[T \ {Picked(T)}])
    <3>1. T # {} => Picked(T) \in report
      BY PickedIn
    <3>2. QED
      BY <3>1 DEF Counts
  <2>2. QED
    BY <2>1 DEF IsSum, CountTable
<1>2. PICK g : IsSum(Counts(report), report, g)
  BY SumExists
<1> DEFINE it == CHOOSE h : CountTable(report, h)
<1>3. IsSum(Counts(report), report, it)
  BY <1>1, <1>2
<1>4. LineCount(report) = it[report]
  BY DEF LineCount, MapThenSumSet, MapThenFoldSet, CountTable, Picked
<1>5. QED
  <2> HIDE DEF it
  <2>1. report \in SUBSET report
    OBVIOUS
  <2>2. QED
    BY <1>3, <1>4, <2>1, SumIsTable

\* The rows of a table that have a finite number of rows, with whole amounts.
Summable(rows) == IsFiniteSet(rows) /\ \A r \in rows : r.amount \in Int

\* GroupBy, with the keys as a function on the rows.
Grouped(key, rows) == {Line(k, {r \in rows : key[r] = k}) : k \in {key[r] : r \in rows}}

\* Grouping loses nothing and counts nothing twice.
LEMMA GroupedAddsUp ==
    ASSUME NEW rows, Summable(rows), NEW key
    PROVE  /\ LineTotal(Grouped(key, rows)) = Total(rows)
           /\ LineCount(Grouped(key, rows)) = Cardinality(rows)
           /\ IsFiniteSet(Grouped(key, rows))
           /\ Cardinality(Grouped(key, rows)) <= Cardinality(rows)
<1> DEFINE K == {key[r] : r \in rows}
           Class(k) == {r \in rows : key[r] = k}
           line == [k \in K |-> Line(k, Class(k))]
           report == {line[k] : k \in K}
           totals == [k \in K |-> Total(Class(k))]
           counts == [k \in K |-> Cardinality(Class(k))]
           amounts == Amounts(rows)
           ones == [r \in rows |-> 1]
<1>1. IsFiniteSet(rows) /\ \A r \in rows : amounts[r] \in Int
  BY DEF Summable, Amounts
<1>2. IsFiniteSet(K) /\ Cardinality(K) <= Cardinality(rows)
  BY <1>1, FiniteImage
<1>3. IsFiniteSet(report) /\ Cardinality(report) <= Cardinality(K)
  <2> HIDE DEF K, line
  <2>1. QED
    BY <1>2, FiniteImage
<1>4. Grouped(key, rows) = report
  BY DEF Grouped
<1>5. ASSUME NEW k \in K
      PROVE  /\ IsFiniteSet(Class(k)) /\ Class(k) \in SUBSET rows
             /\ totals[k] = Sum(amounts, Class(k)) /\ totals[k] \in Int
             /\ counts[k] = Sum(ones, Class(k)) /\ counts[k] \in Int
  <2> DEFINE class == Class(k)
  <2>1. class \in SUBSET rows
    OBVIOUS
  <2>2. IsFiniteSet(class) /\ \A r \in class : amounts[r] \in Int
    BY <1>1, <2>1, FS_Subset
  <2>3. totals[k] = Total(class) /\ counts[k] = Cardinality(class)
    OBVIOUS
  <2>4. \A r \in class : Amounts(class)[r] = amounts[r] /\ ones[r] = 1
    BY <2>1 DEF Amounts
  <2> HIDE DEF class, amounts, ones, totals, counts
  <2>5. Total(class) = Sum(amounts, class)
    BY <2>2, <2>4, TotalIsSum, SumSame
  <2>6. Sum(amounts, class) \in Int
    BY <2>2, SumType
  <2>7. Sum(ones, class) = Cardinality(class) /\ Cardinality(class) \in Nat
    BY <2>2, <2>4, SumOfOnes, FS_CardinalityType
  <2>8. QED
    BY <2>1, <2>2, <2>3, <2>5, <2>6, <2>7 DEF class
<1>6. /\ \A j, k \in K : line[j] = line[k] => j = k
      /\ \A k \in K : Totals(report)[line[k]] = totals[k]
      /\ \A k \in K : Counts(report)[line[k]] = counts[k]
  <2>1. \A k \in K : line[k].key = k /\ line[k].total = totals[k] /\ line[k].count = counts[k]
    BY DEF Line
  <2>2. \A k \in K : line[k] \in report
    OBVIOUS
  <2> HIDE DEF line, totals, counts, report, K
  <2>3. QED
    BY <2>1, <2>2 DEF Totals, Counts
<1>7. LineTotal(report) = Sum(totals, K) /\ LineCount(report) = Sum(counts, K)
  <2>1. \A k \in K : totals[k] \in Int /\ counts[k] \in Int
    BY <1>5
  <2>2. /\ LineTotal(report) = Sum(Totals(report), report)
        /\ LineCount(report) = Sum(Counts(report), report)
    <3> HIDE DEF report
    <3>1. QED
      BY <1>3, LineTotalIsSum, LineCountIsSum
  <2>3. report = {line[k] : k \in K}
    OBVIOUS
  <2> DEFINE f1 == Totals(report)
             f2 == Counts(report)
  <2>4. /\ \A k \in K : f1[line[k]] \in Int /\ totals[k] = f1[line[k]]
        /\ \A k \in K : f2[line[k]] \in Int /\ counts[k] = f2[line[k]]
    BY <1>6, <2>1
  <2> HIDE DEF f1, f2, report, line, totals, counts, K
  <2>5. Sum(f1, {line[k] : k \in K}) = Sum(totals, K)
    BY <1>2, <1>6, <2>4, SumOfNamed
  <2>6. Sum(f2, {line[k] : k \in K}) = Sum(counts, K)
    BY <1>2, <1>6, <2>4, SumOfNamed
  <2>7. QED
    BY <2>2, <2>3, <2>5, <2>6 DEF f1, f2
<1>8. Sum(totals, K) = Sum(amounts, rows) /\ Sum(counts, K) = Sum(ones, rows)
  <2>1. \A r \in rows : key[r] \in K
    OBVIOUS
  <2>2. IsFiniteSet(rows) /\ (\A r \in rows : amounts[r] \in Int)
    BY <1>1
  <2>3. \A r \in rows : ones[r] \in Int
    OBVIOUS
  <2> HIDE DEF totals, counts, amounts, ones, K
  <2>4. \A r \in rows : totals[key[r]] = Sum(amounts, {s \in rows : key[s] = key[r]})
    BY <1>5, <2>1
  <2>5. \A r \in rows : counts[key[r]] = Sum(ones, {s \in rows : key[s] = key[r]})
    BY <1>5, <2>1
  <2>6. Sum(totals, {key[r] : r \in rows}) = Sum(amounts, rows)
    BY <2>2, <2>4, SumOfClasses
  <2>7. Sum(counts, {key[r] : r \in rows}) = Sum(ones, rows)
    BY <2>2, <2>3, <2>5, SumOfClasses
  <2>8. QED
    BY <2>6, <2>7 DEF K
<1>9. Sum(amounts, rows) = Total(rows) /\ Sum(ones, rows) = Cardinality(rows)
  <2>1. \A r \in rows : ones[r] = 1
    OBVIOUS
  <2> HIDE DEF ones
  <2>2. QED
    BY <1>1, <2>1, TotalIsSum, SumOfOnes
<1>10. Cardinality(report) <= Cardinality(rows)
  <2>1. Cardinality(report) \in Nat /\ Cardinality(K) \in Nat /\ Cardinality(rows) \in Nat
    <3> HIDE DEF report, K
    <3>1. QED
      BY <1>1, <1>2, <1>3, FS_CardinalityType
  <2> HIDE DEF report, K
  <2>2. QED
    BY <1>2, <1>3, <2>1
<1>11. QED
  <2> HIDE DEF report, K, totals, counts, amounts, ones
  <2>1. QED
    BY <1>3, <1>4, <1>7, <1>8, <1>9, <1>10

\* What holds of the rows of a table holds of some of them.
LEMMA SummableSubset ==
    ASSUME NEW rows, Summable(rows), NEW some \in SUBSET rows
    PROVE  Summable(some) /\ Cardinality(some) <= Cardinality(rows)
BY FS_Subset DEF Summable

\* The lines of the given classes.
LinesOf(classes, K) == {Line(k, classes[k]) : k \in K}

LEMMA GroupedLines ==
    ASSUME NEW rows, NEW key
    PROVE  Grouped(key, rows) =
             LinesOf([k \in {key[r] : r \in rows} |-> {r \in rows : key[r] = k}],
                     {key[r] : r \in rows})
<1> DEFINE K == {key[r] : r \in rows}
           class == [k \in K |-> {r \in rows : key[r] = k}]
<1>1. \A k \in K : {r \in rows : key[r] = k} = class[k]
  OBVIOUS
<1>2. Grouped(key, rows) = {Line(k, {r \in rows : key[r] = k}) : k \in K}
  BY DEF Grouped
<1>3. Grouped(key, rows) = {Line(k, class[k]) : k \in K}
  BY <1>2
<1>4. QED
  BY <1>3 DEF LinesOf

\* The keys of the reports.
ReferenceKey(rows, field) == [r \in rows |-> <<r[field], r.names[r[field]]>>]
FieldKey(rows, field) == [r \in rows |-> r[field]]

\* Each report groups rows by a key.
LEMMA ByDepartmentGroups ==
    ASSUME NEW rows
    PROVE  ByDepartment(rows) = Grouped(ReferenceKey(rows, "department"), rows)
<1> DEFINE key == ReferenceKey(rows, "department")
           K == {key[r] : r \in rows}
           class == [k \in K |-> {r \in rows : key[r] = k}]
<1>1. \A r \in rows : key[r] = Named(r, r.department)
  BY DEF ReferenceKey, Named
<1> HIDE DEF key
<1>2. K = {Named(r, r.department) : r \in rows}
  BY <1>1
<1>3. \A k \in K : class[k] = {r \in rows : Named(r, r.department) = k}
  BY <1>1
<1>4. ByDepartment(rows) = {Line(k, {r \in rows : Named(r, r.department) = k}) : k \in {Named(r, r.department) : r \in rows}}
  BY DEF ByDepartment, GroupBy
<1> HIDE DEF K, class
<1>5. ByDepartment(rows) = {Line(k, class[k]) : k \in K}
  <2>1. \A k \in K : Line(k, {r \in rows : Named(r, r.department) = k}) = Line(k, class[k])
    BY <1>3
  <2>2. ByDepartment(rows) = {Line(k, {r \in rows : Named(r, r.department) = k}) : k \in K}
    BY <1>2, <1>4
  <2>3. QED
    BY <2>1, <2>2
<1>6. QED
  BY <1>5, GroupedLines DEF key, K, class, LinesOf

LEMMA CategoryGroups ==
    ASSUME NEW rows, NEW query
    PROVE  CategorySpending(rows, query) =
             Grouped(ReferenceKey(Spent(rows, query), "category"), Spent(rows, query))
<1> DEFINE those == Spent(rows, query)
           key == ReferenceKey(those, "category")
           K == {key[r] : r \in those}
           class == [k \in K |-> {r \in those : key[r] = k}]
<1>1. \A r \in those : key[r] = Named(r, r.category)
  BY DEF ReferenceKey, Named
<1>2. CategorySpending(rows, query) =
        {Line(k, {r \in those : Named(r, r.category) = k}) : k \in {Named(r, r.category) : r \in those}}
  BY DEF CategorySpending, GroupBy
<1> HIDE DEF those, key
<1>3. K = {Named(r, r.category) : r \in those}
  BY <1>1
<1>4. \A k \in K : class[k] = {r \in those : Named(r, r.category) = k}
  BY <1>1
<1> HIDE DEF K, class
<1>5. CategorySpending(rows, query) = {Line(k, class[k]) : k \in K}
  <2>1. \A k \in K : Line(k, {r \in those : Named(r, r.category) = k}) = Line(k, class[k])
    BY <1>4
  <2>2. CategorySpending(rows, query) = {Line(k, {r \in those : Named(r, r.category) = k}) : k \in K}
    BY <1>2, <1>3
  <2>3. QED
    BY <2>1, <2>2
<1>6. QED
  BY <1>5, GroupedLines DEF those, key, K, class, LinesOf

OfProjects(rows, query) == {r \in Spent(rows, query) : r.project # None}

LEMMA ProjectGroups ==
    ASSUME NEW rows, NEW query
    PROVE  ProjectSpending(rows, query) =
             Grouped(ReferenceKey(OfProjects(rows, query), "project"), OfProjects(rows, query))
<1> DEFINE those == OfProjects(rows, query)
           key == ReferenceKey(those, "project")
           K == {key[r] : r \in those}
           class == [k \in K |-> {r \in those : key[r] = k}]
<1>1. \A r \in those : key[r] = Named(r, r.project)
  BY DEF ReferenceKey, Named
<1>2. ProjectSpending(rows, query) =
        {Line(k, {r \in those : Named(r, r.project) = k}) : k \in {Named(r, r.project) : r \in those}}
  BY DEF ProjectSpending, GroupBy, OfProjects
<1> HIDE DEF those, key
<1>3. K = {Named(r, r.project) : r \in those}
  BY <1>1
<1>4. \A k \in K : class[k] = {r \in those : Named(r, r.project) = k}
  BY <1>1
<1> HIDE DEF K, class
<1>5. ProjectSpending(rows, query) = {Line(k, class[k]) : k \in K}
  <2>1. \A k \in K : Line(k, {r \in those : Named(r, r.project) = k}) = Line(k, class[k])
    BY <1>4
  <2>2. ProjectSpending(rows, query) = {Line(k, {r \in those : Named(r, r.project) = k}) : k \in K}
    BY <1>2, <1>3
  <2>3. QED
    BY <2>1, <2>2
<1>6. QED
  BY <1>5, GroupedLines DEF those, key, K, class, LinesOf

LEMMA RequesterGroups ==
    ASSUME NEW rows, NEW query
    PROVE  RequesterSpending(rows, query) =
             Grouped(FieldKey(Spent(rows, query), "actor"), Spent(rows, query))
<1> DEFINE those == Spent(rows, query)
           key == FieldKey(those, "actor")
           K == {key[r] : r \in those}
           class == [k \in K |-> {r \in those : key[r] = k}]
<1>1. \A r \in those : key[r] = r.actor
  BY DEF FieldKey
<1>2. RequesterSpending(rows, query) =
        {Line(k, {r \in those : r.actor = k}) : k \in {r.actor : r \in those}}
  BY DEF RequesterSpending, GroupBy
<1> HIDE DEF those, key
<1>3. K = {r.actor : r \in those}
  BY <1>1
<1>4. \A k \in K : class[k] = {r \in those : r.actor = k}
  BY <1>1
<1> HIDE DEF K, class
<1>5. RequesterSpending(rows, query) = {Line(k, class[k]) : k \in K}
  <2>1. \A k \in K : Line(k, {r \in those : r.actor = k}) = Line(k, class[k])
    BY <1>4
  <2>2. RequesterSpending(rows, query) = {Line(k, {r \in those : r.actor = k}) : k \in K}
    BY <1>2, <1>3
  <2>3. QED
    BY <2>1, <2>2
<1>6. QED
  BY <1>5, GroupedLines DEF those, key, K, class, LinesOf

LEMMA CashGroups ==
    ASSUME NEW rows, NEW query
    PROVE  CashOutflow(rows, query) =
             Grouped(FieldKey(Spent(rows, query), "month"), Spent(rows, query))
<1> DEFINE those == Spent(rows, query)
           key == FieldKey(those, "month")
           K == {key[r] : r \in those}
           class == [k \in K |-> {r \in those : key[r] = k}]
<1>1. \A r \in those : key[r] = r.month
  BY DEF FieldKey
<1>2. CashOutflow(rows, query) =
        {Line(k, {r \in those : r.month = k}) : k \in {r.month : r \in those}}
  BY DEF CashOutflow, GroupBy
<1> HIDE DEF those, key
<1>3. K = {r.month : r \in those}
  BY <1>1
<1>4. \A k \in K : class[k] = {r \in those : r.month = k}
  BY <1>1
<1> HIDE DEF K, class
<1>5. CashOutflow(rows, query) = {Line(k, class[k]) : k \in K}
  <2>1. \A k \in K : Line(k, {r \in those : r.month = k}) = Line(k, class[k])
    BY <1>4
  <2>2. CashOutflow(rows, query) = {Line(k, {r \in those : r.month = k}) : k \in K}
    BY <1>2, <1>3
  <2>3. QED
    BY <2>1, <2>2
<1>6. QED
  BY <1>5, GroupedLines DEF those, key, K, class, LinesOf

LEMMA StatusGroups ==
    ASSUME NEW rows, NEW query
    PROVE  StatusBreakdown(rows, query) =
             Grouped(FieldKey(Visible(rows, query), "status"), Visible(rows, query))
<1> DEFINE those == Visible(rows, query)
           key == FieldKey(those, "status")
           K == {key[r] : r \in those}
           class == [k \in K |-> {r \in those : key[r] = k}]
<1>1. \A r \in those : key[r] = r.status
  BY DEF FieldKey
<1>2. StatusBreakdown(rows, query) =
        {Line(k, {r \in those : r.status = k}) : k \in {r.status : r \in those}}
  BY DEF StatusBreakdown, GroupBy
<1> HIDE DEF those, key
<1>3. K = {r.status : r \in those}
  BY <1>1
<1>4. \A k \in K : class[k] = {r \in those : r.status = k}
  BY <1>1
<1> HIDE DEF K, class
<1>5. StatusBreakdown(rows, query) = {Line(k, class[k]) : k \in K}
  <2>1. \A k \in K : Line(k, {r \in those : r.status = k}) = Line(k, class[k])
    BY <1>4
  <2>2. StatusBreakdown(rows, query) = {Line(k, {r \in those : r.status = k}) : k \in K}
    BY <1>2, <1>3
  <2>3. QED
    BY <2>1, <2>2
<1>6. QED
  BY <1>5, GroupedLines DEF those, key, K, class, LinesOf

\* A limit that is no smaller than the report leaves all of it.
LEMMA TopOfAll ==
    ASSUME NEW report, IsFiniteSet(report), NEW limit \in Nat, Cardinality(report) <= limit
    PROVE  Top(limit, report) = {report}
<1>1. Cardinality(report) \in Nat
  BY FS_CardinalityType
<1> DEFINE size == Cardinality(report)
<1>2. Min({limit, size}) = size
  <2> HIDE DEF size
  <2>1. size \in Nat /\ size <= limit
    BY <1>1 DEF size
  <2>2. size \in {limit, size} /\ \A y \in {limit, size} : size =< y
    BY <2>1
  <2>3. \A x \in {limit, size} : (\A y \in {limit, size} : x =< y) => x = size
    BY <2>1
  <2>4. QED
    BY <2>2, <2>3 DEF Min
<1>3. report \in Top(limit, report)
  BY <1>2 DEF Top
<1>4. ASSUME NEW top \in Top(limit, report) PROVE top = report
  <2>1. top \in SUBSET report /\ Cardinality(top) = Cardinality(report)
    BY <1>2 DEF Top
  <2>2. QED
    BY <2>1, FS_Subset
<1>5. QED
  BY <1>3, <1>4

\* The line of the approved expenses in the status breakdown.
LEMMA ApprovedGroups ==
    ASSUME NEW rows, NEW query
    PROVE  {l \in StatusBreakdown(rows, query) : l.key = "approved"}
             = Grouped(FieldKey(Spent(rows, query), "status"), Spent(rows, query))
<1> DEFINE spent == Spent(rows, query)
           visible == Visible(rows, query)
           key == FieldKey(spent, "status")
           of(k) == {r \in visible : r.status = k}
           approved == {l \in StatusBreakdown(rows, query) : l.key = "approved"}
<1>1. spent = {r \in visible : r.status = "approved"}
  BY DEF Spent, WithStatus
<1>2. StatusBreakdown(rows, query) = {Line(k, of(k)) : k \in {r.status : r \in visible}}
  BY DEF StatusBreakdown, GroupBy
<1>3. \A r \in spent : key[r] = "approved"
  BY <1>1 DEF FieldKey
<1>4. spent = {} => Grouped(key, spent) = {}
  BY DEF Grouped
<1> HIDE DEF key
<1>5. \A k, some : Line(k, some).key = k
  BY DEF Line
<1> DEFINE line == Line("approved", spent)
<1>6. approved = IF spent = {} THEN {} ELSE {line}
  <2>1. ASSUME NEW l PROVE l \in approved <=> l = line /\ spent # {}
    <3>1. l \in approved <=> l.key = "approved" /\ \E k \in {r.status : r \in visible} : l = Line(k, of(k))
      BY <1>2
    <3>2. of("approved") = spent
      BY <1>1
    <3>3. "approved" \in {r.status : r \in visible} <=> spent # {}
      BY <1>1
    <3> HIDE DEF of, visible, spent, approved
    <3>4. QED
      BY <1>5, <3>1, <3>2, <3>3
  <2> HIDE DEF line, spent, approved
  <2>2. QED
    BY <2>1
<1>7. Grouped(key, spent) = IF spent = {} THEN {} ELSE {line}
  <2> HIDE DEF spent
  <2>1. CASE spent = {}
    BY <1>4, <2>1
  <2>2. CASE spent # {}
    <3> DEFINE K == {key[r] : r \in spent}
               class == [k \in K |-> {r \in spent : key[r] = k}]
    <3>1. K = {"approved"}
      BY <1>3, <2>2
    <3>2. class["approved"] = spent
      BY <1>3, <3>1
    <3>3. Grouped(key, spent) = {Line(k, class[k]) : k \in K}
      BY GroupedLines DEF LinesOf
    <3> HIDE DEF K, class
    <3>4. QED
      BY <2>2, <3>1, <3>2, <3>3
  <2>3. QED
    BY <2>1, <2>2
<1>8. QED
  BY <1>6, <1>7 DEF key

-----------------------------------------------------------------------------
(* ReadModel: the reports tell the same story *)

\* The reports of one set of rows agree with one another.
LEMMA ReportsOfRows ==
    ASSUME NEW rows, Summable(rows), NEW query,
           NEW limit \in Nat, Cardinality(rows) <= limit
    PROVE  /\ SpentTotals(rows, query) = {Total(Spent(rows, query))}
           /\ LineCount(ExpenseAdjustments(rows, query)) <= LineCount(CashOutflow(rows, query))
           /\ LineCount(ProjectSpending(rows, query)) <= LineCount(CashOutflow(rows, query))
           /\ TopCategories(rows, query, limit) = {CategorySpending(rows, query)}
           /\ LineCount(PendingDepartmentSpending(rows, query)) + LineCount(CashOutflow(rows, query))
                <= LineCount(StatusBreakdown(rows, query))
<1> DEFINE visible == Visible(rows, query)
           spent == Spent(rows, query)
           waiting == WithStatus("pending_approval", rows, query)
           adjustments == {r \in spent : r.parent # None}
           projects == OfProjects(rows, query)
<1>1. /\ visible \in SUBSET rows /\ spent \in SUBSET visible /\ waiting \in SUBSET visible
      /\ spent \cap waiting = {}
      /\ adjustments \in SUBSET spent /\ projects \in SUBSET spent
  BY DEF Visible, Spent, WithStatus, OfProjects
<1>2. /\ DepartmentSpending(rows, query) = Grouped(ReferenceKey(spent, "department"), spent)
      /\ PendingDepartmentSpending(rows, query)
           = Grouped(ReferenceKey(waiting, "department"), waiting)
      /\ ExpenseAdjustments(rows, query)
           = Grouped(ReferenceKey(adjustments, "department"), adjustments)
  BY ByDepartmentGroups DEF DepartmentSpending, PendingDepartmentSpending, ExpenseAdjustments
<1>3. /\ CategorySpending(rows, query) = Grouped(ReferenceKey(spent, "category"), spent)
      /\ ProjectSpending(rows, query) = Grouped(ReferenceKey(projects, "project"), projects)
      /\ RequesterSpending(rows, query) = Grouped(FieldKey(spent, "actor"), spent)
      /\ CashOutflow(rows, query) = Grouped(FieldKey(spent, "month"), spent)
      /\ StatusBreakdown(rows, query) = Grouped(FieldKey(visible, "status"), visible)
      /\ {l \in StatusBreakdown(rows, query) : l.key = "approved"}
           = Grouped(FieldKey(spent, "status"), spent)
  BY CategoryGroups, ProjectGroups, RequesterGroups, CashGroups, StatusGroups, ApprovedGroups
<1> HIDE DEF visible, spent, waiting, adjustments, projects
<1>4. Summable(visible) /\ Cardinality(visible) <= Cardinality(rows)
  BY <1>1, SummableSubset
<1>5. /\ Summable(spent) /\ Cardinality(spent) <= Cardinality(visible)
      /\ Summable(waiting) /\ Cardinality(waiting) <= Cardinality(visible)
  BY <1>1, <1>4, SummableSubset
<1>6. /\ Summable(adjustments) /\ Cardinality(adjustments) <= Cardinality(spent)
      /\ Summable(projects) /\ Cardinality(projects) <= Cardinality(spent)
  BY <1>1, <1>5, SummableSubset
<1>7. /\ LineTotal(DepartmentSpending(rows, query)) = Total(spent)
      /\ LineTotal(CategorySpending(rows, query)) = Total(spent)
      /\ LineTotal(RequesterSpending(rows, query)) = Total(spent)
      /\ LineTotal(CashOutflow(rows, query)) = Total(spent)
      /\ LineTotal({l \in StatusBreakdown(rows, query) : l.key = "approved"}) = Total(spent)
  BY <1>2, <1>3, <1>5, GroupedAddsUp
<1>8. SpentTotals(rows, query) = {Total(spent)}
  BY <1>7 DEF SpentTotals
<1>9. /\ LineCount(ExpenseAdjustments(rows, query)) = Cardinality(adjustments)
      /\ LineCount(ProjectSpending(rows, query)) = Cardinality(projects)
      /\ LineCount(CashOutflow(rows, query)) = Cardinality(spent)
      /\ LineCount(PendingDepartmentSpending(rows, query)) = Cardinality(waiting)
      /\ LineCount(StatusBreakdown(rows, query)) = Cardinality(visible)
  BY <1>2, <1>3, <1>4, <1>5, <1>6, GroupedAddsUp
<1>10. TopCategories(rows, query, limit) = {CategorySpending(rows, query)}
  <2> DEFINE report == CategorySpending(rows, query)
  <2>1. IsFiniteSet(report) /\ Cardinality(report) <= Cardinality(spent)
    BY <1>3, <1>5, GroupedAddsUp
  <2>2. /\ Cardinality(report) \in Nat /\ Cardinality(spent) \in Nat
        /\ Cardinality(visible) \in Nat /\ Cardinality(rows) \in Nat
    BY <1>4, <1>5, <2>1, FS_CardinalityType DEF Summable
  <2>3. TopCategories(rows, query, limit) = Top(limit, report)
    BY DEF TopCategories
  <2> HIDE DEF report
  <2>4. Cardinality(report) <= limit
    BY <1>4, <1>5, <2>1, <2>2
  <2>5. Top(limit, report) = {report}
    BY <2>1, <2>4, TopOfAll
  <2>6. QED
    BY <2>3, <2>5 DEF report
<1>11. Cardinality(waiting) + Cardinality(spent) <= Cardinality(visible)
  <2>1. IsFiniteSet(spent) /\ IsFiniteSet(waiting) /\ IsFiniteSet(visible)
    BY <1>4, <1>5 DEF Summable
  <2>2. Cardinality(spent \cup waiting)
          = Cardinality(spent) + Cardinality(waiting) - Cardinality(spent \cap waiting)
    BY <2>1, FS_Union
  <2>3. Cardinality(spent \cap waiting) = 0
    BY <1>1, FS_EmptySet
  <2>4. Cardinality(spent \cup waiting) <= Cardinality(visible)
    <3>1. spent \cup waiting \in SUBSET visible
      BY <1>1
    <3>2. QED
      BY <2>1, <3>1, FS_Subset
  <2>5. Cardinality(spent) \in Nat /\ Cardinality(waiting) \in Nat
    BY <2>1, FS_CardinalityType
  <2>6. QED
    BY <2>2, <2>3, <2>4, <2>5
<1>12. QED
  BY <1>6, <1>8, <1>9, <1>10, <1>11 DEF spent

\* What the rows of a set of expenses add up to, whatever their names.
LEMMA TotalOfRows ==
    ASSUME NEW K \in SUBSET Expenses, NEW h,
           \A e \in K : h[e].expense = e /\ h[e].amount = Attributes[e].amount
    PROVE  Total({h[e] : e \in K}) = Sum([e \in K |-> Attributes[e].amount], K)
<1> DEFINE rows == {h[e] : e \in K}
           f == Amounts(rows)
           g == [e \in K |-> Attributes[e].amount]
<1>1. IsFiniteSet(K)
  BY ExpensesAssumption, FS_Subset
<1>2. IsFiniteSet(rows)
  <2> HIDE DEF f, g
  <2>1. QED
    BY <1>1, FiniteImage
<1>3. \A e \in K : f[h[e]] = Attributes[e].amount /\ g[e] = Attributes[e].amount
  BY DEF Amounts
<1>4. \A e \in K : f[h[e]] \in Int /\ g[e] = f[h[e]]
  <2> HIDE DEF f, g, rows
  <2>1. QED
    BY <1>3, ExpensesAssumption
<1>5. \A x, y \in K : h[x] = h[y] => x = y
  OBVIOUS
<1>6. Total(rows) = Sum(f, rows)
  <2> HIDE DEF rows
  <2>1. QED
    BY <1>2, TotalIsSum
<1>7. Sum(f, {h[e] : e \in K}) = Sum(g, K)
  <2> HIDE DEF f, g, rows
  <2>1. QED
    BY <1>1, <1>4, <1>5, SumOfNamed
<1>8. QED
  BY <1>6, <1>7

\* The read model is a table whose rows can be added up, and so is what it
\* should be.
LEMMA RowsAreSummable ==
    ASSUME NEW K \in SUBSET Expenses, NEW h, \A e \in K : h[e].amount = Attributes[e].amount
    PROVE  /\ Summable({h[e] : e \in K})
           /\ Cardinality({h[e] : e \in K}) <= Cardinality(Expenses)
<1>1. IsFiniteSet(K) /\ Cardinality(K) <= Cardinality(Expenses)
  BY ExpensesAssumption, FS_Subset
<1>2. IsFiniteSet({h[e] : e \in K}) /\ Cardinality({h[e] : e \in K}) <= Cardinality(K)
  BY <1>1, FiniteImage
<1>3. /\ Cardinality({h[e] : e \in K}) \in Nat /\ Cardinality(K) \in Nat
      /\ Cardinality(Expenses) \in Nat
  BY <1>1, <1>2, ExpensesAssumption, FS_CardinalityType
<1>4. \A r \in {h[e] : e \in K} : r.amount \in Int
  BY ExpensesAssumption
<1>5. QED
  BY <1>1, <1>2, <1>3, <1>4 DEF Summable

CopiedRows == [e \in Expenses |-> Row(e, copy[e].status, copy[e].names)]
CurrentRows == [e \in Expenses |-> Row(e, source[e], NamesOf(e))]

Copied == {e \in Expenses : copy[e] # None}
Existing == {e \in Expenses : source[e] # None}

LEMMA TablesOfRows ==
    /\ ModelRows = {CopiedRows[e] : e \in Copied}
    /\ TrueRows = {CurrentRows[e] : e \in Existing}
    /\ \A e \in Expenses :
         /\ CopiedRows[e].expense = e /\ CopiedRows[e].amount = Attributes[e].amount
         /\ CopiedRows[e].status = copy[e].status
         /\ CurrentRows[e].expense = e /\ CurrentRows[e].amount = Attributes[e].amount
         /\ CurrentRows[e].status = source[e]
         /\ CopiedRows[e].month = CurrentRows[e].month
         /\ CopiedRows[e].department = CurrentRows[e].department
<1>1. ASSUME NEW e \in Expenses
      PROVE  /\ CopiedRows[e] = Row(e, copy[e].status, copy[e].names)
             /\ CurrentRows[e] = Row(e, source[e], NamesOf(e))
  BY DEF CopiedRows, CurrentRows
<1>2. ModelRows = {CopiedRows[e] : e \in Copied}
  BY <1>1 DEF ModelRows, Copied
<1>3. TrueRows = {CurrentRows[e] : e \in Existing}
  BY <1>1 DEF TrueRows, Existing
<1>4. ASSUME NEW e \in Expenses, NEW s, NEW refs
      PROVE  /\ Row(e, s, refs).expense = e /\ Row(e, s, refs).amount = Attributes[e].amount
             /\ Row(e, s, refs).status = s /\ Row(e, s, refs).month = Attributes[e].month
             /\ Row(e, s, refs).department = Attributes[e].department
  BY DEF Row
<1>5. QED
  BY <1>1, <1>2, <1>3, <1>4

\* A row, an event or a delivery is about an expense that was created.
HintInv ==
    \A e \in Expenses :
        copy[e] # None \/ pending[e] > 0 \/ InHand(e) # {} => source[e] # None

\* Rows that are up to date add up to what the expenses do.
LEMMA CurrentTotals ==
    ASSUME HintInv, \A e \in Expenses : ~Stale(e), NEW query
    PROVE  Total(Spent(ModelRows, query)) = Total(Spent(TrueRows, query))
<1> DEFINE Shown(r) == /\ WidestScope(query.user) # None
                       /\ r.month \in query.from .. query.to
                       /\ WidestScope(query.user) = "department" =>
                            r.department \in DepartmentsOf(query.user)
           K == {e \in Existing : source[e] = "approved" /\ Shown(CurrentRows[e])}
<1>1. /\ Copied = Existing /\ Existing \in SUBSET Expenses
      /\ \A e \in Existing : copy[e].status = source[e]
  BY DEF HintInv, Stale, Copied, Existing
<1>2. \A rows : Spent(rows, query) = {r \in rows : Shown(r) /\ r.status = "approved"}
  BY DEF Spent, WithStatus, Visible
<1>3. \A e \in Expenses : Shown(CopiedRows[e]) <=> Shown(CurrentRows[e])
  BY TablesOfRows
<1> HIDE DEF Shown
<1>4. Spent(ModelRows, query) = {CopiedRows[e] : e \in K}
  BY <1>1, <1>2, <1>3, TablesOfRows
<1>5. Spent(TrueRows, query) = {CurrentRows[e] : e \in K}
  BY <1>1, <1>2, TablesOfRows
<1>6. K \in SUBSET Expenses
  BY <1>1
<1> HIDE DEF K
<1>7. /\ Total({CopiedRows[e] : e \in K}) = Sum([e \in K |-> Attributes[e].amount], K)
      /\ Total({CurrentRows[e] : e \in K}) = Sum([e \in K |-> Attributes[e].amount], K)
  BY <1>6, TablesOfRows, TotalOfRows
<1>8. QED
  BY <1>4, <1>5, <1>7

LEMMA HintStep ==
    ASSUME NoneIsNoRecord, LagInv, HintInv, [ProjectionNext]_projectionVars
    PROVE  HintInv'
<1>1. ASSUME NEW e \in Expenses,
             (\E move \in Moves \cup Creations(e) : Change(e, move)) \/ WriteBack(e)
      PROVE  HintInv'
  <2>1. /\ UNCHANGED <<copy, delivery>> /\ source'[e] # None
        /\ \A x \in Expenses \ {e} : source'[x] = source[x] /\ pending'[x] = pending[x]
    <3>1. \A move \in Moves \cup Creations(e) : move[2] # None
      BY ExpensesAssumption DEF Moves, Creations
    <3>2. QED
      BY <1>1, <3>1, ExpensesAssumption DEF Change, WriteBack, LagInv
  <2>2. \A x \in Expenses : InHand(x)' = InHand(x)
    BY <2>1 DEF InHand
  <2>3. QED
    BY <2>1, <2>2 DEF HintInv
\* A delivery that begins.
<1>2. ASSUME NEW h \in Handlers, NEW e \in Expenses, Begin(h, e) \/ BeginAgain(h, e)
      PROVE  HintInv'
  <2>1. /\ UNCHANGED <<source, copy>> /\ pending[e] > 0
        /\ delivery' = [delivery EXCEPT ![h] = Read(e)]
        /\ \A x \in Expenses : pending'[x] > 0 => pending[x] > 0
    BY <1>2 DEF Begin, BeginAgain, LagInv
  <2>2. \A x \in Expenses \ {e} : InHand(x)' \subseteq InHand(x)
    BY <2>1 DEF InHand, Read, LagInv
  <2>3. QED
    BY <2>1, <2>2 DEF HintInv
<1>3. ASSUME NEW h \in Handlers, ReadNames(h)
      PROVE  HintInv'
  <2>1. /\ UNCHANGED <<source, copy, pending>>
        /\ \A g \in Handlers : /\ delivery'[g] # None => delivery[g] # None
                               /\ delivery[g] # None => delivery'[g].expense = delivery[g].expense
    BY <1>3 DEF ReadNames, LagInv, DeliveryOK
  <2>2. \A x \in Expenses : InHand(x)' \subseteq InHand(x)
    BY <2>1 DEF InHand
  <2>3. QED
    BY <2>1, <2>2 DEF HintInv
<1>4. ASSUME NEW h \in Handlers, Upsert(h)
      PROVE  HintInv'
  <2> DEFINE e == delivery[h].expense
  <2>1. /\ UNCHANGED <<source, pending>> /\ h \in InHand(e) /\ e \in Expenses
        /\ \A x \in Expenses \ {e} : copy'[x] = copy[x]
        /\ \A g \in Handlers : /\ delivery'[g] # None => delivery[g] # None
                               /\ delivery'[g] # None => delivery'[g].expense = delivery[g].expense
    BY <1>4 DEF Upsert, InHand, Overlapping, LagInv, DeliveryOK
  <2>2. \A x \in Expenses : InHand(x)' \subseteq InHand(x)
    BY <2>1 DEF InHand
  <2> HIDE DEF e
  <2>3. QED
    BY <2>1, <2>2 DEF HintInv
<1>5. ASSUME NEW h \in Handlers, Fail(h)
      PROVE  HintInv'
  <2> DEFINE e == delivery[h].expense
  <2>1. /\ UNCHANGED <<source, copy>> /\ h \in InHand(e) /\ e \in Expenses
        /\ \A x \in Expenses \ {e} : pending'[x] = pending[x]
        /\ delivery' = [delivery EXCEPT ![h] = None]
    BY <1>5 DEF Fail, RetryOrGiveUp, InHand, LagInv, DeliveryOK
  <2>2. \A x \in Expenses : InHand(x)' \subseteq InHand(x)
    BY <2>1 DEF InHand, LagInv
  <2> HIDE DEF e
  <2>3. QED
    BY <2>1, <2>2 DEF HintInv
<1>6. CASE UNCHANGED <<source, copy, pending, delivery>>
  BY <1>6 DEF HintInv, InHand
<1>7. QED
  BY <1>1, <1>2, <1>3, <1>4, <1>5, <1>6 DEF ProjectionNext, Deliver, Rename, projectionVars

LEMMA TablesAreSummable ==
    /\ Summable(ModelRows) /\ Cardinality(ModelRows) <= Cardinality(Expenses)
    /\ Summable(TrueRows) /\ Cardinality(TrueRows) <= Cardinality(Expenses)
<1>1. Copied \in SUBSET Expenses /\ Existing \in SUBSET Expenses
  BY DEF Copied, Existing
<1>2. /\ \A e \in Copied : CopiedRows[e].amount = Attributes[e].amount
      /\ \A e \in Existing : CurrentRows[e].amount = Attributes[e].amount
  BY <1>1, TablesOfRows
<1>3. /\ Summable({CopiedRows[e] : e \in Copied})
      /\ Cardinality({CopiedRows[e] : e \in Copied}) <= Cardinality(Expenses)
  BY <1>1, <1>2, RowsAreSummable
<1>4. /\ Summable({CurrentRows[e] : e \in Existing})
      /\ Cardinality({CurrentRows[e] : e \in Existing}) <= Cardinality(Expenses)
  BY <1>1, <1>2, RowsAreSummable
<1>5. QED
  BY <1>3, <1>4, TablesOfRows

\* Once every row of the read model is of an expense that was created, the
\* reports agree.
LEMMA ReportsOfModel ==
    ASSUME HintInv
    PROVE  ReportsAgree
<1>1. /\ Summable(ModelRows) /\ Cardinality(ModelRows) <= Cardinality(Expenses)
      /\ Summable(TrueRows) /\ Cardinality(TrueRows) <= Cardinality(Expenses)
  BY TablesAreSummable
<1>2. Cardinality(Expenses) \in Nat
  BY ExpensesAssumption, FS_CardinalityType
<1>3. ASSUME NEW q \in Queries
      PROVE  LET totals == SpentTotals(ModelRows, q)
                 spent  == LineCount(CashOutflow(ModelRows, q))
             IN  /\ Cardinality(totals) = 1
                 /\ LineCount(ExpenseAdjustments(ModelRows, q)) <= spent
                 /\ LineCount(ProjectSpending(ModelRows, q)) <= spent
                 /\ TopCategories(ModelRows, q, Cardinality(Expenses))
                      = {CategorySpending(ModelRows, q)}
                 /\ LineCount(PendingDepartmentSpending(ModelRows, q)) + spent
                      <= LineCount(StatusBreakdown(ModelRows, q))
                 /\ (\A e \in Expenses : ~Stale(e)) => totals = SpentTotals(TrueRows, q)
  <2>1. SpentTotals(TrueRows, q) = {Total(Spent(TrueRows, q))}
    BY <1>1, <1>2, ReportsOfRows
  <2>2. SpentTotals(ModelRows, q) = {Total(Spent(ModelRows, q))}
    BY <1>1, <1>2, ReportsOfRows
  <2>3. Cardinality(SpentTotals(ModelRows, q)) = 1
    BY <2>2, FS_Singleton
  <2>4. (\A e \in Expenses : ~Stale(e)) => SpentTotals(ModelRows, q) = SpentTotals(TrueRows, q)
    BY <2>1, <2>2, CurrentTotals
  <2>5. QED
    BY <1>1, <1>2, <2>3, <2>4, ReportsOfRows
<1>4. QED
  BY <1>3 DEF ReportsAgree

\* For any expenses and references, any deliveries and every query: the reports
\* of a user and period add up to the same total, what is adjusted or spent on
\* projects is part of it, what is pending comes on top, and rows that are up to
\* date say what the expenses do.
THEOREM ReportsAddUp == NoneIsNoRecord => (ProjectionSpec => []ReportsAgree)
<1> SUFFICES ASSUME NoneIsNoRecord PROVE ProjectionSpec => []ReportsAgree
  OBVIOUS
<1> DEFINE RowsInv == LagInv /\ HintInv
<1>1. ProjectionInit => RowsInv
  BY LagBegins DEF ProjectionInit, HintInv, InHand
<1>2. RowsInv /\ [ProjectionNext]_projectionVars => RowsInv'
  BY LagStep, HintStep
<1>3. RowsInv => ReportsAgree
  BY ReportsOfModel
<1>4. QED
  <2> HIDE DEF RowsInv
  <2>1. QED
    BY <1>1, <1>2, <1>3, PTL DEF ProjectionSpec

-----------------------------------------------------------------------------
(* ReadModel: the ranking of vendors, when no vendor is renamed *)

\* The names that cannot change are the ones from the beginning.
AsCreated(e, refs) == \A r \in Refs(e) \ Renamed : refs[r] = 1

NamesInv ==
    /\ DOMAIN names = References
    /\ \A r \in References \ Renamed : names[r] = 1
    /\ \A h \in Handlers :
          delivery[h] # None /\ delivery[h].at = "upsert" =>
              AsCreated(delivery[h].expense, delivery[h].names)
    /\ \A e \in Expenses : copy[e] # None => AsCreated(e, copy[e].names)

LEMMA NamesStep ==
    ASSUME NoneIsNoRecord, LagInv, NamesInv, [ProjectionNext]_projectionVars
    PROVE  NamesInv'
<1>1. ASSUME NEW r \in Renamed, Rename(r)
      PROVE  NamesInv'
  <2>1. DOMAIN names' = References /\ \A x \in References \ Renamed : names'[x] = names[x]
    BY <1>1 DEF Rename, NamesInv
  <2>2. UNCHANGED <<delivery, copy>>
    BY <1>1 DEF Rename
  <2>3. QED
    BY <2>1, <2>2 DEF NamesInv
<1>2. ASSUME NEW h \in Handlers, NEW e \in Expenses, Begin(h, e) \/ BeginAgain(h, e)
      PROVE  NamesInv'
  <2>1. UNCHANGED <<names, copy>> /\ delivery' = [delivery EXCEPT ![h] = Read(e)]
    BY <1>2 DEF Begin, BeginAgain
  <2>2. delivery'[h].at = "names" /\ \A g \in Handlers \ {h} : delivery'[g] = delivery[g]
    BY <2>1 DEF LagInv, Read
  <2>3. QED
    BY <2>1, <2>2 DEF NamesInv
<1>3. ASSUME NEW h \in Handlers, ReadNames(h)
      PROVE  NamesInv'
  <2> DEFINE e == delivery[h].expense
  <2>1. /\ UNCHANGED <<names, copy>> /\ e \in Expenses
        /\ delivery'[h].expense = e /\ delivery'[h].names = NamesOf(e)
        /\ \A g \in Handlers \ {h} : delivery'[g] = delivery[g]
    BY <1>3 DEF ReadNames, LagInv, DeliveryOK
  <2> HIDE DEF e
  <2>2. Refs(e) \subseteq References
    BY <2>1 DEF References
  <2>3. AsCreated(e, NamesOf(e))
    BY <2>2 DEF AsCreated, NamesOf, NamesInv
  <2>4. QED
    BY <2>1, <2>3 DEF NamesInv
<1>4. ASSUME NEW h \in Handlers, Upsert(h)
      PROVE  NamesInv'
  <2> DEFINE e == delivery[h].expense
  <2>1. /\ UNCHANGED names /\ e \in Expenses
        /\ copy'[e].names = delivery[h].names
        /\ \A x \in Expenses \ {e} : copy'[x] = copy[x]
    BY <1>4 DEF Upsert, Projected, LagInv, DeliveryOK
  <2>2. \A g \in Handlers :
           delivery'[g] # None =>
              /\ delivery[g] # None
              /\ delivery'[g].at = delivery[g].at
              /\ delivery'[g].expense = delivery[g].expense
              /\ delivery'[g].names = delivery[g].names
    BY <1>4 DEF Upsert, Overlapping, LagInv, DeliveryOK
  <2>3. AsCreated(e, delivery[h].names)
    BY <1>4 DEF Upsert, NamesInv
  <2> HIDE DEF e
  <2>4. QED
    BY <2>1, <2>2, <2>3 DEF NamesInv
<1>5. ASSUME NEW h \in Handlers, Fail(h)
      PROVE  NamesInv'
  <2>1. UNCHANGED <<names, copy>> /\ delivery' = [delivery EXCEPT ![h] = None]
    BY <1>5 DEF Fail
  <2>2. QED
    BY <2>1 DEF NamesInv, LagInv
<1>6. CASE UNCHANGED <<names, copy, delivery>>
  BY <1>6 DEF NamesInv
<1>7. QED
  BY <1>1, <1>2, <1>3, <1>4, <1>5, <1>6
     DEF ProjectionNext, Deliver, Change, WriteBack, projectionVars

\* The hypothesis: vendors keep their names.
VendorsKeepNames == Renamed \cap {Attributes[e].vendor : e \in Expenses} = {}

LEMMA TotalType ==
    ASSUME NEW rows, Summable(rows)
    PROVE  Total(rows) \in Int
<1>1. IsFiniteSet(rows) /\ \A r \in rows : Amounts(rows)[r] \in Int
  BY DEF Summable, Amounts
<1>2. QED
  BY <1>1, TotalIsSum, SumType

LEMMA VendorsRanked ==
    ASSUME NamesInv, VendorsKeepNames
    PROVE  TopVendorIsTop
<1> SUFFICES ASSUME NEW q \in Queries, NEW top \in TopVendors(ModelRows, q, 1), NEW l \in top,
                    NEW r \in Spent(ModelRows, q), r.vendor # None
             PROVE  Total({s \in Spent(ModelRows, q) : s.vendor = l.key[1]})
                      >= Total({s \in Spent(ModelRows, q) : s.vendor = r.vendor})
  BY DEF TopVendorIsTop
<1> DEFINE spent == Spent(ModelRows, q)
           sold == {s \in spent : s.vendor # None}
           Of(v) == {s \in spent : s.vendor = v}
           report == VendorSpending(ModelRows, q)
           LineOf(s) == Line(<<s.vendor, 1>>, Of(s.vendor))
<1>1. Summable(sold) /\ \A v : Summable(Of(v)) /\ Total(Of(v)) \in Int
  <2>1. spent \in SUBSET ModelRows
    BY DEF Spent, WithStatus, Visible
  <2>2. Summable(spent)
    BY <2>1, TablesAreSummable, SummableSubset
  <2>3. sold \in SUBSET spent /\ \A v : Of(v) \in SUBSET spent
    OBVIOUS
  <2> HIDE DEF spent, sold, Of
  <2>4. QED
    BY <2>2, <2>3, SummableSubset, TotalType
<1>2. \A s \in sold : s.names[s.vendor] = 1
  <2>1. ASSUME NEW s \in sold PROVE s.names[s.vendor] = 1
    <3>1. s \in ModelRows /\ s.vendor # None
      BY DEF Spent, WithStatus, Visible
    <3>2. PICK e \in Expenses : copy[e] # None /\ s = Row(e, copy[e].status, copy[e].names)
      BY <3>1 DEF ModelRows
    <3>3. s.vendor = Attributes[e].vendor /\ s.names = copy[e].names
      BY <3>2 DEF Row
    <3>4. s.vendor \in Refs(e) \ Renamed
      BY <3>1, <3>3 DEF Refs, VendorsKeepNames
    <3>5. QED
      BY <3>2, <3>3, <3>4 DEF NamesInv, AsCreated
  <2>2. QED
    BY <2>1
<1>3. \A s \in sold : {t \in sold : Named(t, t.vendor) = <<s.vendor, 1>>} = Of(s.vendor)
  BY <1>2 DEF Named
<1>4. report = {LineOf(s) : s \in sold}
  <2>1. report = {Line(k, {t \in sold : Named(t, t.vendor) = k}) :
                    k \in {Named(s, s.vendor) : s \in sold}}
    BY DEF VendorSpending, GroupBy
  <2>2. {Named(s, s.vendor) : s \in sold} = {<<s.vendor, 1>> : s \in sold}
    BY <1>2 DEF Named
  <2> DEFINE line(k) == Line(k, {t \in sold : Named(t, t.vendor) = k})
  <2>3. \A s \in sold : line(<<s.vendor, 1>>) = LineOf(s)
    BY <1>3
  <2>4. report = {line(k) : k \in {<<s.vendor, 1>> : s \in sold}}
    BY <2>1, <2>2
  <2> HIDE DEF line, LineOf, report, sold
  <2>5. QED
    BY <2>3, <2>4
<1>5. /\ l \in report
      /\ \A m \in top : m = l
      /\ \A m \in report \ top : l.total >= m.total
  <2>1. /\ top \in SUBSET report /\ Cardinality(top) = Min({1, Cardinality(report)})
        /\ \A m \in report \ top : l.total >= m.total
    BY DEF TopVendors, Top
  <2>2. IsFiniteSet(report) /\ Cardinality(report) \in Nat
    <3>1. IsFiniteSet(sold)
      BY <1>1 DEF Summable
    <3> DEFINE line == [s \in sold |-> LineOf(s)]
    <3>2. report = {line[s] : s \in sold}
      BY <1>4
    <3> HIDE DEF line, report, sold
    <3>3. QED
      BY <3>1, <3>2, FiniteImage, FS_CardinalityType
  <2>3. Cardinality(top) <= 1
    <3> DEFINE size == Cardinality(report)
    <3>1. size \in Nat
      BY <2>2
    <3> HIDE DEF size
    <3>2. Min({1, size}) \in {1, size} /\ \A x \in {1, size} : Min({1, size}) <= x
      <4>1. \E x \in {1, size} : \A y \in {1, size} : x <= y
        BY <3>1
      <4>2. QED
        BY <4>1 DEF Min
    <3>3. QED
      BY <2>1, <3>2 DEF size
  <2>4. IsFiniteSet(top)
    BY <2>1, <2>2, FS_Subset
  <2>5. Cardinality(top \ {l}) = Cardinality(top) - 1 /\ IsFiniteSet(top \ {l})
    BY <2>4, FS_RemoveElement
  <2>6. Cardinality(top \ {l}) = 0
    BY <2>3, <2>4, <2>5, FS_CardinalityType
  <2>7. top \ {l} = {}
    BY <2>5, <2>6, FS_EmptySet
  <2>8. QED
    BY <2>1, <2>7
<1>6. PICK s \in sold : l = LineOf(s)
  BY <1>4, <1>5
<1>7. l.key[1] = s.vendor /\ l.total = Total(Of(s.vendor))
  BY <1>6 DEF Line
<1>8. LineOf(r) \in report /\ LineOf(r).key[1] = r.vendor /\ LineOf(r).total = Total(Of(r.vendor))
  BY <1>4 DEF Line
<1>9. CASE LineOf(r) \in top
  <2>1. LineOf(r) = l
    BY <1>5, <1>9
  <2>2. l.key[1] = r.vendor /\ Total(Of(r.vendor)) \in Int
    BY <1>1, <1>8, <2>1
  <2>3. Total(Of(l.key[1])) >= Total(Of(r.vendor))
    BY <2>2
  <2>4. QED
    BY <2>3
<1>10. CASE LineOf(r) \notin top
  BY <1>5, <1>7, <1>8, <1>10
<1>11. QED
  BY <1>9, <1>10

\* The first vendor of the ranking is the one with the most approved spending,
\* whatever is projected when, if no vendor is renamed.
THEOREM FirstVendorIsFirst ==
    NoneIsNoRecord /\ VendorsKeepNames => (ProjectionSpec => []TopVendorIsTop)
<1> SUFFICES ASSUME NoneIsNoRecord, VendorsKeepNames PROVE ProjectionSpec => []TopVendorIsTop
  OBVIOUS
<1> DEFINE RankInv == LagInv /\ NamesInv
<1>1. ProjectionInit => RankInv
  BY LagBegins DEF ProjectionInit, NamesInv
<1>2. RankInv /\ [ProjectionNext]_projectionVars => RankInv'
  BY LagStep, NamesStep
<1>3. RankInv => TopVendorIsTop
  BY VendorsRanked
<1>4. QED
  <2> HIDE DEF RankInv
  <2>1. QED
    BY <1>1, <1>2, <1>3, PTL DEF ProjectionSpec

-----------------------------------------------------------------------------
(* AuditChain: the chain and its verdicts *)

\* A log is a sequence of rows, a hash the sequence of what was hashed into it.
IsSequence(h) == \E S : h \in Seq(S)

RowType(e) ==
    e \in [organization : {e.organization}, action : {e.action}, payload : {e.payload},
           createdAt : Nat, version : {1, 2, 3}, prevHash : {e.prevHash},
           entryHash : {e.entryHash}]

\* What is hashed into a row of version v, written with action a and payload p.
HashedPart(e, v, a, p) ==
    IF v = 1 THEN <<1, <<e.organization, a, e.createdAt>>>>
    ELSE <<2, <<e.organization, a, e.createdAt>>, p>>

\* What was hashed when the row was written, and what may have become of it.
WrittenAs(e, v, a, p) ==
    /\ v \in {1, 2}
    /\ e.entryHash = Append(e.prevHash, HashedPart(e, v, a, p))
    /\ e.version \in {v, 3} /\ e.action \in {a, "altered"} /\ a # "altered"
    /\ v = 2 => e.payload \in {p, "altered"} /\ p # "altered"

RowOK(e) ==
    /\ RowType(e)
    /\ IsSequence(e.prevHash)
    /\ \E v, a, p : WrittenAs(e, v, a, p)

\* The row is not the one that was hashed.
Changed(e) == e.version = 3 \/ Recomputed(e) # e.entryHash

NewRow(e) == RowOK(e) /\ ~Changed(e)

Of(L, o) == {i \in DOMAIN L : L[i].organization = o}

\* e continues the chain whose entries are those of B.
Continues(L, e, B) ==
    /\ \A i \in B : L[i].createdAt < e.createdAt /\ Len(L[i].entryHash) <= Len(e.prevHash)
    /\ B = {} => e.prevHash = Genesis
    /\ \A i \in B : (\A j \in B : j <= i) => e.prevHash = L[i].entryHash

Earlier(L, i) == {j \in Of(L, L[i].organization) : j < i}

\* The rows of log L, of which those in A were altered, are chains.
Chained(L, A) ==
    /\ IsSequence(L)
    /\ A \subseteq DOMAIN L
    /\ \A i \in DOMAIN L :
          RowOK(L[i]) /\ Continues(L, L[i], Earlier(L, i)) /\ (i \in A <=> Changed(L[i]))

\* A writer past the lock holds it alone, and its new row continues the chain.
RecordOK(w) ==
    \/ writer[w] = NotWriting
    \/ \E o \in Organizations, e \in Events, at \in {"lock", "last"} :
          /\ writer[w] = [at |-> at, organization |-> o, event |-> e]
          /\ at = "last" => lock[o] = {w}
    \/ \E o \in Organizations : \E e :
          /\ writer[w] = [at |-> "create", organization |-> o, entry |-> e]
          /\ lock[o] = {w}
          /\ e.organization = o /\ NewRow(e) /\ Continues(log, e, Of(log, o))

\* What is altered is no longer what was written, and the entries there were
\* before are a chain.
AlterationsShow == \A e \in Events : e.action # "altered" /\ e.payload # "altered"

LegacyIsAChain == Chained(Legacy, {})

ChainInv ==
    /\ Chained(log, altered)
    /\ clock \in Nat
    /\ DOMAIN lock = Organizations /\ DOMAIN writer = Writers
    /\ \A w \in Writers : RecordOK(w)

\* A row as record writes it.
LEMMA EntryIsOK ==
    ASSUME NEW o, NEW what, NEW h, NEW e, e = Entry(o, what, h),
           clock \in Nat, IsSequence(h), what.action # "altered", what.payload # "altered"
    PROVE  /\ e.organization = o /\ e.prevHash = h /\ e.createdAt = clock
           /\ NewRow(e)
<1>1. e = [organization |-> o, action |-> what.action, payload |-> what.payload,
           createdAt |-> clock, version |-> 2, prevHash |-> h,
           entryHash |-> Append(h, <<2, <<o, what.action, clock>>, what.payload>>)]
  BY DEF Entry, EntryHashV2, Metadata
<1>2. RowType(e)
  BY <1>1 DEF RowType
<1>3. WrittenAs(e, 2, what.action, what.payload)
  BY <1>1 DEF WrittenAs, HashedPart
<1>4. e.organization = o /\ e.prevHash = h /\ e.createdAt = clock
  BY <1>1
<1>5. \E v, a, p : WrittenAs(e, v, a, p)
  BY <1>3
<1>6. RowOK(e)
  BY <1>2, <1>4, <1>5 DEF RowOK
<1>7. ~Changed(e)
  BY <1>1 DEF Changed, Recomputed, EntryHashV2, Metadata
<1>8. QED
  BY <1>4, <1>6, <1>7 DEF NewRow

\* Every hash is one longer than the hash before it.
LEMMA AppendToAny ==
    ASSUME NEW h, IsSequence(h), NEW x
    PROVE  /\ IsSequence(Append(h, x)) /\ Len(h) \in Nat /\ DOMAIN h = 1 .. Len(h)
           /\ Len(Append(h, x)) = Len(h) + 1
           /\ \A i \in 1 .. Len(h) : Append(h, x)[i] = h[i]
           /\ Append(h, x)[Len(h) + 1] = x
<1>1. PICK S : h \in Seq(S)
  BY DEF IsSequence
<1>2. h \in Seq(S \cup {x}) /\ x \in S \cup {x}
  BY <1>1, SeqMonotonic
<1>3. /\ Append(h, x) \in Seq(S \cup {x})
      /\ Len(Append(h, x)) = Len(h) + 1
      /\ \A i \in 1 .. Len(h) : Append(h, x)[i] = h[i]
      /\ Append(h, x)[Len(h) + 1] = x
  BY <1>2, AppendProperties
<1>4. Len(h) \in Nat /\ DOMAIN h = 1 .. Len(h)
  BY <1>1, LenProperties
<1>5. QED
  BY <1>3, <1>4 DEF IsSequence

\* A row of a log may be replaced by any other.
LEMMA ReplaceAny ==
    ASSUME NEW L, IsSequence(L), NEW i \in DOMAIN L, NEW e
    PROVE  /\ IsSequence([L EXCEPT ![i] = e])
           /\ Len([L EXCEPT ![i] = e]) = Len(L)
           /\ DOMAIN [L EXCEPT ![i] = e] = DOMAIN L
           /\ \A j \in DOMAIN L : [L EXCEPT ![i] = e][j] = IF j = i THEN e ELSE L[j]
<1>1. PICK S : L \in Seq(S)
  BY DEF IsSequence
<1>2. L \in Seq(S \cup {e}) /\ e \in S \cup {e} /\ i \in 1 .. Len(L) /\ DOMAIN L = 1 .. Len(L)
  BY <1>1, SeqMonotonic, LenProperties
<1>3. /\ [L EXCEPT ![i] = e] \in Seq(S \cup {e})
      /\ Len([L EXCEPT ![i] = e]) = Len(L)
  BY <1>2, ExceptSeq
<1>4. QED
  BY <1>2, <1>3 DEF IsSequence

\* Of a log's places, one is the last.
LEMMA LastPlace ==
    ASSUME NEW n \in Nat, NEW T, T \subseteq 1 .. n, T # {}
    PROVE  \E i \in T : \A j \in T : j <= i
<1> DEFINE D == {n - i : i \in T}
           R == OpToRel(<, Nat)
<1>1. D \subseteq Nat /\ D # {}
  <2>1. \A i \in T : n - i \in Nat
    OBVIOUS
  <2>2. QED
    BY <2>1
<1>2. PICK d \in D : \A k \in D : <<k, d>> \notin R
  <2> HIDE DEF D, R
  <2>1. IsWellFoundedOn(R, Nat)
    BY NatLessThanWellFounded DEF R
  <2>2. QED
    BY <1>1, <2>1, WFMin
<1>3. PICK i \in T : d = n - i
  OBVIOUS
<1>4. ASSUME NEW j \in T PROVE j <= i
  <2>1. n - j \in D /\ <<n - j, d>> \notin R
    BY <1>2
  <2>2. ~(n - j < d)
    BY <1>1, <2>1 DEF OpToRel
  <2>3. QED
    BY <1>3, <2>2
<1>5. QED
  BY <1>4

\* How much longer than the one before a row's hash is.
LEMMA HashIsLonger ==
    ASSUME NEW e, RowOK(e)
    PROVE  /\ Len(e.prevHash) \in Nat /\ Len(e.entryHash) = Len(e.prevHash) + 1
           /\ IsSequence(e.entryHash) /\ e.createdAt \in Nat
<1>1. PICK v, a, p : WrittenAs(e, v, a, p)
  BY DEF RowOK
<1>2. e.entryHash = Append(e.prevHash, HashedPart(e, v, a, p))
  BY <1>1 DEF WrittenAs
<1>3. e.createdAt \in Nat
  BY DEF RowOK, RowType
<1>4. QED
  BY <1>2, <1>3, AppendToAny DEF RowOK

\* Of two rows of a chain the later is newer, and its hash before longer.
LEMMA ChainGrows ==
    ASSUME NEW L, NEW A, Chained(L, A), NEW i \in DOMAIN L, NEW j \in DOMAIN L,
           L[i].organization = L[j].organization, i < j
    PROVE  /\ L[i].createdAt < L[j].createdAt
           /\ Len(L[i].entryHash) <= Len(L[j].prevHash)
<1>1. i \in Earlier(L, j)
  BY DEF Earlier, Of
<1>2. QED
  BY <1>1 DEF Chained, Continues

\* A row that is not there yet finds what it needs of the rows that are.
LEMMA ContinuesTheSame ==
    ASSUME NEW L, NEW M, NEW e, NEW f, NEW B, Continues(L, e, B),
           e.createdAt = f.createdAt, e.prevHash = f.prevHash,
           \A i \in B : M[i].createdAt = L[i].createdAt /\ M[i].entryHash = L[i].entryHash
    PROVE  Continues(M, f, B)
  BY DEF Continues

\* altered new row that continues its chain.
LEMMA InsertKeepsChained ==
    ASSUME NEW e, Chained(log, altered), NewRow(e),
           Continues(log, e, Of(log, e.organization)), log' = Append(log, e)
    PROVE  /\ Chained(log', altered)
           /\ \A i \in DOMAIN log : log'[i] = log[i]
           /\ \A o : o # e.organization => Of(log', o) = Of(log, o)
<1> DEFINE n == Len(log) + 1
<1>1. /\ IsSequence(log') /\ Len(log) \in Nat
      /\ DOMAIN log = 1 .. Len(log) /\ DOMAIN log' = 1 .. n
      /\ \A i \in DOMAIN log : log'[i] = log[i]
      /\ log'[n] = e
  <2>1. IsSequence(log)
    BY DEF Chained
  <2>2. /\ IsSequence(log') /\ Len(log) \in Nat /\ DOMAIN log = 1 .. Len(log) /\ Len(log') = n
        /\ \A i \in 1 .. Len(log) : log'[i] = log[i]
        /\ log'[n] = e
    BY <2>1, AppendToAny
  <2>3. DOMAIN log' = 1 .. Len(log')
    BY <2>2, AppendToAny
  <2>4. QED
    BY <2>2, <2>3
<1>2. n \notin DOMAIN log /\ DOMAIN log' = DOMAIN log \cup {n} /\ \A i \in DOMAIN log : i < n /\ i \in Nat
  BY <1>1
<1>3. /\ \A o : o # e.organization => Of(log', o) = Of(log, o)
      /\ Of(log', e.organization) = Of(log, e.organization) \cup {n}
  BY <1>1, <1>2 DEF Of
<1>4. ASSUME NEW i \in DOMAIN log 
      PROVE  RowOK(log'[i]) /\ Continues(log', log'[i], Earlier(log', i)) /\ (i \in altered <=> Changed(log'[i]))
  <2>1. log'[i] = log[i] /\ ~(n < i)
    BY <1>1, <1>2
  <2>2. Earlier(log', i) = Earlier(log, i)
    BY <1>3, <2>1 DEF Earlier
  <2>3. Earlier(log, i) \subseteq DOMAIN log
    BY DEF Earlier, Of
  <2>4. RowOK(log[i]) /\ Continues(log, log[i], Earlier(log, i)) /\ (i \in altered <=> Changed(log[i]))
    BY DEF Chained
  <2>5. \A j \in Earlier(log, i) : log'[j] = log[j]
    BY <1>1, <2>3
  <2>6. Continues(log', log[i], Earlier(log, i))
    BY <2>4, <2>5, ContinuesTheSame
  <2>7. QED
    BY <2>1, <2>2, <2>4, <2>6
<1>5. RowOK(log'[n]) /\ Continues(log', log'[n], Earlier(log', n)) /\ n \notin altered /\ ~Changed(log'[n])
  <2>1. n \notin altered
    BY <1>2 DEF Chained
  <2>2. Earlier(log', n) = Of(log, e.organization)
    <3>1. \A i \in Of(log, e.organization) : i < n
      BY <1>2 DEF Of
    <3>2. ~(n < n)
      BY <1>1
    <3>3. QED
      BY <1>1, <1>3, <3>1, <3>2 DEF Earlier
  <2>3. \A j \in Of(log, e.organization) : log'[j] = log[j]
    BY <1>1 DEF Of
  <2>4. Continues(log', e, Of(log, e.organization))
    BY <2>3, ContinuesTheSame
  <2>5. QED
    BY <1>1, <2>1, <2>2, <2>4 DEF NewRow
<1>6. altered \subseteq DOMAIN log'
  BY <1>2 DEF Chained
<1>7. Chained(log', altered)
  BY <1>1, <1>2, <1>4, <1>5, <1>6 DEF Chained
<1>8. QED
  BY <1>1, <1>3, <1>7

\* altered row whose content changed in its place.
LEMMA AlterKeepsChained ==
    ASSUME NEW i \in DOMAIN log, NEW e, Chained(log, altered), RowOK(e), Changed(e),
           e.organization = log[i].organization, e.createdAt = log[i].createdAt,
           e.prevHash = log[i].prevHash, e.entryHash = log[i].entryHash,
           log' = [log EXCEPT ![i] = e]
    PROVE  /\ Chained(log', altered \cup {i})
           /\ \A o : /\ Of(log', o) = Of(log, o)
                     /\ \A j \in Of(log, o) : /\ log'[j].createdAt = log[j].createdAt
                                           /\ log'[j].entryHash = log[j].entryHash
<1>1. /\ IsSequence(log') /\ DOMAIN log' = DOMAIN log
      /\ log'[i] = e /\ \A j \in DOMAIN log : j # i => log'[j] = log[j]
  BY ReplaceAny DEF Chained
<1>2. \A j \in DOMAIN log : /\ log'[j].organization = log[j].organization
                          /\ log'[j].createdAt = log[j].createdAt
                          /\ log'[j].prevHash = log[j].prevHash
                          /\ log'[j].entryHash = log[j].entryHash
  BY <1>1
<1>3. \A o : Of(log', o) = Of(log, o)
  BY <1>1, <1>2 DEF Of
<1>4. ASSUME NEW j \in DOMAIN log PROVE Continues(log', log'[j], Earlier(log', j))
  <2>1. Earlier(log', j) = Earlier(log, j) /\ Earlier(log, j) \subseteq DOMAIN log
    BY <1>2, <1>3 DEF Earlier, Of
  <2>2. Continues(log, log[j], Earlier(log, j))
    BY DEF Chained
  <2>3. Continues(log', log'[j], Earlier(log, j))
    BY <1>2, <2>1, <2>2, ContinuesTheSame
  <2>4. QED
    BY <2>1, <2>3
<1>5. ASSUME NEW j \in DOMAIN log PROVE RowOK(log'[j]) /\ (j \in altered \cup {i} <=> Changed(log'[j]))
  BY <1>1 DEF Chained
<1>6. altered \cup {i} \subseteq DOMAIN log'
  BY <1>1 DEF Chained
<1>7. Chained(log', altered \cup {i})
  BY <1>1, <1>4, <1>5, <1>6 DEF Chained
<1>8. \A o : \A j \in Of(log, o) : j \in DOMAIN log
  BY DEF Of
<1>9. QED
  BY <1>2, <1>3, <1>7, <1>8

\* What Alter makes of a row.
LEMMA AlteredRowIsOK ==
    ASSUME NEW e, RowOK(e), NEW f,
           \/ f = [e EXCEPT !.action = "altered"]
           \/ e.version = 2 /\ f = [e EXCEPT !.payload = "altered"]
           \/ f = [e EXCEPT !.version = 3]
    PROVE  /\ RowOK(f) /\ Changed(f)
           /\ f.organization = e.organization /\ f.createdAt = e.createdAt
           /\ f.prevHash = e.prevHash /\ f.entryHash = e.entryHash
<1>1. PICK v, a, p : WrittenAs(e, v, a, p)
  BY DEF RowOK
<1>2. e = [organization |-> e.organization, action |-> e.action, payload |-> e.payload,
           createdAt |-> e.createdAt, version |-> e.version, prevHash |-> e.prevHash,
           entryHash |-> e.entryHash]
      /\ e.createdAt \in Nat /\ e.version \in {1, 2, 3} /\ IsSequence(e.prevHash)
  BY DEF RowOK, RowType
<1>3. /\ f.organization = e.organization /\ f.createdAt = e.createdAt
      /\ f.prevHash = e.prevHash /\ f.entryHash = e.entryHash
      /\ f.version \in {e.version, 3} /\ f.action \in {e.action, "altered"}
      /\ f.payload \in {e.payload, "altered"}
      /\ \/ f.version = 3
         \/ f.action = "altered"
         \/ f.version = 2 /\ f.payload = "altered"
  BY <1>2
<1>4. RowType(f)
  BY <1>2 DEF RowType
<1>5. HashedPart(f, v, a, p) = HashedPart(e, v, a, p)
  BY <1>3 DEF HashedPart
<1>6. WrittenAs(f, v, a, p)
  BY <1>1, <1>3, <1>5 DEF WrittenAs
<1>7. \E u, b, q : WrittenAs(f, u, b, q)
  BY <1>6
<1>8. IsSequence(f.prevHash)
  BY <1>2, <1>3
<1>9. RowOK(f)
  BY <1>4, <1>7, <1>8 DEF RowOK
<1>10. Changed(f)
  <2>1. CASE f.version = 3
    BY <2>1 DEF Changed
  <2>2. CASE f.version # 3
    <3>1. f.version = v /\ (f.action # a \/ (v = 2 /\ f.payload # p))
      BY <1>1, <1>3, <2>2 DEF WrittenAs
    <3>2. Recomputed(f) = Append(f.prevHash, HashedPart(f, v, f.action, f.payload))
      BY <3>1 DEF Recomputed, EntryHashV1, EntryHashV2, Metadata, HashedPart
    <3>3. HashedPart(f, v, f.action, f.payload) # HashedPart(f, v, a, p)
      BY <3>1 DEF HashedPart
    <3>4. \A x, y : Append(f.prevHash, x) = Append(f.prevHash, y) => x = y
      BY <1>8, AppendToAny
    <3>5. f.entryHash = Append(f.prevHash, HashedPart(f, v, a, p))
      BY <1>6 DEF WrittenAs
    <3>6. QED
      BY <3>2, <3>3, <3>4, <3>5 DEF Changed
  <2>3. QED
    BY <2>1, <2>2
<1>11. QED
  BY <1>3, <1>9, <1>10

\* What the last entry of a chain has to do with a new one.
LEMMA NewRowContinues ==
    ASSUME NEW o, NEW k, NEW h, NEW e, Chained(log, altered),
           \A i \in Ids(o) : log[i].createdAt < e.createdAt,
           \/ Latest(o) = {} /\ h = Genesis
           \/ k \in Latest(o) /\ h = log[k].entryHash,
           e.prevHash = h
    PROVE  Continues(log, e, Of(log, o)) /\ IsSequence(h)
<1>1. /\ Of(log, o) = Ids(o) /\ DOMAIN log = 1 .. Len(log) /\ Len(log) \in Nat
      /\ \A i \in Ids(o) : i \in DOMAIN log /\ log[i].organization = o
  BY AppendToAny DEF Chained, Of, Ids
<1>2. \A i \in DOMAIN log : /\ Len(log[i].prevHash) \in Nat
                            /\ Len(log[i].entryHash) = Len(log[i].prevHash) + 1
                            /\ IsSequence(log[i].entryHash) /\ log[i].createdAt \in Nat
  BY HashIsLonger DEF Chained
<1>3. ASSUME NEW i \in Ids(o), \A j \in Ids(o) : j <= i
      PROVE  Latest(o) = {i}
  <2>1. ASSUME NEW j \in Ids(o), j # i PROVE log[j].createdAt < log[i].createdAt
    <3>1. j < i
      BY <1>1, <1>3, <2>1
    <3>2. QED
      BY <1>1, <3>1, ChainGrows
  <2>2. ASSUME NEW j \in Ids(o) PROVE log[j].createdAt <= log[i].createdAt
    <3>1. log[j].createdAt \in Nat /\ log[i].createdAt \in Nat
      BY <1>1, <1>2
    <3>2. QED
      BY <2>1, <3>1
  <2>3. ASSUME NEW j \in Ids(o), j # i PROVE j \notin Latest(o)
    <3>1. log[j].createdAt \in Nat /\ log[i].createdAt \in Nat
      BY <1>1, <1>2
    <3>2. ~(log[i].createdAt <= log[j].createdAt)
      BY <2>1, <2>3, <3>1
    <3>3. QED
      BY <3>2 DEF Latest
  <2>4. QED
    BY <2>2, <2>3 DEF Latest
<1>4. CASE Ids(o) = {}
  <2>1. Latest(o) = {}
    BY <1>4 DEF Latest
  <2>2. h = Genesis
    BY <2>1
  <2>3. IsSequence(h)
    BY <2>2, EmptySeq DEF Genesis, IsSequence
  <2>4. QED
    BY <1>1, <1>4, <2>2, <2>3 DEF Continues
<1>5. CASE Ids(o) # {}
  <2>1. PICK i \in Ids(o) : \A j \in Ids(o) : j <= i
    BY <1>1, <1>5, LastPlace
  <2>2. Latest(o) = {i} /\ h = log[i].entryHash
    BY <1>3, <2>1
  <2>3. ASSUME NEW j \in Ids(o) PROVE Len(log[j].entryHash) <= Len(h)
    <3>1. CASE j = i
      BY <1>1, <1>2, <2>2, <3>1
    <3>2. CASE j # i
      <4>1. j < i
        BY <1>1, <2>1, <3>2
      <4>2. Len(log[j].entryHash) <= Len(log[i].prevHash)
        BY <1>1, <4>1, ChainGrows
      <4>3. QED
        BY <1>1, <1>2, <2>2, <4>2
    <3>3. QED
      BY <3>1, <3>2
  <2>4. \A j \in Ids(o) : (\A m \in Ids(o) : m <= j) => j = i
    BY <1>1, <2>1
  <2>5. Continues(log, e, Ids(o))
    BY <1>5, <2>2, <2>3, <2>4 DEF Continues
  <2>6. QED
    BY <1>1, <1>2, <2>2, <2>5
<1>6. QED
  BY <1>4, <1>5

\* A call of record that no one disturbs.
LEMMA RecordUndisturbed ==
    ASSUME NEW w, RecordOK(w), writer'[w] = writer[w],
           \A o \in Organizations : lock[o] = {w} =>
              /\ lock'[o] = {w}
              /\ Of(log', o) = Of(log, o)
              /\ \A i \in Of(log, o) : /\ log'[i].createdAt = log[i].createdAt
                                       /\ log'[i].entryHash = log[i].entryHash
    PROVE  RecordOK(w)'
<1>1. CASE writer[w] = NotWriting
  BY <1>1 DEF RecordOK, NotWriting
<1>2. ASSUME NEW o \in Organizations, NEW e \in Events, NEW at \in {"lock", "last"},
             writer[w] = [at |-> at, organization |-> o, event |-> e],
             at = "last" => lock[o] = {w}
      PROVE  RecordOK(w)'
  <2>1. at = "last" => lock'[o] = {w}
    BY <1>2
  <2>2. writer'[w] = [at |-> at, organization |-> o, event |-> e]
    BY <1>2
  <2>3. QED
    BY <2>1, <2>2 DEF RecordOK
<1>3. ASSUME NEW o \in Organizations, NEW e,
             writer[w] = [at |-> "create", organization |-> o, entry |-> e], lock[o] = {w},
             e.organization = o, NewRow(e), Continues(log, e, Of(log, o))
      PROVE  RecordOK(w)'
  <2>1. lock'[o] = {w} /\ Of(log', o) = Of(log, o)
    BY <1>3
  <2>2. Continues(log', e, Of(log, o))
    BY <1>3, ContinuesTheSame
  <2>3. Continues(log', e, Of(log', o))
    BY <2>1, <2>2
  <2>4. writer'[w] = [at |-> "create", organization |-> o, entry |-> e]
    BY <1>3
  <2>5. QED
    BY <1>3, <2>1, <2>3, <2>4 DEF RecordOK
<1>4. QED
  BY <1>1, <1>2, <1>3 DEF RecordOK

\* What a call of record holds, by where it is.
LEMMA RecordIsAt ==
    ASSUME NEW w, RecordOK(w)
    PROVE  /\ writer[w].at # "idle" => writer[w].organization \in Organizations
           /\ writer[w].at = "lock" => \E o \in Organizations, e \in Events :
                 writer[w] = [at |-> "lock", organization |-> o, event |-> e]
           /\ writer[w].at = "last" => \E o \in Organizations, e \in Events :
                 /\ writer[w] = [at |-> "last", organization |-> o, event |-> e]
                 /\ lock[o] = {w}
           /\ writer[w].at = "create" => \E o \in Organizations : \E e :
                 /\ writer[w] = [at |-> "create", organization |-> o, entry |-> e]
                 /\ lock[o] = {w}
                 /\ e.organization = o /\ NewRow(e) /\ Continues(log, e, Of(log, o))
<1> DEFINE c == writer[w]
<1>1. CASE c = NotWriting
  <2>1. c.at = "idle"
    BY <1>1 DEF NotWriting
  <2>2. QED
    BY <2>1
<1>2. CASE \E o \in Organizations, e \in Events, at \in {"lock", "last"} :
              /\ c = [at |-> at, organization |-> o, event |-> e]
              /\ at = "last" => lock[o] = {w}
  <2>1. PICK o \in Organizations, e \in Events, at \in {"lock", "last"} :
           /\ c = [at |-> at, organization |-> o, event |-> e]
           /\ at = "last" => lock[o] = {w}
    BY <1>2
  <2>2. c.at = at /\ c.organization = o
    BY <2>1
  <2>3. CASE at = "lock"
    BY <2>1, <2>2, <2>3
  <2>4. CASE at = "last"
    BY <2>1, <2>2, <2>4
  <2>5. QED
    BY <2>3, <2>4
<1>3. CASE \E o \in Organizations : \E e :
              /\ c = [at |-> "create", organization |-> o, entry |-> e]
              /\ lock[o] = {w}
              /\ e.organization = o /\ NewRow(e) /\ Continues(log, e, Of(log, o))
  <2>1. c.at = "create" /\ c.organization \in Organizations
    BY <1>3
  <2>2. QED
    BY <1>3, <2>1
<1>4. QED
  BY <1>1, <1>2, <1>3 DEF RecordOK

\* The steps of record.
LEMMA RecordKeepsChains ==
    ASSUME OnePerTick, AlterationsShow, ChainInv, NEW w \in Writers,
           \/ \E o \in Organizations, e \in Events : BeginRecord(w, o, e)
           \/ TakeLock(w)
           \/ Build(w)
           \/ Insert(w)
           \/ Rollback(w)
    PROVE  ChainInv'
<1> USE DEF NotWriting
<1>0. RecordOK(w) /\ DOMAIN writer = Writers /\ DOMAIN lock = Organizations
  BY DEF ChainInv
<1>1. ASSUME NEW o \in Organizations, NEW e \in Events, BeginRecord(w, o, e) PROVE ChainInv'
  <2>1. /\ writer' = [writer EXCEPT ![w] = [at |-> "lock", organization |-> o, event |-> e]]
        /\ UNCHANGED <<log, clock, lock, altered>>
    BY <1>1 DEF BeginRecord
  <2>2. RecordOK(w)'
    <3>1. writer'[w] = [at |-> "lock", organization |-> o, event |-> e]
      BY <1>0, <2>1
    <3>2. QED
      BY <3>1 DEF RecordOK
  <2>3. ASSUME NEW v \in Writers, v # w PROVE RecordOK(v)'
    <3>1. RecordOK(v) /\ writer'[v] = writer[v]
      BY <2>1, <2>3 DEF ChainInv
    <3>2. QED
      BY <2>1, <3>1, RecordUndisturbed
  <2>4. QED
    BY <2>1, <2>2, <2>3 DEF ChainInv
<1>2. CASE TakeLock(w)
  <2>1. PICK o \in Organizations, e \in Events :
           writer[w] = [at |-> "lock", organization |-> o, event |-> e]
    <3>1. writer[w].at = "lock"
      BY <1>2 DEF TakeLock
    <3>2. RecordOK(w)
      BY <1>0
    <3>3. QED
      BY <3>1, <3>2, RecordIsAt
  <2>2. /\ lock[o] = {} /\ lock' = [lock EXCEPT ![o] = {w}]
        /\ writer' = [writer EXCEPT ![w] = [at |-> "last", organization |-> o, event |-> e]]
        /\ UNCHANGED <<log, clock, altered>>
    <3>1. [writer[w] EXCEPT !.at = "last"] = [at |-> "last", organization |-> o, event |-> e]
      BY <2>1
    <3>2. lock[o] = {} /\ lock' = [lock EXCEPT ![o] = {} \cup {w}]
      BY <1>0, <1>2, <2>1 DEF TakeLock, LockFree
    <3>3. QED
      BY <1>0, <1>2, <3>1, <3>2 DEF TakeLock
  <2>3. RecordOK(w)'
    <3>1. writer'[w] = [at |-> "last", organization |-> o, event |-> e] /\ lock'[o] = {w}
      BY <1>0, <2>2
    <3>2. QED
      BY <3>1 DEF RecordOK
  <2>4. ASSUME NEW v \in Writers, v # w PROVE RecordOK(v)'
    <3>1. RecordOK(v) /\ writer'[v] = writer[v]
      BY <2>2, <2>4 DEF ChainInv
    <3>2. \A x \in Organizations : lock[x] = {v} => lock'[x] = {v}
      BY <1>0, <2>2
    <3>3. QED
      BY <2>2, <3>1, <3>2, RecordUndisturbed
  <2>5. QED
    BY <1>0, <2>2, <2>3, <2>4 DEF ChainInv
<1>3. CASE Build(w)
  <2>1. PICK o \in Organizations, e \in Events :
           /\ writer[w] = [at |-> "last", organization |-> o, event |-> e]
           /\ lock[o] = {w}
    <3>1. writer[w].at = "last"
      BY <1>3 DEF Build
    <3>2. RecordOK(w)
      BY <1>0
    <3>3. QED
      BY <3>1, <3>2, RecordIsAt
  <2>a. writer[w].organization = o /\ writer[w].event = e
    BY <2>1
  <2>2. /\ \A i \in Ids(o) : log[i].createdAt < clock
        /\ UNCHANGED <<log, clock, lock, altered>>
    BY <1>3, <2>a DEF Build
  <2>3. PICK h : /\ h \in IF Latest(o) = {} THEN {Genesis}
                          ELSE {log[i].entryHash : i \in Latest(o)}
                 /\ writer' = [writer EXCEPT ![w] =
                                  [at |-> "create", organization |-> o,
                                   entry |-> Entry(o, e, h)]]
    BY <1>3, <2>a DEF Build
  <2>4. PICK k : \/ Latest(o) = {} /\ h = Genesis
                 \/ k \in Latest(o) /\ h = log[k].entryHash
    BY <2>3
  <2>5. PICK row : row = Entry(o, e, h)
    OBVIOUS
  <2>6. \A r : r.createdAt = clock /\ r.prevHash = h =>
           Continues(log, r, Of(log, o)) /\ IsSequence(h)
    BY <2>2, <2>4, NewRowContinues DEF ChainInv
  <2>7. IsSequence(h)
    <3>1. [createdAt |-> clock, prevHash |-> h].createdAt = clock
      OBVIOUS
    <3>2. [createdAt |-> clock, prevHash |-> h].prevHash = h
      OBVIOUS
    <3>3. QED
      BY <2>6, <3>1, <3>2
  <2>8. row.organization = o /\ row.prevHash = h /\ row.createdAt = clock /\ NewRow(row)
    <3>1. e.action # "altered" /\ e.payload # "altered" /\ clock \in Nat
      BY DEF ChainInv, AlterationsShow
    <3>2. QED
      BY <2>5, <2>7, <3>1, EntryIsOK
  <2>9. Continues(log, row, Of(log, o))
    BY <2>6, <2>8
  <2>10. RecordOK(w)'
    <3>1. writer'[w] = [at |-> "create", organization |-> o, entry |-> row]
      BY <1>0, <2>3, <2>5
    <3>2. QED
      BY <2>1, <2>2, <2>8, <2>9, <3>1 DEF RecordOK
  <2>11. ASSUME NEW v \in Writers, v # w PROVE RecordOK(v)'
    <3>1. RecordOK(v) /\ writer'[v] = writer[v]
      BY <2>3, <2>11 DEF ChainInv
    <3>2. QED
      BY <2>2, <3>1, RecordUndisturbed
  <2>12. QED
    BY <2>2, <2>3, <2>10, <2>11 DEF ChainInv
<1>4. CASE Insert(w)
  <2>1. PICK o, e :
           /\ o \in Organizations
           /\ writer[w] = [at |-> "create", organization |-> o, entry |-> e] /\ lock[o] = {w}
           /\ e.organization = o /\ NewRow(e) /\ Continues(log, e, Of(log, o))
    BY <1>0, <1>4, RecordIsAt DEF Insert
  <2>2. /\ log' = Append(log, e)
        /\ lock' = [lock EXCEPT ![o] = @ \ {w}]
        /\ writer' = [writer EXCEPT ![w] = NotWriting]
        /\ UNCHANGED <<clock, altered>>
    <3>1. writer[w].organization = o /\ writer[w].entry = e
      BY <2>1
    <3>2. QED
      BY <1>4, <3>1 DEF Insert
  <2>3. /\ Chained(log', altered')
        /\ \A i \in DOMAIN log : log'[i] = log[i]
        /\ \A x : x # o => Of(log', x) = Of(log, x)
    <3>1. Chained(log, altered) /\ Continues(log, e, Of(log, e.organization))
      BY <2>1 DEF ChainInv
    <3>2. /\ Chained(log', altered)
          /\ \A i \in DOMAIN log : log'[i] = log[i]
          /\ \A x : x # e.organization => Of(log', x) = Of(log, x)
      BY <2>1, <2>2, <3>1, InsertKeepsChained
    <3>3. QED
      BY <2>1, <2>2, <3>2
  <2>4. RecordOK(w)'
    BY <1>0, <2>2 DEF RecordOK
  <2>5. ASSUME NEW v \in Writers, v # w PROVE RecordOK(v)'
    <3>1. RecordOK(v) /\ writer'[v] = writer[v]
      BY <2>2, <2>5 DEF ChainInv
    <3>2. ASSUME NEW x \in Organizations, lock[x] = {v}
          PROVE  /\ lock'[x] = {v} /\ Of(log', x) = Of(log, x)
                 /\ \A i \in Of(log, x) : log'[i] = log[i]
      <4>1. x # o
        BY <2>1, <2>5, <3>2
      <4>2. QED
        BY <1>0, <2>2, <2>3, <3>2, <4>1 DEF Of
    <3>3. QED
      BY <3>1, <3>2, RecordUndisturbed
  <2>6. QED
    BY <1>0, <2>2, <2>3, <2>4, <2>5 DEF ChainInv
<1>5. CASE Rollback(w)
  <2>1. /\ \E o \in Organizations : lock' = [lock EXCEPT ![o] = @ \ {w}]
        /\ writer' = [writer EXCEPT ![w] = NotWriting]
        /\ UNCHANGED <<log, clock, altered>>
    BY <1>0, <1>5, RecordIsAt DEF Rollback
  <2>2. RecordOK(w)'
    BY <1>0, <2>1 DEF RecordOK
  <2>3. ASSUME NEW v \in Writers, v # w PROVE RecordOK(v)'
    <3>1. RecordOK(v) /\ writer'[v] = writer[v]
      BY <2>1, <2>3 DEF ChainInv
    <3>2. \A x \in Organizations : lock[x] = {v} => lock'[x] = {v}
      BY <1>0, <2>1, <2>3
    <3>3. QED
      BY <2>1, <3>1, <3>2, RecordUndisturbed
  <2>4. QED
    BY <1>0, <2>1, <2>2, <2>3 DEF ChainInv
<1>6. QED
  BY <1>1, <1>2, <1>3, <1>4, <1>5

\* A row altered behind the service's back.
LEMMA AlterKeepsChains ==
    ASSUME ChainInv, NEW i \in DOMAIN log, Alter(i)
    PROVE  ChainInv'
<1>1. UNCHANGED <<clock, lock, writer>> /\ altered' = altered \cup {i}
  BY DEF Alter
<1>2. IsSequence(log) /\ Chained(log, altered) /\ RowOK(log[i])
  BY DEF ChainInv, Chained
<1>3. PICK row : /\ \/ row = [log[i] EXCEPT !.action = "altered"]
                    \/ log[i].version = 2 /\ row = [log[i] EXCEPT !.payload = "altered"]
                    \/ row = [log[i] EXCEPT !.version = 3]
                 /\ log' = [log EXCEPT ![i] = row]
  BY DEF Alter
<1>4. /\ RowOK(row) /\ Changed(row)
      /\ row.organization = log[i].organization /\ row.createdAt = log[i].createdAt
      /\ row.prevHash = log[i].prevHash /\ row.entryHash = log[i].entryHash
  BY <1>2, <1>3, AlteredRowIsOK
<1>5. /\ Chained(log', altered')
      /\ \A o : /\ Of(log', o) = Of(log, o)
                /\ \A j \in Of(log, o) : /\ log'[j].createdAt = log[j].createdAt
                                         /\ log'[j].entryHash = log[j].entryHash
  BY <1>1, <1>2, <1>3, <1>4, AlterKeepsChained
<1>6. ASSUME NEW w \in Writers PROVE RecordOK(w)'
  <2>1. RecordOK(w) /\ writer'[w] = writer[w]
    BY <1>1 DEF ChainInv
  <2>2. QED
    BY <1>1, <1>5, <2>1, RecordUndisturbed
<1>7. QED
  BY <1>1, <1>5, <1>6 DEF ChainInv

\* The rows of every organization are a chain that nobody else writes to.
THEOREM ChainInvariant ==
    ASSUME OnePerTick, AlterationsShow, LegacyIsAChain
    PROVE  ChainSpec => []ChainInv
<1>1. ChainInit => ChainInv
  <2> SUFFICES ASSUME ChainInit PROVE ChainInv
    OBVIOUS
  <2>1. Chained(log, altered)
    BY DEF ChainInit, LegacyIsAChain
  <2>2. clock \in Nat
    <3>1. Len(Legacy) \in Nat
      BY AppendToAny DEF Chained, LegacyIsAChain
    <3>2. QED
      BY <3>1 DEF ChainInit
  <2>3. QED
    BY <2>1, <2>2 DEF ChainInit, ChainInv, RecordOK
<1>2. ChainInv /\ [ChainNext]_chainVars => ChainInv'
  <2> SUFFICES ASSUME ChainInv, [ChainNext]_chainVars PROVE ChainInv'
    OBVIOUS
  <2>1. CASE Tick \/ UNCHANGED chainVars
    <3>1. UNCHANGED <<log, lock, writer, altered>> /\ clock' \in Nat
      BY <2>1 DEF Tick, chainVars, ChainInv
    <3>2. ASSUME NEW w \in Writers PROVE RecordOK(w)'
      BY <3>1, RecordUndisturbed DEF ChainInv
    <3>3. QED
      BY <3>1, <3>2 DEF ChainInv
  <2>2. CASE \E w \in Writers : \/ \E o \in Organizations, e \in Events : BeginRecord(w, o, e)
                                \/ TakeLock(w)
                                \/ Build(w)
                                \/ Insert(w)
                                \/ Rollback(w)
    BY <2>2, RecordKeepsChains
  <2>3. CASE \E i \in DOMAIN log : Alter(i)
    BY <2>3, AlterKeepsChains
  <2>4. QED
    BY <2>1, <2>2, <2>3 DEF ChainNext
<1>3. QED
  BY <1>1, <1>2, PTL DEF ChainSpec

\* An organization's chain does not fork: no two of its rows are built on the
\* same one.  It rests on the advisory lock, on the order in which record reads
\* and writes, and on the times of the entries being different.
THEOREM ChainStaysWhole ==
    ASSUME OnePerTick, AlterationsShow, LegacyIsAChain
    PROVE  ChainSpec => []ChainDoesNotFork
<1>1. ChainInv => ChainDoesNotFork
  <2> SUFFICES ASSUME ChainInv, NEW o \in Organizations, NEW i \in Ids(o), NEW j \in Ids(o),
                      log[i].prevHash = log[j].prevHash
               PROVE  i = j
    BY DEF ChainDoesNotFork
  <2>1. /\ Chained(log, altered)
        /\ i \in DOMAIN log /\ j \in DOMAIN log /\ i \in Nat /\ j \in Nat
        /\ log[i].organization = log[j].organization
    BY AppendToAny DEF ChainInv, Chained, Ids
  <2>2. /\ Len(log[i].prevHash) \in Nat /\ Len(log[i].entryHash) = Len(log[i].prevHash) + 1
        /\ Len(log[j].prevHash) \in Nat /\ Len(log[j].entryHash) = Len(log[j].prevHash) + 1
    BY <2>1, HashIsLonger DEF Chained
  <2>3. ~(i < j)
    <3>1. i < j => Len(log[i].entryHash) <= Len(log[j].prevHash)
      BY <2>1, ChainGrows
    <3>2. QED
      BY <2>2, <3>1
  <2>4. ~(j < i)
    <3>1. j < i => Len(log[j].entryHash) <= Len(log[i].prevHash)
      BY <2>1, ChainGrows
    <3>2. QED
      BY <2>2, <3>1
  <2>5. QED
    BY <2>1, <2>3, <2>4
<1>2. QED
  BY <1>1, ChainInvariant, PTL

\* Of some places, one is the first.
LEMMA FirstPlace ==
    ASSUME NEW T, T \subseteq Nat, T # {}
    PROVE  \E i \in T : \A j \in T : i <= j
<1> DEFINE R == OpToRel(<, Nat)
<1>1. PICK i \in T : \A j \in T : <<j, i>> \notin R
  <2> HIDE DEF R
  <2>1. IsWellFoundedOn(R, Nat)
    BY NatLessThanWellFounded DEF R
  <2>2. QED
    BY <2>1, WFMin
<1>2. ASSUME NEW j \in T PROVE i <= j
  <2>1. ~(j < i)
    BY <1>1 DEF OpToRel
  <2>2. QED
    BY <2>1
<1>3. QED
  BY <1>2

\* When times differ, the rows of an organization can be read in one order only.
LEMMA ReadInOrder ==
    ASSUME Chained(log, altered), NEW o, NEW s \in Readings(o)
    PROVE  /\ \E n \in Nat : DOMAIN s = 1 .. n
           /\ \A p \in DOMAIN s : s[p] \in Ids(o)
           /\ \A p, q \in DOMAIN s : p < q => s[p] < s[q]
           /\ \A i \in Ids(o) : \E p \in DOMAIN s : s[p] = i
<1> DEFINE D == 1 .. Cardinality(Ids(o))
<1>1. /\ s \in [D -> Ids(o)]
      /\ \A p, q \in D : p # q => s[p] # s[q]
      /\ \A p, q \in D : p < q => log[s[p]].createdAt <= log[s[q]].createdAt
  BY DEF Readings, SetToSeqs
<1>2. /\ DOMAIN log = 1 .. Len(log) /\ Len(log) \in Nat
      /\ \A i \in Ids(o) : i \in DOMAIN log /\ i \in Nat /\ log[i].organization = o
                           /\ log[i].createdAt \in Nat
  BY AppendToAny, HashIsLonger DEF Chained, Ids
<1>3. IsFiniteSet(Ids(o)) /\ Cardinality(Ids(o)) \in Nat
  <2>1. IsFiniteSet(1 .. Len(log)) /\ Ids(o) \subseteq 1 .. Len(log)
    BY <1>2, FS_Interval
  <2>2. QED
    BY <2>1, FS_Subset, FS_CardinalityType
<1>4. \A i \in Ids(o) : \E p \in D : s[p] = i
  <2>1. s \in Injection(D, Ids(o))
    BY <1>1 DEF Injection, IsInjective
  <2>2. Cardinality(D) = Cardinality(Ids(o))
    BY <1>3, FS_Interval
  <2>3. s \in Surjection(D, Ids(o))
    BY <1>3, <2>1, <2>2, FS_Injection
  <2>4. QED
    BY <2>3 DEF Surjection
<1>5. ASSUME NEW p \in D, NEW q \in D, p < q PROVE s[p] < s[q]
  <2>1. s[p] \in Ids(o) /\ s[q] \in Ids(o) /\ s[p] # s[q]
    BY <1>1, <1>3, <1>5
  <2>2. log[s[p]].createdAt <= log[s[q]].createdAt
    BY <1>1, <1>5
  <2>3. s[q] < s[p] => log[s[q]].createdAt < log[s[p]].createdAt
    BY <1>2, <2>1, ChainGrows
  <2>4. QED
    BY <1>2, <2>1, <2>2, <2>3
<1>6. DOMAIN s = D
  BY <1>1
<1>7. QED
  BY <1>1, <1>3, <1>4, <1>5, <1>6

\* The verdict on a row is about what the row holds, never about its place.
LEMMA VerdictOnRow ==
    ASSUME Chained(log, altered), NEW o, NEW s \in Readings(o), NEW p \in DOMAIN s
    PROVE  /\ RowVerdict(s, p) # "linkage"
           /\ RowVerdict(s, p) = "none" <=> s[p] \notin altered
<1> DEFINE row == log[s[p]]
<1>1. PICK n \in Nat : DOMAIN s = 1 .. n
  BY ReadInOrder
<1>2. /\ \A q \in 1 .. n : s[q] \in Ids(o)
      /\ \A q, r \in 1 .. n : q < r => s[q] < s[r]
      /\ \A i \in Ids(o) : \E q \in 1 .. n : s[q] = i
  BY <1>1, ReadInOrder
<1>3. /\ s[p] \in DOMAIN log /\ row.organization = o
      /\ \A i \in Ids(o) : i \in Nat
  <2>1. DOMAIN log = 1 .. Len(log)
    BY AppendToAny DEF Chained
  <2>2. s[p] \in Ids(o)
    BY <1>1, <1>2
  <2>3. QED
    BY <2>1, <2>2 DEF Ids
<1>4. RowOK(row) /\ Continues(log, row, Earlier(log, s[p])) /\ (s[p] \in altered <=> Changed(row))
  BY <1>3 DEF Chained
<1>5. Earlier(log, s[p]) = {i \in Ids(o) : i < s[p]}
  BY <1>3 DEF Earlier, Of, Ids
<1>6. row.prevHash = IF p = 1 THEN Genesis ELSE log[s[p - 1]].entryHash
  <2>1. CASE p = 1
    <3>1. ASSUME NEW i \in Ids(o) PROVE ~(i < s[p])
      <4>1. PICK q \in 1 .. n : s[q] = i
        BY <1>2
      <4>2. q = p \/ p < q
        BY <2>1, <4>1
      <4>3. QED
        BY <1>1, <1>2, <1>3, <4>1, <4>2
    <3>2. Earlier(log, s[p]) = {}
      BY <1>5, <3>1
    <3>3. QED
      BY <1>4, <2>1, <3>2 DEF Continues
  <2>2. CASE p # 1
    <3>1. p - 1 \in 1 .. n /\ p - 1 < p
      BY <1>1, <2>2
    <3>2. s[p - 1] \in Ids(o) /\ s[p - 1] < s[p]
      BY <1>1, <1>2, <3>1
    <3>3. ASSUME NEW i \in Ids(o), i < s[p] PROVE i <= s[p - 1]
      <4>1. PICK q \in 1 .. n : s[q] = i
        BY <1>2
      <4>2. q < p
        <5>1. ~(p < q) /\ p # q
          BY <1>1, <1>2, <1>3, <3>3, <4>1
        <5>2. QED
          BY <1>1, <5>1
      <4>3. q = p - 1 \/ q < p - 1
        BY <1>1, <4>2
      <4>4. QED
        BY <1>2, <1>3, <3>1, <3>2, <4>1, <4>3
    <3>4. s[p - 1] \in Earlier(log, s[p]) /\ \A i \in Earlier(log, s[p]) : i <= s[p - 1]
      BY <1>5, <3>2, <3>3
    <3>5. row.prevHash = log[s[p - 1]].entryHash
      BY <1>4, <3>4 DEF Continues
    <3>6. QED
      BY <2>2, <3>5
  <2>3. QED
    BY <2>1, <2>2
<1>7. row.version \in {1, 2, 3}
  BY <1>4 DEF RowOK, RowType
<1>8. QED
  BY <1>4, <1>6, <1>7 DEF RowVerdict, Changed

\* The verifier accepts a chain nobody altered, and of an altered one it names
\* the first altered row, for its content and never for its place.
THEOREM VerifierIsRight ==
    ASSUME OnePerTick, AlterationsShow, LegacyIsAChain
    PROVE  ChainSpec => []VerificationIsRight
<1>1. ChainInv => VerificationIsRight
  <2> SUFFICES ASSUME ChainInv, NEW o \in Organizations, NEW s \in Readings(o)
               PROVE  LET p == FirstMismatch(s)
                      IN  IF Ids(o) \cap altered = {}
                          THEN p = 0
                          ELSE /\ p # 0
                               /\ s[p] \in altered
                               /\ \A q \in 1 .. (p - 1) : s[q] \notin altered
                               /\ RowVerdict(s, p) # "linkage"
    BY DEF VerificationIsRight
  <2> DEFINE wrong == {p \in DOMAIN s : RowVerdict(s, p) # "none"}
             first == FirstMismatch(s)
  <2>1. Chained(log, altered)
    BY DEF ChainInv
  <2>2. PICK n \in Nat : DOMAIN s = 1 .. n
    BY <2>1, ReadInOrder
  <2>3. wrong = {p \in DOMAIN s : s[p] \in altered}
    BY <2>1, VerdictOnRow
  <2>4. /\ \A p \in DOMAIN s : s[p] \in Ids(o)
        /\ \A i \in Ids(o) : \E p \in DOMAIN s : s[p] = i
    BY <2>1, ReadInOrder
  <2>5. wrong = {} <=> Ids(o) \cap altered = {}
    BY <2>3, <2>4
  <2>6. first = IF wrong = {} THEN 0 ELSE CHOOSE p \in wrong : \A q \in wrong : p <= q
    BY DEF FirstMismatch
  <2> HIDE DEF wrong, first
  <2>7. CASE wrong = {}
    BY <2>5, <2>6, <2>7 DEF first
  <2>8. CASE wrong # {}
    <3>1. wrong \subseteq Nat /\ wrong \subseteq 1 .. n
      BY <2>2, <2>3
    <3>2. \E p \in wrong : \A q \in wrong : p <= q
      BY <2>8, <3>1, FirstPlace
    <3>3. first \in wrong /\ \A q \in wrong : first <= q
      BY <2>6, <2>8, <3>2
    <3>4. first # 0 /\ s[first] \in altered /\ RowVerdict(s, first) # "linkage"
      BY <2>1, <2>2, <2>3, <3>1, <3>3, VerdictOnRow
    <3>5. ASSUME NEW q \in 1 .. (first - 1) PROVE s[q] \notin altered
      <4>1. q \in 1 .. n /\ ~(first <= q)
        BY <3>1, <3>3
      <4>2. q \notin wrong
        BY <3>3, <4>1
      <4>3. QED
        BY <2>2, <2>3, <4>1, <4>2
    <3>6. QED
      BY <2>5, <2>8, <3>4, <3>5 DEF first
  <2>9. QED
    BY <2>7, <2>8
<1>2. QED
  BY <1>1, ChainInvariant, PTL

-----------------------------------------------------------------------------
(* The audit trail: what replaying a sequence of events gives *)

\* The table that FoldLeft computes for a sequence: what the events at the
\* indices in T give, taken in their order.
IsReplay(sequence, D, g) ==
    g = [T \in SUBSET D |->
           IF T = {} THEN Created
           ELSE Applied(g[T \ {Max(T)}], sequence[Max(T)].changes)]

LEMMA LastOfInterval ==
    ASSUME NEW n \in Nat, NEW T \in SUBSET (1 .. n + 1), n + 1 \in T
    PROVE  /\ Max(T) = n + 1
           /\ T \ {Max(T)} \in SUBSET (1 .. n)
           /\ T = 1 .. n + 1 => T \ {Max(T)} = 1 .. n
<1>1. \A m \in T : m \in Int /\ m <= n + 1
  OBVIOUS
<1>2. Max(T) \in T /\ \A m \in T : Max(T) >= m
  <2>1. n + 1 \in T /\ \A m \in T : n + 1 >= m
    BY <1>1
  <2>2. QED
    BY <2>1 DEF Max
<1>3. Max(T) = n + 1
  <2>1. Max(T) \in Int /\ Max(T) <= n + 1 /\ Max(T) >= n + 1
    BY <1>1, <1>2
  <2>2. QED
    BY <2>1
<1>4. QED
  BY <1>3

LEMMA MaxInSet ==
    ASSUME NEW n \in Nat, NEW T \in SUBSET (1 .. n), T # {}
    PROVE  Max(T) \in T
<1> DEFINE gaps == {k \in 0 .. n : n - k \in T}
<1>2. gaps \subseteq Nat /\ gaps # {}
  <2>1. PICK m \in T : m \in 1 .. n
    OBVIOUS
  <2>2. n - m \in 0 .. n /\ n - (n - m) = m
    BY <2>1
  <2>3. n - m \in gaps
    BY <2>1, <2>2
  <2>4. gaps \subseteq Nat
    OBVIOUS
  <2>5. QED
    BY <2>3, <2>4
<1>3. PICK k \in gaps : \A m \in gaps : k <= m
  <2> HIDE DEF gaps
  <2>1. QED
    BY <1>2, LeastOfNat
<1>4. n - k \in T /\ \A m \in T : n - k >= m
  <2>1. n - k \in T /\ k \in 0 .. n
    BY <1>3
  <2>2. ASSUME NEW m \in T PROVE n - k >= m
    <3>1. m \in 1 .. n
      OBVIOUS
    <3>2. n - m \in gaps
      BY <3>1
    <3>3. k <= n - m
      BY <1>3, <3>2
    <3>4. QED
      BY <2>1, <3>1, <3>3
  <2>3. QED
    BY <2>1, <2>2
<1>5. QED
  BY <1>4 DEF Max

\* There is such a table for every sequence, by induction on its length.
LEMMA ReplayExists ==
    ASSUME NEW sequence, NEW n \in Nat
    PROVE  \E g : IsReplay(sequence, 1 .. n, g)
<1> DEFINE bad == {k \in Nat : ~ \E g : IsReplay(sequence, 1 .. k, g)}
<1>1. SUFFICES ASSUME bad # {} PROVE FALSE
  OBVIOUS
<1>2. PICK k \in bad : \A m \in bad : k <= m
  <2>1. bad \subseteq Nat
    OBVIOUS
  <2>2. QED
    BY <1>1, <2>1, LeastOfNat
<1>3. k # 0
  <2>1. ASSUME k = 0 PROVE FALSE
    <3> DEFINE g == [T \in SUBSET (1 .. 0) |-> Created]
    <3>1. \A T \in SUBSET (1 .. 0) : T = {}
      OBVIOUS
    <3>2. IsReplay(sequence, 1 .. 0, g)
      BY <3>1 DEF IsReplay
    <3>3. QED
      BY <1>2, <2>1, <3>2
  <2>2. QED
    BY <2>1
<1>4. PICK j \in Nat : k = j + 1
  BY <1>2, <1>3
<1>5. PICK g : IsReplay(sequence, 1 .. j, g)
  <2>1. j \notin bad
    BY <1>2, <1>4
  <2>2. QED
    BY <2>1
<1>6. DEFINE h == [T \in SUBSET (1 .. j + 1) |->
                     IF j + 1 \in T
                     THEN Applied(g[T \ {j + 1}], sequence[j + 1].changes) ELSE g[T]]
<1>7. IsReplay(sequence, 1 .. j + 1, h)
  <2>1. ASSUME NEW T \in SUBSET (1 .. j + 1)
        PROVE  h[T] = IF T = {} THEN Created
                      ELSE Applied(h[T \ {Max(T)}], sequence[Max(T)].changes)
    <3>1. CASE j + 1 \in T
      <4>1. Max(T) = j + 1 /\ T \ {Max(T)} \in SUBSET (1 .. j)
        BY <3>1, LastOfInterval
      <4>2. h[T \ {j + 1}] = g[T \ {j + 1}]
        BY <4>1
      <4>3. QED
        BY <3>1, <4>1, <4>2
    <3>2. CASE j + 1 \notin T
      <4>1. T \in SUBSET (1 .. j)
        BY <3>2
      <4>2. h[T] = g[T]
        BY <3>2
      <4>3. CASE T # {}
        <5>1. Max(T) \in T
          BY <4>1, <4>3, MaxInSet
        <5>2. h[T \ {Max(T)}] = g[T \ {Max(T)}]
          BY <3>2
        <5>3. g[T] = Applied(g[T \ {Max(T)}], sequence[Max(T)].changes)
          BY <1>5, <4>1, <4>3 DEF IsReplay
        <5>4. QED
          BY <4>2, <4>3, <5>2, <5>3
      <4>4. CASE T = {}
        BY <1>5, <4>1, <4>2, <4>4 DEF IsReplay
      <4>5. QED
        BY <4>3, <4>4
    <3>3. QED
      BY <3>1, <3>2
  <2>2. QED
    BY <2>1 DEF IsReplay
<1>8. QED
  BY <1>2, <1>4, <1>7

LEMMA WholeInterval ==
    ASSUME NEW n \in Nat
    PROVE  /\ 1 .. n + 1 # {}
           /\ Max(1 .. n + 1) = n + 1
           /\ (1 .. n + 1) \ {Max(1 .. n + 1)} = 1 .. n
<1> DEFINE T == 1 .. n + 1
<1>1. n + 1 \in T /\ T \in SUBSET (1 .. n + 1)
  OBVIOUS
<1>2. Max(T) = n + 1 /\ (T = 1 .. n + 1 => T \ {Max(T)} = 1 .. n)
  <2> HIDE DEF T
  <2>1. QED
    BY <1>1, LastOfInterval
<1>3. QED
  BY <1>1, <1>2

\* Two tables agree as far as their sequences do.
LEMMA ReplaysAgree ==
    ASSUME NEW s1, NEW s2, NEW g1, NEW g2, NEW n1 \in Nat, NEW n2 \in Nat,
           IsReplay(s1, 1 .. n1, g1), IsReplay(s2, 1 .. n2, g2),
           NEW n \in Nat, n <= n1, n <= n2, \A i \in 1 .. n : s1[i] = s2[i]
    PROVE  g1[1 .. n] = g2[1 .. n]
<1> DEFINE bad == {k \in 0 .. n : g1[1 .. k] # g2[1 .. k]}
<1>1. SUFFICES ASSUME bad # {} PROVE FALSE
  OBVIOUS
<1>2. PICK k \in bad : \A m \in bad : k <= m
  <2>1. bad \subseteq Nat
    OBVIOUS
  <2>2. QED
    BY <1>1, <2>1, LeastOfNat
<1>3. k # 0
  <2>1. 1 .. 0 = {} /\ {} \in SUBSET (1 .. n1) /\ {} \in SUBSET (1 .. n2)
    OBVIOUS
  <2>2. g1[1 .. 0] = Created /\ g2[1 .. 0] = Created
    BY <2>1 DEF IsReplay
  <2>3. QED
    BY <1>2, <2>2
<1>4. PICK j \in Nat : k = j + 1
  BY <1>2, <1>3
<1>5. g1[1 .. j] = g2[1 .. j]
  BY <1>2, <1>4
<1>6. ASSUME NEW s, NEW g, NEW m \in Nat, IsReplay(s, 1 .. m, g), j + 1 <= m
      PROVE  g[1 .. j + 1] = Applied(g[1 .. j], s[j + 1].changes)
  <2> DEFINE T == 1 .. j + 1
  <2>1. T \in SUBSET (1 .. m)
    <3>1. \A i \in T : i \in Int /\ 1 <= i /\ i <= m
      BY <1>6
    <3>2. QED
      BY <3>1
  <2>2. T # {} /\ Max(T) = j + 1 /\ T \ {Max(T)} = 1 .. j
    BY WholeInterval
  <2>3. g[T] = Applied(g[T \ {Max(T)}], s[Max(T)].changes)
    <3> HIDE DEF T
    <3>1. QED
      BY <1>6, <2>1, <2>2 DEF IsReplay
  <2>4. QED
    BY <2>2, <2>3
<1>7. j + 1 <= n1 /\ j + 1 <= n2 /\ s1[j + 1] = s2[j + 1]
  BY <1>2, <1>4
<1>8. g1[1 .. j + 1] = g2[1 .. j + 1]
  <2>1. g1[1 .. j + 1] = Applied(g1[1 .. j], s1[j + 1].changes)
    BY <1>6, <1>7
  <2>2. g2[1 .. j + 1] = Applied(g2[1 .. j], s2[j + 1].changes)
    BY <1>6, <1>7
  <2>3. QED
    BY <1>5, <1>7, <2>1, <2>2
<1>9. QED
  BY <1>2, <1>4, <1>8

\* What FoldLeft is.
LEMMA ReplayedIsFold ==
    ASSUME NEW sequence, NEW n \in Nat, DOMAIN sequence = 1 .. n
    PROVE  \E g : IsReplay(sequence, 1 .. n, g) /\ Replayed(sequence) = g[1 .. n]
<1>1. PICK g : IsReplay(sequence, 1 .. n, g)
  BY ReplayExists
<1> DEFINE it == CHOOSE h : IsReplay(sequence, DOMAIN sequence, h)
<1>2. IsReplay(sequence, DOMAIN sequence, it)
  BY <1>1
<1>3. Replayed(sequence) = it[DOMAIN sequence]
  BY DEF Replayed, FoldLeft, MapThenFoldSet, IsReplay
<1>4. QED
  BY <1>2, <1>3

\* Replaying no events gives the run as it was created, and the last event of a
\* sequence is applied to what those before it give.
LEMMA ReplayedStep ==
    ASSUME NEW S, NEW sequence \in Seq(S)
    PROVE  /\ Len(sequence) = 0 => Replayed(sequence) = Created
           /\ \A n \in Nat : Len(sequence) = n + 1 =>
                Replayed(sequence) =
                  Applied(Replayed(SubSeq(sequence, 1, n)), sequence[n + 1].changes)
<1>1. ASSUME Len(sequence) = 0 PROVE Replayed(sequence) = Created
  <2>1. DOMAIN sequence = 1 .. 0
    BY <1>1
  <2>2. PICK g : IsReplay(sequence, 1 .. 0, g) /\ Replayed(sequence) = g[1 .. 0]
    BY <2>1, ReplayedIsFold
  <2>3. 1 .. 0 = {}
    OBVIOUS
  <2>4. QED
    BY <2>2, <2>3 DEF IsReplay
<1>2. ASSUME NEW n \in Nat, Len(sequence) = n + 1
      PROVE  Replayed(sequence) =
               Applied(Replayed(SubSeq(sequence, 1, n)), sequence[n + 1].changes)
  <2> DEFINE T == 1 .. n + 1
             before == SubSeq(sequence, 1, n)
  <2>1. DOMAIN sequence = T /\ DOMAIN before = 1 .. n
    BY <1>2
  <2>2. \A i \in 1 .. n : before[i] = sequence[i]
    BY <1>2
  <2>3. PICK g : IsReplay(sequence, T, g) /\ Replayed(sequence) = g[T]
    BY <2>1, ReplayedIsFold
  <2>4. PICK h : IsReplay(before, 1 .. n, h) /\ Replayed(before) = h[1 .. n]
    <3> HIDE DEF before
    <3>1. QED
      BY <2>1, ReplayedIsFold
  <2>5. h[1 .. n] = g[1 .. n]
    <3> HIDE DEF before
    <3>1. n + 1 \in Nat /\ n <= n + 1 /\ n <= n
      OBVIOUS
    <3>2. QED
      BY <2>2, <2>3, <2>4, <3>1, ReplaysAgree
  <2>6. Max(T) = n + 1 /\ T \ {Max(T)} = 1 .. n /\ T # {} /\ T \in SUBSET T
    BY WholeInterval
  <2>7. g[T] = Applied(g[T \ {Max(T)}], sequence[Max(T)].changes)
    <3> HIDE DEF T
    <3>1. QED
      BY <2>3, <2>6 DEF IsReplay
  <2>8. QED
    BY <2>3, <2>4, <2>5, <2>6, <2>7
<1>3. QED
  BY <1>1, <1>2

-----------------------------------------------------------------------------
(* The audit trail: the events tell the history of the run *)

RunStatuses == {"draft", "pending_approval", "approved", "processing", "completed", "cancelled"}

RunRow == [status : RunStatuses, approvedById : {Nobody, Director}, payslips : SUBSET Payees]

SnapshotFields == {"status", "approvedById", "payslipCount"}

FieldValues == RunStatuses \cup {Nobody, Director} \cup {Cardinality(S) : S \in SUBSET Payees}

ChangeSets == UNION {[F -> FieldValues \X FieldValues] : F \in SUBSET SnapshotFields}

RunEventTypes ==
    {"PayrollRunSubmittedForApproval", "PayrollRunRejected", "PayrollRunCancelled",
     "PayrollRunApproved", "PayrollRunProcessingStarted", "PayrollRunProcessed",
     "PayslipGenerated"}

RunEvent == [type : RunEventTypes, changes : ChangeSets]

\* The values an entry has for the changes of an event.
OldSide(changes) == [f \in DOMAIN changes |-> changes[f][1]]

RunEntry == [event : Nat, old : UNION {[F -> FieldValues] : F \in SUBSET SnapshotFields}]

\* An aggregate whose baseline is its state, with the events it has recorded.
InMemory(row, recorded, n) ==
    [at |-> "loaded", state |-> row, baseline |-> Snapshot(row), events |-> recorded, seen |-> n]

RunAggregate == {InMemory(row, <<>>, n) : row \in RunRow, n \in Nat}

\* A sequence of events tells the history that ends with this row: replaying it
\* gives the row, and each event has the old values that those before it left.
Tells(sequence, row) ==
    /\ Replayed(sequence) = Snapshot(row)
    /\ \A i \in DOMAIN sequence : \A f \in DOMAIN sequence[i].changes :
          sequence[i].changes[f][1] = Replayed(SubSeq(sequence, 1, i - 1))[f]

TrailTypeOK ==
    /\ run \in RunRow
    /\ events \in Seq(RunEvent)
    /\ trail \in Seq(RunEntry)
    /\ trailRequest \in [TrailRequests -> {NotLoaded} \cup RunAggregate]
    /\ overtaken \in BOOLEAN

\* A request whose run has not changed since has that run in memory.
UpToDate(q) ==
    trailRequest[q] # NotLoaded =>
        /\ trailRequest[q].seen <= Len(events)
        /\ ~overtaken /\ trailRequest[q].seen = Len(events) => trailRequest[q].state = run

EntryOK(entry) ==
    entry.event \in DOMAIN events /\ entry.old = OldSide(events[entry.event].changes)

TrailInv ==
    /\ TrailTypeOK
    /\ ~overtaken => Tells(events, run)
    /\ \A q \in TrailRequests : UpToDate(q)
    /\ \A n \in DOMAIN trail : EntryOK(trail[n])

LEMMA SnapshotType ==
    ASSUME NEW row \in RunRow
    PROVE  Snapshot(row) \in [SnapshotFields -> FieldValues]
BY DEF RunRow, Snapshot, SnapshotFields, FieldValues

\* Applying the changes between two snapshots to the first gives the second.
LEMMA ChangesApplied ==
    ASSUME NEW from \in RunRow, NEW to \in RunRow
    PROVE  /\ Applied(Snapshot(from), Changes(Snapshot(from), Snapshot(to))) = Snapshot(to)
           /\ Changes(Snapshot(from), Snapshot(to)) \in ChangeSets
           /\ \A f \in DOMAIN Changes(Snapshot(from), Snapshot(to)) :
                 Changes(Snapshot(from), Snapshot(to))[f][1] = Snapshot(from)[f]
<1> DEFINE a == Snapshot(from)
           b == Snapshot(to)
           F == {g \in SnapshotFields : a[g] # b[g]}
<1>1. a \in [SnapshotFields -> FieldValues] /\ b \in [SnapshotFields -> FieldValues]
  BY SnapshotType
<1> HIDE DEF a, b
<1>2. Changes(a, b) = [f \in F |-> <<a[f], b[f]>>]
  BY <1>1 DEF Changes
<1>3. Applied(a, Changes(a, b)) = [f \in SnapshotFields |-> IF f \in F THEN b[f] ELSE a[f]]
  <2>1. \A f \in F : Changes(a, b)[f][2] = b[f]
    BY <1>2
  <2>2. DOMAIN Changes(a, b) = F /\ DOMAIN a = SnapshotFields
    BY <1>1, <1>2
  <2>3. QED
    BY <2>1, <2>2 DEF Applied
<1>4. Applied(a, Changes(a, b)) = b
  <2>1. b = [f \in SnapshotFields |-> b[f]]
    BY <1>1
  <2>2. \A f \in SnapshotFields : (IF f \in F THEN b[f] ELSE a[f]) = b[f]
    OBVIOUS
  <2>3. QED
    BY <1>3, <2>1, <2>2
<1>5. Changes(a, b) \in ChangeSets
  <2>1. F \in SUBSET SnapshotFields
    OBVIOUS
  <2>2. Changes(a, b) \in [F -> FieldValues \X FieldValues]
    BY <1>1, <1>2
  <2>3. QED
    BY <2>1, <2>2 DEF ChangeSets
<1>6. \A f \in DOMAIN Changes(a, b) : Changes(a, b)[f][1] = a[f]
  BY <1>2
<1>7. QED
  BY <1>4, <1>5, <1>6 DEF a, b

\* One more event continues the history.
LEMMA TellsOneMore ==
    ASSUME NEW sequence \in Seq(RunEvent), NEW from \in RunRow, NEW to \in RunRow,
           NEW e \in RunEvent, Tells(sequence, from),
           e.changes = Changes(Snapshot(from), Snapshot(to))
    PROVE  Tells(Append(sequence, e), to)
<1> DEFINE n == Len(sequence)
           longer == Append(sequence, e)
<1>1. /\ n \in Nat /\ Len(longer) = n + 1 /\ DOMAIN longer = 1 .. n + 1 /\ DOMAIN sequence = 1 .. n
      /\ longer[n + 1] = e /\ longer \in Seq(RunEvent)
      /\ \A i \in 1 .. n : longer[i] = sequence[i]
  OBVIOUS
<1>2. \A k \in 0 .. n : SubSeq(longer, 1, k) = SubSeq(sequence, 1, k)
  OBVIOUS
<1>3. SubSeq(sequence, 1, n) = sequence
  OBVIOUS
<1>4. SubSeq(longer, 1, n) = sequence
  BY <1>1, <1>2, <1>3
<1> HIDE DEF longer
<1>5. Replayed(longer) = Snapshot(to)
  <2>1. Replayed(longer) = Applied(Replayed(sequence), e.changes)
    BY <1>1, <1>4, ReplayedStep
  <2>2. Replayed(sequence) = Snapshot(from)
    BY DEF Tells
  <2>3. QED
    BY <2>1, <2>2, ChangesApplied
<1>6. ASSUME NEW i \in DOMAIN longer, NEW f \in DOMAIN longer[i].changes
      PROVE  longer[i].changes[f][1] = Replayed(SubSeq(longer, 1, i - 1))[f]
  <2>1. CASE i = n + 1
    <3>1. i - 1 = n /\ longer[i].changes = Changes(Snapshot(from), Snapshot(to))
      BY <1>1, <2>1
    <3>2. Replayed(SubSeq(longer, 1, i - 1)) = Snapshot(from)
      BY <1>4, <3>1 DEF Tells
    <3>3. QED
      BY <1>6, <3>1, <3>2, ChangesApplied
  <2>2. CASE i \in 1 .. n
    <3>1. i - 1 \in 0 .. n /\ longer[i] = sequence[i]
      BY <1>1, <2>2
    <3>2. SubSeq(longer, 1, i - 1) = SubSeq(sequence, 1, i - 1)
      BY <1>2, <3>1
    <3>3. i \in DOMAIN sequence /\ f \in DOMAIN sequence[i].changes
      BY <1>1, <1>6, <2>2, <3>1
    <3>4. sequence[i].changes[f][1] = Replayed(SubSeq(sequence, 1, i - 1))[f]
      BY <3>3 DEF Tells
    <3>5. QED
      BY <3>1, <3>2, <3>4
  <2>3. QED
    BY <1>1, <2>1, <2>2
<1>7. QED
  BY <1>5, <1>6 DEF Tells, longer

\* The event of a change from one row to another.
Recorded(type, from, to) == [type |-> type, changes |-> Changes(Snapshot(from), Snapshot(to))]

LEMMA RecordedType ==
    ASSUME NEW type \in RunEventTypes, NEW from \in RunRow, NEW to \in RunRow
    PROVE  Recorded(type, from, to) \in RunEvent
BY ChangesApplied DEF Recorded, RunEvent

\* The events of an aggregate with one more.
Then(recorded, e) == Append(recorded, e)

LEMMA AppendToOne ==
    ASSUME NEW a, NEW b
    PROVE  Append(<<a>>, b) = <<a, b>>
<1>1. <<a>> \in Seq({a, b}) /\ Len(<<a>>) = 1 /\ <<a>>[1] = a
  OBVIOUS
<1>2. <<a, b>> \in Seq({a, b}) /\ Len(<<a, b>>) = 2
  OBVIOUS
<1>3. Append(<<a>>, b) \in Seq({a, b}) /\ Len(Append(<<a>>, b)) = 2
  BY <1>1
<1>4. \A i \in 1 .. 2 : Append(<<a>>, b)[i] = <<a, b>>[i]
  BY <1>1
<1>5. QED
  BY <1>2, <1>3, <1>4, SeqEqual

\* A method that mutates an aggregate records what changed since the event
\* before, and leaves its baseline up to date.
LEMMA Mutated ==
    ASSUME NEW state, NEW row, NEW recorded, NEW n, NEW type
    PROVE  Mutate(InMemory(state, recorded, n), type, row) =
             InMemory(row, Then(recorded, Recorded(type, state, row)), n)
<1> DEFINE aggregate == InMemory(state, recorded, n)
           mutated == [aggregate EXCEPT !.state = row]
<1>1. aggregate.baseline = Snapshot(state)
  BY DEF InMemory
<1>2. mutated = [at |-> "loaded", state |-> row, baseline |-> Snapshot(state),
                 events |-> recorded, seen |-> n]
  BY DEF InMemory
<1>3. BaselineAfter(mutated) = Snapshot(row)
  BY <1>2 DEF BaselineAfter
<1>4. Mutate(aggregate, type, row) =
        [mutated EXCEPT !.events = Then(@, Recorded(type, state, row)),
                        !.baseline = Snapshot(row)]
  BY <1>1, <1>3 DEF Mutate, Recorded, Then
<1>5. QED
  <2> HIDE DEF mutated
  <2>1. QED
    BY <1>2, <1>4 DEF InMemory

\* What a command does to the run, and the one or two events it records.
OneStep(from, to, recorded) ==
    \E type \in RunEventTypes : recorded = <<Recorded(type, from, to)>>

TwoSteps(from, to, recorded) ==
    \E between \in RunRow : \E first, second \in RunEventTypes :
        recorded = <<Recorded(first, from, between), Recorded(second, between, to)>>

LEMMA ResultsAreSteps ==
    ASSUME NEW row \in RunRow, NEW n, NEW result \in Results(InMemory(row, <<>>, n))
    PROVE  /\ result.state \in RunRow
           /\ row.payslips \subseteq result.state.payslips
           /\ \/ OneStep(row, result.state, result.events)
              \/ TwoSteps(row, result.state, result.events)
<1> DEFINE aggregate == InMemory(row, <<>>, n)
<1>1. aggregate.state = row
  BY DEF InMemory
<1>2. ASSUME NEW type \in RunEventTypes, NEW to \in RunRow, row.payslips \subseteq to.payslips,
             result = Mutate(aggregate, type, to)
      PROVE  /\ result.state \in RunRow
             /\ row.payslips \subseteq result.state.payslips
             /\ OneStep(row, result.state, result.events)
  <2>1. result = InMemory(to, Then(<<>>, Recorded(type, row, to)), n)
    BY <1>2, Mutated DEF aggregate
  <2>2. result.state = to /\ result.events = <<Recorded(type, row, to)>>
    BY <2>1 DEF InMemory, Then
  <2>3. QED
    BY <1>2, <2>2 DEF OneStep
<1> HIDE DEF aggregate
<1>3. ASSUME NEW status \in RunStatuses
      PROVE  /\ [row EXCEPT !.status = status] \in RunRow
             /\ row.payslips \subseteq [row EXCEPT !.status = status].payslips
  BY DEF RunRow
<1>4. CASE \E move \in StatusMoves : result \in Move(aggregate, move)
  <2>1. PICK move \in StatusMoves : result \in Move(aggregate, move)
    BY <1>4
  <2>2. move.type \in RunEventTypes /\ move.to \in RunStatuses
    BY DEF StatusMoves, RunStatuses, RunEventTypes
  <2>3. result = Mutate(aggregate, move.type, [row EXCEPT !.status = move.to])
    BY <1>1, <2>1 DEF Move, To
  <2>4. QED
    BY <1>2, <1>3, <2>2, <2>3
<1>5. CASE result \in Approve(aggregate)
  <2> DEFINE to == [row EXCEPT !.status = "approved", !.approvedById = Director]
  <2>1. to \in RunRow /\ row.payslips \subseteq to.payslips
    BY DEF RunRow, RunStatuses
  <2>2. result = Mutate(aggregate, "PayrollRunApproved", to)
    BY <1>1, <1>5 DEF Approve
  <2>3. "PayrollRunApproved" \in RunEventTypes
    BY DEF RunEventTypes
  <2>4. QED
    <3> HIDE DEF to
    <3>1. QED
      BY <1>2, <2>1, <2>2, <2>3
<1>6. CASE result \in AddPayslip(aggregate)
  <2>1. PICK p \in Payees \ row.payslips :
          result = Mutate(aggregate, "PayslipGenerated", [row EXCEPT !.payslips = @ \cup {p}])
    BY <1>1, <1>6 DEF AddPayslip
  <2> DEFINE to == [row EXCEPT !.payslips = @ \cup {p}]
  <2>2. to \in RunRow /\ row.payslips \subseteq to.payslips
    BY DEF RunRow
  <2>3. "PayslipGenerated" \in RunEventTypes
    BY DEF RunEventTypes
  <2>4. result = Mutate(aggregate, "PayslipGenerated", to)
    BY <2>1
  <2>5. QED
    <3> HIDE DEF to
    <3>1. QED
      BY <1>2, <2>2, <2>3, <2>4
<1>7. CASE result \in Process(aggregate)
  <2> DEFINE between == [row EXCEPT !.status = "processing"]
             to == [between EXCEPT !.status = "completed"]
             first == Recorded("PayrollRunProcessingStarted", row, between)
             second == Recorded("PayrollRunProcessed", between, to)
  <2>1. between \in RunRow /\ to \in RunRow /\ row.payslips \subseteq to.payslips
    BY DEF RunRow, RunStatuses
  <2>2. To(aggregate, "PayrollRunProcessingStarted", "processing") =
          InMemory(between, Then(<<>>, first), n)
    BY <1>1, Mutated DEF To, aggregate
  <2>3. To(InMemory(between, Then(<<>>, first), n), "PayrollRunProcessed", "completed") =
          InMemory(to, Then(Then(<<>>, first), second), n)
    <3> DEFINE started == InMemory(between, Then(<<>>, first), n)
    <3>1. started.state = between
      BY DEF InMemory
    <3>2. Mutate(started, "PayrollRunProcessed", to) = InMemory(to, Then(Then(<<>>, first), second), n)
      <4> HIDE DEF first, between, to
      <4>1. QED
        BY Mutated
    <3> HIDE DEF started
    <3>3. To(started, "PayrollRunProcessed", "completed") = Mutate(started, "PayrollRunProcessed", to)
      BY <3>1 DEF To
    <3>4. QED
      BY <3>2, <3>3 DEF started
  <2>4. result = InMemory(to, Then(Then(<<>>, first), second), n)
    BY <1>1, <1>7, <2>2, <2>3 DEF Process
  <2>5. result.state = to /\ result.events = <<first, second>>
    <3> HIDE DEF first, second, to
    <3>1. result.state = to /\ result.events = Then(Then(<<>>, first), second)
      BY <2>4 DEF InMemory
    <3>2. Then(<<>>, first) = <<first>>
      BY DEF Then
    <3>3. Then(<<first>>, second) = <<first, second>>
      BY AppendToOne DEF Then
    <3>4. QED
      BY <3>1, <3>2, <3>3
  <2>6. "PayrollRunProcessingStarted" \in RunEventTypes /\ "PayrollRunProcessed" \in RunEventTypes
    BY DEF RunEventTypes
  <2>7. TwoSteps(row, to, <<first, second>>)
    <3> HIDE DEF between, to
    <3>1. QED
      BY <2>1, <2>6 DEF TwoSteps
  <2>8. QED
    <3> HIDE DEF between, to, first, second
    <3>1. QED
      BY <2>1, <2>5, <2>7
<1>8. \/ \E move \in StatusMoves : result \in Move(aggregate, move)
      \/ result \in Approve(aggregate)
      \/ result \in Process(aggregate)
      \/ result \in AddPayslip(aggregate)
  BY DEF Results, aggregate
<1>9. QED
  BY <1>4, <1>5, <1>6, <1>7, <1>8

LEMMA CreatedIsReplayed ==
    ASSUME TrailInit
    PROVE  TrailInv
<1>1. run \in RunRow
  BY DEF TrailInit, RunRow, RunStatuses
<1>2. TrailTypeOK
  <2>1. events = <<>> /\ trail = <<>> /\ overtaken = FALSE
    BY DEF TrailInit
  <2>2. trailRequest \in [TrailRequests -> {NotLoaded} \cup RunAggregate]
    BY DEF TrailInit
  <2>3. events \in Seq(RunEvent)
    BY <2>1
  <2>4. trail \in Seq(RunEntry)
    BY <2>1
  <2>5. QED
    BY <1>1, <2>1, <2>2, <2>3, <2>4 DEF TrailTypeOK
<1>3. Tells(events, run)
  <2>1. events = <<>> /\ events \in Seq(RunEvent) /\ Len(events) = 0
    BY DEF TrailInit
  <2>2. Replayed(events) = Created
    BY <2>1, ReplayedStep
  <2>3. Snapshot(run) = Created
    BY FS_EmptySet DEF TrailInit, Snapshot, Created
  <2>4. QED
    BY <2>1, <2>2, <2>3 DEF Tells
<1>4. \A q \in TrailRequests : UpToDate(q)
  BY DEF TrailInit, UpToDate
<1>5. QED
  BY <1>2, <1>3, <1>4 DEF TrailInv, TrailInit

\* One or two events more continue the history, and leave what is there as it is.
LEMMA TellsTheResult ==
    ASSUME NEW sequence \in Seq(RunEvent), NEW from \in RunRow, NEW to \in RunRow, NEW recorded,
           OneStep(from, to, recorded) \/ TwoSteps(from, to, recorded)
    PROVE  /\ sequence \o recorded \in Seq(RunEvent)
           /\ Len(sequence \o recorded) > Len(sequence)
           /\ \A i \in DOMAIN sequence :
                 i \in DOMAIN (sequence \o recorded) /\ (sequence \o recorded)[i] = sequence[i]
           /\ Tells(sequence, from) => Tells(sequence \o recorded, to)
<1>1. recorded \in Seq(RunEvent) /\ Len(recorded) > 0
  <2>1. CASE OneStep(from, to, recorded)
    BY <2>1, RecordedType DEF OneStep
  <2>2. CASE TwoSteps(from, to, recorded)
    BY <2>2, RecordedType DEF TwoSteps
  <2>3. QED
    BY <2>1, <2>2
<1>2. ASSUME Tells(sequence, from) PROVE Tells(sequence \o recorded, to)
  <2>1. CASE OneStep(from, to, recorded)
    <3>1. PICK type \in RunEventTypes : recorded = <<Recorded(type, from, to)>>
      BY <2>1 DEF OneStep
    <3> DEFINE e == Recorded(type, from, to)
    <3>2. e \in RunEvent /\ e.changes = Changes(Snapshot(from), Snapshot(to))
      BY RecordedType DEF Recorded
    <3> HIDE DEF e
    <3>3. Tells(Append(sequence, e), to)
      BY <1>2, <3>2, TellsOneMore
    <3>4. sequence \o <<e>> = Append(sequence, e)
      BY <3>2, AppendIsConcat
    <3>5. QED
      BY <3>1, <3>3, <3>4 DEF e
  <2>2. CASE TwoSteps(from, to, recorded)
    <3>1. PICK between \in RunRow, first \in RunEventTypes, second \in RunEventTypes :
            recorded = <<Recorded(first, from, between), Recorded(second, between, to)>>
      BY <2>2 DEF TwoSteps
    <3> DEFINE e == Recorded(first, from, between)
               f == Recorded(second, between, to)
    <3>2. /\ e \in RunEvent /\ e.changes = Changes(Snapshot(from), Snapshot(between))
          /\ f \in RunEvent /\ f.changes = Changes(Snapshot(between), Snapshot(to))
      BY RecordedType DEF Recorded
    <3>3. recorded = <<e, f>>
      BY <3>1
    <3> HIDE DEF e, f
    <3>4. Append(sequence, e) \in Seq(RunEvent)
      BY <3>2
    <3>5. Tells(Append(sequence, e), between)
      BY <1>2, <3>2, TellsOneMore
    <3>6. Tells(Append(Append(sequence, e), f), to)
      BY <3>2, <3>4, <3>5, TellsOneMore
    <3>7. sequence \o <<e, f>> = Append(Append(sequence, e), f)
      <4>1. Append(sequence, e) = sequence \o <<e>>
        BY <3>2, AppendIsConcat
      <4>2. Append(Append(sequence, e), f) = (sequence \o <<e>>) \o <<f>>
        BY <3>2, <3>4, <4>1, AppendIsConcat
      <4>3. (sequence \o <<e>>) \o <<f>> = sequence \o (<<e>> \o <<f>>)
        BY <3>2, ConcatAssociative
      <4>4. <<e>> \o <<f>> = <<e, f>>
        <5>1. <<e>> \in Seq(RunEvent)
          BY <3>2
        <5>2. Append(<<e>>, f) = <<e>> \o <<f>>
          BY <3>2, <5>1, AppendIsConcat
        <5>3. QED
          BY <5>2, AppendToOne
      <4>5. QED
        BY <4>2, <4>3, <4>4
    <3>8. QED
      BY <3>3, <3>6, <3>7
  <2>3. QED
    BY <2>1, <2>2
<1>3. QED
  BY <1>1, <1>2

LEMMA SaveTells ==
    ASSUME TrailInv, NEW q \in TrailRequests, Save(q)
    PROVE  TrailInv'
<1>1. PICK result \in Results(trailRequest[q]) :
        /\ run' = [result.state EXCEPT !.payslips = @ \cup run.payslips]
        /\ events' = events \o result.events
  BY DEF Save
<1>2. PICK row \in RunRow, n \in Nat : trailRequest[q] = InMemory(row, <<>>, n)
  BY DEF TrailInv, TrailTypeOK, RunAggregate, Save
<1>3. trailRequest[q].state = row /\ trailRequest[q].seen = n
  BY <1>2 DEF InMemory
<1> DEFINE to == result.state
<1>4. /\ to \in RunRow
      /\ row.payslips \subseteq to.payslips
      /\ OneStep(row, to, result.events) \/ TwoSteps(row, to, result.events)
  BY <1>1, <1>2, ResultsAreSteps
<1>5. events \in Seq(RunEvent) /\ run \in RunRow
  BY DEF TrailInv, TrailTypeOK
<1>6. /\ events' \in Seq(RunEvent)
      /\ Len(events') > Len(events)
      /\ \A i \in DOMAIN events : i \in DOMAIN events' /\ events'[i] = events[i]
      /\ Tells(events, row) => Tells(events', to)
  <2> HIDE DEF to
  <2>1. QED
    BY <1>1, <1>4, <1>5, TellsTheResult DEF to
<1>7. TrailTypeOK'
  <2>1. run' \in RunRow
    <3> HIDE DEF to
    <3>1. run' = [to EXCEPT !.payslips = @ \cup run.payslips]
      BY <1>1 DEF to
    <3>2. QED
      BY <1>4, <1>5, <3>1 DEF RunRow
  <2>2. trailRequest' \in [TrailRequests -> {NotLoaded} \cup RunAggregate] /\ overtaken' \in BOOLEAN
    BY DEF Save, TrailInv, TrailTypeOK
  <2>3. trail' = trail
    BY DEF Save
  <2>4. QED
    BY <1>6, <2>1, <2>2, <2>3 DEF TrailInv, TrailTypeOK
<1>8. ASSUME ~overtaken' PROVE Tells(events', run')
  <2>1. ~overtaken /\ n = Len(events)
    BY <1>3, <1>8 DEF Save, TrailInv, TrailTypeOK
  <2>2. row = run
    BY <1>3, <2>1 DEF Save, TrailInv, UpToDate
  <2>3. run' = to
    <3>1. to.payslips \cup run.payslips = to.payslips
      BY <1>4, <2>2
    <3>2. run' = [to EXCEPT !.payslips = to.payslips]
      BY <1>1, <3>1
    <3>3. [to EXCEPT !.payslips = to.payslips] = to
      BY <1>4 DEF RunRow
    <3>4. QED
      BY <3>2, <3>3
  <2>4. Tells(events, row)
    BY <2>1, <2>2 DEF TrailInv
  <2>5. QED
    BY <1>6, <2>3, <2>4
<1>9. ASSUME NEW p \in TrailRequests PROVE UpToDate(p)'
  <2>1. CASE trailRequest'[p] = NotLoaded
    BY <2>1 DEF UpToDate
  <2>2. CASE trailRequest'[p] # NotLoaded
    <3>1. p # q /\ trailRequest'[p] = trailRequest[p]
      BY <2>2 DEF Save, TrailInv, TrailTypeOK
    <3>2. trailRequest[p].seen <= Len(events) /\ trailRequest[p].seen \in Nat
      <4>1. PICK other \in RunRow, m \in Nat : trailRequest[p] = InMemory(other, <<>>, m)
        BY <2>2, <3>1 DEF TrailInv, TrailTypeOK, RunAggregate
      <4>2. trailRequest[p].seen \in Nat
        BY <4>1 DEF InMemory
      <4>3. QED
        BY <2>2, <3>1, <4>2 DEF TrailInv, UpToDate
    <3>3. Len(events) \in Nat /\ Len(events') \in Nat
      BY <1>5, <1>6
    <3>4. trailRequest[p].seen < Len(events')
      BY <1>6, <3>2, <3>3
    <3>5. QED
      BY <3>1, <3>2, <3>3, <3>4 DEF UpToDate
  <2>3. QED
    BY <2>1, <2>2
<1>10. ASSUME NEW m \in DOMAIN trail' PROVE EntryOK(trail[m])'
  <2>1. trail' = trail
    BY DEF Save
  <2>2. EntryOK(trail[m])
    BY <1>10, <2>1 DEF TrailInv
  <2>3. QED
    BY <1>6, <2>1, <2>2 DEF EntryOK
<1>11. QED
  BY <1>7, <1>8, <1>9, <1>10 DEF TrailInv

LEMMA TrailStep ==
    ASSUME TrailInv, [TrailNext]_trailVars
    PROVE  TrailInv'
<1> USE DEF TrailInv
<1>1. ASSUME NEW q \in TrailRequests, Load(q) PROVE TrailInv'
  <2>1. /\ UNCHANGED <<run, events, trail, overtaken>>
        /\ trailRequest' = [trailRequest EXCEPT ![q] = InMemory(run, <<>>, Len(events))]
    BY <1>1 DEF Load, Loaded, InMemory
  <2>2. Len(events) \in Nat /\ run \in RunRow
    BY DEF TrailTypeOK
  <2>3. InMemory(run, <<>>, Len(events)) \in RunAggregate
    BY <2>2 DEF RunAggregate
  <2>4. TrailTypeOK'
    BY <2>1, <2>3 DEF TrailTypeOK
  <2>5. ASSUME NEW p \in TrailRequests PROVE UpToDate(p)'
    <3>1. CASE p = q
      <4>1. trailRequest'[p] = InMemory(run, <<>>, Len(events))
        BY <2>1, <3>1 DEF TrailTypeOK
      <4>2. trailRequest'[p].seen = Len(events) /\ trailRequest'[p].state = run
        BY <4>1 DEF InMemory
      <4>3. QED
        BY <2>1, <2>2, <4>2 DEF UpToDate
    <3>2. CASE p # q
      BY <2>1, <3>2 DEF UpToDate, TrailTypeOK
    <3>3. QED
      BY <3>1, <3>2
  <2>6. QED
    BY <2>1, <2>4, <2>5 DEF EntryOK
<1>2. ASSUME NEW q \in TrailRequests, Save(q) PROVE TrailInv'
  BY <1>2, SaveTells
<1>3. ASSUME NEW q \in TrailRequests, RolledBack(q) PROVE TrailInv'
  <2>1. /\ UNCHANGED <<run, events, trail, overtaken>>
        /\ trailRequest' = [trailRequest EXCEPT ![q] = NotLoaded]
    BY <1>3 DEF RolledBack
  <2>2. TrailTypeOK'
    BY <2>1 DEF TrailTypeOK
  <2>3. \A p \in TrailRequests : UpToDate(p)'
    BY <2>1 DEF UpToDate, TrailTypeOK
  <2>4. QED
    BY <2>1, <2>2, <2>3 DEF EntryOK
<1>4. ASSUME NEW i \in DOMAIN events, Audit(i) PROVE TrailInv'
  <2> DEFINE entry == [event |-> i, old |-> OldSide(events[i].changes)]
  <2>1. UNCHANGED <<run, events, trailRequest, overtaken>> /\ trail' = Append(trail, entry)
    BY <1>4 DEF Audit, OldSide
  <2>2. i \in Nat /\ events[i] \in RunEvent
    BY DEF TrailTypeOK
  <2>3. entry \in RunEntry
    <3>1. PICK F \in SUBSET SnapshotFields : events[i].changes \in [F -> FieldValues \X FieldValues]
      BY <2>2 DEF RunEvent, ChangeSets
    <3>2. OldSide(events[i].changes) \in [F -> FieldValues]
      BY <3>1 DEF OldSide
    <3>3. QED
      BY <2>2, <3>2 DEF RunEntry
  <2>4. EntryOK(entry)
    BY DEF EntryOK
  <2> HIDE DEF entry
  <2>5. TrailTypeOK'
    BY <2>1, <2>3 DEF TrailTypeOK
  <2>6. ASSUME NEW n \in DOMAIN trail' PROVE EntryOK(trail[n])'
    <3>1. trail'[n] = entry \/ (n \in DOMAIN trail /\ trail'[n] = trail[n])
      BY <2>1, <2>3 DEF TrailTypeOK
    <3>2. EntryOK(trail'[n])
      BY <2>4, <3>1
    <3>3. QED
      BY <2>1, <3>2 DEF EntryOK
  <2>7. QED
    BY <2>1, <2>5, <2>6 DEF UpToDate
<1>5. CASE UNCHANGED trailVars
  BY <1>5 DEF trailVars, TrailTypeOK, UpToDate, EntryOK
<1>6. QED
  BY <1>1, <1>2, <1>3, <1>4, <1>5 DEF TrailNext

\* diffAgainstBaseline loses nothing: as long as no request saves a run that
\* changed since it was loaded, replaying the events of a run gives its row, and
\* AuditSubscriber's old values are what the events before left.
THEOREM TrailTellsHistory == TrailSpec => []TrailReplays
<1>1. TrailInit => TrailInv
  BY CreatedIsReplayed
<1>2. TrailInv /\ [TrailNext]_trailVars => TrailInv'
  BY TrailStep
<1>3. TrailInv => TrailReplays
  <2>1. SUFFICES ASSUME TrailInv, ~overtaken PROVE TrailReplays
    BY DEF TrailReplays
  <2>2. events \in Seq(RunEvent) /\ Tells(events, run)
    BY <2>1 DEF TrailInv, TrailTypeOK
  <2>3. SubSeq(events, 1, Len(events)) = events
    BY <2>2
  <2>4. RunAfter(Len(events)) = Snapshot(run)
    BY <2>2, <2>3 DEF RunAfter, Tells
  <2>5. ASSUME NEW n \in DOMAIN trail, NEW f \in DOMAIN trail[n].old
        PROVE  trail[n].old[f] = RunAfter(trail[n].event - 1)[f]
    <3> DEFINE i == trail[n].event
    <3>1. i \in DOMAIN events /\ trail[n].old = OldSide(events[i].changes)
      BY <2>1 DEF TrailInv, EntryOK
    <3>2. f \in DOMAIN events[i].changes /\ trail[n].old[f] = events[i].changes[f][1]
      BY <2>5, <3>1 DEF OldSide
    <3>3. QED
      BY <2>2, <3>1, <3>2 DEF Tells, RunAfter
  <2>6. QED
    BY <2>4, <2>5 DEF TrailReplays
<1>4. QED
  BY <1>1, <1>2, <1>3, PTL DEF TrailSpec

-----------------------------------------------------------------------------
(* Listing: the order of the rows *)

ListRow == [id : RowIds, time : Nat]

\* What comes before a row, among others.
Ahead(r, rows) == {s \in rows : Newer(s, r)}

LEMMA OrderOfRows ==
    ASSUME NEW rows, rows \subseteq ListRow
    PROVE  /\ \A r \in rows : ~Newer(r, r)
           /\ \A r, s \in rows : r = s \/ Newer(r, s) \/ Newer(s, r)
           /\ \A r, s, t \in rows : Newer(r, s) /\ Newer(s, t) => Newer(r, t)
<1>1. \A r \in rows : r.id \in Nat /\ r.time \in Nat
  BY PagesHaveRows DEF ListRow
<1>2. \A r, s \in rows : r.id = s.id /\ r.time = s.time => r = s
  BY DEF ListRow
<1>3. QED
  BY <1>1, <1>2 DEF Newer

\* Rows ahead of a row are fewer than those ahead of a later one.
LEMMA AheadGrows ==
    ASSUME NEW rows, rows \subseteq ListRow, IsFiniteSet(rows),
           NEW r \in rows, NEW s \in rows, Newer(s, r)
    PROVE  /\ Cardinality(Ahead(r, rows)) \in Nat
           /\ Cardinality(Ahead(s, rows)) \in Nat
           /\ Cardinality(Ahead(s, rows)) < Cardinality(Ahead(r, rows))
<1>1. /\ Ahead(s, rows) \subseteq Ahead(r, rows)
      /\ s \in Ahead(r, rows) /\ s \notin Ahead(s, rows)
      /\ Ahead(r, rows) \subseteq rows
  BY OrderOfRows DEF Ahead
<1>2. /\ IsFiniteSet(Ahead(r, rows))
      /\ Ahead(s, rows) \subseteq Ahead(r, rows) \ {s}
  BY <1>1, FS_Subset
<1>3. /\ IsFiniteSet(Ahead(r, rows) \ {s})
      /\ Cardinality(Ahead(r, rows) \ {s}) = Cardinality(Ahead(r, rows)) - 1
  BY <1>1, <1>2, FS_RemoveElement
<1>4. /\ IsFiniteSet(Ahead(s, rows))
      /\ Cardinality(Ahead(s, rows)) <= Cardinality(Ahead(r, rows) \ {s})
  BY <1>2, <1>3, FS_Subset
<1>5. Cardinality(Ahead(r, rows)) \in Nat /\ Cardinality(Ahead(s, rows)) \in Nat
  BY <1>2, <1>4, FS_CardinalityType
<1>6. QED
  BY <1>3, <1>4, <1>5

\* A page has a last row; what is left out comes after it.
LEMMA PageHasLast ==
    ASSUME NEW rows, rows \subseteq ListRow, IsFiniteSet(rows), rows # {}
    PROVE  /\ \E r \in FirstOf(Limit, rows) :
                 \A s \in FirstOf(Limit, rows) \ {r} : Newer(s, r)
           /\ \A r \in FirstOf(Limit, rows), s \in rows \ FirstOf(Limit, rows) : Newer(r, s)
<1> DEFINE ahead(r) == Cardinality(Ahead(r, rows))
           page == FirstOf(Limit, rows)
<1>1. page = {r \in rows : ahead(r) < Limit}
  BY DEF FirstOf, Ahead
<1>2. \A r \in rows : ahead(r) \in Nat
  <2>1. \A r \in rows : IsFiniteSet(Ahead(r, rows))
    BY FS_Subset DEF Ahead
  <2>2. QED
    BY <2>1, FS_CardinalityType
<1>3. \A r, s \in rows : Newer(s, r) => ahead(s) < ahead(r)
  BY AheadGrows
<1>4. \A r, s \in rows : r = s \/ Newer(r, s) \/ Newer(s, r)
  BY OrderOfRows
<1> HIDE DEF ahead, page
<1>5. page # {}
  <2>1. {ahead(r) : r \in rows} \subseteq Nat /\ {ahead(r) : r \in rows} # {}
    BY <1>2
  <2>2. PICK r \in rows : \A s \in rows : ahead(r) <= ahead(s)
    <3> DEFINE counts == {ahead(r) : r \in rows}
    <3>1. PICK n \in counts : \A m \in counts : n <= m
      <4> HIDE DEF counts
      <4>1. counts \subseteq Nat /\ counts # {}
        BY <2>1 DEF counts
      <4>2. QED
        BY <4>1, LeastOfNat
    <3>2. QED
      BY <3>1
  <2>3. ahead(r) = 0
    <3>1. SUFFICES ASSUME ahead(r) # 0 PROVE FALSE
      OBVIOUS
    <3>2. Ahead(r, rows) # {}
      BY <3>1, FS_EmptySet DEF ahead
    <3>3. PICK s \in rows : Newer(s, r)
      BY <3>2 DEF Ahead
    <3>4. QED
      BY <1>2, <1>3, <2>2, <3>3
  <2>4. QED
    BY <1>1, <2>3, PagesHaveRows
<1>6. \A r \in page, s \in rows \ page : Newer(r, s)
  <2>1. SUFFICES ASSUME NEW r \in page, NEW s \in rows \ page, ~Newer(r, s) PROVE FALSE
    OBVIOUS
  <2>2. r \in rows /\ ahead(r) < Limit /\ ~(ahead(s) < Limit) /\ r # s
    BY <1>1, <2>1
  <2>3. Newer(s, r)
    BY <1>4, <2>1, <2>2
  <2>4. QED
    BY <1>2, <1>3, <2>2, <2>3, PagesHaveRows
<1>7. \E r \in page : \A s \in page \ {r} : Newer(s, r)
  <2> DEFINE behind == {Limit - ahead(r) : r \in page}
  <2>1. behind \subseteq Nat /\ behind # {}
    BY <1>1, <1>2, <1>5, PagesHaveRows
  <2>2. PICK n \in behind : \A m \in behind : n <= m
    <3> HIDE DEF behind
    <3>1. QED
      BY <2>1, LeastOfNat
  <2>3. PICK r \in page : n = Limit - ahead(r)
    BY <2>2
  <2>4. \A s \in page : Limit - ahead(r) <= Limit - ahead(s)
    BY <2>2, <2>3
  <2>5. \A s \in page : ahead(s) <= ahead(r)
    BY <1>1, <1>2, <2>4, PagesHaveRows
  <2>6. ASSUME NEW s \in page \ {r}
        PROVE  Newer(s, r)
    <3>1. r \in rows /\ s \in rows /\ ahead(s) <= ahead(r)
      BY <1>1, <2>5
    <3>2. ~Newer(r, s)
      BY <1>2, <1>3, <3>1
    <3>3. QED
      BY <1>4, <2>6, <3>1, <3>2
  <2>7. QED
    BY <2>3, <2>6
<1>8. QED
  BY <1>6, <1>7 DEF page

\* A page that is not followed by another one has all the rows.
LEMMA LastPageHasRest ==
    ASSUME NEW rows, rows \subseteq ListRow, IsFiniteSet(rows), ~(Cardinality(rows) > Limit)
    PROVE  FirstOf(Limit, rows) = rows
<1>1. SUFFICES ASSUME NEW r \in rows PROVE Cardinality(Ahead(r, rows)) < Limit
  BY DEF FirstOf, Ahead
<1>2. Ahead(r, rows) \subseteq rows \ {r}
  BY OrderOfRows DEF Ahead
<1>3. IsFiniteSet(rows \ {r}) /\ Cardinality(rows \ {r}) = Cardinality(rows) - 1
  BY FS_RemoveElement
<1>4. IsFiniteSet(Ahead(r, rows)) /\ Cardinality(Ahead(r, rows)) <= Cardinality(rows \ {r})
  BY <1>2, <1>3, FS_Subset
<1>5. Cardinality(rows) \in Nat /\ Cardinality(Ahead(r, rows)) \in Nat
  BY <1>4, FS_CardinalityType
<1>6. QED
  BY <1>3, <1>4, <1>5, PagesHaveRows

Later(r, rows) == {s \in rows : s.time > r.time}

Alone(r, rows) == \A s \in rows : s.time = r.time => s = r

\* Where a row with a time of its own is, when rows are ordered by time alone.
LEMMA LeadingRows ==
    ASSUME NEW rows, rows \subseteq ListRow, IsFiniteSet(rows), NEW n \in Nat,
           NEW first \in Leading(n, rows), NEW r \in rows, Alone(r, rows)
    PROVE  /\ r \in first => Cardinality(Later(r, rows)) < n
           /\ r \notin first => /\ Cardinality(first) = n
                                /\ first \subseteq Later(r, rows)
<1>1. /\ first \subseteq rows
      /\ Cardinality(first) = IF n > Cardinality(rows) THEN Cardinality(rows) ELSE n
      /\ \A s \in first, t \in rows \ first : s.time >= t.time
  BY DEF Leading
<1>2. /\ IsFiniteSet(first) /\ Cardinality(first) \in Nat
      /\ Cardinality(rows) \in Nat
      /\ Cardinality(first) = Cardinality(rows) => first = rows
  BY <1>1, FS_Subset, FS_CardinalityType
<1>3. \A s \in rows : s.time \in Nat
  BY DEF ListRow
<1>4. ASSUME r \in first
      PROVE  Cardinality(Later(r, rows)) < n
  <2>1. Later(r, rows) \subseteq first \ {r}
    BY <1>1, <1>3, <1>4 DEF Later
  <2>2. IsFiniteSet(first \ {r}) /\ Cardinality(first \ {r}) = Cardinality(first) - 1
    BY <1>2, <1>4, FS_RemoveElement
  <2>3. IsFiniteSet(Later(r, rows)) /\ Cardinality(Later(r, rows)) <= Cardinality(first \ {r})
    BY <2>1, <2>2, FS_Subset
  <2>4. Cardinality(Later(r, rows)) \in Nat
    BY <2>3, FS_CardinalityType
  <2>5. QED
    BY <1>1, <1>2, <2>2, <2>3, <2>4
<1>5. ASSUME r \notin first
      PROVE  Cardinality(first) = n /\ first \subseteq Later(r, rows)
  <2>1. Cardinality(first) = n
    BY <1>1, <1>2, <1>5
  <2>2. first \subseteq Later(r, rows)
    BY <1>1, <1>3, <1>5 DEF Later, Alone
  <2>3. QED
    BY <2>1, <2>2
<1>6. QED
  BY <1>4, <1>5

-----------------------------------------------------------------------------
(* Listing: the walks *)

ListTypes ==
    /\ scheme \in {"cursor", "offset"}
    /\ stage \in {"start", "middle", "end"}
    /\ now \in Nat /\ offset \in Nat
    /\ listed \subseteq ListRow /\ IsFiniteSet(listed)
    /\ start \subseteq ListRow
    /\ shown \in [RowIds -> Nat]
    /\ \A r, s \in listed \cup start : r.id = s.id => r = s

\* With a cursor: what was shown is not after it, and what is still to be is.
CursorInv ==
    scheme = "cursor" =>
        /\ \A i \in RowIds : shown[i] <= 1
        /\ stage = "start" => start = {} /\ \A i \in RowIds : shown[i] = 0
        /\ stage = "middle" => last \in ListRow /\ \A r \in listed : shown[r.id] > 0 => ~Newer(last, r)
        /\ \A r \in start \cap listed : shown[r.id] > 0 \/ (stage = "middle" /\ Newer(last, r))

\* With an offset: what is still to be shown is not before it.
OffsetInv ==
    scheme = "offset" =>
        /\ start \subseteq listed
        /\ stage = "start" => start = {} /\ offset = 0
        /\ \A r \in start :
              \/ shown[r.id] > 0 \/ Tied(r)
              \/ stage = "middle" /\ offset <= Cardinality(Later(r, listed))

WalkInv == ListTypes /\ CursorInv /\ OffsetInv

LEMMA WalkInit == ListInit => WalkInv
  BY FS_EmptySet DEF ListInit, WalkInv, ListTypes, CursorInv, OffsetInv

\* What a page does to the counts.
LEMMA Shown ==
    ASSUME ListTypes, NEW page, page \subseteq listed, Show(page)
    PROVE  /\ shown' \in [RowIds -> Nat]
           /\ \A r \in page : shown'[r.id] = shown[r.id] + 1
           /\ \A r \in listed \ page : shown'[r.id] = shown[r.id]
           /\ \A i \in RowIds : shown'[i] # shown[i] => \E r \in page : r.id = i /\ shown'[i] = shown[i] + 1
           /\ \A i \in RowIds : shown'[i] >= shown[i]
<1>1. \A r \in listed : r.id \in RowIds
  BY DEF ListTypes, ListRow
<1>2. shown' = [i \in RowIds |-> IF \E r \in page : r.id = i THEN shown[i] + 1 ELSE shown[i]]
  BY DEF Show
<1>3. \A i \in RowIds : shown[i] \in Nat
  BY DEF ListTypes
<1>4. \A r \in page, s \in listed \ page : r.id # s.id
  BY DEF ListTypes
<1>5. shown' \in [RowIds -> Nat]
  BY <1>2, <1>3
<1>6. \A r \in listed \ page : shown'[r.id] = shown[r.id]
  BY <1>1, <1>2, <1>4
<1>7. QED
  BY <1>1, <1>2, <1>3, <1>5, <1>6

LEMMA WalkNext ==
    ASSUME WalkInv, [ListNext]_listVars
    PROVE  WalkInv'
<1> ListTypes /\ CursorInv /\ OffsetInv
  BY DEF WalkInv
<1>1. CASE ListTick
  BY <1>1 DEF ListTick, walk, WalkInv, ListTypes, CursorInv, OffsetInv, Tied, Later
<1>2. ASSUME NEW i \in RowIds, NEW time \in 1 .. now, AddRow(i, time)
      PROVE  WalkInv'
  <2> DEFINE new == [id |-> i, time |-> time]
  <2>1. /\ new \in ListRow /\ new.id = i /\ new.time = time
        /\ listed' = listed \cup {new}
        /\ \A r \in listed \cup start : r.id # i
        /\ shown[i] = 0
        /\ UNCHANGED <<scheme, now, stage, last, offset, start, shown>>
    BY <1>2 DEF AddRow, walk, ListTypes, ListRow
  <2> HIDE DEF new
  <2>2. ListTypes'
    <3>1. IsFiniteSet(listed')
      BY <2>1, FS_AddElement DEF ListTypes
    <3>2. \A r, s \in listed' \cup start' : r.id = s.id => r = s
      BY <2>1 DEF ListTypes
    <3>3. QED
      BY <2>1, <3>1, <3>2 DEF ListTypes
  <2>3. CursorInv'
    BY <2>1 DEF CursorInv, Newer
  <2>4. OffsetInv'
    <3>1. SUFFICES ASSUME scheme = "offset"
                   PROVE  /\ start \subseteq listed'
                          /\ \A r \in start :
                                \/ shown[r.id] > 0 \/ Tied(r)'
                                \/ stage = "middle" /\ offset <= Cardinality(Later(r, listed'))
      BY <2>1 DEF OffsetInv, Later
    <3>2. ASSUME NEW r \in start
          PROVE  /\ Tied(r) => Tied(r)'
                 /\ Cardinality(Later(r, listed)) <= Cardinality(Later(r, listed'))
                 /\ Cardinality(Later(r, listed)) \in Nat /\ Cardinality(Later(r, listed')) \in Nat
      <4>1. IsFiniteSet(listed \cup {new})
        BY FS_AddElement DEF ListTypes
      <4>2. Later(r, listed) \subseteq Later(r, listed') /\ Later(r, listed') \subseteq listed \cup {new}
        BY <2>1 DEF Later
      <4>3. IsFiniteSet(Later(r, listed')) /\ IsFiniteSet(Later(r, listed))
        BY <4>1, <4>2, FS_Subset
      <4>4. Cardinality(Later(r, listed)) <= Cardinality(Later(r, listed'))
        BY <4>2, <4>3, FS_Subset
      <4>5. Tied(r) => Tied(r)'
        BY <2>1 DEF Tied
      <4>6. QED
        BY <4>3, <4>4, <4>5, FS_CardinalityType
    <3>3. start \subseteq listed'
      BY <2>1, <3>1 DEF OffsetInv
    <3>4. ASSUME NEW r \in start
          PROVE  \/ shown[r.id] > 0 \/ Tied(r)'
                 \/ stage = "middle" /\ offset <= Cardinality(Later(r, listed'))
      <4>1. \/ shown[r.id] > 0 \/ Tied(r)
            \/ stage = "middle" /\ offset <= Cardinality(Later(r, listed))
        BY <3>1 DEF OffsetInv
      <4>2. offset \in Nat
        BY DEF ListTypes
      <4>3. QED
        BY <3>2, <4>1, <4>2
    <3>5. QED
      BY <3>3, <3>4
  <2>5. QED
    BY <2>2, <2>3, <2>4 DEF WalkInv
<1>3. ASSUME NEW r \in listed, Leave(r)
      PROVE  WalkInv'
  <2>1. /\ scheme = "cursor" /\ listed' = listed \ {r}
        /\ UNCHANGED <<scheme, now, stage, last, offset, start, shown>>
    BY <1>3 DEF Leave, walk
  <2>2. ListTypes'
    <3>1. IsFiniteSet(listed')
      BY <2>1, FS_RemoveElement DEF ListTypes
    <3>2. QED
      BY <2>1, <3>1 DEF ListTypes
  <2>3. QED
    BY <2>1, <2>2 DEF WalkInv, CursorInv, OffsetInv, Newer
<1>4. CASE CursorPage
  <2> DEFINE rows == {r \in listed : After(r)}
             page == FirstOf(Limit, rows)
  <2>1. /\ scheme = "cursor" /\ scheme' = "cursor"
        /\ stage \in {"start", "middle"}
        /\ UNCHANGED <<now, listed, offset>>
        /\ Show(page)
        /\ start' = IF stage = "start" THEN listed ELSE start
    BY <1>4 DEF CursorPage, Show, ListTypes
  <2>2. rows \subseteq ListRow /\ IsFiniteSet(rows) /\ page \subseteq rows /\ rows \subseteq listed
    BY FS_Subset DEF ListTypes, FirstOf
  <2>3. \/ /\ rows # {} /\ stage' = "middle"
           /\ last' = CHOOSE r \in page : \A s \in page \ {r} : Newer(s, r)
        \/ ~(Cardinality(rows) > Limit) /\ stage' = "end"
    <3>1. CASE Cardinality(rows) > Limit
      <4>1. rows # {}
        <5>1. SUFFICES ASSUME rows = {} PROVE FALSE
          OBVIOUS
        <5>2. Cardinality(rows) = 0
          BY <5>1, FS_EmptySet
        <5>3. QED
          BY <3>1, <5>2, PagesHaveRows
      <4>2. QED
        BY <1>4, <3>1, <4>1 DEF CursorPage
    <3>2. CASE ~(Cardinality(rows) > Limit)
      BY <1>4, <3>2 DEF CursorPage
    <3>3. QED
      BY <3>1, <3>2
  <2>4. \A r \in page : shown[r.id] = 0 /\ r.id \in RowIds
    <3>1. \A r \in page : r \in listed /\ r.id \in RowIds /\ shown[r.id] \in Nat
      BY <2>2 DEF ListTypes, ListRow
    <3>2. \A r \in page : stage = "start" \/ Newer(last, r)
      BY <2>2 DEF After
    <3>3. QED
      BY <2>1, <3>1, <3>2 DEF CursorInv
  <2>5. /\ shown' \in [RowIds -> Nat]
        /\ \A r \in page : shown'[r.id] = 1
        /\ \A r \in listed \ page : shown'[r.id] = shown[r.id]
        /\ \A i \in RowIds : shown'[i] <= 1
        /\ \A i \in RowIds : shown'[i] >= shown[i]
    <3> HIDE DEF rows, page
    <3>1. page \subseteq listed
      BY <2>2
    <3>2. /\ shown' \in [RowIds -> Nat]
          /\ \A r \in page : shown'[r.id] = shown[r.id] + 1
          /\ \A r \in listed \ page : shown'[r.id] = shown[r.id]
          /\ \A i \in RowIds : shown'[i] # shown[i] =>
                \E r \in page : r.id = i /\ shown'[i] = shown[i] + 1
          /\ \A i \in RowIds : shown'[i] >= shown[i]
      BY <2>1, <3>1, Shown
    <3>3. \A i \in RowIds : shown'[i] <= 1
      BY <2>1, <2>4, <3>2 DEF CursorInv
    <3>4. QED
      BY <2>4, <3>2, <3>3
  <2>6. ListTypes'
    BY <2>1, <2>3, <2>5 DEF ListTypes
  <2>7. \A r \in start' \cap listed : r \in rows \/ shown[r.id] > 0
    BY <2>1 DEF CursorInv, After
  <2> HIDE DEF rows, page
  <2>8. CASE ~(Cardinality(rows) > Limit) /\ stage' = "end"
    <3>1. page = rows
      BY <2>2, <2>8, LastPageHasRest DEF page
    <3>2. \A r \in start' \cap listed : shown'[r.id] > 0
      BY <2>2, <2>5, <2>7, <3>1 DEF ListTypes
    <3>3. QED
      BY <2>1, <2>5, <2>6, <2>8, <3>2 DEF WalkInv, CursorInv, OffsetInv
  <2>9. CASE /\ rows # {} /\ stage' = "middle"
             /\ last' = CHOOSE r \in page : \A s \in page \ {r} : Newer(s, r)
    <3>1. /\ \E r \in page : \A s \in page \ {r} : Newer(s, r)
          /\ \A r \in page, s \in rows \ page : Newer(r, s)
      BY <2>2, <2>9, PageHasLast DEF page
    <3>2. last' \in page /\ \A s \in page \ {last'} : Newer(s, last')
      BY <2>9, <3>1
    <3>3. last' \in rows /\ last' \in ListRow
      BY <2>2, <3>2
    <3>4. ASSUME NEW r \in listed, shown'[r.id] > 0
          PROVE  ~Newer(last', r)
      <4>1. r \in ListRow
        BY DEF ListTypes
      <4>2. CASE r \in page
        BY <3>2, <3>3, <4>1, <4>2, OrderOfRows
      <4>3. CASE r \notin page
        <5>1. shown[r.id] > 0
          BY <2>5, <3>4, <4>3
        <5>2. stage = "middle" /\ last \in ListRow /\ ~Newer(last, r)
          <6>1. r.id \in RowIds /\ shown[r.id] # 0
            BY <4>1, <5>1 DEF ListRow, ListTypes
          <6>2. QED
            BY <2>1, <5>1, <6>1 DEF CursorInv
        <5>3. Newer(last, last')
          BY <3>3, <5>2 DEF rows, After
        <5>4. QED
          BY <3>3, <4>1, <5>2, <5>3, OrderOfRows
      <4>4. QED
        BY <4>2, <4>3
    <3>5. \A r \in start' \cap listed : shown'[r.id] > 0 \/ Newer(last', r)
      <4>1. ASSUME NEW r \in start' \cap listed
            PROVE  shown'[r.id] > 0 \/ Newer(last', r)
        <5>1. r.id \in RowIds /\ shown[r.id] \in Nat /\ shown'[r.id] \in Nat
          BY <2>5 DEF ListTypes, ListRow
        <5>2. CASE shown[r.id] > 0
          BY <2>5, <5>1, <5>2
        <5>3. CASE r \in page
          BY <2>5, <5>3
        <5>4. CASE r \in rows \ page
          BY <3>1, <3>2, <5>4
        <5>5. QED
          BY <2>7, <5>2, <5>3, <5>4
      <4>2. QED
        BY <4>1
    <3>6. CursorInv'
      <4>1. \A r \in listed' : shown'[r.id] > 0 => ~Newer(last', r)
        BY <2>1, <3>4
      <4>2. \A r \in start' \cap listed' : shown'[r.id] > 0 \/ Newer(last', r)
        BY <2>1, <3>5
      <4>3. QED
        BY <2>5, <2>9, <3>3, <4>1, <4>2 DEF CursorInv, Newer
    <3>7. QED
      BY <2>1, <2>6, <3>6 DEF WalkInv, OffsetInv
  <2>10. QED
    BY <2>3, <2>8, <2>9
<1>5. CASE OffsetPage
  <2>1. PICK before \in Leading(offset, listed) :
           \E page \in Leading(Limit, listed \ before) :
              /\ Show(page)
              /\ stage' = IF Cardinality(page) = Limit THEN "middle" ELSE "end"
    BY <1>5 DEF OffsetPage
  <2>2. PICK page \in Leading(Limit, listed \ before) :
           /\ Show(page)
           /\ stage' = IF Cardinality(page) = Limit THEN "middle" ELSE "end"
    BY <2>1
  <2>3. /\ scheme = "offset" /\ scheme' = "offset"
        /\ stage \in {"start", "middle"}
        /\ UNCHANGED <<now, listed, last>>
        /\ offset' = offset + Limit
        /\ start' = IF stage = "start" THEN listed ELSE start
    BY <1>5, <2>2 DEF OffsetPage, NextOffset, Show, ListTypes
  <2>4. before \subseteq listed /\ page \subseteq listed \ before
    BY DEF Leading
  <2>5. /\ shown' \in [RowIds -> Nat]
        /\ \A r \in page : shown'[r.id] = shown[r.id] + 1
        /\ \A i \in RowIds : shown'[i] >= shown[i]
    BY <2>2, <2>4, Shown
  <2>6. ListTypes'
    BY <2>2, <2>3, <2>5, PagesHaveRows DEF ListTypes
  <2>7. /\ listed \ before \subseteq ListRow /\ IsFiniteSet(listed \ before)
        /\ listed \subseteq ListRow /\ IsFiniteSet(listed)
    BY FS_Subset DEF ListTypes
  <2>8. ASSUME NEW r \in start', ~(shown'[r.id] > 0), ~Tied(r)
        PROVE  stage' = "middle" /\ offset + Limit <= Cardinality(Later(r, listed))
    <3>1. r \in listed /\ r.id \in RowIds
      BY <2>3, <2>7 DEF OffsetInv, ListRow
    <3>2. shown[r.id] \in Nat /\ ~(shown[r.id] > 0)
      BY <2>5, <2>8, <3>1 DEF ListTypes
    <3>3. Alone(r, listed) /\ Alone(r, listed \ before)
      BY <2>8 DEF Alone, Tied
    <3>4. offset <= Cardinality(Later(r, listed)) /\ Cardinality(Later(r, listed)) \in Nat
          /\ IsFiniteSet(Later(r, listed))
      <4>1. IsFiniteSet(Later(r, listed))
        BY <2>7, FS_Subset DEF Later
      <4>2. Cardinality(Later(r, listed)) \in Nat
        BY <4>1, FS_CardinalityType
      <4>3. QED
        BY <2>3, <2>8, <3>2, <4>1, <4>2 DEF OffsetInv
    <3>5. r \notin before /\ Cardinality(before) = offset /\ before \subseteq Later(r, listed)
      <4>1. offset \in Nat
        BY DEF ListTypes
      <4>2. /\ r \in before => Cardinality(Later(r, listed)) < offset
            /\ r \notin before => Cardinality(before) = offset /\ before \subseteq Later(r, listed)
        BY <2>7, <3>1, <3>3, <4>1, LeadingRows
      <4>3. QED
        BY <3>4, <4>1, <4>2
    <3>6. r \notin page
      BY <2>5, <2>8, <3>2
    <3>7. Cardinality(page) = Limit /\ page \subseteq Later(r, listed \ before)
      BY <2>7, <3>1, <3>3, <3>5, <3>6, LeadingRows, PagesHaveRows
    <3>8. IsFiniteSet(before) /\ IsFiniteSet(page)
      BY <2>4, <2>7, FS_Subset
    <3>9. Cardinality(before \cup page) = offset + Limit
      <4>1. before \cap page = {}
        BY <2>4
      <4>2. Cardinality(before \cup page) =
               Cardinality(before) + Cardinality(page) - Cardinality(before \cap page)
        BY <3>8, FS_Union
      <4>3. Cardinality(before \cap page) = 0
        BY <4>1, FS_EmptySet
      <4>4. QED
        BY <3>5, <3>7, <4>2, <4>3, PagesHaveRows DEF ListTypes
    <3>10. before \cup page \subseteq Later(r, listed)
      BY <3>5, <3>7 DEF Later
    <3>11. Cardinality(before \cup page) <= Cardinality(Later(r, listed))
      BY <3>4, <3>10, FS_Subset
    <3>12. QED
      BY <2>2, <3>7, <3>9, <3>11
  <2>9. OffsetInv'
    <3>1. start' \subseteq listed' /\ stage' # "start"
      BY <2>2, <2>3 DEF OffsetInv
    <3>2. ASSUME NEW r \in start'
          PROVE  \/ shown'[r.id] > 0 \/ Tied(r)'
                 \/ stage' = "middle" /\ offset' <= Cardinality(Later(r, listed'))
      BY <2>3, <2>8 DEF Tied, Later
    <3>3. QED
      BY <3>1, <3>2 DEF OffsetInv, Later
  <2>10. QED
    BY <2>3, <2>6, <2>9 DEF WalkInv, CursorInv
<1>6. CASE UNCHANGED listVars
  BY <1>6 DEF listVars, walk, WalkInv, ListTypes, CursorInv, OffsetInv, Tied, Later, Newer
<1>7. QED
  BY <1>1, <1>2, <1>3, <1>4, <1>5, <1>6 DEF ListNext

\* A walk that ended has shown what was there all the time, a cursor shows
\* nothing twice, and an offset misses only rows that are not alone at their time,
\* for any rows, page size and clock.
THEOREM EachRowIsShown == ListSpec => []WalksShowEachRow
<1>1. ListInit => WalkInv
  BY WalkInit
<1>2. WalkInv /\ [ListNext]_listVars => WalkInv'
  BY WalkNext
<1>3. WalkInv => WalksShowEachRow
  BY DEF WalkInv, ListTypes, CursorInv, OffsetInv, WalksShowEachRow
<1>4. QED
  BY <1>1, <1>2, <1>3, PTL DEF ListSpec
-----------------------------------------------------------------------------
(* Notifications: who is meant to be told *)

Places(u, users) == {i \in DOMAIN users : users[i] = u}

LEMMA CountsOfPlaces ==
    ASSUME NEW S, NEW users \in Seq(S), NEW u
    PROVE  /\ IsFiniteSet(Places(u, users))
           /\ Cardinality(Places(u, users)) \in Nat
           /\ Times(u, users) = Cardinality(Places(u, users))
<1>1. IsFiniteSet(1..Len(users)) /\ Places(u, users) \subseteq 1..Len(users)
  BY FS_Interval DEF Places
<1>2. IsFiniteSet(Places(u, users))
  BY <1>1, FS_Subset
<1>3. QED
  BY <1>2, FS_CardinalityType DEF Times, Places

\* A sequence without repetitions has a place for a user at most.
LEMMA HoldersOnce ==
    /\ PermissionHolders \in Seq(ToSet(Assignments))
    /\ \A i, j \in DOMAIN PermissionHolders :
          PermissionHolders[i] = PermissionHolders[j] => i = j
<1> DEFINE S == ToSet(Assignments)
           n == Cardinality(S)
<1>1. IsFiniteSet(S)
  <2>1. Assignments \in Surjection(1..Len(Assignments), S)
    <3>1. Assignments \in Seq(S)
      BY MailAssumption
    <3>2. \A u \in S : \E i \in DOMAIN Assignments : Assignments[i] = u
      BY DEF ToSet
    <3> HIDE DEF S
    <3>3. Assignments \in [1..Len(Assignments) -> S] /\ DOMAIN Assignments = 1..Len(Assignments)
      BY <3>1
    <3>4. QED
      BY <3>2, <3>3 DEF Surjection
  <2>2. IsFiniteSet(1..Len(Assignments))
    BY MailAssumption, FS_Interval
  <2> HIDE DEF S
  <2>3. QED
    BY <2>1, <2>2, FS_Surjection
<1> HIDE DEF S
<1>2. n \in Nat /\ ExistsBijection(1..n, S)
  BY <1>1, FS_CardinalityType
<1> HIDE DEF n
<1>3. PICK f \in [1..n -> S] : IsInjective(f)
  BY <1>2 DEF ExistsBijection, Bijection, Injection, IsInjective
<1>4. PermissionHolders = CHOOSE g \in [1..n -> S] : IsInjective(g)
  BY DEF PermissionHolders, SetToSeq, n, S
<1>5. PermissionHolders \in [1..n -> S] /\ IsInjective(PermissionHolders)
  BY <1>3, <1>4
<1>6. PermissionHolders \in Seq(S)
  BY <1>2, <1>5
<1>7. QED
  BY <1>5, <1>6 DEF S, IsInjective

Everyone == Told \cup {NoUser}

LEMMA RecipientsListed == Recipients \in Seq(Everyone) \/ event \notin
    {"ExpenseApproved", "ExpenseRejected", "PayrollRunRejected", "PayrollRunApproved",
     "PeriodClosed", "PeriodReopened"}
<1>1. /\ Requester \in Everyone
      /\ PayslipUsers \in Seq(Everyone)
      /\ ToSet(Assignments) \subseteq Everyone
  BY MailAssumption DEF Everyone, Told
<1>2. RequesterOnly \in Seq(Everyone) /\ CreatorAndEmployees \in Seq(Everyone)
  BY <1>1 DEF RequesterOnly, CreatorAndEmployees
<1>3. PermissionHolders \in Seq(Everyone)
  BY <1>1, HoldersOnce
<1>4. QED
  BY <1>2, <1>3 DEF Recipients

\* A set with a member at most.
LEMMA OneAtMost ==
    ASSUME NEW T, \A i, j \in T : i = j
    PROVE  /\ IsFiniteSet(T) /\ Cardinality(T) \in Nat /\ Cardinality(T) <= 1
           /\ T = {} => Cardinality(T) = 0
<1>1. CASE T = {}
  BY <1>1, FS_EmptySet
<1>2. CASE T # {}
  <2>1. PICK i \in T : T = {i}
    BY <1>2
  <2>2. QED
    BY <1>2, <2>1, FS_Singleton
<1>3. QED
  BY <1>1, <1>2

TypesOfEvent == {"ExpenseApproved", "ExpenseRejected", "PayrollRunRejected", "PayrollRunApproved",
           "PeriodClosed", "PeriodReopened"}

\* Who is on the list is on it as often as is meant.
LEMMA ListedAsMeant ==
    ASSUME event \in TypesOfEvent, NEW u \in Told
    PROVE  /\ Meant(u) \in Nat
           /\ Cardinality(Places(u, Recipients)) <= Meant(u)
<1>1. CASE event \in {"ExpenseApproved", "ExpenseRejected", "PayrollRunRejected"}
  <2>1. Recipients = <<Requester>> /\ Meant(u) = IF u = Requester THEN 1 ELSE 0
    BY <1>1 DEF Recipients, RequesterOnly, Meant
  <2>2. /\ \A i, j \in Places(u, Recipients) : i = j
        /\ u # Requester => Places(u, Recipients) = {}
    BY <2>1 DEF Places
  <2>3. QED
    BY <2>1, <2>2, OneAtMost
<1>2. CASE event = "PayrollRunApproved"
  <2> DEFINE R == Recipients
             own == {i \in {1} : u = Requester}
             slips == Places(u, PayslipUsers)
             shifted == {i + 1 : i \in slips}
             f == [i \in slips |-> i + 1]
  <2>1. R = <<Requester>> \o PayslipUsers /\ Meant(u) = Times(u, PayslipUsers) + (IF u = Requester THEN 1 ELSE 0)
    BY <1>2 DEF Recipients, CreatorAndEmployees, Meant
  <2>2. /\ IsFiniteSet(slips) /\ Cardinality(slips) \in Nat
        /\ Times(u, PayslipUsers) = Cardinality(slips)
    BY MailAssumption, CountsOfPlaces
  <2>3. IsFiniteSet(shifted) /\ Cardinality(shifted) <= Cardinality(slips)
    <3>1. f \in Surjection(slips, shifted)
      BY DEF Surjection
    <3> HIDE DEF f, slips, shifted
    <3>2. QED
      BY <2>2, <3>1, FS_Surjection
  <2>4. /\ IsFiniteSet(own) /\ Cardinality(own) \in Nat
        /\ Cardinality(own) <= IF u = Requester THEN 1 ELSE 0
    <3>1. \A i, j \in own : i = j
      OBVIOUS
    <3>2. u # Requester => own = {}
      OBVIOUS
    <3> HIDE DEF own
    <3>3. QED
      BY <3>1, <3>2, OneAtMost
  <2>5. Places(u, R) \subseteq own \cup shifted
    <3>1. SUFFICES ASSUME NEW i \in DOMAIN R, R[i] = u PROVE i \in own \cup shifted
      BY DEF Places
    <3>2. DOMAIN PayslipUsers = 1..Len(PayslipUsers) /\ Len(PayslipUsers) \in Nat
      BY MailAssumption
    <3>3. i \in 1..(Len(PayslipUsers) + 1) /\ R[i] = IF i = 1 THEN Requester ELSE PayslipUsers[i - 1]
      BY <2>1, <3>1, MailAssumption
    <3>4. CASE i = 1
      BY <3>1, <3>3, <3>4
    <3>5. CASE i # 1
      <4>1. i - 1 \in slips /\ i = (i - 1) + 1
        BY <3>1, <3>2, <3>3, <3>5 DEF Places
      <4>2. QED
        BY <4>1
    <3>6. QED
      BY <3>4, <3>5
  <2> HIDE DEF own, slips, shifted, R
  <2>6. IsFiniteSet(own \cup shifted)
        /\ Cardinality(own \cup shifted) = Cardinality(own) + Cardinality(shifted) - Cardinality(own \cap shifted)
    BY <2>3, <2>4, FS_Union
  <2>7. Cardinality(shifted) \in Nat /\ Cardinality(own \cap shifted) \in Nat
    BY <2>3, <2>4, FS_Intersection, FS_CardinalityType
  <2>8. Cardinality(Places(u, R)) <= Cardinality(own \cup shifted)
        /\ IsFiniteSet(Places(u, R))
    BY <2>5, <2>6, FS_Subset
  <2>9. Cardinality(Places(u, R)) \in Nat
    BY <2>8, FS_CardinalityType
  <2>10. Cardinality(Places(u, R)) <= Meant(u) /\ Meant(u) \in Nat
    BY <2>1, <2>2, <2>3, <2>4, <2>6, <2>7, <2>8, <2>9
  <2>11. QED
    BY <2>10 DEF R
<1>3. CASE event \in {"PeriodClosed", "PeriodReopened"}
  <2>1. Recipients = PermissionHolders /\ Meant(u) = IF u \in ToSet(Assignments) THEN 1 ELSE 0
    BY <1>3 DEF Recipients, Meant
  <2>2. \A i, j \in Places(u, Recipients) : i = j
    BY <2>1, HoldersOnce DEF Places
  <2>3. u \notin ToSet(Assignments) => Places(u, Recipients) = {}
    <3>1. \A i \in DOMAIN PermissionHolders : PermissionHolders[i] \in ToSet(Assignments)
      BY HoldersOnce
    <3>2. QED
      BY <2>1, <3>1 DEF Places
  <2>4. QED
    BY <2>1, <2>2, <2>3, OneAtMost
<1>4. QED
  BY <1>1, <1>2, <1>3 DEF TypesOfEvent

-----------------------------------------------------------------------------
(* Notifications: types *)

MailJob == [user : Told, state : {"waiting", "active", "done", "failed"}, attempts : Nat,
            stalls : Nat, holder : SUBSET Mailers]

LogRow == [user : Told, status : {"pending", "sent", "failed"}, mailed : BOOLEAN]

MailerState == [at : {"idle", "log", "send", "mark", "catch"}, job : Nat, log : Nat]

\* How many recipients had a job added, or were skipped.
Past == IF mailing.state = "pending" THEN 0 ELSE Len(Recipients) - Len(mailing.left)

MailTypes ==
    /\ event \in TypesOfEvent
    /\ mailing \in [state : {"pending", "adding", "done", "failed"}, left : Seq(Everyone)]
    /\ jobs \in Seq(MailJob)
    /\ logs \in Seq(LogRow)
    /\ mailer \in [Mailers -> MailerState]
    /\ repeats \in [Told -> Nat]

\* A worker has a job, and its row is about the user of it.
MailerFits(w) ==
    /\ mailer[w].at # "idle" => mailer[w].job \in DOMAIN jobs
    /\ mailer[w].at \in {"send", "mark", "catch"} =>
          /\ mailer[w].log \in DOMAIN logs
          /\ logs[mailer[w].log].user = jobs[mailer[w].job].user

\* What is left to add are the last of the recipients.
LeftFits ==
    mailing.state = "adding" =>
        /\ Len(mailing.left) <= Len(Recipients)
        /\ \A j \in 1..Len(mailing.left) : mailing.left[j] = Recipients[Past + j]

MailOK == MailTypes /\ LeftFits /\ \A w \in Mailers : MailerFits(w)

\* The mails of a user; the jobs and the workers that may send one more, and the
\* places of the list that are still to be added.
Mailed(u) == {i \in DOMAIN logs : logs[i].user = u /\ logs[i].mailed}

Queued(u) == {i \in DOMAIN jobs : jobs[i].user = u /\ jobs[i].state = "waiting"}

Writing(u) ==
    {w \in Mailers : mailer[w].at \in {"log", "send", "catch"} /\ jobs[mailer[w].job].user = u}

ToAdd(u) == {i \in DOMAIN Recipients :
                /\ mailing.state \in {"pending", "adding"}
                /\ Past < i /\ Recipients[i] = u}

MailsDue(u) ==
    Cardinality(Mailed(u)) + Cardinality(Queued(u)) + Cardinality(Writing(u))
      + Cardinality(ToAdd(u))

MailInv ==
    /\ MailOK
    /\ \A u \in Told : MailsDue(u) <= Meant(u) + repeats[u]

LEMMA FiniteMails ==
    ASSUME MailOK, NEW u \in Told
    PROVE  /\ IsFiniteSet(Mailed(u)) /\ IsFiniteSet(Queued(u))
           /\ IsFiniteSet(Writing(u)) /\ IsFiniteSet(ToAdd(u))
           /\ Cardinality(Mailed(u)) \in Nat /\ Cardinality(Queued(u)) \in Nat
           /\ Cardinality(Writing(u)) \in Nat /\ Cardinality(ToAdd(u)) \in Nat
<1>1. IsFiniteSet(DOMAIN logs) /\ IsFiniteSet(DOMAIN jobs)
  BY FS_Interval DEF MailOK, MailTypes
<1>2. IsFiniteSet(DOMAIN Recipients)
  <2>1. Recipients \in Seq(Everyone)
    BY RecipientsListed DEF MailOK, MailTypes, TypesOfEvent
  <2>2. QED
    BY <2>1, FS_Interval
<1>3. /\ Mailed(u) \subseteq DOMAIN logs /\ Queued(u) \subseteq DOMAIN jobs
      /\ Writing(u) \subseteq Mailers /\ ToAdd(u) \subseteq DOMAIN Recipients
  BY DEF Mailed, Queued, Writing, ToAdd
<1>4. /\ IsFiniteSet(Mailed(u)) /\ IsFiniteSet(Queued(u))
      /\ IsFiniteSet(Writing(u)) /\ IsFiniteSet(ToAdd(u))
  BY <1>1, <1>2, <1>3, FS_Subset, MailAssumption
<1>5. QED
  BY <1>4, FS_CardinalityType

\* How a set grows or shrinks in a step.
LEMMA SameOrFewer ==
    ASSUME NEW S, IsFiniteSet(S), NEW T, T \subseteq S
    PROVE  Cardinality(T) \in Nat /\ Cardinality(T) <= Cardinality(S)
<1>1. IsFiniteSet(T) /\ Cardinality(T) <= Cardinality(S)
  BY FS_Subset
<1>2. QED
  BY <1>1, FS_CardinalityType

LEMMA OneMoreAtMost ==
    ASSUME NEW S, IsFiniteSet(S), NEW T, NEW x, T \subseteq S \cup {x}
    PROVE  Cardinality(T) \in Nat /\ Cardinality(T) <= Cardinality(S) + 1
<1>1. IsFiniteSet(S \cup {x}) /\ Cardinality(S) \in Nat
      /\ Cardinality(S \cup {x}) = IF x \in S THEN Cardinality(S) ELSE Cardinality(S) + 1
  BY FS_AddElement, FS_CardinalityType
<1>2. Cardinality(T) \in Nat /\ Cardinality(T) <= Cardinality(S \cup {x})
  BY <1>1, SameOrFewer
<1>3. QED
  BY <1>1, <1>2

LEMMA OneLess ==
    ASSUME NEW S, IsFiniteSet(S), NEW T, NEW x \in S, T \subseteq S \ {x}
    PROVE  Cardinality(T) \in Nat /\ Cardinality(T) <= Cardinality(S) - 1
<1>1. IsFiniteSet(S \ {x}) /\ Cardinality(S \ {x}) = Cardinality(S) - 1
  BY FS_RemoveElement
<1>2. QED
  BY <1>1, SameOrFewer

LEMMA MailInitOK == MailInit => MailInv
<1>1. SUFFICES ASSUME MailInit PROVE MailInv
  OBVIOUS
<1>2. MailOK
  BY <1>1 DEF MailInit, MailOK, MailTypes, LeftFits, MailerFits, TypesOfEvent, MailerState
<1>3. ASSUME NEW u \in Told
      PROVE  MailsDue(u) <= Meant(u) + repeats[u]
  <2>1. Mailed(u) = {} /\ Queued(u) = {} /\ Writing(u) = {} /\ ToAdd(u) \subseteq Places(u, Recipients)
    BY <1>1 DEF MailInit, Mailed, Queued, Writing, ToAdd, Places
  <2>2. Recipients \in Seq(Everyone)
    BY <1>2, RecipientsListed DEF MailOK, MailTypes, TypesOfEvent
  <2>3. IsFiniteSet(Places(u, Recipients)) /\ Cardinality(Places(u, Recipients)) \in Nat
    BY <2>2, CountsOfPlaces
  <2>4. Cardinality(ToAdd(u)) \in Nat /\ Cardinality(ToAdd(u)) <= Cardinality(Places(u, Recipients))
    BY <2>1, <2>3, SameOrFewer
  <2>5. Meant(u) \in Nat /\ Cardinality(Places(u, Recipients)) <= Meant(u) /\ repeats[u] = 0
    BY <1>1, <1>2, ListedAsMeant DEF MailInit, MailOK, MailTypes
  <2>6. Cardinality({}) = 0
    BY FS_EmptySet
  <2>7. QED
    BY <2>1, <2>3, <2>4, <2>5, <2>6 DEF MailsDue
<1>4. QED
  BY <1>2, <1>3 DEF MailInv

-----------------------------------------------------------------------------
(* Notifications: the steps *)

\* Jobs and rows are only added, and keep their user.
JobsGrow ==
    /\ DOMAIN jobs \subseteq DOMAIN jobs'
    /\ \A i \in DOMAIN jobs : jobs'[i].user = jobs[i].user

LogsGrow ==
    /\ DOMAIN logs \subseteq DOMAIN logs'
    /\ \A i \in DOMAIN logs : logs'[i].user = logs[i].user

\* A step of a worker or of the queue leaves the delivery alone.
BesideDelivery == UNCHANGED <<event, mailing>>

LEMMA DeliveryKept ==
    ASSUME MailOK, BesideDelivery
    PROVE  /\ LeftFits'
           /\ \A u \in Told : ToAdd(u)' = ToAdd(u) /\ Meant(u)' = Meant(u)
<1>1. Recipients' = Recipients
  BY DEF BesideDelivery, Recipients, RequesterOnly, CreatorAndEmployees, PermissionHolders
<1>2. Past' = Past
  BY <1>1 DEF BesideDelivery, Past
<1>3. LeftFits'
  BY <1>1, <1>2 DEF BesideDelivery, LeftFits, MailOK
<1>4. \A u \in Told : ToAdd(u)' = ToAdd(u)
  BY <1>1, <1>2 DEF BesideDelivery, ToAdd
<1>5. \A u \in Told : Meant(u)' = Meant(u)
  BY DEF BesideDelivery, Meant, Times
<1>6. QED
  BY <1>3, <1>4, <1>5

LEMMA WorkerKept ==
    ASSUME MailOK, BesideDelivery, JobsGrow, LogsGrow, MailTypes',
           NEW w, \A v \in Mailers : v # w => mailer'[v] = mailer[v],
           w \in Mailers => MailerFits(w)'
    PROVE  MailOK'
<1>1. ASSUME NEW v \in Mailers, v # w
      PROVE  MailerFits(v)'
  BY <1>1 DEF MailOK, MailerFits, JobsGrow, LogsGrow
<1>2. QED
  BY <1>1, DeliveryKept DEF MailOK

\* What a worker writes to its job, if the job is still its own.
LEMMA JobsAfter ==
    ASSUME MailOK, NEW w \in Mailers, mailer[w].at # "idle",
           NEW j \in MailJob, j.user = Job(w).user, EndJob(w, j)
    PROVE  /\ jobs' \in Seq(MailJob)
           /\ JobsGrow
           /\ DOMAIN jobs' = DOMAIN jobs
           /\ \A i \in DOMAIN jobs : i # mailer[w].job => jobs'[i] = jobs[i]
           /\ jobs'[mailer[w].job] \in {j, Job(w)}
<1> DEFINE i == mailer[w].job
<1>1. i \in DOMAIN jobs /\ jobs \in Seq(MailJob) /\ Job(w) = jobs[i]
  BY DEF MailOK, MailTypes, MailerFits, Job
<1>2. jobs' = jobs \/ jobs' = [jobs EXCEPT ![i] = j]
  BY DEF EndJob
<1> HIDE DEF i
<1>3. /\ jobs' \in Seq(MailJob)
      /\ DOMAIN jobs' = DOMAIN jobs
      /\ \A k \in DOMAIN jobs : k # i => jobs'[k] = jobs[k]
      /\ jobs'[i] \in {j, Job(w)}
  BY <1>1, <1>2
<1>4. JobsGrow
  BY <1>1, <1>3 DEF JobsGrow
<1>5. QED
  BY <1>3, <1>4 DEF i

LEMMA QueuedAfter ==
    ASSUME MailOK, NEW w \in Mailers, mailer[w].at # "idle",
           NEW j \in MailJob, j.user = Job(w).user, EndJob(w, j), NEW u \in Told
    PROVE  /\ Queued(u)' \subseteq Queued(u) \cup {mailer[w].job}
           /\ u # Job(w).user => Queued(u)' \subseteq Queued(u)
           /\ j.state # "waiting" => Queued(u)' \subseteq Queued(u)
<1> DEFINE i == mailer[w].job
<1>1. Job(w) = jobs[i] /\ i \in DOMAIN jobs
  BY DEF Job, MailOK, MailerFits
<1>2. /\ DOMAIN jobs' = DOMAIN jobs
      /\ \A k \in DOMAIN jobs : k # i => jobs'[k] = jobs[k]
      /\ jobs'[i] \in {j, jobs[i]}
      /\ j.user = jobs[i].user
  BY <1>1, JobsAfter
<1> HIDE DEF i
<1>3. /\ Queued(u)' \subseteq Queued(u) \cup {i}
      /\ u # jobs[i].user => Queued(u)' \subseteq Queued(u)
      /\ j.state # "waiting" => Queued(u)' \subseteq Queued(u)
  BY <1>1, <1>2 DEF Queued
<1>4. QED
  BY <1>1, <1>3 DEF i

LEMMA WritingAfter ==
    ASSUME MailOK, JobsGrow, NEW w \in Mailers, NEW x \in MailerState,
           mailer' = [mailer EXCEPT ![w] = x],
           x.at # "idle" => x.job \in DOMAIN jobs, NEW u \in Told
    PROVE  /\ Writing(u)' \subseteq Writing(u) \cup {w}
           /\ x.at \in {"idle", "mark"} => Writing(u)' \subseteq Writing(u) \ {w}
           /\ x.at # "idle" /\ jobs[x.job].user # u => Writing(u)' \subseteq Writing(u) \ {w}
<1>1. /\ mailer'[w] = x
      /\ \A v \in Mailers : v # w => mailer'[v] = mailer[v]
  BY DEF MailOK, MailTypes
<1>2. ASSUME NEW v \in Mailers, v # w
      PROVE  v \in Writing(u)' => v \in Writing(u)
  BY <1>1, <1>2 DEF Writing, JobsGrow, MailOK, MailerFits
<1>3. x.at \in {"idle", "mark"} => w \notin Writing(u)'
  BY <1>1 DEF Writing
<1>4. x.at # "idle" /\ jobs[x.job].user # u => w \notin Writing(u)'
  BY <1>1 DEF Writing, JobsGrow
<1>5. Writing(u)' \subseteq Mailers
  BY DEF Writing
<1>6. QED
  BY <1>2, <1>3, <1>4, <1>5

LEMMA JobOfWorker ==
    ASSUME MailOK, NEW w \in Mailers, mailer[w].at # "idle"
    PROVE  /\ mailer[w] \in MailerState
           /\ mailer[w].job \in DOMAIN jobs /\ Job(w) = jobs[mailer[w].job]
           /\ Job(w) \in MailJob
           /\ Done(Job(w)) \in MailJob /\ Done(Job(w)).user = Job(w).user
           /\ Done(Job(w)).state = "done"
           /\ Thrown(Job(w)) \in MailJob /\ Thrown(Job(w)).user = Job(w).user
<1>1. /\ mailer[w] \in MailerState
      /\ mailer[w].job \in DOMAIN jobs /\ Job(w) = jobs[mailer[w].job]
      /\ Job(w) \in MailJob
  BY DEF MailOK, MailTypes, MailerFits, Job
<1> DEFINE j == Job(w)
<1> HIDE DEF j
<1>2. j \in MailJob
  BY <1>1 DEF j
<1>3. /\ Done(j) \in MailJob /\ Done(j).user = j.user /\ Done(j).state = "done"
      /\ Thrown(j) \in MailJob /\ Thrown(j).user = j.user
  <2>1. Done(j) \in MailJob /\ Done(j).user = j.user /\ Done(j).state = "done"
    BY <1>2 DEF MailJob, Done
  <2>2. \E s \in {"waiting", "failed"} :
           Thrown(j) = [j EXCEPT !.state = s, !.attempts = @ + 1, !.holder = {}]
    BY DEF Thrown
  <2>3. j.attempts + 1 \in Nat
    BY <1>2 DEF MailJob
  <2>4. Thrown(j) \in MailJob /\ Thrown(j).user = j.user
    BY <1>2, <2>2, <2>3 DEF MailJob
  <2>5. QED
    BY <2>1, <2>4
<1>4. QED
  BY <1>1, <1>3 DEF j

\* The sum, from what each of its parts gained or lost.
LEMMA DueAfter ==
    ASSUME MailInv, BesideDelivery, NEW u \in Told,
           NEW m \in Int, NEW q \in Int, NEW n \in Int,
           Cardinality(Mailed(u)') \in Nat, Cardinality(Mailed(u)') <= Cardinality(Mailed(u)) + m,
           Cardinality(Queued(u)') \in Nat, Cardinality(Queued(u)') <= Cardinality(Queued(u)) + q,
           Cardinality(Writing(u)') \in Nat, Cardinality(Writing(u)') <= Cardinality(Writing(u)) + n,
           repeats'[u] \in Nat, m + q + n <= repeats'[u] - repeats[u]
    PROVE  MailsDue(u)' <= Meant(u)' + repeats'[u]
<1>1. MailOK
  BY DEF MailInv
<1>2. ToAdd(u)' = ToAdd(u) /\ Meant(u)' = Meant(u)
  BY <1>1, DeliveryKept
<1>3. /\ Cardinality(Mailed(u)) \in Nat /\ Cardinality(Queued(u)) \in Nat
      /\ Cardinality(Writing(u)) \in Nat /\ Cardinality(ToAdd(u)) \in Nat
  BY <1>1, FiniteMails
<1>4. MailsDue(u) <= Meant(u) + repeats[u] /\ Meant(u) \in Nat /\ repeats[u] \in Nat
  BY <1>1, ListedAsMeant DEF MailInv, MailOK, MailTypes
<1>5. Cardinality(ToAdd(u)') = Cardinality(ToAdd(u))
  BY <1>2
<1>6. QED
  BY <1>2, <1>3, <1>4, <1>5 DEF MailsDue

LEMMA DueNoMore ==
    ASSUME MailInv, BesideDelivery, NEW u \in Told, Mailed(u)' \subseteq Mailed(u),
           Queued(u)' \subseteq Queued(u), Writing(u)' \subseteq Writing(u),
           repeats'[u] \in Nat, repeats[u] <= repeats'[u]
    PROVE  MailsDue(u)' <= Meant(u)' + repeats'[u]
<1>1. MailOK /\ repeats[u] \in Nat
  BY DEF MailInv, MailOK, MailTypes
<1>2. /\ Cardinality(Mailed(u)) \in Nat /\ Cardinality(Queued(u)) \in Nat
      /\ Cardinality(Writing(u)) \in Nat
      /\ IsFiniteSet(Mailed(u)) /\ IsFiniteSet(Queued(u)) /\ IsFiniteSet(Writing(u))
  BY <1>1, FiniteMails
<1>3. Cardinality(Mailed(u)') \in Nat /\ Cardinality(Mailed(u)') <= Cardinality(Mailed(u))
  BY <1>2, SameOrFewer
<1>4. Cardinality(Queued(u)') \in Nat /\ Cardinality(Queued(u)') <= Cardinality(Queued(u))
  BY <1>2, SameOrFewer
<1>5. Cardinality(Writing(u)') \in Nat /\ Cardinality(Writing(u)') <= Cardinality(Writing(u))
  BY <1>2, SameOrFewer
<1>6. /\ Cardinality(Mailed(u)') <= Cardinality(Mailed(u)) + 0
      /\ Cardinality(Queued(u)') <= Cardinality(Queued(u)) + 0
      /\ Cardinality(Writing(u)') <= Cardinality(Writing(u)) + 0
      /\ 0 + 0 + 0 <= repeats'[u] - repeats[u] /\ 0 \in Int
  BY <1>1, <1>2, <1>3, <1>4, <1>5
<1>7. QED
  BY <1>3, <1>4, <1>5, <1>6, DueAfter

\* The worker gives its job back and rests: it sends no mail, but the job may
\* be taken again.
LEMMA GivesBack ==
    ASSUME MailInv, BesideDelivery, UNCHANGED repeats, NEW w \in Mailers,
           mailer[w].at \in {"log", "catch"}, NEW j \in MailJob, j.user = Job(w).user,
           EndJob(w, j), Rest(w),
           logs' \in Seq(LogRow), LogsGrow, \A u \in Told : Mailed(u)' = Mailed(u)
    PROVE  MailInv'
<1> DEFINE x == [at |-> "idle", job |-> 0, log |-> 0]
<1>1. MailOK /\ mailer[w].at # "idle" /\ x \in MailerState /\ mailer' = [mailer EXCEPT ![w] = x]
      /\ x.at = "idle"
  BY DEF MailInv, Rest, MailerState
<1> HIDE DEF x
<1>2. jobs' \in Seq(MailJob) /\ JobsGrow
  BY <1>1, JobsAfter
<1>3. MailTypes'
  BY <1>1, <1>2 DEF MailOK, MailTypes, BesideDelivery
<1>4. MailerFits(w)' /\ \A v \in Mailers : v # w => mailer'[v] = mailer[v]
  BY <1>1 DEF MailerFits, MailOK, MailTypes
<1>5. MailOK'
  BY <1>1, <1>2, <1>3, <1>4, WorkerKept
<1>6. ASSUME NEW u \in Told
      PROVE  MailsDue(u)' <= Meant(u)' + repeats'[u]
  <2>1. /\ Queued(u)' \subseteq Queued(u) \cup {mailer[w].job}
        /\ u # Job(w).user => Queued(u)' \subseteq Queued(u)
    BY <1>1, QueuedAfter
  <2>2. Writing(u)' \subseteq Writing(u) \ {w}
    BY <1>1, <1>2, WritingAfter
  <2>3. u = Job(w).user => w \in Writing(u)
    BY <1>1, JobOfWorker DEF Writing
  <2>4. /\ IsFiniteSet(Queued(u)) /\ IsFiniteSet(Writing(u))
        /\ Cardinality(Mailed(u)) \in Nat /\ Cardinality(Queued(u)) \in Nat
        /\ Cardinality(Writing(u)) \in Nat
    BY <1>1, FiniteMails
  <2>5. repeats'[u] \in Nat /\ repeats'[u] = repeats[u]
    BY <1>1 DEF MailOK, MailTypes
  <2>6. CASE u = Job(w).user
    <3>1. /\ Cardinality(Queued(u)') \in Nat
          /\ Cardinality(Queued(u)') <= Cardinality(Queued(u)) + 1
      BY <2>1, <2>4, OneMoreAtMost
    <3>2. /\ Cardinality(Writing(u)') \in Nat
          /\ Cardinality(Writing(u)') <= Cardinality(Writing(u)) + (-1)
      BY <2>2, <2>3, <2>4, <2>6, OneLess
    <3>3. /\ Cardinality(Mailed(u)') \in Nat
          /\ Cardinality(Mailed(u)') <= Cardinality(Mailed(u)) + 0
      BY <2>4
    <3>4. 0 + 1 + (-1) <= repeats'[u] - repeats[u] /\ 0 \in Int /\ 1 \in Int /\ -1 \in Int
      BY <2>5
    <3>5. QED
      BY <2>5, <3>1, <3>2, <3>3, <3>4, DueAfter
  <2>7. CASE u # Job(w).user
    <3>1. /\ Mailed(u)' \subseteq Mailed(u) /\ Queued(u)' \subseteq Queued(u)
          /\ Writing(u)' \subseteq Writing(u)
      BY <2>1, <2>2, <2>7
    <3>2. repeats[u] <= repeats'[u]
      BY <2>5
    <3>3. QED
      BY <2>5, <3>1, <3>2, DueNoMore
  <2>8. QED
    BY <2>6, <2>7
<1>7. QED
  BY <1>5, <1>6 DEF MailInv

\* The rows of the catch block change in their status alone.
LEMMA StatusAfter ==
    ASSUME MailOK, NEW i \in DOMAIN logs, NEW s \in {"pending", "sent", "failed"},
           logs' = [logs EXCEPT ![i].status = s]
    PROVE  /\ logs' \in Seq(LogRow)
           /\ LogsGrow
           /\ \A u \in Told : Mailed(u)' = Mailed(u)
<1> DEFINE r == [logs[i] EXCEPT !.status = s]
<1>1. /\ logs \in Seq(LogRow) /\ r \in LogRow
      /\ r.user = logs[i].user /\ r.mailed = logs[i].mailed
      /\ logs' = [logs EXCEPT ![i] = r]
  <2>1. logs \in Seq(LogRow)
    BY DEF MailOK, MailTypes
  <2>2. logs[i] \in LogRow
    BY <2>1
  <2>3. r \in LogRow /\ r.user = logs[i].user /\ r.mailed = logs[i].mailed
    BY <2>2 DEF LogRow
  <2>4. QED
    BY <2>1, <2>3
<1> HIDE DEF r
<1>2. /\ logs' \in Seq(LogRow) /\ DOMAIN logs' = DOMAIN logs
      /\ \A k \in DOMAIN logs : logs'[k] = IF k = i THEN r ELSE logs[k]
  BY <1>1
<1>3. \A k \in DOMAIN logs : logs'[k].user = logs[k].user /\ logs'[k].mailed = logs[k].mailed
  BY <1>1, <1>2
<1>4. LogsGrow
  BY <1>2, <1>3 DEF LogsGrow
<1>5. \A u \in Told : Mailed(u)' = Mailed(u)
  BY <1>2, <1>3 DEF Mailed
<1>6. QED
  BY <1>2, <1>4, <1>5

\* A job is taken: it waits no more, and a worker has it.
LEMMA TakeMailOK ==
    ASSUME MailInv, NEW w \in Mailers, NEW i \in DOMAIN jobs, TakeMail(w, i)
    PROVE  MailInv'
<1>1. /\ MailOK /\ jobs[i] \in MailJob /\ jobs \in Seq(MailJob) /\ jobs[i].state = "waiting"
      /\ mailer[w].at = "idle"
      /\ BesideDelivery /\ LogsGrow /\ logs' = logs /\ repeats' = repeats
  BY DEF MailInv, MailOK, MailTypes, TakeMail, BesideDelivery, LogsGrow
<1>2. PICK j \in MailJob : /\ j.user = jobs[i].user /\ j.state # "waiting"
                           /\ jobs' = [jobs EXCEPT ![i] = j]
  <2>1. CASE jobs[i].user \in Gone
    <3>1. jobs' = [jobs EXCEPT ![i] = Done(jobs[i])]
      BY <2>1 DEF TakeMail
    <3>2. Done(jobs[i]) \in MailJob /\ Done(jobs[i]).user = jobs[i].user /\ Done(jobs[i]).state = "done"
      BY <1>1 DEF MailJob, Done
    <3>3. QED
      BY <3>1, <3>2
  <2>2. CASE jobs[i].user \notin Gone
    <3> DEFINE j == [jobs[i] EXCEPT !.state = "active", !.holder = {w}]
    <3>1. jobs' = [jobs EXCEPT ![i].state = "active", ![i].holder = {w}]
      BY <2>2 DEF TakeMail
    <3>2. jobs' = [jobs EXCEPT ![i] = j]
      BY <1>1, <3>1 DEF MailJob
    <3>3. j \in MailJob /\ j.user = jobs[i].user /\ j.state = "active"
      BY <1>1 DEF MailJob
    <3> HIDE DEF j
    <3>4. QED
      BY <3>2, <3>3
  <2>3. QED
    BY <2>1, <2>2
<1>3. /\ jobs' \in Seq(MailJob) /\ DOMAIN jobs' = DOMAIN jobs
      /\ \A k \in DOMAIN jobs : jobs'[k] = IF k = i THEN j ELSE jobs[k]
  BY <1>1, <1>2
<1>4. JobsGrow
  BY <1>2, <1>3 DEF JobsGrow
<1>5. PICK x \in MailerState :
         /\ mailer' = [mailer EXCEPT ![w] = x]
         /\ x.at \in {"idle", "log"} /\ (x.at = "log" => x.job = i)
  <2>1. CASE jobs[i].user \in Gone
    <3>1. mailer' = mailer /\ mailer[w] \in MailerState
      BY <1>1, <2>1 DEF TakeMail, MailOK, MailTypes
    <3>2. mailer' = [mailer EXCEPT ![w] = mailer[w]]
      BY <1>1, <3>1 DEF MailOK, MailTypes
    <3>3. QED
      BY <1>1, <3>1, <3>2
  <2>2. CASE jobs[i].user \notin Gone
    <3>1. mailer' = [mailer EXCEPT ![w] = [at |-> "log", job |-> i, log |-> 0]]
      BY <2>2 DEF TakeMail
    <3>2. [at |-> "log", job |-> i, log |-> 0] \in MailerState
      BY <1>1 DEF MailerState
    <3>3. QED
      BY <3>1, <3>2
  <2>3. QED
    BY <2>1, <2>2
<1>6. MailTypes'
  BY <1>1, <1>3, <1>5 DEF MailOK, MailTypes, BesideDelivery
<1>7. MailerFits(w)' /\ \A v \in Mailers : v # w => mailer'[v] = mailer[v]
  BY <1>1, <1>3, <1>5 DEF MailerFits, MailOK, MailTypes
<1>8. MailOK'
  BY <1>1, <1>4, <1>6, <1>7, WorkerKept
<1>9. ASSUME NEW u \in Told
      PROVE  MailsDue(u)' <= Meant(u)' + repeats'[u]
  <2>1. /\ IsFiniteSet(Mailed(u)) /\ IsFiniteSet(Queued(u)) /\ IsFiniteSet(Writing(u))
        /\ Cardinality(Mailed(u)) \in Nat /\ Cardinality(Queued(u)) \in Nat
        /\ Cardinality(Writing(u)) \in Nat
    BY <1>1, FiniteMails
  <2>2. Mailed(u)' = Mailed(u) /\ repeats'[u] = repeats[u] /\ repeats[u] \in Nat
    BY <1>1 DEF Mailed, MailOK, MailTypes
  <2>3. Queued(u)' \subseteq Queued(u) \ {i}
    BY <1>2, <1>3 DEF Queued
  <2>4. /\ Writing(u)' \subseteq Writing(u) \cup {w}
        /\ jobs[i].user # u => Writing(u)' \subseteq Writing(u)
    <3>1. x.at # "idle" => x.job \in DOMAIN jobs
      BY <1>5
    <3>2. /\ Writing(u)' \subseteq Writing(u) \cup {w}
          /\ x.at \in {"idle", "mark"} => Writing(u)' \subseteq Writing(u) \ {w}
          /\ x.at # "idle" /\ jobs[x.job].user # u => Writing(u)' \subseteq Writing(u) \ {w}
      BY <1>1, <1>4, <1>5, <3>1, WritingAfter
    <3>3. QED
      BY <1>5, <3>2
  <2>5. CASE jobs[i].user = u
    <3>1. i \in Queued(u)
      BY <1>1, <2>5 DEF Queued
    <3>2. /\ Cardinality(Queued(u)') \in Nat
          /\ Cardinality(Queued(u)') <= Cardinality(Queued(u)) + (-1)
      BY <2>1, <2>3, <3>1, OneLess
    <3>3. /\ Cardinality(Writing(u)') \in Nat
          /\ Cardinality(Writing(u)') <= Cardinality(Writing(u)) + 1
      BY <2>1, <2>4, OneMoreAtMost
    <3>4. 0 + (-1) + 1 <= repeats'[u] - repeats[u] /\ 0 \in Int /\ -1 \in Int /\ 1 \in Int
      BY <2>2
    <3>5. Cardinality(Mailed(u)') \in Nat /\ Cardinality(Mailed(u)') <= Cardinality(Mailed(u)) + 0
      BY <2>1, <2>2
    <3>6. QED
      BY <1>1, <2>2, <3>2, <3>3, <3>4, <3>5, DueAfter
  <2>6. CASE jobs[i].user # u
    <3>1. Queued(u)' \subseteq Queued(u) /\ Writing(u)' \subseteq Writing(u)
      BY <2>3, <2>4, <2>6
    <3>2. QED
      BY <1>1, <2>2, <3>1, DueNoMore
  <2>7. QED
    BY <2>5, <2>6
<1>10. QED
  BY <1>8, <1>9 DEF MailInv

\* A row of its own for each attempt, not mailed yet.
LEMMA CreateLogOK ==
    ASSUME MailInv, NEW w \in Mailers, CreateLog(w)
    PROVE  MailInv'
<1> DEFINE r == [user |-> Job(w).user, status |-> "pending", mailed |-> FALSE]
           x == [mailer[w] EXCEPT !.at = "send", !.log = Len(logs) + 1]
<1>1. /\ MailOK /\ mailer[w].at = "log" /\ mailer[w] \in MailerState
      /\ BesideDelivery /\ JobsGrow /\ jobs' = jobs /\ repeats' = repeats /\ logs \in Seq(LogRow)
  BY DEF MailInv, MailOK, MailTypes, CreateLog, BesideDelivery, JobsGrow
<1>2. r \in LogRow /\ r.user = jobs[mailer[w].job].user /\ ~ r.mailed
      /\ mailer[w].job \in DOMAIN jobs
  <2>1. Job(w) \in MailJob /\ Job(w) = jobs[mailer[w].job] /\ mailer[w].job \in DOMAIN jobs
    BY <1>1, JobOfWorker
  <2>2. QED
    BY <2>1 DEF MailJob, LogRow
<1>3. logs' = Append(logs, r)
  BY DEF CreateLog
<1> HIDE DEF r
<1>4. /\ logs' \in Seq(LogRow) /\ Len(logs') = Len(logs) + 1
      /\ DOMAIN logs' = DOMAIN logs \cup {Len(logs) + 1}
      /\ \A i \in DOMAIN logs : logs'[i] = logs[i]
      /\ logs'[Len(logs) + 1] = r
  BY <1>1, <1>2, <1>3
<1>5. LogsGrow
  BY <1>4 DEF LogsGrow
<1>6. x \in MailerState /\ x.at = "send" /\ x.job = mailer[w].job /\ x.log = Len(logs) + 1
  <2>1. Len(logs) + 1 \in Nat
    BY <1>1
  <2>2. QED
    BY <1>1, <2>1 DEF MailerState
<1>7. mailer' = [mailer EXCEPT ![w] = x]
  <2>1. mailer' = [mailer EXCEPT ![w].at = "send", ![w].log = Len(logs) + 1]
    BY <1>4 DEF CreateLog
  <2>2. QED
    BY <1>1, <2>1 DEF MailerState
<1> HIDE DEF x
<1>8. MailTypes'
  BY <1>1, <1>4, <1>6, <1>7 DEF MailOK, MailTypes, BesideDelivery
<1>9. MailerFits(w)' /\ \A v \in Mailers : v # w => mailer'[v] = mailer[v]
  BY <1>1, <1>2, <1>4, <1>6, <1>7 DEF MailerFits, MailOK, MailTypes
<1>10. MailOK'
  BY <1>1, <1>5, <1>8, <1>9, WorkerKept
<1>11. ASSUME NEW u \in Told
       PROVE  MailsDue(u)' <= Meant(u)' + repeats'[u]
  <2>1. Mailed(u)' \subseteq Mailed(u)
    BY <1>2, <1>4 DEF Mailed
  <2>2. Queued(u)' \subseteq Queued(u)
    BY <1>1 DEF Queued
  <2>3. Writing(u)' \subseteq Writing(u)
    <3>1. x.at # "idle" => x.job \in DOMAIN jobs
      BY <1>2, <1>6
    <3>2. /\ Writing(u)' \subseteq Writing(u) \cup {w}
          /\ x.at # "idle" /\ jobs[x.job].user # u => Writing(u)' \subseteq Writing(u) \ {w}
      BY <1>1, <1>6, <1>7, <3>1, WritingAfter
    <3>3. jobs[mailer[w].job].user = u => w \in Writing(u)
      BY <1>1 DEF Writing
    <3>4. QED
      BY <1>6, <3>2, <3>3
  <2>4. repeats'[u] \in Nat /\ repeats[u] <= repeats'[u]
    BY <1>1 DEF MailOK, MailTypes
  <2>5. QED
    BY <1>1, <2>1, <2>2, <2>3, <2>4, DueNoMore
<1>12. QED
  BY <1>10, <1>11 DEF MailInv

\* Only the place of a worker changes.
LEMMA PlaceAfter ==
    ASSUME MailOK, NEW w \in Mailers, mailer[w].at \in {"send", "mark"},
           NEW a \in {"mark", "catch"}, mailer' = [mailer EXCEPT ![w].at = a], JobsGrow, jobs' = jobs,
           LogsGrow, BesideDelivery, logs' \in Seq(LogRow), repeats' \in [Told -> Nat]
    PROVE  /\ MailOK'
           /\ \A u \in Told : Writing(u)' \subseteq Writing(u) \cup {w}
           /\ a = "mark" => \A u \in Told : Writing(u)' \subseteq Writing(u) \ {w}
           /\ \A u \in Told : u # Job(w).user => Writing(u)' \subseteq Writing(u)
<1> DEFINE x == [mailer[w] EXCEPT !.at = a]
<1>1. /\ mailer[w] \in MailerState
      /\ mailer[w].job \in DOMAIN jobs /\ Job(w) = jobs[mailer[w].job]
  BY JobOfWorker
<1>2. x \in MailerState /\ x.at = a /\ x.job = mailer[w].job /\ x.log = mailer[w].log
  BY <1>1 DEF MailerState
<1>3. mailer' = [mailer EXCEPT ![w] = x]
  BY <1>1 DEF MailerState
<1> HIDE DEF x
<1>4. MailTypes'
  BY <1>2, <1>3 DEF MailOK, MailTypes, BesideDelivery
<1>5. MailerFits(w)' /\ \A v \in Mailers : v # w => mailer'[v] = mailer[v]
  <2>1. MailerFits(w) /\ mailer \in [Mailers -> MailerState]
    BY DEF MailOK, MailTypes
  <2>2. mailer'[w] = x /\ \A v \in Mailers : v # w => mailer'[v] = mailer[v]
    BY <1>3, <2>1
  <2>3. MailerFits(w)'
    BY <1>1, <1>2, <2>1, <2>2 DEF MailerFits, LogsGrow
  <2>4. QED
    BY <2>2, <2>3
<1>6. MailOK'
  BY <1>4, <1>5, WorkerKept
<1>7. x.at # "idle" /\ x.job \in DOMAIN jobs /\ jobs[x.job].user = Job(w).user
  BY <1>1, <1>2
<1>8. ASSUME NEW u \in Told
      PROVE  /\ Writing(u)' \subseteq Writing(u) \cup {w}
             /\ a = "mark" => Writing(u)' \subseteq Writing(u) \ {w}
             /\ u # Job(w).user => Writing(u)' \subseteq Writing(u)
  <2>1. /\ Writing(u)' \subseteq Writing(u) \cup {w}
        /\ x.at \in {"idle", "mark"} => Writing(u)' \subseteq Writing(u) \ {w}
        /\ x.at # "idle" /\ jobs[x.job].user # u => Writing(u)' \subseteq Writing(u) \ {w}
    BY <1>2, <1>3, <1>7, WritingAfter
  <2>2. QED
    BY <1>2, <1>7, <2>1
<1>9. QED
  BY <1>6, <1>8

\* A mail goes out, and the worker has none left to send.
LEMMA SendOK ==
    ASSUME MailInv, NEW w \in Mailers, Send(w)
    PROVE  MailInv'
<1> DEFINE i == mailer[w].log
           r == [logs[i] EXCEPT !.mailed = TRUE]
<1>1. /\ MailOK /\ mailer[w].at = "send" /\ BesideDelivery /\ JobsGrow /\ jobs' = jobs
      /\ repeats' = repeats /\ repeats \in [Told -> Nat]
  BY DEF MailInv, MailOK, MailTypes, Send, BesideDelivery, JobsGrow
<1>2. /\ i \in DOMAIN logs /\ logs \in Seq(LogRow)
      /\ logs[i].user = Job(w).user
  BY <1>1 DEF MailOK, MailTypes, MailerFits, Job
<1>3. r \in LogRow /\ r.user = logs[i].user
  <2>1. logs[i] \in LogRow
    BY <1>2
  <2>2. QED
    BY <2>1 DEF LogRow
<1>4. logs' = [logs EXCEPT ![i] = r]
  <2>1. logs' = [logs EXCEPT ![i].mailed = TRUE]
    BY DEF Send
  <2>2. QED
    BY <1>2, <2>1 DEF LogRow
<1> HIDE DEF r, i
<1>5. /\ logs' \in Seq(LogRow) /\ DOMAIN logs' = DOMAIN logs
      /\ \A k \in DOMAIN logs : logs'[k] = IF k = i THEN r ELSE logs[k]
  BY <1>2, <1>3, <1>4
<1>6. LogsGrow
  BY <1>3, <1>5 DEF LogsGrow
<1>7. mailer' = [mailer EXCEPT ![w].at = "mark"]
  BY DEF Send
<1>8. MailOK' /\ \A u \in Told : Writing(u)' \subseteq Writing(u) \ {w}
  BY <1>1, <1>5, <1>6, <1>7, PlaceAfter
<1>9. ASSUME NEW u \in Told
      PROVE  MailsDue(u)' <= Meant(u)' + repeats'[u]
  <2>1. /\ IsFiniteSet(Mailed(u)) /\ IsFiniteSet(Writing(u))
        /\ Cardinality(Queued(u)) \in Nat
        /\ Cardinality(Mailed(u)) \in Nat /\ Cardinality(Writing(u)) \in Nat
    BY <1>1, FiniteMails
  <2>2. Queued(u)' = Queued(u) /\ repeats'[u] = repeats[u] /\ repeats[u] \in Nat
    BY <1>1 DEF Queued
  <2>3. /\ Mailed(u)' \subseteq Mailed(u) \cup {i}
        /\ u # Job(w).user => Mailed(u)' \subseteq Mailed(u)
    BY <1>2, <1>3, <1>5 DEF Mailed
  <2>4. Writing(u)' \subseteq Writing(u) \ {w}
    BY <1>8
  <2>5. CASE u = Job(w).user
    <3>1. w \in Writing(u)
      BY <1>1, <2>5 DEF Writing, Job
    <3>2. /\ Cardinality(Writing(u)') \in Nat
          /\ Cardinality(Writing(u)') <= Cardinality(Writing(u)) + (-1)
      BY <2>1, <2>4, <3>1, OneLess
    <3>3. /\ Cardinality(Mailed(u)') \in Nat
          /\ Cardinality(Mailed(u)') <= Cardinality(Mailed(u)) + 1
      BY <2>1, <2>3, OneMoreAtMost
    <3>4. /\ Cardinality(Queued(u)') \in Nat
          /\ Cardinality(Queued(u)') <= Cardinality(Queued(u)) + 0
      BY <2>1, <2>2
    <3>5. 1 + 0 + (-1) <= repeats'[u] - repeats[u] /\ 0 \in Int /\ -1 \in Int /\ 1 \in Int
      BY <2>2
    <3>6. QED
      BY <1>1, <2>2, <3>2, <3>3, <3>4, <3>5, DueAfter
  <2>6. CASE u # Job(w).user
    <3>1. Writing(u)' \subseteq Writing(u) /\ Queued(u)' \subseteq Queued(u)
      BY <2>2, <2>4
    <3>2. QED
      BY <1>1, <2>2, <2>3, <2>6, <3>1, DueNoMore
  <2>7. QED
    BY <2>5, <2>6
<1>10. QED
  BY <1>8, <1>9 DEF MailInv

\* The mark after a mail: the job is done.
LEMMA MarkSentOK ==
    ASSUME MailInv, NEW w \in Mailers, MarkSent(w)
    PROVE  MailInv'
<1> DEFINE x == [at |-> "idle", job |-> 0, log |-> 0]
<1>1. /\ MailOK /\ mailer[w].at = "mark" /\ BesideDelivery /\ repeats' = repeats
      /\ EndJob(w, Done(Job(w))) /\ mailer[w].log \in DOMAIN logs
      /\ logs' = [logs EXCEPT ![mailer[w].log].status = "sent"]
  BY DEF MailInv, MailOK, MailerFits, MarkSent, BesideDelivery
<1>2. x \in MailerState /\ x.at = "idle" /\ mailer' = [mailer EXCEPT ![w] = x]
  BY DEF MarkSent, Rest, MailerState
<1> HIDE DEF x
<1>3. /\ Done(Job(w)) \in MailJob /\ Done(Job(w)).user = Job(w).user /\ Done(Job(w)).state = "done"
  BY <1>1, JobOfWorker
<1>4. jobs' \in Seq(MailJob) /\ JobsGrow
  BY <1>1, <1>3, JobsAfter
<1>5. logs' \in Seq(LogRow) /\ LogsGrow /\ \A u \in Told : Mailed(u)' = Mailed(u)
  BY <1>1, StatusAfter
<1>6. MailTypes'
  BY <1>1, <1>2, <1>4, <1>5 DEF MailOK, MailTypes, BesideDelivery
<1>7. MailerFits(w)' /\ \A v \in Mailers : v # w => mailer'[v] = mailer[v]
  BY <1>1, <1>2 DEF MailerFits, MailOK, MailTypes
<1>8. MailOK'
  BY <1>1, <1>4, <1>5, <1>6, <1>7, WorkerKept
<1>9. ASSUME NEW u \in Told
      PROVE  MailsDue(u)' <= Meant(u)' + repeats'[u]
  <2>1. Queued(u)' \subseteq Queued(u)
    BY <1>1, <1>3, QueuedAfter
  <2>2. Writing(u)' \subseteq Writing(u)
    BY <1>1, <1>2, <1>4, WritingAfter
  <2>3. repeats'[u] \in Nat /\ repeats[u] <= repeats'[u]
    BY <1>1 DEF MailOK, MailTypes
  <2>4. QED
    BY <1>1, <1>5, <2>1, <2>2, <2>3, DueNoMore
<1>10. QED
  BY <1>8, <1>9 DEF MailInv

\* A counter that grows by one for the user of a job or of a row.
LEMMA RepeatsAfter ==
    ASSUME MailOK, NEW v \in Told, repeats' = [repeats EXCEPT ![v] = @ + 1]
    PROVE  /\ repeats' \in [Told -> Nat]
           /\ \A u \in Told : repeats'[u] = IF u = v THEN repeats[u] + 1 ELSE repeats[u]
<1>1. repeats \in [Told -> Nat]
  BY DEF MailOK, MailTypes
<1>2. QED
  BY <1>1

\* The call for a mail throws: nothing was sent, or the mark failed after it.
LEMMA SendThrowsOK ==
    ASSUME MailInv, NEW w \in Mailers, SendThrows(w)
    PROVE  MailInv'
<1> DEFINE v == Job(w).user
<1>1. /\ MailOK /\ mailer[w].at \in {"send", "mark"} /\ BesideDelivery /\ JobsGrow /\ jobs' = jobs
      /\ LogsGrow /\ logs' = logs /\ mailer' = [mailer EXCEPT ![w].at = "catch"]
  BY DEF MailInv, SendThrows, BesideDelivery, JobsGrow, LogsGrow
<1>2. v \in Told /\ v = jobs[mailer[w].job].user
  <2>1. Job(w) \in MailJob /\ Job(w) = jobs[mailer[w].job]
    BY <1>1, JobOfWorker
  <2>2. QED
    BY <2>1 DEF MailJob
<1> HIDE DEF v
<1>3. repeats' = IF mailer[w].at = "mark" THEN [repeats EXCEPT ![v] = @ + 1] ELSE repeats
  BY DEF SendThrows, v
<1>4. /\ repeats' \in [Told -> Nat] /\ repeats \in [Told -> Nat]
      /\ \A u \in Told : repeats[u] <= repeats'[u]
      /\ mailer[w].at = "mark" => repeats'[v] = repeats[v] + 1
  <2>1. repeats \in [Told -> Nat]
    BY <1>1 DEF MailOK, MailTypes
  <2>2. CASE mailer[w].at = "mark"
    <3>1. repeats' = [repeats EXCEPT ![v] = @ + 1]
      BY <1>3, <2>2
    <3>2. /\ repeats' \in [Told -> Nat]
          /\ \A u \in Told : repeats'[u] = IF u = v THEN repeats[u] + 1 ELSE repeats[u]
      BY <1>1, <1>2, <3>1, RepeatsAfter
    <3>3. QED
      BY <1>2, <2>1, <3>2
  <2>3. CASE mailer[w].at # "mark"
    BY <1>3, <2>1, <2>3
  <2>4. QED
    BY <2>2, <2>3, <2>1
<1>5. /\ MailOK'
      /\ \A u \in Told : Writing(u)' \subseteq Writing(u) \cup {w}
      /\ \A u \in Told : u # v => Writing(u)' \subseteq Writing(u)
  <2>1. logs' \in Seq(LogRow)
    BY <1>1 DEF MailOK, MailTypes
  <2>2. QED
    BY <1>1, <1>4, <2>1, PlaceAfter DEF v
<1>6. ASSUME NEW u \in Told
      PROVE  MailsDue(u)' <= Meant(u)' + repeats'[u]
  <2>1. Mailed(u)' = Mailed(u) /\ Queued(u)' = Queued(u)
    BY <1>1 DEF Mailed, Queued
  <2>2. /\ Cardinality(Mailed(u)) \in Nat /\ Cardinality(Queued(u)) \in Nat
        /\ Cardinality(Writing(u)) \in Nat /\ IsFiniteSet(Writing(u))
    BY <1>1, FiniteMails
  <2>3. CASE u = v /\ mailer[w].at = "mark"
    <3>1. /\ Cardinality(Writing(u)') \in Nat
          /\ Cardinality(Writing(u)') <= Cardinality(Writing(u)) + 1
      BY <1>5, <2>2, OneMoreAtMost
    <3>2. /\ Cardinality(Mailed(u)') \in Nat /\ Cardinality(Mailed(u)') <= Cardinality(Mailed(u)) + 0
          /\ Cardinality(Queued(u)') \in Nat /\ Cardinality(Queued(u)') <= Cardinality(Queued(u)) + 0
      BY <2>1, <2>2
    <3>3. repeats'[u] \in Nat /\ 0 + 0 + 1 <= repeats'[u] - repeats[u] /\ 0 \in Int /\ 1 \in Int
      BY <1>4, <2>3
    <3>4. QED
      BY <1>1, <3>1, <3>2, <3>3, DueAfter
  <2>4. CASE ~(u = v /\ mailer[w].at = "mark")
    <3>1. Writing(u)' \subseteq Writing(u)
      <4>1. CASE u # v
        BY <1>5, <4>1
      <4>2. CASE u = v
        <5>1. w \in Writing(u)
          BY <1>1, <1>2, <2>4, <4>2 DEF Writing
        <5>2. QED
          BY <1>5, <5>1
      <4>3. QED
        BY <4>1, <4>2
    <3>2. QED
      BY <1>1, <1>4, <2>1, <3>1, DueNoMore
  <2>5. QED
    BY <2>3, <2>4
<1>7. QED
  BY <1>5, <1>6 DEF MailInv

\* The lock of a job runs out: another worker may take it, and the first one may
\* send its mail all the same.
LEMMA StallMailOK ==
    ASSUME MailInv, NEW w \in Mailers, StallMail(w)
    PROVE  MailInv'
<1> DEFINE v == Job(w).user
<1>1. /\ MailOK /\ mailer[w].at # "idle" /\ BesideDelivery /\ LogsGrow /\ logs' = logs
      /\ repeats' = [repeats EXCEPT ![v] = @ + 1]
  BY DEF MailInv, StallMail, BesideDelivery, LogsGrow
<1>2. PICK j \in MailJob : j.user = v /\ EndJob(w, j)
  <2>1. Job(w) \in MailJob
    BY <1>1, JobOfWorker
  <2>2. \E s \in {"waiting", "failed"} :
           EndJob(w, [Job(w) EXCEPT !.state = s, !.stalls = @ + 1, !.holder = {}])
    BY DEF StallMail
  <2>3. PICK s \in {"waiting", "failed"} :
           EndJob(w, [Job(w) EXCEPT !.state = s, !.stalls = @ + 1, !.holder = {}])
    BY <2>2
  <2>4. [Job(w) EXCEPT !.state = s, !.stalls = @ + 1, !.holder = {}] \in MailJob
    <3> DEFINE d == Job(w)
    <3> HIDE DEF d
    <3>1. d \in MailJob
      BY <2>1 DEF d
    <3>2. d.stalls + 1 \in Nat
      BY <3>1 DEF MailJob
    <3>3. [d EXCEPT !.state = s, !.stalls = @ + 1, !.holder = {}] \in MailJob
      BY <3>1, <3>2 DEF MailJob
    <3>4. QED
      BY <3>3 DEF d
  <2>5. [Job(w) EXCEPT !.state = s, !.stalls = @ + 1, !.holder = {}].user = v
    BY <2>1 DEF MailJob
  <2>6. QED
    BY <2>3, <2>4, <2>5
<1>3. v \in Told /\ mailer[w] \in MailerState /\ mailer[w].job \in DOMAIN jobs
  <2>1. Job(w) \in MailJob
    BY <1>1, JobOfWorker
  <2>2. QED
    BY <1>1, <2>1, JobOfWorker DEF MailJob
<1>4. jobs' \in Seq(MailJob) /\ JobsGrow /\ DOMAIN jobs' = DOMAIN jobs
  BY <1>1, <1>2, JobsAfter
<1>5. PICK x \in MailerState :
         /\ mailer' = [mailer EXCEPT ![w] = x]
         /\ x.at = "idle" \/ x = mailer[w]
  <2>1. CASE Rest(w)
    <3>1. [at |-> "idle", job |-> 0, log |-> 0] \in MailerState
      BY DEF MailerState
    <3>2. QED
      BY <2>1, <3>1 DEF Rest
  <2>2. CASE UNCHANGED mailer
    <3>1. mailer' = [mailer EXCEPT ![w] = mailer[w]]
      BY <1>1, <2>2 DEF MailOK, MailTypes
    <3>2. QED
      BY <1>3, <3>1
  <2>3. QED
    BY <2>1, <2>2 DEF StallMail
<1>6. repeats' \in [Told -> Nat] /\ repeats \in [Told -> Nat] /\ v \in Told
      /\ \A u \in Told : repeats'[u] = IF u = v THEN repeats[u] + 1 ELSE repeats[u]
  BY <1>1, <1>3, RepeatsAfter DEF MailOK, MailTypes
<1> HIDE DEF v
<1>7. MailTypes'
  BY <1>1, <1>4, <1>5, <1>6 DEF MailOK, MailTypes, BesideDelivery
<1>8. \A k \in Mailers : k # w => mailer'[k] = mailer[k]
  BY <1>1, <1>5 DEF MailOK, MailTypes
<1>9. MailerFits(w)'
  <2>1. mailer'[w] = x
    BY <1>1, <1>5 DEF MailOK, MailTypes
  <2>2. MailerFits(w)
    BY <1>1 DEF MailOK
  <2>3. CASE x.at = "idle"
    BY <2>1, <2>3 DEF MailerFits
  <2>4. CASE x = mailer[w]
    BY <1>1, <1>4, <2>1, <2>2, <2>4 DEF MailerFits, JobsGrow
  <2>5. QED
    BY <1>5, <2>3, <2>4
<1>10. MailOK'
  BY <1>1, <1>4, <1>7, <1>8, <1>9, WorkerKept
<1>11. ASSUME NEW u \in Told
       PROVE  MailsDue(u)' <= Meant(u)' + repeats'[u]
  <2>1. Mailed(u)' = Mailed(u)
    BY <1>1 DEF Mailed
  <2>2. /\ Queued(u)' \subseteq Queued(u) \cup {mailer[w].job}
        /\ u # v => Queued(u)' \subseteq Queued(u)
    BY <1>1, <1>2, QueuedAfter DEF v
  <2>3. Writing(u)' \subseteq Writing(u)
    <3>1. CASE x.at = "idle"
      BY <1>1, <1>4, <1>5, <3>1, WritingAfter
    <3>2. CASE x = mailer[w]
      BY <1>1, <1>3, <1>4, <1>5, <1>8, <3>2 DEF Writing, JobsGrow, MailOK, MailTypes, MailerFits
    <3>3. QED
      BY <1>5, <3>1, <3>2
  <2>4. /\ IsFiniteSet(Queued(u)) /\ IsFiniteSet(Writing(u))
        /\ Cardinality(Mailed(u)) \in Nat /\ Cardinality(Queued(u)) \in Nat
        /\ Cardinality(Writing(u)) \in Nat
    BY <1>1, FiniteMails
  <2>5. CASE u = v
    <3>1. /\ Cardinality(Queued(u)') \in Nat
          /\ Cardinality(Queued(u)') <= Cardinality(Queued(u)) + 1
      BY <2>2, <2>4, OneMoreAtMost
    <3>2. /\ Cardinality(Writing(u)') \in Nat
          /\ Cardinality(Writing(u)') <= Cardinality(Writing(u))
      BY <2>3, <2>4, SameOrFewer
    <3>3. /\ Cardinality(Mailed(u)') \in Nat /\ Cardinality(Mailed(u)') <= Cardinality(Mailed(u)) + 0
          /\ Cardinality(Writing(u)') <= Cardinality(Writing(u)) + 0
      BY <2>1, <2>4, <3>2
    <3>4. repeats'[u] \in Nat /\ 0 + 1 + 0 <= repeats'[u] - repeats[u] /\ 0 \in Int /\ 1 \in Int
      BY <1>6, <2>5
    <3>5. QED
      BY <1>1, <3>1, <3>2, <3>3, <3>4, DueAfter
  <2>6. CASE u # v
    <3>1. repeats'[u] \in Nat /\ repeats[u] <= repeats'[u]
      BY <1>6, <2>6
    <3>2. Mailed(u)' \subseteq Mailed(u)
      BY <2>1
    <3>3. QED
      BY <1>1, <2>2, <2>3, <2>6, <3>1, <3>2, DueNoMore
  <2>7. QED
    BY <2>5, <2>6
<1>12. QED
  BY <1>10, <1>11 DEF MailInv

\* One more job, for a user who is listed.
LEMMA JobAdded ==
    ASSUME MailOK, NEW v \in Told, jobs' = Append(jobs, NewJob(v))
    PROVE  /\ jobs' \in Seq(MailJob) /\ JobsGrow
           /\ \A u \in Told : /\ Queued(u)' \subseteq Queued(u) \cup {Len(jobs) + 1}
                              /\ u # v => Queued(u)' \subseteq Queued(u)
<1>1. jobs \in Seq(MailJob)
  BY DEF MailOK, MailTypes
<1> DEFINE j == NewJob(v)
<1>2. j \in MailJob /\ j.user = v
  BY DEF NewJob, MailJob
<1> HIDE DEF j
<1>3. jobs' = Append(jobs, j)
  BY DEF j
<1>4. /\ jobs' \in Seq(MailJob)
      /\ DOMAIN jobs' = DOMAIN jobs \cup {Len(jobs) + 1}
      /\ \A i \in DOMAIN jobs : jobs'[i] = jobs[i]
      /\ jobs'[Len(jobs) + 1] = j
  BY <1>1, <1>2, <1>3
<1>5. JobsGrow
  BY <1>4 DEF JobsGrow
<1>6. \A u \in Told : /\ Queued(u)' \subseteq Queued(u) \cup {Len(jobs) + 1}
                      /\ u # v => Queued(u)' \subseteq Queued(u)
  BY <1>2, <1>4 DEF Queued
<1>7. QED
  BY <1>4, <1>5, <1>6

\* An operator asks for a failed mail again.
LEMMA RetryMailOK ==
    ASSUME MailInv, NEW i \in DOMAIN logs, RetryMail(i)
    PROVE  MailInv'
<1> DEFINE v == logs[i].user
<1>1. /\ MailOK /\ BesideDelivery /\ LogsGrow /\ logs' = logs /\ mailer' = mailer
      /\ jobs' = Append(jobs, NewJob(v)) /\ repeats' = [repeats EXCEPT ![v] = @ + 1]
  BY DEF MailInv, RetryMail, BesideDelivery, LogsGrow
<1>2. v \in Told
  <2>1. logs[i] \in LogRow
    BY <1>1 DEF MailOK, MailTypes
  <2>2. QED
    BY <2>1 DEF LogRow
<1> HIDE DEF v
<1>3. /\ jobs' \in Seq(MailJob) /\ JobsGrow
      /\ \A u \in Told : /\ Queued(u)' \subseteq Queued(u) \cup {Len(jobs) + 1}
                         /\ u # v => Queued(u)' \subseteq Queued(u)
  BY <1>1, <1>2, JobAdded
<1>4. /\ repeats' \in [Told -> Nat] /\ repeats \in [Told -> Nat]
      /\ \A u \in Told : repeats'[u] = IF u = v THEN repeats[u] + 1 ELSE repeats[u]
  BY <1>1, <1>2, RepeatsAfter DEF MailOK, MailTypes
<1>5. MailTypes'
  BY <1>1, <1>3, <1>4 DEF MailOK, MailTypes, BesideDelivery
<1>6. ASSUME NEW w \in Mailers
      PROVE  MailerFits(w)'
  BY <1>1, <1>3, <1>6 DEF MailOK, MailerFits, JobsGrow
<1>7. MailOK'
  BY <1>1, <1>5, <1>6, DeliveryKept DEF MailOK
<1>8. ASSUME NEW u \in Told
      PROVE  MailsDue(u)' <= Meant(u)' + repeats'[u]
  <2>1. Mailed(u)' = Mailed(u)
    BY <1>1 DEF Mailed
  <2>2. Writing(u)' = Writing(u)
    BY <1>1, <1>3 DEF Writing, MailOK, MailerFits, JobsGrow
  <2>3. /\ IsFiniteSet(Queued(u)) /\ Cardinality(Writing(u)) \in Nat
        /\ Cardinality(Mailed(u)) \in Nat /\ Cardinality(Queued(u)) \in Nat
    BY <1>1, FiniteMails
  <2>4. CASE u = v
    <3>1. /\ Cardinality(Queued(u)') \in Nat
          /\ Cardinality(Queued(u)') <= Cardinality(Queued(u)) + 1
      BY <1>3, <2>3, OneMoreAtMost
    <3>2. /\ Cardinality(Mailed(u)') \in Nat /\ Cardinality(Mailed(u)') <= Cardinality(Mailed(u)) + 0
          /\ Cardinality(Writing(u)') \in Nat
          /\ Cardinality(Writing(u)') <= Cardinality(Writing(u)) + 0
      BY <2>1, <2>2, <2>3
    <3>3. repeats'[u] \in Nat /\ 0 + 1 + 0 <= repeats'[u] - repeats[u] /\ 0 \in Int /\ 1 \in Int
      BY <1>4, <2>4
    <3>4. QED
      BY <1>1, <3>1, <3>2, <3>3, DueAfter
  <2>5. CASE u # v
    <3>1. repeats'[u] \in Nat /\ repeats[u] <= repeats'[u]
      BY <1>4, <2>5
    <3>2. Mailed(u)' \subseteq Mailed(u) /\ Queued(u)' \subseteq Queued(u)
          /\ Writing(u)' \subseteq Writing(u)
      BY <1>3, <2>1, <2>2, <2>5
    <3>3. QED
      BY <1>1, <3>1, <3>2, DueNoMore
  <2>6. QED
    BY <2>4, <2>5
<1>9. QED
  BY <1>7, <1>8 DEF MailInv

-----------------------------------------------------------------------------
(* Notifications: the delivery of the event *)

LEMMA ListKept ==
    ASSUME MailOK, event' = event
    PROVE  /\ Recipients' = Recipients
           /\ Recipients \in Seq(Everyone)
           /\ \A u \in Told : Meant(u)' = Meant(u)
<1>1. Recipients' = Recipients
  BY DEF Recipients, RequesterOnly, CreatorAndEmployees, PermissionHolders
<1>2. Recipients \in Seq(Everyone)
  BY RecipientsListed DEF MailOK, MailTypes, TypesOfEvent
<1>3. \A u \in Told : Meant(u)' = Meant(u)
  BY DEF Meant, Times
<1>4. QED
  BY <1>1, <1>2, <1>3

\* The workers of a step of the delivery.
LEMMA MailersKept ==
    ASSUME MailOK, JobsGrow, UNCHANGED <<logs, mailer>>
    PROVE  /\ \A w \in Mailers : MailerFits(w)'
           /\ \A u \in Told : Writing(u)' = Writing(u) /\ Mailed(u)' = Mailed(u)
<1>1. \A w \in Mailers : MailerFits(w)'
  BY DEF MailOK, MailerFits, JobsGrow
<1>2. \A u \in Told : Writing(u)' = Writing(u)
  BY DEF Writing, MailOK, MailerFits, JobsGrow
<1>3. \A u \in Told : Mailed(u)' = Mailed(u)
  BY DEF Mailed
<1>4. QED
  BY <1>1, <1>2, <1>3

LEMMA DispatchOK == MailInv /\ Dispatch => MailInv'
<1>1. SUFFICES ASSUME MailInv, Dispatch PROVE MailInv'
  OBVIOUS
<1>2. /\ MailOK /\ event' = event /\ JobsGrow /\ jobs' = jobs /\ repeats' = repeats
      /\ UNCHANGED <<logs, mailer>> /\ mailing.state = "pending"
      /\ mailing' = [state |-> "adding", left |-> Recipients]
  BY <1>1 DEF MailInv, Dispatch, JobsGrow
<1>3. /\ Recipients' = Recipients /\ Recipients \in Seq(Everyone)
      /\ \A u \in Told : Meant(u)' = Meant(u)
  BY <1>2, ListKept
<1>4. MailTypes'
  BY <1>2, <1>3 DEF MailOK, MailTypes
<1>5. Past = 0 /\ Past' = 0
  BY <1>2, <1>3 DEF Past
<1>6. LeftFits'
  BY <1>2, <1>3, <1>5 DEF LeftFits
<1>7. MailOK'
  BY <1>2, <1>4, <1>6, MailersKept DEF MailOK
<1>8. ASSUME NEW u \in Told
      PROVE  MailsDue(u)' <= Meant(u)' + repeats'[u]
  <2>1. Writing(u)' = Writing(u) /\ Mailed(u)' = Mailed(u) /\ Queued(u)' = Queued(u)
    BY <1>2, MailersKept DEF Queued
  <2>2. ToAdd(u)' = ToAdd(u)
    BY <1>2, <1>3, <1>5 DEF ToAdd
  <2>3. MailsDue(u)' = MailsDue(u)
    BY <2>1, <2>2 DEF MailsDue
  <2>4. QED
    BY <1>1, <1>2, <1>3, <2>3 DEF MailInv
<1>9. QED
  BY <1>7, <1>8 DEF MailInv

\* A place of the list becomes a job, or is skipped.
LEMMA AddMailJobOK == MailInv /\ AddMailJob => MailInv'
<1>1. SUFFICES ASSUME MailInv, AddMailJob PROVE MailInv'
  OBVIOUS
<1>2. /\ MailOK /\ event' = event /\ repeats' = repeats /\ repeats \in [Told -> Nat]
      /\ UNCHANGED <<logs, mailer>> /\ mailing.state = "adding"
      /\ mailing \in [state : {"pending", "adding", "done", "failed"}, left : Seq(Everyone)]
      /\ LeftFits
  BY <1>1 DEF MailInv, MailOK, MailTypes, AddMailJob
<1>3. /\ Recipients' = Recipients /\ Recipients \in Seq(Everyone)
      /\ \A u \in Told : Meant(u)' = Meant(u)
  BY <1>2, ListKept
<1> DEFINE r == Recipients
           n == Len(r) - Len(mailing.left)
<1>4. /\ Past = n /\ n \in Nat /\ Len(mailing.left) \in Nat /\ mailing.left \in Seq(Everyone)
      /\ \A j \in 1..Len(mailing.left) : mailing.left[j] = r[n + j]
  BY <1>2, <1>3 DEF Past, LeftFits
<1>5. CASE mailing.left = <<>>
  <2>1. /\ mailing' = [mailing EXCEPT !.state = "done"] /\ jobs' = jobs /\ JobsGrow
    BY <1>1, <1>5 DEF AddMailJob, JobsGrow
  <2>2. mailing' \in [state : {"pending", "adding", "done", "failed"}, left : Seq(Everyone)]
        /\ mailing'.state = "done"
    BY <1>2, <2>1
  <2>3. MailTypes'
    BY <1>2, <2>1, <2>2 DEF MailOK, MailTypes
  <2>4. LeftFits'
    BY <2>2 DEF LeftFits
  <2>5. MailOK'
    BY <1>2, <2>1, <2>3, <2>4, MailersKept DEF MailOK
  <2>6. ASSUME NEW u \in Told
        PROVE  MailsDue(u)' <= Meant(u)' + repeats'[u]
    <3>1. Writing(u)' = Writing(u) /\ Mailed(u)' = Mailed(u) /\ Queued(u)' = Queued(u)
      BY <1>2, <2>1, MailersKept DEF Queued
    <3>2. ToAdd(u)' = {}
      BY <2>2 DEF ToAdd
    <3>3. /\ Cardinality(Mailed(u)) \in Nat /\ Cardinality(Queued(u)) \in Nat
          /\ Cardinality(Writing(u)) \in Nat /\ Cardinality(ToAdd(u)) \in Nat
      BY <1>2, FiniteMails
    <3>4. MailsDue(u) <= Meant(u) + repeats[u] /\ Meant(u) \in Nat /\ repeats[u] \in Nat
      BY <1>1, <1>2, ListedAsMeant DEF MailInv, MailOK, MailTypes
    <3>5. Cardinality(ToAdd(u)') = 0
      BY <3>2, FS_EmptySet
    <3>6. QED
      BY <1>2, <1>3, <3>1, <3>3, <3>4, <3>5 DEF MailsDue
  <2>7. QED
    BY <2>5, <2>6 DEF MailInv
<1>6. CASE mailing.left # <<>>
  <2> DEFINE v == Head(mailing.left)
  <2>1. /\ mailing' = [mailing EXCEPT !.left = Tail(@)]
        /\ jobs' = IF v = NoUser THEN jobs ELSE Append(jobs, NewJob(v))
    BY <1>1, <1>6 DEF AddMailJob
  <2>2. /\ v = r[n + 1] /\ n + 1 \in DOMAIN r /\ v \in Everyone
        /\ Tail(mailing.left) \in Seq(Everyone)
        /\ Len(Tail(mailing.left)) = Len(mailing.left) - 1
        /\ \A j \in 1..Len(Tail(mailing.left)) : Tail(mailing.left)[j] = r[(n + 1) + j]
    <3> DEFINE l == mailing.left
    <3>1. /\ l \in Seq(Everyone) /\ l # <<>> /\ Len(l) \in Nat \ {0} /\ n + Len(l) = Len(r)
          /\ Len(r) \in Nat /\ DOMAIN r = 1..Len(r) /\ r \in Seq(Everyone) /\ n \in Nat
          /\ \A j \in 1..Len(l) : l[j] = r[n + j]
      <4>1. Len(r) \in Nat /\ DOMAIN r = 1..Len(r) /\ r \in Seq(Everyone)
        BY <1>3
      <4>2. l \in Seq(Everyone) /\ l # <<>> /\ Len(l) \in Nat \ {0}
        BY <1>4, <1>6
      <4>3. n \in Nat /\ \A j \in 1..Len(l) : l[j] = r[n + j]
        BY <1>4
      <4>4. n = Len(r) - Len(l)
        OBVIOUS
      <4> HIDE DEF r, n, l
      <4>5. n + Len(l) = Len(r)
        BY <4>1, <4>2, <4>4
      <4>6. QED
        BY <4>1, <4>2, <4>3, <4>5
    <3> HIDE DEF l, n, r
    <3>2. /\ Tail(l) \in Seq(Everyone) /\ Len(Tail(l)) = Len(l) - 1
          /\ \A j \in 1..Len(Tail(l)) : Tail(l)[j] = l[j + 1]
      BY <3>1
    <3>3. /\ Head(l) = r[n + 1] /\ n + 1 \in DOMAIN r /\ Head(l) \in Everyone
      BY <3>1
    <3>4. ASSUME NEW j \in 1..Len(Tail(l))
          PROVE  Tail(l)[j] = r[(n + 1) + j]
      <4>1. j + 1 \in 1..Len(l) /\ n + (j + 1) = (n + 1) + j
        BY <3>1, <3>2
      <4>2. QED
        BY <3>1, <3>2, <4>1
    <3>5. QED
      BY <3>2, <3>3, <3>4 DEF l
  <2>3. /\ mailing'.left = Tail(mailing.left) /\ mailing'.state = "adding"
        /\ mailing' \in [state : {"pending", "adding", "done", "failed"}, left : Seq(Everyone)]
    BY <1>2, <2>1, <2>2
  <2> HIDE DEF v
  <2>4. Past' = n + 1
    <3>1. Past' = Len(r) - Len(Tail(mailing.left))
      BY <1>3, <2>3 DEF Past
    <3>2. Len(r) \in Nat
      BY <1>3
    <3>3. Len(Tail(mailing.left)) = Len(mailing.left) - 1 /\ Len(mailing.left) \in Nat
      BY <1>4, <2>2
    <3>4. n = Len(r) - Len(mailing.left)
      OBVIOUS
    <3> DEFINE a == Len(r)
               b == Len(mailing.left)
               c == Len(Tail(mailing.left))
    <3>5. Past' = a - c /\ c = b - 1 /\ a \in Nat /\ b \in Nat /\ n = a - b
      BY <3>1, <3>2, <3>3, <3>4
    <3> HIDE DEF a, b, c, n
    <3>6. QED
      BY <3>5
  <2>5. LeftFits'
    <3>1. Len(Tail(mailing.left)) <= Len(r)
      <4>1. Len(r) \in Nat
        BY <1>3
      <4>2. QED
        BY <1>4, <2>2, <4>1
    <3>2. \A j \in 1..Len(Tail(mailing.left)) : Tail(mailing.left)[j] = r[Past' + j]
      BY <2>2, <2>4
    <3>3. QED
      BY <1>3, <2>3, <3>1, <3>2 DEF LeftFits
  <2>6. /\ jobs' \in Seq(MailJob) /\ JobsGrow
        /\ \A u \in Told : /\ Queued(u)' \subseteq Queued(u) \cup {Len(jobs) + 1}
                           /\ u # v => Queued(u)' \subseteq Queued(u)
    <3>1. CASE v = NoUser
      BY <1>2, <2>1, <3>1 DEF MailOK, MailTypes, JobsGrow, Queued
    <3>2. CASE v # NoUser
      <4>1. v \in Told
        BY <2>2, <3>2 DEF Everyone
      <4>2. QED
        BY <1>2, <2>1, <3>2, <4>1, JobAdded
    <3>3. QED
      BY <3>1, <3>2
  <2>7. MailTypes'
    BY <1>2, <2>3, <2>6 DEF MailOK, MailTypes
  <2>8. MailOK'
    BY <1>2, <2>5, <2>6, <2>7, MailersKept DEF MailOK
  <2>9. ASSUME NEW u \in Told
        PROVE  MailsDue(u)' <= Meant(u)' + repeats'[u]
    <3>1. Writing(u)' = Writing(u) /\ Mailed(u)' = Mailed(u)
      BY <1>2, <2>6, MailersKept
    <3>2. ToAdd(u)' \subseteq ToAdd(u) \ {n + 1}
      BY <1>2, <1>3, <1>4, <2>3, <2>4 DEF ToAdd
    <3>3. /\ IsFiniteSet(Queued(u)) /\ IsFiniteSet(ToAdd(u))
          /\ Cardinality(Mailed(u)) \in Nat /\ Cardinality(Queued(u)) \in Nat
          /\ Cardinality(Writing(u)) \in Nat /\ Cardinality(ToAdd(u)) \in Nat
      BY <1>2, FiniteMails
    <3>4. MailsDue(u) <= Meant(u) + repeats[u] /\ Meant(u) \in Nat /\ repeats[u] \in Nat
          /\ Meant(u)' = Meant(u) /\ repeats'[u] = repeats[u]
      BY <1>1, <1>2, <1>3, ListedAsMeant DEF MailInv, MailOK, MailTypes
    <3>5. CASE u = v
      <4>1. n + 1 \in ToAdd(u)
        BY <1>2, <1>4, <2>2, <3>5 DEF ToAdd
      <4>2. /\ Cardinality(ToAdd(u)') \in Nat
            /\ Cardinality(ToAdd(u)') <= Cardinality(ToAdd(u)) - 1
        BY <3>2, <3>3, <4>1, OneLess
      <4>3. /\ Cardinality(Queued(u)') \in Nat
            /\ Cardinality(Queued(u)') <= Cardinality(Queued(u)) + 1
        BY <2>6, <3>3, OneMoreAtMost
      <4>4. QED
        BY <3>1, <3>3, <3>4, <4>2, <4>3 DEF MailsDue
    <3>6. CASE u # v
      <4>1. ToAdd(u)' \subseteq ToAdd(u) /\ Queued(u)' \subseteq Queued(u)
        BY <2>6, <3>2, <3>6
      <4>2. Cardinality(ToAdd(u)') \in Nat /\ Cardinality(ToAdd(u)') <= Cardinality(ToAdd(u))
        BY <3>3, <4>1, SameOrFewer
      <4>3. Cardinality(Queued(u)') \in Nat /\ Cardinality(Queued(u)') <= Cardinality(Queued(u))
        BY <3>3, <4>1, SameOrFewer
      <4>4. QED
        BY <3>1, <3>3, <3>4, <4>2, <4>3 DEF MailsDue
    <3>7. QED
      BY <3>5, <3>6
  <2>10. QED
    BY <2>8, <2>9 DEF MailInv
<1>7. QED
  BY <1>5, <1>6

\* The delivery fails: the places that were used up come back when it is made
\* again, and are counted.
LEMMA DispatchThrowsOK == MailInv /\ DispatchThrows => MailInv'
<1>1. SUFFICES ASSUME MailInv, DispatchThrows PROVE MailInv'
  OBVIOUS
<1>2. /\ MailOK /\ event' = event /\ JobsGrow /\ jobs' = jobs
      /\ UNCHANGED <<logs, mailer>> /\ mailing.state \in {"pending", "adding"}
      /\ mailing \in [state : {"pending", "adding", "done", "failed"}, left : Seq(Everyone)]
      /\ repeats \in [Told -> Nat] /\ LeftFits
      /\ repeats' = [u \in Told |-> repeats[u] + Times(u, Added)]
  BY <1>1 DEF MailInv, MailOK, MailTypes, DispatchThrows, JobsGrow
<1>3. /\ Recipients' = Recipients /\ Recipients \in Seq(Everyone)
      /\ \A u \in Told : Meant(u)' = Meant(u)
  BY <1>2, ListKept
<1>4. /\ mailing'.state \in {"pending", "failed"}
      /\ mailing' \in [state : {"pending", "adding", "done", "failed"}, left : Seq(Everyone)]
  <2>1. \/ mailing' = [state |-> "pending", left |-> <<>>]
        \/ mailing' = [state |-> "failed", left |-> <<>>]
    BY <1>1 DEF DispatchThrows, DeliveredAgain
  <2>2. <<>> \in Seq(Everyone)
    OBVIOUS
  <2> DEFINE S == Seq(Everyone)
  <2> HIDE DEF S
  <2>3. <<>> \in S
    BY <2>2 DEF S
  <2>4. /\ mailing'.state \in {"pending", "failed"}
        /\ mailing' \in [state : {"pending", "adding", "done", "failed"}, left : S]
    BY <2>1, <2>3
  <2>5. QED
    BY <2>4 DEF S
<1>5. Past \in 0..Len(Recipients) /\ Added = SubSeq(Recipients, 1, Past) /\ Added \in Seq(Everyone)
  <2>1. CASE mailing.state = "pending"
    <3>1. Past = 0 /\ Added = <<>>
      BY <2>1 DEF Past, Added
    <3>2. SubSeq(Recipients, 1, 0) = <<>>
      BY <1>3
    <3>3. QED
      BY <1>3, <3>1, <3>2
  <2>2. CASE mailing.state = "adding"
    <3>1. Past = Len(Recipients) - Len(mailing.left) /\ Added = SubSeq(Recipients, 1, Past)
      BY <2>2 DEF Past, Added
    <3>2. Len(mailing.left) \in Nat /\ Len(mailing.left) <= Len(Recipients) /\ Len(Recipients) \in Nat
      BY <1>2, <1>3, <2>2 DEF LeftFits
    <3>3. Past \in 0..Len(Recipients)
      BY <3>1, <3>2
    <3>4. SubSeq(Recipients, 1, Past) \in Seq(Everyone)
      BY <1>3, <3>3
    <3>5. QED
      BY <3>1, <3>3, <3>4
  <2>3. QED
    BY <1>2, <2>1, <2>2
<1>6. ASSUME NEW u \in Told
      PROVE  /\ IsFiniteSet(Places(u, Added)) /\ Cardinality(Places(u, Added)) \in Nat
             /\ repeats'[u] = repeats[u] + Cardinality(Places(u, Added))
  BY <1>2, <1>5, CountsOfPlaces
<1>7. MailTypes'
  <2>1. repeats' \in [Told -> Nat]
    BY <1>2, <1>6
  <2>2. QED
    BY <1>2, <1>4, <2>1 DEF MailOK, MailTypes
<1>8. LeftFits'
  BY <1>4 DEF LeftFits
<1>9. MailOK'
  BY <1>2, <1>7, <1>8, MailersKept DEF MailOK
<1>10. ASSUME NEW u \in Told
       PROVE  MailsDue(u)' <= Meant(u)' + repeats'[u]
  <2>1. Writing(u)' = Writing(u) /\ Mailed(u)' = Mailed(u) /\ Queued(u)' = Queued(u)
    BY <1>2, MailersKept DEF Queued
  <2>2. ToAdd(u)' \subseteq ToAdd(u) \cup Places(u, Added)
    <3>1. SUFFICES ASSUME NEW i \in DOMAIN Recipients, Recipients[i] = u, ~(Past < i)
                   PROVE  i \in Places(u, Added)
      BY <1>2, <1>3 DEF ToAdd
    <3>2. i \in 1..Past
      BY <1>3, <1>5, <3>1
    <3>3. i \in DOMAIN Added /\ Added[i] = Recipients[i]
      BY <1>3, <1>5, <3>2
    <3>4. QED
      BY <3>1, <3>3 DEF Places
  <2>3. /\ IsFiniteSet(ToAdd(u)) /\ Cardinality(Mailed(u)) \in Nat /\ Cardinality(Queued(u)) \in Nat
        /\ Cardinality(Writing(u)) \in Nat /\ Cardinality(ToAdd(u)) \in Nat
    BY <1>2, FiniteMails
  <2>4. /\ IsFiniteSet(Places(u, Added)) /\ Cardinality(Places(u, Added)) \in Nat
        /\ repeats'[u] = repeats[u] + Cardinality(Places(u, Added))
    BY <1>6
  <2>5. /\ IsFiniteSet(ToAdd(u) \cup Places(u, Added))
        /\ Cardinality(ToAdd(u) \cup Places(u, Added)) <= Cardinality(ToAdd(u)) + Cardinality(Places(u, Added))
        /\ Cardinality(ToAdd(u) \cup Places(u, Added)) \in Nat
    <3>1. /\ IsFiniteSet(ToAdd(u) \cup Places(u, Added))
          /\ IsFiniteSet(ToAdd(u) \cap Places(u, Added))
          /\ Cardinality(ToAdd(u) \cup Places(u, Added))
               = Cardinality(ToAdd(u)) + Cardinality(Places(u, Added))
                 - Cardinality(ToAdd(u) \cap Places(u, Added))
      BY <2>3, <2>4, FS_Union, FS_Intersection
    <3>2. /\ Cardinality(ToAdd(u) \cap Places(u, Added)) \in Nat
          /\ Cardinality(ToAdd(u) \cup Places(u, Added)) \in Nat
      BY <3>1, FS_CardinalityType
    <3>3. QED
      BY <2>3, <2>4, <3>1, <3>2
  <2>6. /\ Cardinality(ToAdd(u)') \in Nat
        /\ Cardinality(ToAdd(u)') <= Cardinality(ToAdd(u) \cup Places(u, Added))
    BY <2>2, <2>5, SameOrFewer
  <2>7. MailsDue(u) <= Meant(u) + repeats[u] /\ Meant(u) \in Nat /\ repeats[u] \in Nat
        /\ Meant(u)' = Meant(u)
    BY <1>1, <1>2, <1>3, ListedAsMeant DEF MailInv, MailOK, MailTypes
  <2>8. QED
    BY <2>1, <2>3, <2>4, <2>5, <2>6, <2>7 DEF MailsDue
<1>11. QED
  BY <1>9, <1>10 DEF MailInv

-----------------------------------------------------------------------------

LEMMA MailNextOK == MailInv /\ [MailNext]_notificationVars => MailInv'
<1>1. SUFFICES ASSUME MailInv, [MailNext]_notificationVars PROVE MailInv'
  OBVIOUS
<1>2. MailOK
  BY <1>1 DEF MailInv
<1>3. CASE Dispatch \/ AddMailJob \/ DispatchThrows
  BY <1>1, <1>3, DispatchOK, AddMailJobOK, DispatchThrowsOK
<1>4. ASSUME NEW w \in Mailers, Mail(w)
      PROVE  MailInv'
  <2>1. CASE Catch(w)
    <3>1. /\ mailer[w].at = "catch" /\ BesideDelivery /\ UNCHANGED repeats
          /\ EndJob(w, Thrown(Job(w))) /\ Rest(w)
          /\ logs' = [logs EXCEPT ![mailer[w].log].status = "failed"]
      BY <2>1 DEF Catch, CaughtFailed, BesideDelivery
    <3>2. mailer[w].log \in DOMAIN logs
      BY <1>2, <3>1 DEF MailOK, MailerFits
    <3>3. logs' \in Seq(LogRow) /\ LogsGrow /\ \A u \in Told : Mailed(u)' = Mailed(u)
      BY <1>2, <3>1, <3>2, StatusAfter
    <3>4. Thrown(Job(w)) \in MailJob /\ Thrown(Job(w)).user = Job(w).user
      BY <1>2, <3>1, JobOfWorker
    <3>5. QED
      BY <1>1, <3>1, <3>3, <3>4, GivesBack
  <2>2. QED
    BY <1>1, <1>4, <2>1, TakeMailOK, CreateLogOK, SendOK, MarkSentOK DEF Mail
<1>5. ASSUME NEW w \in Mailers, LogThrows(w) \/ CatchThrows(w)
      PROVE  MailInv'
  <2>1. /\ mailer[w].at \in {"log", "catch"} /\ BesideDelivery /\ UNCHANGED <<logs, repeats>>
        /\ EndJob(w, Thrown(Job(w))) /\ Rest(w)
    BY <1>5 DEF LogThrows, CatchThrows, BesideDelivery
  <2>2. logs' \in Seq(LogRow) /\ LogsGrow /\ \A u \in Told : Mailed(u)' = Mailed(u)
    BY <1>2, <2>1 DEF MailOK, MailTypes, LogsGrow, Mailed
  <2>3. Thrown(Job(w)) \in MailJob /\ Thrown(Job(w)).user = Job(w).user
    BY <1>2, <2>1, JobOfWorker
  <2>4. QED
    BY <1>1, <2>1, <2>2, <2>3, GivesBack
<1>6. ASSUME NEW w \in Mailers, SendThrows(w) \/ StallMail(w)
      PROVE  MailInv'
  BY <1>1, <1>6, SendThrowsOK, StallMailOK
<1>7. ASSUME NEW i \in DOMAIN logs, RetryMail(i)
      PROVE  MailInv'
  BY <1>1, <1>7, RetryMailOK
<1>8. CASE UNCHANGED notificationVars
  <2>1. /\ BesideDelivery /\ JobsGrow /\ LogsGrow
        /\ jobs' = jobs /\ logs' = logs /\ mailer' = mailer /\ repeats' = repeats
    BY <1>8 DEF notificationVars, BesideDelivery, JobsGrow, LogsGrow
  <2>2. MailTypes'
    BY <1>2, <2>1 DEF MailOK, MailTypes, BesideDelivery
  <2>3. (\A w \in Mailers : MailerFits(w)') /\ \A u \in Told : Writing(u)' = Writing(u) /\ Mailed(u)' = Mailed(u)
    BY <1>2, <2>1, MailersKept
  <2>4. MailOK'
    BY <1>2, <2>1, <2>2, <2>3, DeliveryKept DEF MailOK
  <2>5. ASSUME NEW u \in Told
        PROVE  MailsDue(u)' <= Meant(u)' + repeats'[u]
    <3>1. Queued(u)' = Queued(u)
      BY <2>1 DEF Queued
    <3>2. repeats'[u] \in Nat /\ repeats[u] <= repeats'[u]
      BY <1>2, <2>1 DEF MailOK, MailTypes
    <3>3. QED
      BY <1>1, <2>1, <2>3, <3>1, <3>2, DueNoMore
  <2>6. QED
    BY <2>4, <2>5 DEF MailInv
<1>9. QED
  BY <1>1, <1>3, <1>4, <1>5, <1>6, <1>7, <1>8 DEF MailNext

\* However often NotificationSubscriber is delivered the event again, and a job of
\* NotificationProcessor is run again, nobody gets more mails than are meant for
\* them, but for one for each failure after an add or a mail, each lock that ran
\* out and each retry of an operator.
THEOREM ToldTwiceForAReason == MailSpec => []TwiceForAReason
<1>1. MailInit => MailInv
  BY MailInitOK
<1>2. MailInv /\ [MailNext]_notificationVars => MailInv'
  BY MailNextOK
<1>3. MailInv => TwiceForAReason
  <2>1. SUFFICES ASSUME MailInv, NEW u \in Told PROVE Mails(u) <= Meant(u) + repeats[u]
    BY DEF TwiceForAReason
  <2>2. MailOK /\ MailsDue(u) <= Meant(u) + repeats[u] /\ Meant(u) \in Nat /\ repeats[u] \in Nat
    BY <2>1, ListedAsMeant DEF MailInv, MailOK, MailTypes
  <2>3. Mails(u) = Cardinality(Mailed(u))
    BY DEF Mails, LogsOf, Mailed
  <2>4. /\ Cardinality(Mailed(u)) \in Nat /\ Cardinality(Queued(u)) \in Nat
        /\ Cardinality(Writing(u)) \in Nat /\ Cardinality(ToAdd(u)) \in Nat
    BY <2>2, FiniteMails
  <2>5. QED
    BY <2>2, <2>3, <2>4 DEF MailsDue
<1>4. QED
  BY <1>1, <1>2, <1>3, PTL DEF MailSpec
=============================================================================
