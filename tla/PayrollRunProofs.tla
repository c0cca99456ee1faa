--------------------------- MODULE PayrollRunProofs ---------------------------
(***************************************************************************)
(* The invariants of PayrollRun, for every set of users, requests and      *)
(* employees.  IInv is inductive: it says of each request what its memory  *)
(* may hold when it commits, however stale the row it loaded.              *)
(***************************************************************************)
EXTENDS PayrollRun, WorkflowEngineProofs, SequenceTheorems

\* The finiteness that currentStepOrder needs to be a number.
Finite ==
    /\ IsFiniteSet(records)
    /\ \A q \in DOMAIN request : IsFiniteSet(request[q].records)

\* What each command announces: three of the events come from one command each.
LEMMA Emitted ==
    ASSUME NEW c \in Commands
    PROVE  /\ EventsOf[c] \in Seq(EventTypes)
           /\ \A k \in DOMAIN EventsOf[c] :
                 /\ EventsOf[c][k] = "PayrollRunSubmittedForApproval" => c = "submit" /\ k = 1
                 /\ EventsOf[c][k] = "PayrollRunApproved" => c = "approve"
                 /\ EventsOf[c][k] = "PayrollRunProcessed" => c = "process"
           /\ c = "approve" => \E k \in DOMAIN EventsOf[c] : EventsOf[c][k] = "PayrollRunApproved"
           /\ c = "process" => \E k \in DOMAIN EventsOf[c] : EventsOf[c][k] = "PayrollRunProcessed"
<1>1. CASE c = "process"
  <2>1. EventsOf[c] = <<"PayrollRunProcessingStarted", "PayrollRunProcessed">>
    BY <1>1 DEF EventsOf
  <2>2. EventsOf[c] \in Seq(EventTypes) /\ DOMAIN EventsOf[c] = {1, 2}
    BY <2>1 DEF EventTypes
  <2>3. EventsOf[c][1] = "PayrollRunProcessingStarted" /\ EventsOf[c][2] = "PayrollRunProcessed"
    BY <2>1
  <2>4. QED
    BY <1>1, <2>2, <2>3
<1>2. CASE c # "process"
  <2>1. /\ c = "addPayslip" => EventsOf[c] = <<"PayslipGenerated">>
        /\ c = "submit" => EventsOf[c] = <<"PayrollRunSubmittedForApproval">>
        /\ c = "approve" => EventsOf[c] = <<"PayrollRunApproved">>
        /\ c = "reject" => EventsOf[c] = <<"PayrollRunRejected">>
        /\ c = "cancel" => EventsOf[c] = <<"PayrollRunCancelled">>
    BY DEF EventsOf
  <2>2. PICK e \in EventTypes :
          /\ EventsOf[c] = <<e>>
          /\ e = "PayrollRunSubmittedForApproval" <=> c = "submit"
          /\ e = "PayrollRunApproved" <=> c = "approve"
          /\ e # "PayrollRunProcessed"
    BY <1>2, <2>1 DEF Commands, EventTypes
  <2>3. EventsOf[c] \in Seq(EventTypes) /\ DOMAIN EventsOf[c] = {1} /\ EventsOf[c][1] = e
    BY <2>2
  <2>4. QED
    BY <1>2, <2>2, <2>3
<1>3. QED
  BY <1>1, <1>2

\* Events enqueued at commit come after those that are there.
LEMMA Enqueued ==
    ASSUME NEW t \in Seq(EventTypes), outbox \in Seq(EventTypes), outbox' = outbox \o t
    PROVE  /\ outbox' \in Seq(EventTypes)
           /\ \A e \in EventTypes :
                 /\ Announced(e) \subseteq Announced(e)'
                 /\ (\E k \in DOMAIN t : t[k] = e) => Announced(e)' # {}
                 /\ \A i \in Announced(e)' \ Announced(e) :
                       /\ i - Len(outbox) \in DOMAIN t
                       /\ t[i - Len(outbox)] = e
                       /\ \A j \in DOMAIN outbox : j < i
<1>1. /\ outbox' \in Seq(EventTypes)
      /\ Len(outbox') = Len(outbox) + Len(t)
      /\ \A i \in 1 .. Len(outbox) + Len(t) :
            outbox'[i] = IF i <= Len(outbox) THEN outbox[i] ELSE t[i - Len(outbox)]
  BY ConcatProperties
<1>2. /\ Len(outbox) \in Nat /\ DOMAIN outbox = 1 .. Len(outbox)
      /\ Len(t) \in Nat /\ DOMAIN t = 1 .. Len(t)
      /\ DOMAIN outbox' = 1 .. Len(outbox) + Len(t)
  BY <1>1, LenProperties
<1>3. ASSUME NEW e \in EventTypes
      PROVE  Announced(e) \subseteq Announced(e)'
  BY <1>1, <1>2 DEF Announced
<1>4. ASSUME NEW e \in EventTypes, NEW k \in DOMAIN t, t[k] = e
      PROVE  Len(outbox) + k \in Announced(e)'
  <2>1. /\ Len(outbox) + k \in 1 .. Len(outbox) + Len(t)
        /\ ~(Len(outbox) + k <= Len(outbox))
        /\ Len(outbox) + k - Len(outbox) = k
    BY <1>2
  <2>2. outbox'[Len(outbox) + k] = t[k]
    BY <1>1, <2>1
  <2>3. QED
    BY <1>2, <1>4, <2>1, <2>2 DEF Announced
<1>5. ASSUME NEW e \in EventTypes, NEW i \in Announced(e)' \ Announced(e)
      PROVE  /\ i - Len(outbox) \in DOMAIN t
             /\ t[i - Len(outbox)] = e
             /\ \A j \in DOMAIN outbox : j < i
  <2>1. i \in 1 .. Len(outbox) + Len(t) /\ outbox'[i] = e
    BY <1>2 DEF Announced
  <2>2. ~(i <= Len(outbox))
    BY <1>1, <1>2, <2>1 DEF Announced
  <2>3. QED
    BY <1>1, <1>2, <2>1, <2>2
<1>6. QED
  BY <1>1, <1>3, <1>4, <1>5

-----------------------------------------------------------------------------
(* The inductive invariant. *)

\* What a record of the run's one step is worth.
RecordOK(r) ==
    /\ r.approver # Creator
    /\ r.decision = "approved" => r.stepOrder = 1
    /\ r.stepOrder = 1 => HoldsStepRole(r.approver, Director, Item)

\* The parts of IInv about the tables.
RecordsOK ==
    /\ StepOrders(records) = 1 .. Cardinality(records)
    /\ \A r \in records : RecordOK(r)
    /\ \A r, s \in records : r.stepOrder = s.stepOrder => r = s

RunOK ==
    /\ Announced("PayrollRunSubmittedForApproval") # {} => progress
    /\ \A i, j \in Announced("PayrollRunSubmittedForApproval") : i = j
    /\ progress => payslips # {}
    /\ Announced("PayrollRunApproved") # {} => progress /\ records # {}
    /\ status = "approved" => Announced("PayrollRunApproved") # {}
    /\ status = "completed" => Announced("PayrollRunProcessed") # {}
    /\ \A i \in Announced("PayrollRunProcessed") :
          \E j \in Announced("PayrollRunApproved") : j < i

\* The records request q will save: rows of the table and, of a decision, the
\* record it appended to them.
RecordsOfDecision(m) ==
    \E base \in SUBSET records, d \in ApprovalRecord :
        /\ m.records = base \cup {d}
        /\ d.stepOrder = Cardinality(base) + 1
        /\ RecordOK(d)

\* The part of IInv about one request: what it read when the run was loaded,
\* and what it is about to write.
RequestOK(m) ==
    /\ m.at \in {"period", "decide"} =>
          /\ m.status = "approved" => Announced("PayrollRunApproved") # {}
          /\ m.records = {}
    /\ m.at = "save" =>
          /\ m.status = Target[m.command]
          /\ m.events = EventsOf[m.command]
          /\ m.command = "submit" => m.payslips # {}
          /\ m.command = "process" => Announced("PayrollRunApproved") # {}
          /\ IF m.command \in {"approve", "reject"}
             THEN progress /\ RecordsOfDecision(m)
             ELSE m.records = {}

IInv ==
    /\ TypeOK
    /\ Finite
    /\ RecordsOK
    /\ RunOK
    /\ \A q \in DOMAIN request : RequestOK(request[q])

\* The chain of a payroll run is one step, the director's.
LEMMA OneStep == DOMAIN PayrollChain = {1} /\ PayrollChain[1] = Director /\ Len(PayrollChain) = 1
BY DEF PayrollChain

\* Item's requester is the creator.
LEMMA Requester == Item.requester = Creator
BY DEF Item

\* A slot with nothing in flight.
LEMMA IdleType == Idle \in Memory /\ IsFiniteSet(Idle.records) /\ RequestOK(Idle)
<1>1. Idle \in Memory
  <2>1. <<>> \in Seq(EventTypes)
    OBVIOUS
  <2>2. QED
    BY <2>1, CreatorType DEF Idle, Memory, Commands, Statuses
<1>2. QED
  BY <1>1, FS_EmptySet DEF Idle, RequestOK

\* A step of request q that writes to its own memory only.
MemoryStep(q, m) ==
    /\ request' = [request EXCEPT ![q] = m]
    /\ m \in Memory
    /\ IsFiniteSet(m.records)
    /\ RequestOK(m)
    /\ UNCHANGED <<database, period>>

\* It keeps everything, if what it puts there is as IInv says.
LEMMA MemoryStepKeeps ==
    ASSUME IInv, NEW q \in DOMAIN request, NEW m, MemoryStep(q, m)
    PROVE  IInv'
<1>1. /\ request' = [request EXCEPT ![q] = m]
      /\ m \in Memory /\ IsFiniteSet(m.records) /\ RequestOK(m)
      /\ UNCHANGED <<status, payslips, progress, records, outbox, period>>
  BY DEF MemoryStep, database
<1>2. TypeOK' /\ Finite'
  BY <1>1 DEF IInv, TypeOK, Finite
<1>3. RecordsOK' /\ RunOK'
  BY <1>1 DEF IInv, RecordsOK, RecordOK, HoldsStepRole, RunOK, Announced, StepOrders
<1>4. ASSUME NEW p \in DOMAIN request'
      PROVE  RequestOK(request[p])' = RequestOK(request'[p])
  BY <1>1 DEF RequestOK, RecordsOfDecision, RecordOK, HoldsStepRole, Announced
<1>5. \A p \in DOMAIN request' : RequestOK(request'[p])
  BY <1>1 DEF IInv
<1>6. QED
  BY <1>2, <1>3, <1>4, <1>5 DEF IInv

\* A request loads the run, whatever its state.
LEMMA BeginKeeps ==
    ASSUME IInv, NEW q \in DOMAIN request, NEW c \in Commands, NEW u \in Users,
           NEW adding \in SUBSET Employees, Begin(q, c, u, adding)
    PROVE  IInv'
<1> DEFINE m == [Idle EXCEPT !.at = IF c \in {"process", "cancel"} THEN "decide" ELSE "period",
                       !.command = c, !.user = u, !.adding = adding,
                       !.status = status, !.payslips = payslips]
<1>1. request' = [request EXCEPT ![q] = m] /\ UNCHANGED <<database, period>>
  BY DEF Begin
<1>2. m.at \in {"period", "decide"} /\ m.status = status /\ m.records = {} /\ m \in Memory
  <2>1. (IF c \in {"process", "cancel"} THEN "decide" ELSE "period") \in {"period", "decide"}
    OBVIOUS
  <2>2. QED
    BY <2>1, IdleType DEF Idle, Memory, IInv, TypeOK
<1> HIDE DEF m
<1>3. IsFiniteSet(m.records)
  BY <1>2, FS_EmptySet
<1>4. RequestOK(m)
  BY <1>2 DEF RequestOK, IInv, RunOK
<1>5. QED
  BY <1>1, <1>2, <1>3, <1>4, MemoryStepKeeps DEF MemoryStep

\* What is known of a request that is about to decide.
LEMMA Undecided ==
    ASSUME IInv, NEW q \in DOMAIN request, request[q].at \in {"period", "decide"}
    PROVE  /\ request[q] \in Memory
           /\ request[q].records = {}
           /\ request[q].status = "approved" => Announced("PayrollRunApproved") # {}
BY DEF IInv, TypeOK, RequestOK

\* The period is asked for, and the request goes on.
LEMMA CheckPeriodKeeps ==
    ASSUME IInv, NEW q \in DOMAIN request, CheckPeriod(q)
    PROVE  IInv'
<1> DEFINE m == [request[q] EXCEPT !.at = "decide"]
<1>1. request[q].at = "period"
  BY DEF CheckPeriod
<1>2. request' = [request EXCEPT ![q] = m] /\ UNCHANGED <<database, period>>
  BY DEF CheckPeriod
<1>3. /\ m \in Memory /\ m.at = "decide" /\ m.records = {}
      /\ m.status = "approved" => Announced("PayrollRunApproved") # {}
  BY <1>1, Undecided DEF Memory
<1> HIDE DEF m
<1>4. IsFiniteSet(m.records) /\ RequestOK(m)
  BY <1>3, FS_EmptySet DEF RequestOK
<1>5. QED
  BY <1>2, <1>3, <1>4, MemoryStepKeeps DEF MemoryStep

\* A command on the aggregate alone: a submission has payslips, and a run that
\* is processed was read as approved.
LEMMA DecideKeeps ==
    ASSUME IInv, NEW q \in DOMAIN request, Decide(q)
    PROVE  IInv'
<1> DEFINE o == request[q]
           m == Decided(o, o.command)
<1>1. /\ o.at = "decide" /\ o.command \notin {"approve", "reject"}
      /\ MayMove(o.command, o.status)
      /\ o.command = "submit" => o.payslips # {}
      /\ request' = [request EXCEPT ![q] = m]
      /\ UNCHANGED <<database, period>>
  BY DEF Decide
<1>2. /\ o \in Memory /\ o.records = {}
      /\ o.status = "approved" => Announced("PayrollRunApproved") # {}
  BY <1>1, Undecided
<1>3. o.command \in Commands /\ EventsOf[o.command] \in Seq(EventTypes)
  BY <1>2, Emitted DEF Memory
<1>4. Target[o.command] \in Statuses
  BY <1>3 DEF Target, Commands, Statuses
<1> HIDE DEF o
<1>5. /\ m \in Memory /\ m.at = "save" /\ m.command = o.command
      /\ m.status = Target[o.command] /\ m.events = EventsOf[o.command]
      /\ m.payslips = o.payslips \cup o.adding /\ m.records = {}
  BY <1>2, <1>3, <1>4 DEF Decided, Memory
<1>6. o.command = "process" => o.status = "approved"
  BY <1>1 DEF MayMove, AllowedFrom
<1> HIDE DEF m
<1>7. IsFiniteSet(m.records) /\ RequestOK(m)
  BY <1>1, <1>2, <1>5, <1>6, FS_EmptySet DEF RequestOK
<1>8. QED
  BY <1>1, <1>5, <1>7, MemoryStepKeeps DEF MemoryStep

\* A decision was checked against the rows it was read with, and takes the step
\* after them.
LEMMA DecisionChecked ==
    ASSUME IInv, NEW u \in Users, NEW k \in Decisions,
           IF k = "approved" THEN MayApprove(u, PayrollChain, records, Item)
                             ELSE MayReject(u, PayrollChain, records, Item)
    PROVE  LET d == DecisionRecord(u, records, k)
           IN  d \in ApprovalRecord /\ d.stepOrder = Cardinality(records) + 1 /\ RecordOK(d)
<1> DEFINE d == DecisionRecord(u, records, k)
<1>1. /\ d \in ApprovalRecord /\ d.stepOrder = Cardinality(records) + 1
      /\ d.approver = u /\ d.decision = k
  BY DecisionRecordType DEF IInv, Finite
<1>2. u # Creator
  BY Requester DEF MayApprove, MayReject
<1>3. HoldsCurrentStepRole(u, PayrollChain, records, Item)
  BY DEF MayApprove, MayReject
<1>4. CurrentStepOrder(records) = d.stepOrder
  BY <1>1 DEF CurrentStepOrder
<1>5. k = "approved" => d.stepOrder = 1
  BY <1>4, OneStep DEF MayApprove, HasCurrentStep
<1>6. d.stepOrder = 1 => HoldsStepRole(u, Director, Item)
  BY <1>3, <1>4, OneStep DEF HoldsCurrentStepRole, HasCurrentStep
<1>7. RecordOK(d)
  BY <1>1, <1>2, <1>5, <1>6 DEF RecordOK
<1>8. QED
  BY <1>1, <1>7

\* The memory of a request that has decided on the approval.
LEMMA DecisionKeeps ==
    ASSUME IInv, NEW q \in DOMAIN request, NEW c \in {"approve", "reject"}, NEW k \in Decisions,
           request[q].at = "decide", request[q].command = c, progress,
           IF k = "approved" THEN MayApprove(request[q].user, PayrollChain, records, Item)
                             ELSE MayReject(request[q].user, PayrollChain, records, Item),
           request' = [request EXCEPT ![q] =
              [Decided(request[q], c) EXCEPT
                  !.records = records \cup {DecisionRecord(request[q].user, records, k)}]],
           UNCHANGED <<database, period>>
    PROVE  IInv'
<1> DEFINE o == request[q]
           d == DecisionRecord(o.user, records, k)
           w == Decided(o, c)
           m == [w EXCEPT !.records = records \cup {d}]
<1>1. o \in Memory /\ o.command = c
  BY Undecided
<1>2. d \in ApprovalRecord /\ d.stepOrder = Cardinality(records) + 1 /\ RecordOK(d)
  BY <1>1, DecisionChecked DEF Memory
<1>3. request' = [request EXCEPT ![q] = m]
  OBVIOUS
<1>4. c \in Commands /\ EventsOf[c] \in Seq(EventTypes) /\ Target[c] \in Statuses
  BY Emitted DEF Commands, Target, Statuses
<1>5. /\ records \in SUBSET ApprovalRecord /\ IsFiniteSet(records)
      /\ RecordsOK
  BY DEF IInv, TypeOK, Finite
<1> HIDE DEF o, d
<1>6. /\ w \in Memory /\ w.at = "save" /\ w.command = c
      /\ w.status = Target[c] /\ w.events = EventsOf[c]
  BY <1>1, <1>4 DEF Decided, Memory
<1> HIDE DEF w
<1>7. /\ m \in Memory /\ m.at = "save" /\ m.command = c
      /\ m.status = Target[c] /\ m.events = EventsOf[c]
      /\ m.records = records \cup {d}
  BY <1>2, <1>5, <1>6 DEF Memory
<1> HIDE DEF m
<1>8. IsFiniteSet(m.records)
  BY <1>5, <1>7, FS_AddElement
<1>9. RecordsOfDecision(m)
  BY <1>2, <1>7 DEF RecordsOfDecision
<1>10. RequestOK(m)
  BY <1>7, <1>9 DEF RequestOK
<1>11. QED
  BY <1>3, <1>7, <1>8, <1>10, MemoryStepKeeps DEF MemoryStep

\* An approval is final: the chain has one step.
LEMMA DecideApprovalKeeps ==
    ASSUME IInv, NEW q \in DOMAIN request, DecideApproval(q)
    PROVE  IInv'
<1>1. CurrentStepOrder(records) \in DOMAIN PayrollChain
  BY DEF DecideApproval, MayApprove, HasCurrentStep
<1>2. IsFinalApproval(PayrollChain, records)
  BY <1>1, OneStep DEF IsFinalApproval
<1>3. "approved" \in Decisions
  BY DEF Decisions
<1>4. QED
  BY <1>2, <1>3, DecisionKeeps DEF DecideApproval

LEMMA DecideRejectionKeeps ==
    ASSUME IInv, NEW q \in DOMAIN request, DecideRejection(q)
    PROVE  IInv'
<1>1. "rejected" \in Decisions /\ "rejected" # "approved"
  BY DEF Decisions
<1>2. QED
  BY <1>1, DecisionKeeps DEF DecideRejection

-----------------------------------------------------------------------------
(* Commit and rollback. *)

\* The records a commit leaves in the table: as they were, or with one more for
\* the step after them.
LEMMA CommitRecords ==
    ASSUME IInv, NEW q \in DOMAIN request, request[q].at = "save",
           records' = SaveRecords(records, request[q].records)
    PROVE  /\ RecordsOK'
           /\ records' \in SUBSET ApprovalRecord /\ IsFiniteSet(records')
           /\ records \subseteq records'
           /\ request[q].command \in {"approve", "reject"} => records' # {}
<1> DEFINE M == request[q].records
<1>1. /\ IsFiniteSet(records) /\ IsFiniteSet(M)
      /\ records \in SUBSET ApprovalRecord /\ M \in SUBSET ApprovalRecord
      /\ RecordsOK /\ RequestOK(request[q])
  BY DEF IInv, TypeOK, Finite, Memory
<1>2. /\ records' \in SUBSET ApprovalRecord /\ IsFiniteSet(records')
      /\ records \subseteq records'
      /\ StepOrders(records') = StepOrders(records) \cup StepOrders(M)
  BY <1>1, SaveRecordsGrows
<1>3. CASE request[q].command \notin {"approve", "reject"}
  <2>1. records' = records
    BY <1>1, <1>3 DEF RequestOK, SaveRecords
  <2>2. QED
    BY <1>1, <1>2, <1>3, <2>1 DEF RecordsOK, RecordOK, HoldsStepRole, StepOrders
<1>4. CASE request[q].command \in {"approve", "reject"}
  <2>1. PICK base \in SUBSET records, d \in ApprovalRecord :
          /\ M = base \cup {d}
          /\ d.stepOrder = Cardinality(base) + 1
          /\ RecordOK(d)
    BY <1>1, <1>4 DEF RequestOK, RecordsOfDecision
  <2>2. IsFiniteSet(records) /\ StepOrders(records) = 1 .. Cardinality(records)
    BY <1>1 DEF RecordsOK
  <2>3. d.stepOrder = Cardinality(base) + 1
    BY <2>1
  <2>4. \/ SaveRecords(records, base \cup {d}) = records
        \/ /\ base = records
           /\ SaveRecords(records, base \cup {d}) = records \cup {d}
           /\ Cardinality(records \cup {d}) = Cardinality(records) + 1
           /\ StepOrders(records \cup {d}) = 1 .. Cardinality(records \cup {d})
    BY <2>2, <2>3, SaveOneRecord, SMTT(60)
  <2>5. \/ records' = records
        \/ /\ base = records
           /\ records' = records \cup {d}
           /\ StepOrders(records') = 1 .. Cardinality(records')
    BY <2>1, <2>4
  <2>6. records' # {}
    BY <1>2, <2>1 DEF StepOrders
  <2>7. CASE records' = records
    BY <1>1, <1>2, <2>6, <2>7 DEF RecordsOK, RecordOK, HoldsStepRole, StepOrders
  <2>8. CASE /\ base = records
             /\ records' = records \cup {d}
             /\ StepOrders(records') = 1 .. Cardinality(records')
    <3>1. Cardinality(records) \in Nat
      BY <1>1, FS_CardinalityType
    <3>2. d.stepOrder \notin StepOrders(records)
      BY <2>2, <2>3, <2>8, <3>1
    <3>3. \A r \in records : r.stepOrder # d.stepOrder
      BY <3>2 DEF StepOrders
    <3>4. \A r \in records' : RecordOK(r)
      BY <1>1, <2>1, <2>8 DEF RecordsOK
    <3>5. \A r, s \in records' : r.stepOrder = s.stepOrder => r = s
      BY <1>1, <2>8, <3>3 DEF RecordsOK
    <3>6. RecordsOK'
      BY <2>8, <3>4, <3>5 DEF RecordsOK, RecordOK, HoldsStepRole
    <3>7. QED
      BY <1>2, <2>6, <3>6
  <2>9. QED
    BY <2>5, <2>7, <2>8
<1>5. QED
  BY <1>3, <1>4

\* A request is unaffected by a step that leaves its memory alone while the
\* tables and the outbox only grow.
LEMMA OtherRequest ==
    ASSUME NEW m, RequestOK(m), records \subseteq records', progress => progress',
           Announced("PayrollRunApproved") \subseteq Announced("PayrollRunApproved")'
    PROVE  /\ m.at \in {"period", "decide"} =>
                 /\ m.status = "approved" => Announced("PayrollRunApproved")' # {}
                 /\ m.records = {}
           /\ m.at = "save" =>
                 /\ m.status = Target[m.command]
                 /\ m.events = EventsOf[m.command]
                 /\ m.command = "submit" => m.payslips # {}
                 /\ m.command = "process" => Announced("PayrollRunApproved")' # {}
                 /\ IF m.command \in {"approve", "reject"}
                    THEN /\ progress'
                         /\ \E base \in SUBSET records', d \in ApprovalRecord :
                               /\ m.records = base \cup {d}
                               /\ d.stepOrder = Cardinality(base) + 1
                               /\ RecordOK(d)
                    ELSE m.records = {}
BY DEF RequestOK, RecordsOfDecision

\* The commit of a command: the status it writes and the events it enqueues go
\* together, and an approval or a payment rests on what came before.
LEMMA CommitRun ==
    ASSUME IInv, NEW q \in DOMAIN request, Commit(q)
    PROVE  /\ RunOK'
           /\ outbox' \in Seq(EventTypes)
           /\ progress => progress'
           /\ \A e \in EventTypes : Announced(e) \subseteq Announced(e)'
<1> DEFINE m == request[q]
           c == m.command
           t == EventsOf[c]
<1>1. /\ m.at = "save" /\ m \in Memory /\ RequestOK(m) /\ RunOK
      /\ outbox \in Seq(EventTypes)
  BY DEF Commit, IInv, TypeOK
<1>2. c \in Commands
  BY <1>1 DEF Memory
<1>3. /\ status' = Target[c]
      /\ payslips' = payslips \cup m.payslips
      /\ outbox' = outbox \o t
      /\ records' = SaveRecords(records, m.records)
      /\ IF c = "submit" THEN ~progress /\ progress' = TRUE ELSE progress' = progress
      /\ c = "submit" => m.payslips # {}
      /\ c = "process" => Announced("PayrollRunApproved") # {}
      /\ c \in {"approve", "reject"} => progress
  BY <1>1 DEF Commit, RequestOK, InitializeProgress, EnqueuedEvents
<1>4. records \subseteq records' /\ (c \in {"approve", "reject"} => records' # {})
  BY <1>1, <1>3, CommitRecords
<1> HIDE DEF m
<1>5. /\ t \in Seq(EventTypes)
      /\ \A k \in DOMAIN t :
            /\ t[k] = "PayrollRunSubmittedForApproval" => c = "submit" /\ k = 1
            /\ t[k] = "PayrollRunApproved" => c = "approve"
            /\ t[k] = "PayrollRunProcessed" => c = "process"
      /\ c = "approve" => \E k \in DOMAIN t : t[k] = "PayrollRunApproved"
      /\ c = "process" => \E k \in DOMAIN t : t[k] = "PayrollRunProcessed"
  BY <1>2, Emitted
<1> HIDE DEF c, t
<1>6. /\ outbox' \in Seq(EventTypes)
      /\ \A e \in EventTypes :
            /\ Announced(e) \subseteq Announced(e)'
            /\ (\E k \in DOMAIN t : t[k] = e) => Announced(e)' # {}
            /\ \A i \in Announced(e)' \ Announced(e) :
                  /\ i - Len(outbox) \in DOMAIN t
                  /\ t[i - Len(outbox)] = e
                  /\ \A j \in DOMAIN outbox : j < i
  BY <1>1, <1>3, <1>5, Enqueued
<1>7. {"PayrollRunSubmittedForApproval", "PayrollRunApproved", "PayrollRunProcessed"}
         \subseteq EventTypes
  BY DEF EventTypes
<1>8. /\ Announced("PayrollRunSubmittedForApproval")' # {} => progress'
      /\ \A i, j \in Announced("PayrollRunSubmittedForApproval")' : i = j
  <2>1. CASE c = "submit"
    <3>1. Announced("PayrollRunSubmittedForApproval") = {}
      BY <1>1, <1>3, <2>1 DEF RunOK
    <3>2. \A i \in Announced("PayrollRunSubmittedForApproval")' : i - Len(outbox) = 1 /\ i \in Int
      <4>1. DOMAIN outbox' = 1 .. Len(outbox')
        BY <1>6, LenProperties
      <4>2. Len(outbox') \in Nat
        BY <1>6, LenProperties
      <4>3. \A i \in Announced("PayrollRunSubmittedForApproval")' : i \in Int
        BY <4>1, <4>2 DEF Announced
      <4>4. QED
        BY <1>5, <1>6, <1>7, <3>1, <4>3
    <3>3. Len(outbox) \in Nat
      BY <1>1, LenProperties
    <3>4. QED
      BY <1>3, <2>1, <3>2, <3>3
  <2>2. CASE c # "submit"
    <3>1. Announced("PayrollRunSubmittedForApproval")'
             = Announced("PayrollRunSubmittedForApproval")
      BY <1>5, <1>6, <1>7, <2>2
    <3>2. QED
      BY <1>1, <1>3, <2>2, <3>1 DEF RunOK
  <2>3. QED
    BY <2>1, <2>2
<1>9. progress' => payslips' # {}
  BY <1>1, <1>3 DEF RunOK
<1>10. Announced("PayrollRunApproved")' # {} => progress' /\ records' # {}
  <2>1. CASE c = "approve"
    BY <1>3, <1>4, <2>1
  <2>2. CASE c # "approve"
    <3>1. Announced("PayrollRunApproved")' = Announced("PayrollRunApproved")
      BY <1>5, <1>6, <1>7, <2>2
    <3>2. QED
      BY <1>1, <1>3, <1>4, <3>1 DEF RunOK
  <2>3. QED
    BY <2>1, <2>2
<1>11. /\ status' = "approved" => Announced("PayrollRunApproved")' # {}
       /\ status' = "completed" => Announced("PayrollRunProcessed")' # {}
  <2>1. /\ Target[c] = "approved" => c = "approve"
        /\ Target[c] = "completed" => c = "process"
    BY <1>2 DEF Target, Commands
  <2>2. QED
    BY <1>3, <1>5, <1>6, <1>7, <2>1
<1>12. \A i \in Announced("PayrollRunProcessed")' :
          \E j \in Announced("PayrollRunApproved")' : j < i
  <2>1. ASSUME NEW i \in Announced("PayrollRunProcessed")'
        PROVE  \E j \in Announced("PayrollRunApproved") : j < i
    <3>1. CASE i \in Announced("PayrollRunProcessed")
      BY <1>1, <3>1 DEF RunOK
    <3>2. CASE i \notin Announced("PayrollRunProcessed")
      <4>1. c = "process"
        BY <1>5, <1>6, <1>7, <3>2
      <4>2. PICK j \in Announced("PayrollRunApproved") : TRUE
        BY <1>3, <4>1
      <4>3. j \in DOMAIN outbox
        BY DEF Announced
      <4>4. QED
        BY <1>6, <1>7, <3>2, <4>2, <4>3
    <3>3. QED
      BY <3>1, <3>2
  <2>2. QED
    BY <1>6, <1>7, <2>1
<1>13. RunOK'
  BY <1>8, <1>9, <1>10, <1>11, <1>12 DEF RunOK
<1>14. progress => progress'
  BY <1>3
<1>15. QED
  BY <1>6, <1>13, <1>14

\* Every write of the handler, together.
LEMMA CommitKeeps ==
    ASSUME IInv, NEW q \in DOMAIN request, Commit(q)
    PROVE  IInv'
<1>1. /\ request[q].at = "save"
      /\ records' = SaveRecords(records, request[q].records)
      /\ status' = request[q].status
      /\ payslips' = payslips \cup request[q].payslips
      /\ request' = [request EXCEPT ![q] = Idle]
      /\ period' = period
      /\ progress' \in BOOLEAN
  BY DEF Commit, InitializeProgress, IInv, TypeOK
<1>2. /\ RunOK' /\ outbox' \in Seq(EventTypes)
      /\ progress => progress'
      /\ Announced("PayrollRunApproved") \subseteq Announced("PayrollRunApproved")'
  BY CommitRun DEF EventTypes
<1>3. /\ RecordsOK' /\ records \subseteq records'
      /\ records' \in SUBSET ApprovalRecord /\ IsFiniteSet(records')
  BY <1>1, CommitRecords
<1>4. request[q] \in Memory
  BY DEF IInv, TypeOK
<1>5. TypeOK' /\ Finite'
  <2>1. status' \in Statuses /\ payslips' \in SUBSET Employees
    BY <1>1, <1>4 DEF Memory, IInv, TypeOK
  <2>2. DOMAIN request' \subseteq Requests /\ \A p \in DOMAIN request' : request'[p] \in Memory
    BY <1>1, IdleType DEF IInv, TypeOK
  <2>3. \A p \in DOMAIN request' : IsFiniteSet(request'[p].records)
    BY <1>1, IdleType DEF IInv, Finite
  <2>4. period' \in PeriodStatuses
    BY <1>1 DEF IInv, TypeOK
  <2>5. QED
    BY <1>1, <1>2, <1>3, <2>1, <2>2, <2>3, <2>4 DEF TypeOK, Finite
<1>6. ASSUME NEW p \in DOMAIN request'
      PROVE  RequestOK(request[p])'
  <2>1. RequestOK(request'[p])
    BY <1>1, IdleType DEF IInv
  <2>2. QED
    BY <1>2, <1>3, <2>1, OtherRequest DEF RequestOK, RecordsOfDecision, RecordOK, HoldsStepRole
<1>7. QED
  BY <1>2, <1>3, <1>5, <1>6 DEF IInv

\* A request that fails leaves the tables as they were.
LEMMA RollbackKeeps ==
    ASSUME IInv, NEW q \in DOMAIN request, Rollback(q)
    PROVE  IInv'
BY IdleType, MemoryStepKeeps DEF Rollback, MemoryStep

\* What others do to the period, and steps that change nothing.
LEMMA OutsideKeeps ==
    ASSUME IInv, UNCHANGED <<database, request>>, period' \in PeriodStatuses
    PROVE  IInv'
<1>1. UNCHANGED <<status, payslips, progress, records, outbox, request>>
  BY DEF database
<1>2. TypeOK' /\ Finite'
  BY <1>1 DEF IInv, TypeOK, Finite
<1>3. RecordsOK' /\ RunOK'
  BY <1>1 DEF IInv, RecordsOK, RecordOK, HoldsStepRole, RunOK, Announced, StepOrders
<1>4. \A p \in DOMAIN request' : RequestOK(request[p])'
  BY <1>1 DEF IInv, RequestOK, RecordsOfDecision, RecordOK, HoldsStepRole, Announced
<1>5. QED
  BY <1>2, <1>3, <1>4 DEF IInv

-----------------------------------------------------------------------------

LEMMA InitIInv == Init => IInv
<1> SUFFICES ASSUME Init PROVE IInv
  OBVIOUS
<1>1. /\ status = "draft" /\ payslips = {} /\ progress = FALSE /\ records = {}
      /\ outbox = <<>> /\ period = "open"
  BY DEF Init
<1>2. PICK slots \in SUBSET Requests : request = [q \in slots |-> Idle]
  BY DEF Init
<1>3. IsFiniteSet({}) /\ Cardinality({}) = 0
  BY FS_EmptySet
<1>4. TypeOK
  <2>1. <<>> \in Seq(EventTypes)
    OBVIOUS
  <2>2. QED
    BY <1>1, <1>2, <2>1, IdleType DEF TypeOK, Statuses, PeriodStatuses
<1>5. Finite
  BY <1>1, <1>2, <1>3, IdleType DEF Finite
<1>6. RecordsOK
  BY <1>1, <1>3 DEF RecordsOK, StepOrders
<1>7. RunOK
  <2>1. \A e \in EventTypes : Announced(e) = {}
    BY <1>1 DEF Announced
  <2>2. QED
    BY <1>1, <2>1 DEF RunOK, EventTypes
<1>8. \A q \in DOMAIN request : RequestOK(request[q])
  BY <1>2, IdleType
<1>9. QED
  BY <1>4, <1>5, <1>6, <1>7, <1>8 DEF IInv

\* IInv is inductive.
LEMMA NextIInv == IInv /\ [Next]_vars => IInv'
<1> SUFFICES ASSUME IInv, [Next]_vars PROVE IInv'
  OBVIOUS
<1>1. ASSUME NEW q \in DOMAIN request, Step(q)
      PROVE  IInv'
  BY <1>1, BeginKeeps, CheckPeriodKeeps, DecideKeeps, DecideApprovalKeeps,
     DecideRejectionKeeps, CommitKeeps, RollbackKeeps DEF Step
<1>2. ASSUME ClosePeriod \/ ReopenPeriod
      PROVE  IInv'
  BY <1>2, OutsideKeeps DEF ClosePeriod, ReopenPeriod, PeriodStatuses
<1>3. CASE UNCHANGED vars
  BY <1>3, OutsideKeeps DEF vars, IInv, TypeOK
<1>4. QED
  BY <1>1, <1>2, <1>3 DEF Next

\* IInv holds in every reachable state.
THEOREM Invariance == Spec => []IInv
<1>1. QED
  BY InitIInv, NextIInv, PTL DEF Spec

\* PayrollRun never leaves its types.
THEOREM TypeCorrect == Spec => []TypeOK
<1>1. IInv => TypeOK
  BY DEF IInv
<1>2. QED
  BY <1>1, Invariance, PTL

\* The run enters the workflow once and is decided once, by a finance director
\* who is not its creator, however many requests run at once.
THEOREM DecidedOnce == Spec => []DecidedOnceByDirector
<1>1. IInv => DecidedOnceByDirector
  <2> SUFFICES ASSUME IInv PROVE DecidedOnceByDirector
    OBVIOUS
  <2> DEFINE A == Announced("PayrollRunSubmittedForApproval")
  <2>1. \A i, j \in A : i = j
    BY DEF IInv, RunOK
  <2>2. Cardinality(A) <= 1
    <3>1. CASE A = {}
      BY <3>1, FS_EmptySet
    <3>2. CASE A # {}
      <4>1. PICK i \in A : TRUE
        BY <3>2
      <4>2. A = {i}
        BY <2>1, <4>1
      <4> HIDE DEF A
      <4>3. Cardinality(A) = 1
        BY <4>2, FS_Singleton
      <4>4. QED
        BY <4>3
    <3>3. QED
      BY <3>1, <3>2
  <2>3. QED
    BY <2>2 DEF IInv, RecordsOK, RecordOK, DecidedOnceByDirector
<1>2. QED
  BY <1>1, Invariance, PTL

\* A run is paid after it was approved, and approved with payslips and a
\* decision on record, although requests write back statuses they read earlier.
THEOREM PaidAfterApproval == Spec => []PaidOnlyWhenApproved
<1>1. IInv => PaidOnlyWhenApproved
  BY DEF IInv, RunOK, PaidOnlyWhenApproved
<1>2. QED
  BY <1>1, Invariance, PTL

-----------------------------------------------------------------------------
(* Requests that take turns: what the one in flight has read is what is    *)
(* there, so that its commit is a step of the lifecycle.                   *)

Fresh(m) ==
    /\ IF m.command = "addPayslip"
       THEN \E e \in Employees : m.adding = {e}
       ELSE m.adding = {}
    /\ m.at \in {"period", "decide"} => m.status = status /\ m.payslips = payslips
    /\ m.at = "save" =>
          /\ MayMove(m.command, status)
          /\ m.payslips = payslips \cup m.adding
          /\ m.adding \cap payslips = {}

SerialInv == IInv /\ (TakeTurns => \A q \in DOMAIN request : Fresh(request[q]))

\* A step of the one request keeps it, if what it puts in memory is fresh.
LEMMA OnlyRequest ==
    ASSUME SerialInv, NEW q \in DOMAIN request, NEW m,
           request' = [request EXCEPT ![q] = m],
           TakeTurns => Fresh(m)
    PROVE  /\ TakeTurns' => TakeTurns
           /\ TakeTurns => \A p \in DOMAIN request' : Fresh(request'[p])
<1>1. DOMAIN request' = DOMAIN request
  OBVIOUS
<1>2. TakeTurns' => TakeTurns
  BY <1>1 DEF TakeTurns
<1>3. ASSUME TakeTurns, NEW p \in DOMAIN request'
      PROVE  Fresh(request'[p])
  <2>1. p = q
    BY <1>1, <1>3 DEF TakeTurns
  <2>2. request'[p] = m
    BY <2>1
  <2>3. QED
    BY <1>3, <2>2
<1>4. QED
  BY <1>2, <1>3

\* What the one request knows when it loads, asks for the period or decides.
LEMMA SerialMemory ==
    ASSUME SerialInv, NEW q \in DOMAIN request,
           \/ \E c \in Commands, u \in Users, adding \in SUBSET Employees : Begin(q, c, u, adding)
           \/ CheckPeriod(q) \/ Decide(q) \/ DecideApproval(q) \/ DecideRejection(q)
    PROVE  /\ TakeTurns' => \A p \in DOMAIN request' : Fresh(request[p])'
           /\ UNCHANGED <<status, payslips, outbox>>
<1>1. \E m : request' = [request EXCEPT ![q] = m] /\ (TakeTurns => Fresh(m))
  <2>1. ASSUME NEW c \in Commands, NEW u \in Users, NEW adding \in SUBSET Employees,
               Begin(q, c, u, adding)
        PROVE  \E m : request' = [request EXCEPT ![q] = m] /\ (TakeTurns => Fresh(m))
    <3> DEFINE m == [Idle EXCEPT !.at = IF c \in {"process", "cancel"} THEN "decide" ELSE "period",
                           !.command = c, !.user = u, !.adding = adding,
                           !.status = status, !.payslips = payslips]
    <3>1. /\ request' = [request EXCEPT ![q] = m]
          /\ IF c = "addPayslip" THEN \E e \in Employees : adding = {e} ELSE adding = {}
      BY <2>1 DEF Begin
    <3>2. /\ m.at # "save" /\ m.command = c /\ m.adding = adding
          /\ m.status = status /\ m.payslips = payslips
      BY DEF Idle
    <3> HIDE DEF m
    <3>3. Fresh(m)
      BY <3>1, <3>2 DEF Fresh
    <3>4. QED
      BY <3>1, <3>3
  <2>2. ASSUME CheckPeriod(q)
        PROVE  \E m : request' = [request EXCEPT ![q] = m] /\ (TakeTurns => Fresh(m))
    <3> DEFINE o == request[q]
               m == [o EXCEPT !.at = "decide"]
    <3>1. o.at = "period" /\ request' = [request EXCEPT ![q] = m] /\ o \in Memory
      BY <2>2 DEF CheckPeriod, SerialInv, IInv, TypeOK
    <3>2. TakeTurns => Fresh(o)
      BY DEF SerialInv
    <3> HIDE DEF o
    <3>3. /\ m.at = "decide" /\ m.command = o.command /\ m.adding = o.adding
          /\ m.status = o.status /\ m.payslips = o.payslips
      BY <3>1 DEF Memory
    <3> HIDE DEF m
    <3>4. TakeTurns => Fresh(m)
      BY <3>1, <3>2, <3>3 DEF Fresh
    <3>5. QED
      BY <3>1, <3>4
  <2>3. ASSUME Decide(q) \/ DecideApproval(q) \/ DecideRejection(q)
        PROVE  \E m : request' = [request EXCEPT ![q] = m] /\ (TakeTurns => Fresh(m))
    <3> DEFINE o == request[q]
    <3>1. /\ o.at = "decide" /\ o \in Memory /\ MayMove(o.command, o.status)
          /\ o.adding \cap o.payslips = {} \/ o.command \in {"approve", "reject"}
      <4>1. ASSUME DecideApproval(q)
            PROVE  MayMove(o.command, o.status) /\ o.command = "approve"
        <5>1. CurrentStepOrder(records) \in DOMAIN PayrollChain
          BY <4>1 DEF DecideApproval, MayApprove, HasCurrentStep
        <5>2. IsFinalApproval(PayrollChain, records)
          BY <5>1, OneStep DEF IsFinalApproval
        <5>3. QED
          BY <4>1, <5>2 DEF DecideApproval
      <4>2. o.at = "decide"
        BY <2>3 DEF Decide, DecideApproval, DecideRejection
      <4>3. o \in Memory
        BY DEF SerialInv, IInv, TypeOK
      <4>4. QED
        BY <2>3, <4>1, <4>2, <4>3 DEF Decide, DecideRejection
    <3>2. \E m : /\ request' = [request EXCEPT ![q] = m]
                 /\ m.at = "save" /\ m.command = o.command /\ m.adding = o.adding
                 /\ m.payslips = o.payslips \cup o.adding
      <4> HIDE DEF o
      <4> DEFINE w(c) == Decided(o, c)
                 v(k) == [w(o.command) EXCEPT !.records =
                            records \cup {DecisionRecord(o.user, records, k)}]
      <4>1. \A c : /\ w(c).at = "save" /\ w(c).command = o.command /\ w(c).adding = o.adding
                   /\ w(c).payslips = o.payslips \cup o.adding
        BY <3>1 DEF Decided, Memory
      <4>2. \A k : /\ v(k).at = "save" /\ v(k).command = o.command /\ v(k).adding = o.adding
                   /\ v(k).payslips = o.payslips \cup o.adding
        BY <3>1 DEF Decided, Memory
      <4>3. \/ request' = [request EXCEPT ![q] = w(o.command)]
            \/ request' = [request EXCEPT ![q] = v("approved")]
            \/ request' = [request EXCEPT ![q] = v("rejected")]
        <5>1. ASSUME DecideApproval(q)
              PROVE  request' = [request EXCEPT ![q] = v("approved")]
          <6>1. CurrentStepOrder(records) \in DOMAIN PayrollChain
            BY <5>1 DEF DecideApproval, MayApprove, HasCurrentStep
          <6>2. IsFinalApproval(PayrollChain, records)
            BY <6>1, OneStep DEF IsFinalApproval
          <6>3. QED
            BY <5>1, <6>2 DEF DecideApproval, o
        <5>2. ASSUME DecideRejection(q)
              PROVE  request' = [request EXCEPT ![q] = v("rejected")]
          BY <5>2 DEF DecideRejection, o
        <5>3. ASSUME Decide(q)
              PROVE  request' = [request EXCEPT ![q] = w(o.command)]
          BY <5>3 DEF Decide, o
        <5>4. QED
          BY <2>3, <5>1, <5>2, <5>3
      <4> HIDE DEF w, v
      <4>4. QED
        BY <4>1, <4>2, <4>3
    <3>3. TakeTurns => Fresh(o)
      BY DEF SerialInv
    <3> HIDE DEF o
    <3>4. PICK m : /\ request' = [request EXCEPT ![q] = m]
                   /\ m.at = "save" /\ m.command = o.command /\ m.adding = o.adding
                   /\ m.payslips = o.payslips \cup o.adding
      BY <3>2
    <3>5. TakeTurns => Fresh(m)
      BY <3>1, <3>3, <3>4 DEF Fresh
    <3>6. QED
      BY <3>4, <3>5
  <2>4. QED
    BY <2>1, <2>2, <2>3
<1>2. UNCHANGED <<status, payslips, outbox>>
  BY DEF Begin, CheckPeriod, Decide, DecideApproval, DecideRejection, database
<1>3. /\ TakeTurns' => TakeTurns
      /\ TakeTurns => \A p \in DOMAIN request' : Fresh(request'[p])
  BY <1>1, OnlyRequest
<1>4. QED
  BY <1>2, <1>3 DEF Fresh

\* What the commit of the one request does to the run is a move of its lifecycle.
LEMMA CommitIsMove ==
    ASSUME SerialInv, TakeTurns, NEW q \in DOMAIN request, Commit(q)
    PROVE  Lifecycle!Next
<1> DEFINE m == request[q]
           c == m.command
<1>1. /\ m.at = "save" /\ m \in Memory /\ RequestOK(m) /\ Fresh(m)
      /\ outbox \in Seq(EventTypes) /\ payslips \in SUBSET Employees
  BY DEF Commit, SerialInv, IInv, TypeOK
<1>2. c \in Commands
  BY <1>1 DEF Memory
<1>3. /\ status' = Target[c]
      /\ payslips' = payslips \cup m.payslips
      /\ outbox' = outbox \o EventsOf[c]
      /\ c = "submit" => m.payslips # {}
  BY <1>1 DEF Commit, RequestOK, EnqueuedEvents
<1> HIDE DEF m
<1>4. /\ MayMove(c, status)
      /\ m.payslips = payslips \cup m.adding /\ m.adding \cap payslips = {}
      /\ IF c = "addPayslip" THEN \E e \in Employees : m.adding = {e} ELSE m.adding = {}
  BY <1>1 DEF Fresh
<1>5. /\ status \in AllowedFrom[c]
      /\ payslips' = payslips \cup m.adding
      /\ c # "addPayslip" => payslips' = payslips /\ m.payslips = payslips
  BY <1>3, <1>4 DEF MayMove
<1> HIDE DEF c
<1>6. CASE c = "addPayslip"
  <2>1. PICK e \in Employees : m.adding = {e}
    BY <1>4, <1>6
  <2>2. "PayslipGenerated" \in EventTypes /\ EventsOf[c] = <<"PayslipGenerated">>
    BY <1>6 DEF EventTypes, EventsOf
  <2>3. outbox' = Append(outbox, "PayslipGenerated")
    BY <1>1, <1>3, <2>2, AppendIsConcat
  <2>4. status = "draft" /\ status' = status
    BY <1>3, <1>5, <1>6 DEF AllowedFrom, Target
  <2>5. Lifecycle!AddPayslip(e)
    BY <1>4, <1>5, <2>1, <2>3, <2>4 DEF Lifecycle!AddPayslip
  <2>6. QED
    BY <2>5 DEF Lifecycle!Next
<1>7. CASE c = "submit"
  <2>1. /\ status = "draft" /\ status' = "pending_approval"
        /\ outbox' = outbox \o <<"PayrollRunSubmittedForApproval">>
        /\ payslips # {} /\ payslips' = payslips
    BY <1>3, <1>5, <1>7 DEF AllowedFrom, Target, EventsOf
  <2>2. QED
    BY <2>1 DEF Lifecycle!Next, Lifecycle!Submit, Lifecycle!Move
<1>8. CASE c = "approve"
  <2>1. /\ status = "pending_approval" /\ status' = "approved"
        /\ outbox' = outbox \o <<"PayrollRunApproved">> /\ payslips' = payslips
    BY <1>3, <1>5, <1>8 DEF AllowedFrom, Target, EventsOf
  <2>2. QED
    BY <2>1 DEF Lifecycle!Next, Lifecycle!Approve, Lifecycle!Move
<1>9. CASE c = "reject"
  <2>1. /\ status = "pending_approval" /\ status' = "draft"
        /\ outbox' = outbox \o <<"PayrollRunRejected">> /\ payslips' = payslips
    BY <1>3, <1>5, <1>9 DEF AllowedFrom, Target, EventsOf
  <2>2. QED
    BY <2>1 DEF Lifecycle!Next, Lifecycle!Reject, Lifecycle!Move
<1>10. CASE c = "process"
  <2>1. /\ status = "approved" /\ status' = "completed" /\ payslips' = payslips
        /\ outbox' = outbox \o <<"PayrollRunProcessingStarted", "PayrollRunProcessed">>
    BY <1>3, <1>5, <1>10 DEF AllowedFrom, Target, EventsOf
  <2>2. QED
    BY <2>1 DEF Lifecycle!Next, Lifecycle!Process, Lifecycle!Move
<1>11. CASE c = "cancel"
  <2>1. /\ status \in {"draft", "pending_approval"} /\ status' = "cancelled"
        /\ outbox' = outbox \o <<"PayrollRunCancelled">> /\ payslips' = payslips
    BY <1>3, <1>5, <1>11 DEF AllowedFrom, Target, EventsOf
  <2>2. QED
    BY <2>1 DEF Lifecycle!Next, Lifecycle!Cancel, Lifecycle!Move
<1>12. QED
  BY <1>2, <1>6, <1>7, <1>8, <1>9, <1>10, <1>11 DEF Commands

\* SerialInv is inductive, and a step of the run is one of its lifecycle.
LEMMA SerialStep ==
    ASSUME SerialInv, [Next]_vars
    PROVE  /\ SerialInv'
           /\ TakeTurns => [Lifecycle!Next]_<<status, payslips, outbox>>
<1> DEFINE Kept == TakeTurns' => \A p \in DOMAIN request' : Fresh(request[p])'
           Simulated == TakeTurns => [Lifecycle!Next]_<<status, payslips, outbox>>
<1>1. IInv'
  BY NextIInv DEF SerialInv
<1>2. ASSUME NEW q \in DOMAIN request,
             \/ \E c \in Commands, u \in Users, adding \in SUBSET Employees : Begin(q, c, u, adding)
             \/ CheckPeriod(q) \/ Decide(q) \/ DecideApproval(q) \/ DecideRejection(q)
      PROVE  Kept /\ Simulated
  BY <1>2, SerialMemory
<1>3. ASSUME NEW q \in DOMAIN request, request' = [request EXCEPT ![q] = Idle]
      PROVE  Kept
  <2>1. /\ DOMAIN request' = DOMAIN request
        /\ request'[q] = Idle
    BY <1>3
  <2>2. TakeTurns' => \A p \in DOMAIN request' : request'[p] = Idle
    BY <2>1 DEF TakeTurns
  <2>3. Idle.command # "addPayslip" /\ Idle.adding = {} /\ Idle.at = "idle"
    BY DEF Idle
  <2>4. QED
    BY <2>2, <2>3 DEF Fresh
<1>4. ASSUME NEW q \in DOMAIN request, Commit(q)
      PROVE  Kept /\ Simulated
  BY <1>3, <1>4, CommitIsMove DEF Commit
<1>5. ASSUME NEW q \in DOMAIN request, Rollback(q)
      PROVE  Kept /\ Simulated
  BY <1>3, <1>5 DEF Rollback, database
<1>6. ASSUME ClosePeriod \/ ReopenPeriod \/ UNCHANGED vars
      PROVE  Kept /\ Simulated
  <2>1. UNCHANGED <<status, payslips, outbox, request>>
    BY <1>6 DEF ClosePeriod, ReopenPeriod, vars, database
  <2>2. QED
    BY <2>1 DEF SerialInv, TakeTurns, Fresh
<1>7. Kept /\ Simulated
  BY <1>2, <1>4, <1>5, <1>6 DEF Next, Step
<1>8. QED
  BY <1>1, <1>7 DEF SerialInv

\* The handlers, taken one at a time, implement the payroll run's lifecycle.
THEOREM Implementation == Spec => ImplementsLifecycle
<1>1. Init => Lifecycle!Init /\ SerialInv
  <2> SUFFICES ASSUME Init PROVE Lifecycle!Init /\ SerialInv
    OBVIOUS
  <2>1. Lifecycle!Init
    BY DEF Init, Lifecycle!Init
  <2>2. \A q \in DOMAIN request : request[q] = Idle
    BY DEF Init
  <2>3. Idle.command # "addPayslip" /\ Idle.adding = {} /\ Idle.at = "idle"
    BY DEF Idle
  <2>4. \A q \in DOMAIN request : Fresh(request[q])
    BY <2>2, <2>3 DEF Fresh
  <2>5. QED
    BY <2>1, <2>4, InitIInv DEF SerialInv
<1>2. SerialInv /\ [Next]_vars => SerialInv'
  BY SerialStep
<1>3. SerialInv /\ [Next]_vars
         => [TakeTurns => [Lifecycle!Next]_<<status, payslips, outbox>>]_vars
  BY SerialStep
<1>4. QED
  BY <1>1, <1>2, <1>3, PTL DEF Spec, ImplementsLifecycle

\* Taken one at a time, the handlers add payslips to drafts only, as
\* PayrollRun.addPayslip has it.
THEOREM SerialPayslipsInDraft == Spec /\ []TakeTurns => PayslipsChangeOnlyInDraft
<1>1. [Lifecycle!Next]_<<status, payslips, outbox>>
         => (payslips' # payslips => status = "draft")
  BY DEF Lifecycle!Next, Lifecycle!AddPayslip, Lifecycle!Submit, Lifecycle!Approve,
         Lifecycle!Reject, Lifecycle!Process, Lifecycle!Cancel, Lifecycle!Move
<1>2. [TakeTurns => [Lifecycle!Next]_<<status, payslips, outbox>>]_vars
         => [TakeTurns => (payslips' # payslips => status = "draft")]_vars
  BY <1>1
<1>3. TakeTurns /\ [TakeTurns => (payslips' # payslips => status = "draft")]_vars
         => [payslips' # payslips => status = "draft"]_vars
  OBVIOUS
<1>4. QED
  BY <1>2, <1>3, Implementation, PTL DEF ImplementsLifecycle, PayslipsChangeOnlyInDraft

=============================================================================
