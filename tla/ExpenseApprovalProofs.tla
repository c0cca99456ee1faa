------------------------ MODULE ExpenseApprovalProofs ------------------------
(***************************************************************************)
(* The invariants of ExpenseApproval, for every set of users, requests and *)
(* chains: IInv is inductive, and most theorems read it off.  The last     *)
(* three parts are about requests that do not overlap.                     *)
(***************************************************************************)
EXTENDS ExpenseApproval, WorkflowEngineProofs, SequenceTheorems

\* A chain is a sequence, so its steps are numbered 1 to its length.
LEMMA ChainSteps ==
    ASSUME NEW c \in Chains
    PROVE  Len(c) \in Nat /\ DOMAIN c = 1 .. Len(c)
<1>1. c \in Seq(ApprovalStep)
  BY ChainsType DEF ApprovalChain
<1>2. QED
  BY <1>1, LenProperties

\* An event appended to the outbox is announced, and the rest stays as it was.
LEMMA AppendEvent ==
    ASSUME NEW s \in Seq(EventTypes), NEW e \in EventTypes
    PROVE  /\ Append(s, e) \in Seq(EventTypes)
           /\ DOMAIN Append(s, e) = DOMAIN s \cup {Len(s) + 1}
           /\ \A i \in DOMAIN s : Append(s, e)[i] = s[i]
           /\ Append(s, e)[Len(s) + 1] = e
<1>1. Len(s) \in Nat /\ DOMAIN s = 1 .. Len(s)
  BY LenProperties
<1>2. /\ Append(s, e) \in Seq(EventTypes)
      /\ Len(Append(s, e)) = Len(s) + 1
      /\ \A i \in 1 .. Len(s) : Append(s, e)[i] = s[i]
      /\ Append(s, e)[Len(s) + 1] = e
  BY AppendProperties
<1>3. DOMAIN Append(s, e) = 1 .. Len(s) + 1
  BY <1>2, LenProperties
<1>4. QED
  BY <1>1, <1>2, <1>3, NextInterval

\* The finiteness that currentStepOrder needs to be a number.
Finite == IsFiniteSet(records) /\ \A q \in Requests : IsFiniteSet(read[q])

-----------------------------------------------------------------------------

\* Types hold at the start.
LEMMA InitType == Init => TypeOK /\ Finite
<1> SUFFICES ASSUME Init PROVE TypeOK /\ Finite
  OBVIOUS
<1>1. IsFiniteSet({})
  BY FS_EmptySet
<1>2. <<>> \in Seq(EventTypes)
  OBVIOUS
<1>3. Item.requester \in Users
  BY ItemType DEF Approvable
<1>4. QED
  BY <1>1, <1>2, <1>3
     DEF Init, TypeOK, Finite, Statuses, PeriodStatuses, Stages, Commands

\* Every step of a request or of the period keeps the types.
LEMMA NextType == TypeOK /\ Finite /\ [Next]_vars => TypeOK' /\ Finite'
<1> SUFFICES ASSUME TypeOK, Finite, [Next]_vars
             PROVE  TypeOK' /\ Finite'
  OBVIOUS
<1> USE DEF TypeOK, Finite
<1>1. IsFiniteSet({}) /\ Item.requester \in Users
  BY FS_EmptySet, ItemType DEF Approvable
<1>2. ASSUME NEW q \in Requests, NEW c \in Commands, NEW u \in Users, Begin(q, c, u)
      PROVE  TypeOK' /\ Finite'
  BY <1>2 DEF Begin, Stages, database
<1>3. ASSUME NEW q \in Requests, CheckPeriod(q)
      PROVE  TypeOK' /\ Finite'
  BY <1>3 DEF CheckPeriod, Stages, database
<1>4. ASSUME NEW q \in Requests, NEW d \in Decisions, NEW st \in Statuses,
             at' = [at EXCEPT ![q] = "save"],
             read' = [read EXCEPT ![q] = records \cup {DecisionRecord(actor[q], records, d)}],
             seen' = [seen EXCEPT ![q] = st],
             UNCHANGED <<chain, database, period, op, actor>>
      PROVE  TypeOK' /\ Finite'
  <2>1. DecisionRecord(actor[q], records, d) \in ApprovalRecord
    BY DecisionRecordType
  <2>2. IsFiniteSet(records \cup {DecisionRecord(actor[q], records, d)})
    BY FS_AddElement
  <2>3. QED
    BY <1>4, <2>1, <2>2 DEF database, Stages
<1>5. ASSUME NEW q \in Requests, DecideApproval(q)
      PROVE  TypeOK' /\ Finite'
  <2>1. (IF IsFinalApproval(chain, records) THEN "approved" ELSE seen[q]) \in Statuses
    BY DEF Statuses
  <2>2. "approved" \in Decisions
    BY DEF Decisions
  <2>3. QED
    BY <1>4, <1>5, <2>1, <2>2 DEF DecideApproval
<1>6. ASSUME NEW q \in Requests, DecideRejection(q)
      PROVE  TypeOK' /\ Finite'
  <2>1. "rejected" \in Decisions /\ "rejected" \in Statuses
    BY DEF Decisions, Statuses
  <2>2. QED
    BY <1>4, <1>6, <2>1 DEF DecideRejection
<1>7. ASSUME NEW q \in Requests, Finish(q)
      PROVE  /\ chain' \in Chains /\ period' \in PeriodStatuses
             /\ at' \in [Requests -> Stages]
             /\ op' \in [Requests -> Commands]
             /\ actor' \in [Requests -> Users]
             /\ seen' \in [Requests -> Statuses]
             /\ read' \in [Requests -> SUBSET ApprovalRecord]
             /\ \A p \in Requests : IsFiniteSet(read'[p])
  BY <1>1, <1>7 DEF Finish, Stages, Commands, Statuses
<1>8. ASSUME NEW q \in Requests, Finish(q), status' \in Statuses, progress' \in BOOLEAN,
             outbox' \in Seq(EventTypes),
             \/ UNCHANGED records
             \/ records' = SaveRecords(records, read[q])
      PROVE  TypeOK' /\ Finite'
  <2>1. SaveRecords(records, read[q]) \in SUBSET ApprovalRecord
    BY SaveRecordsGrows
  <2>2. IsFiniteSet(SaveRecords(records, read[q]))
    BY SaveRecordsGrows
  <2>3. QED
    BY <1>7, <1>8, <2>1, <2>2
<1>9. ASSUME NEW e \in EventTypes
      PROVE  Append(outbox, e) \in Seq(EventTypes)
  BY AppendEvent
<1>10. ASSUME NEW q \in Requests, CommitSubmit(q)
       PROVE  TypeOK' /\ Finite'
  <2>1. outbox \o <<"ExpenseSubmittedForApproval", "ExpenseApproved">> \in Seq(EventTypes)
    BY ConcatProperties DEF EventTypes
  <2>2. "ExpenseSubmittedForApproval" \in EventTypes
    BY DEF EventTypes
  <2>3. QED
    BY <1>8, <1>9, <1>10, <2>1, <2>2 DEF CommitSubmit, InitializeProgress, Statuses
<1>11. ASSUME NEW q \in Requests, CommitApprove(q) \/ CommitReject(q)
       PROVE  TypeOK' /\ Finite'
  <2>1. "ExpenseApproved" \in EventTypes /\ "ExpenseRejected" \in EventTypes
    BY DEF EventTypes
  <2>2. seen[q] \in Statuses
    OBVIOUS
  <2>3. QED
    BY <1>8, <1>9, <1>11, <2>1, <2>2 DEF CommitApprove, CommitReject
<1>12. ASSUME NEW q \in Requests, CommitCancel(q) \/ Rollback(q)
       PROVE  TypeOK' /\ Finite'
  <2>1. "ExpenseCancelled" \in EventTypes /\ "cancelled" \in Statuses
    BY DEF EventTypes, Statuses
  <2>2. QED
    BY <1>8, <1>9, <1>12, <2>1 DEF CommitCancel, Rollback, database
<1>13. ASSUME ClosePeriod \/ ReopenPeriod
       PROVE  TypeOK' /\ Finite'
  BY <1>13 DEF ClosePeriod, ReopenPeriod, database, request, PeriodStatuses
<1>14. CASE UNCHANGED vars
  BY <1>14 DEF vars, database, request
<1>15. QED
  BY <1>2, <1>3, <1>5, <1>6, <1>10, <1>11, <1>12, <1>13, <1>14 DEF Next, Step

\* ExpenseApproval never leaves its types.
THEOREM TypeCorrect == Spec => []TypeOK
<1>1. Spec => [](TypeOK /\ Finite)
  BY InitType, NextType, PTL DEF Spec
<1>2. QED
  BY <1>1, PTL

-----------------------------------------------------------------------------
(* The inductive invariant. *)

\* The part of IInv about one request.
RequestOK(q) ==
    /\ Deciding(q) => SnapshotOK(q)
    /\ seen[q] = "approved" => WholeChain \/ HoldsFinalApproval(q)

\* A request is unaffected by a step that leaves its own memory alone and at
\* most adds records.
LEMMA OtherRequest ==
    ASSUME NEW q \in Requests, RequestOK(q), records \subseteq records',
           UNCHANGED <<chain, at[q], op[q], seen[q], read[q]>>
    PROVE  RequestOK(q)'
<1>1. StepOrders(records) \subseteq StepOrders(records')
  BY DEF StepOrders
<1>2. Deciding(q)' => SnapshotOK(q)'
  BY DEF RequestOK, Deciding, SnapshotOK, AlreadyApproved, HoldsStepRole
<1>3. WholeChain => WholeChain'
  BY <1>1 DEF WholeChain
<1>4. QED
  BY <1>2, <1>3 DEF RequestOK, HoldsFinalApproval

\* A request that has ended holds nothing.
LEMMA EndedRequest ==
    ASSUME TypeOK, NEW q \in Requests, Finish(q)
    PROVE  RequestOK(q)'
BY DEF Finish, TypeOK, RequestOK, Deciding

\* The records a request holds when it is about to commit: a copy of rows of
\* the table and the record of its decision.
LEMMA SnapshotShape ==
    ASSUME TypeOK, Finite, NEW q \in Requests, SnapshotOK(q)
    PROVE  \E base \in SUBSET records, d \in ApprovalRecord :
              /\ read[q] = base \cup {d}
              /\ d.stepOrder = Cardinality(base) + 1
              /\ StepOrders(read[q]) = 1 .. Cardinality(read[q])
              /\ d.approver # Item.requester
              /\ d.decision = "approved" =>
                    /\ ~AlreadyApproved(d.approver, base)
                    /\ d.stepOrder \in DOMAIN chain
                    /\ HoldsStepRole(d.approver, chain[d.stepOrder], Item)
<1>1. PICK d \in read[q] :
        LET base == read[q] \ {d}
        IN  /\ base \subseteq records
            /\ StepOrders(base) = 1 .. Cardinality(base)
            /\ d.stepOrder = Cardinality(base) + 1
            /\ d.approver # Item.requester
            /\ d.decision = "approved" =>
                  /\ ~AlreadyApproved(d.approver, base)
                  /\ d.stepOrder \in DOMAIN chain
                  /\ HoldsStepRole(d.approver, chain[d.stepOrder], Item)
  BY DEF SnapshotOK
<1> DEFINE base == read[q] \ {d}
<1>2. base \in SUBSET records /\ read[q] = base \cup {d} /\ d \notin base
  BY <1>1
<1>3. d \in ApprovalRecord
  BY DEF TypeOK
<1>4. IsFiniteSet(base) /\ Cardinality(base) \in Nat
  BY <1>2, FS_Subset, FS_CardinalityType DEF Finite
<1>5. Cardinality(read[q]) = Cardinality(base) + 1
  BY <1>2, <1>4, FS_AddElement
<1>6. StepOrders(read[q]) = StepOrders(base) \cup {d.stepOrder}
  BY <1>2 DEF StepOrders
<1>7. StepOrders(read[q]) = 1 .. Cardinality(read[q])
  BY <1>1, <1>4, <1>5, <1>6, NextInterval
<1>8. QED
  BY <1>1, <1>2, <1>3, <1>7

\* What a commit does to the table keeps the three invariants on records: the
\* decision was checked against the very rows it is added to, or is dropped.
LEMMA CommitRecords ==
    ASSUME TypeOK, Finite, RecordsContiguous, SeparationOfDuties, ApprovalsAuthorised,
           NEW q \in Requests, SnapshotOK(q),
           records' = SaveRecords(records, read[q]), UNCHANGED chain
    PROVE  /\ RecordsContiguous' /\ SeparationOfDuties' /\ ApprovalsAuthorised'
           /\ records \subseteq records'
           /\ StepOrders(records') = StepOrders(records) \cup 1 .. Cardinality(read[q])
<1>1. PICK base \in SUBSET records, d \in ApprovalRecord :
        /\ read[q] = base \cup {d}
        /\ d.stepOrder = Cardinality(base) + 1
        /\ StepOrders(read[q]) = 1 .. Cardinality(read[q])
        /\ d.approver # Item.requester
        /\ d.decision = "approved" =>
              /\ ~AlreadyApproved(d.approver, base)
              /\ d.stepOrder \in DOMAIN chain
              /\ HoldsStepRole(d.approver, chain[d.stepOrder], Item)
  BY SnapshotShape
<1>2. /\ IsFiniteSet(records) /\ IsFiniteSet(read[q])
      /\ StepOrders(records) = 1 .. Cardinality(records)
  BY DEF Finite, RecordsContiguous
<1>3. /\ records \subseteq SaveRecords(records, read[q])
      /\ StepOrders(SaveRecords(records, read[q]))
            = StepOrders(records) \cup StepOrders(read[q])
  BY <1>2, SaveRecordsGrows
<1>4. \/ records' = records
      \/ /\ base = records
         /\ records' = records \cup {d}
         /\ StepOrders(records') = 1 .. Cardinality(records')
  <2>0. d.stepOrder = Cardinality(base) + 1
    BY <1>1
  <2>1. \/ SaveRecords(records, base \cup {d}) = records
        \/ /\ base = records
           /\ SaveRecords(records, base \cup {d}) = records \cup {d}
           /\ StepOrders(records \cup {d}) = 1 .. Cardinality(records \cup {d})
    BY <1>2, <2>0, SaveOneRecord
  <2>2. records' = SaveRecords(records, base \cup {d})
    BY <1>1
  <2>3. QED
    BY <2>1, <2>2
<1>5. CASE records' = records
  BY <1>1, <1>3, <1>5 DEF RecordsContiguous, SeparationOfDuties, ApprovalsAuthorised, HoldsStepRole
<1>6. CASE /\ base = records
           /\ records' = records \cup {d}
           /\ StepOrders(records') = 1 .. Cardinality(records')
  <2>1. RecordsContiguous'
    BY <1>6 DEF RecordsContiguous
  <2>2. SeparationOfDuties'
    BY <1>1, <1>6 DEF SeparationOfDuties, AlreadyApproved
  <2>3. ApprovalsAuthorised'
    BY <1>1, <1>6 DEF ApprovalsAuthorised, HoldsStepRole
  <2>4. QED
    BY <1>1, <1>3, <2>1, <2>2, <2>3
<1>7. QED
  BY <1>4, <1>5, <1>6

\* What a decision puts in memory is a snapshot as the commits expect it.
LEMMA DecisionSnapshot ==
    ASSUME TypeOK, Finite, RecordsContiguous, NEW q \in Requests, NEW k \in Decisions,
           actor[q] # Item.requester,
           k = "approved" => MayApprove(actor[q], chain, records, Item),
           read' = [read EXCEPT ![q] = records \cup {DecisionRecord(actor[q], records, k)}],
           UNCHANGED <<chain, records>>
    PROVE  /\ SnapshotOK(q)'
           /\ Cardinality(read'[q]) = Cardinality(records) + 1
<1> DEFINE d == DecisionRecord(actor[q], records, k)
<1>1. IsFiniteSet(records) /\ Cardinality(records) \in Nat
  BY FS_CardinalityType DEF Finite
<1>2. actor[q] \in Users
  BY DEF TypeOK
<1>3. /\ d.stepOrder = Cardinality(records) + 1
      /\ d.approver = actor[q]
      /\ d.decision = k
  BY <1>1, <1>2, DecisionRecordType
<1>4. StepOrders(records) = 1 .. Cardinality(records)
  BY DEF RecordsContiguous
<1>5. Cardinality(records) + 1 \notin StepOrders(records)
  BY <1>1, <1>4
<1>6. d \notin records
  BY <1>3, <1>5 DEF StepOrders
<1>7. read'[q] = records \cup {d}
  BY DEF TypeOK
<1>8. Cardinality(read'[q]) = Cardinality(records) + 1
  BY <1>1, <1>6, <1>7, FS_AddElement
<1>9. d \in read'[q] /\ read'[q] \ {d} = records
  BY <1>6, <1>7
<1>10. d.decision = "approved" =>
         /\ ~AlreadyApproved(d.approver, records)
         /\ d.stepOrder \in DOMAIN chain
         /\ HoldsStepRole(d.approver, chain[d.stepOrder], Item)
  BY <1>3 DEF MayApprove, HoldsCurrentStepRole, HasCurrentStep, CurrentStepOrder
<1>11. SnapshotOK(q)'
  <2> HIDE DEF d
  <2>1. /\ read'[q] \ {d} \subseteq records'
        /\ StepOrders(read'[q] \ {d}) = 1 .. Cardinality(read'[q] \ {d})
        /\ d.stepOrder = Cardinality(read'[q] \ {d}) + 1
        /\ d.approver # Item.requester
    BY <1>3, <1>4, <1>9
  <2>2. d.decision = "approved" =>
          /\ ~AlreadyApproved(d.approver, read'[q] \ {d})
          /\ d.stepOrder \in DOMAIN chain'
          /\ HoldsStepRole(d.approver, chain'[d.stepOrder], Item)
    BY <1>9, <1>10
  <2>3. QED
    BY <1>9, <2>1, <2>2 DEF SnapshotOK, AlreadyApproved, HoldsStepRole, StepOrders
<1>12. QED
  BY <1>8, <1>11

-----------------------------------------------------------------------------
(* One lemma per kind of step. *)

\* The parts of IInv about the database alone.
DatabaseOK ==
    /\ RecordsContiguous
    /\ SeparationOfDuties
    /\ ApprovalsAuthorised
    /\ ApprovedOnlyByWholeChain
    /\ SubmittedAtMostOnce
    /\ chain # <<>> /\ Announced("ExpenseSubmittedForApproval") => progress

\* IInv, in the three parts that the proof handles separately.
LEMMA IInvParts ==
    IInv <=> TypeOK /\ Finite /\ DatabaseOK /\ \A q \in Requests : RequestOK(q)
BY DEF IInv, Finite, DatabaseOK, RequestOK

\* A step that writes nothing keeps what is true of the database.
LEMMA DatabaseUnchanged ==
    ASSUME DatabaseOK, UNCHANGED <<chain, database>>
    PROVE  DatabaseOK'
BY DEF DatabaseOK, database, RecordsContiguous, SeparationOfDuties, ApprovalsAuthorised,
       ApprovedOnlyByWholeChain, SubmittedAtMostOnce, Announced, HoldsStepRole

\* An event that is not a submission keeps the two invariants about it.
LEMMA OtherEvent ==
    ASSUME TypeOK, DatabaseOK, NEW e \in EventTypes \ {"ExpenseSubmittedForApproval"},
           outbox' = Append(outbox, e), UNCHANGED <<chain, progress>>
    PROVE  /\ SubmittedAtMostOnce'
           /\ chain' # <<>> /\ Announced("ExpenseSubmittedForApproval")' => progress'
           /\ e # "ExpenseApproved" /\ Announced("ExpenseApproved")'
                => Announced("ExpenseApproved")
<1>1. outbox \in Seq(EventTypes)
  BY DEF TypeOK
<1>2. /\ DOMAIN outbox' = DOMAIN outbox \cup {Len(outbox) + 1}
      /\ \A i \in DOMAIN outbox : outbox'[i] = outbox[i]
      /\ outbox'[Len(outbox) + 1] = e
  BY <1>1, AppendEvent
<1>3. \A i \in DOMAIN outbox' : outbox'[i] = "ExpenseSubmittedForApproval" =>
        i \in DOMAIN outbox /\ outbox[i] = "ExpenseSubmittedForApproval"
  BY <1>2
<1>4. QED
  BY <1>2, <1>3 DEF SubmittedAtMostOnce, Announced, DatabaseOK

\* The reading steps: findById, the period check and the two decisions.
LEMMA ReadStep ==
    ASSUME IInv, NEW q \in Requests,
           \/ \E c \in Commands, u \in Users : Begin(q, c, u)
           \/ CheckPeriod(q) \/ DecideApproval(q) \/ DecideRejection(q)
    PROVE  DatabaseOK' /\ \A p \in Requests : RequestOK(p)'
<1> USE IInvParts
<1>1. UNCHANGED <<chain, database>>
  BY DEF Begin, CheckPeriod, DecideApproval, DecideRejection
<1>2. DatabaseOK'
  BY <1>1, DatabaseUnchanged
<1>3. \A p \in Requests \ {q} : UNCHANGED <<at[p], op[p], seen[p], read[p]>>
  BY DEF Begin, CheckPeriod, DecideApproval, DecideRejection, TypeOK
<1>4. \A p \in Requests \ {q} : RequestOK(p)'
  BY <1>1, <1>3, OtherRequest DEF database
<1>5. WholeChain => WholeChain'
  BY <1>1 DEF WholeChain, StepOrders, database
<1>6. at[q] # "save" => (seen[q] = "approved" => WholeChain)
  BY DEF RequestOK, HoldsFinalApproval
<1>7. ASSUME NEW c \in Commands, NEW u \in Users, Begin(q, c, u)
      PROVE  RequestOK(q)'
  <2>1. at'[q] = "period" /\ seen'[q] = status
    BY <1>7 DEF Begin, TypeOK
  <2>2. status = "approved" => WholeChain
    BY DEF DatabaseOK, ApprovedOnlyByWholeChain, WholeChain
  <2>3. QED
    BY <1>5, <2>1, <2>2 DEF RequestOK, Deciding
<1>8. ASSUME CheckPeriod(q)
      PROVE  RequestOK(q)'
  <2>1. /\ at[q] = "period" /\ seen'[q] = seen[q] /\ op'[q] = op[q]
        /\ at'[q] = "save" => op[q] \notin ProgressCommands
    BY <1>8 DEF CheckPeriod, TypeOK
  <2>2. QED
    BY <1>5, <1>6, <2>1 DEF RequestOK, Deciding
<1>9. ASSUME DecideApproval(q)
      PROVE  RequestOK(q)'
  <2>1. SnapshotOK(q)' /\ Cardinality(read'[q]) = Cardinality(records) + 1
    <3>1. /\ MayApprove(actor[q], chain, records, Item)
          /\ read' = [read EXCEPT ![q] =
                          records \cup {DecisionRecord(actor[q], records, "approved")}]
          /\ UNCHANGED <<chain, records>>
      BY <1>9 DEF DecideApproval, database
    <3>2. actor[q] # Item.requester
      BY <3>1 DEF MayApprove
    <3>3. "approved" \in Decisions /\ RecordsContiguous
      BY DEF Decisions, DatabaseOK
    <3>4. QED
      BY <3>1, <3>2, <3>3, DecisionSnapshot
  <2>2. /\ at[q] = "progress" /\ at'[q] = "save" /\ op'[q] = "approve"
        /\ seen'[q] = IF IsFinalApproval(chain, records) THEN "approved" ELSE seen[q]
        /\ chain' = chain
    BY <1>9 DEF DecideApproval, TypeOK
  <2>3. IsFinalApproval(chain, records) => HoldsFinalApproval(q)'
    BY <2>1, <2>2 DEF IsFinalApproval, CurrentStepOrder, HoldsFinalApproval
  <2>4. QED
    BY <1>5, <1>6, <2>1, <2>2, <2>3 DEF RequestOK
<1>10. ASSUME DecideRejection(q)
       PROVE  RequestOK(q)'
  <2>1. SnapshotOK(q)'
    <3>1. /\ actor[q] # Item.requester
          /\ read' = [read EXCEPT ![q] =
                          records \cup {DecisionRecord(actor[q], records, "rejected")}]
          /\ UNCHANGED <<chain, records>>
      BY <1>10 DEF DecideRejection, MayReject, database
    <3>2. "rejected" \in Decisions /\ "rejected" # "approved" /\ RecordsContiguous
      BY DEF Decisions, DatabaseOK
    <3>3. QED
      BY <3>1, <3>2, DecisionSnapshot
  <2>2. seen'[q] = "rejected"
    BY <1>10 DEF DecideRejection, TypeOK
  <2>3. QED
    BY <2>1, <2>2 DEF RequestOK
<1>11. QED
  BY <1>2, <1>4, <1>7, <1>8, <1>9, <1>10

\* A request that ends while records only grow disturbs no other request.
LEMMA RequestsAfterFinish ==
    ASSUME IInv, NEW q \in Requests, Finish(q), records \subseteq records'
    PROVE  \A p \in Requests : RequestOK(p)'
<1> USE IInvParts
<1>1. RequestOK(q)'
  BY EndedRequest
<1>2. \A p \in Requests \ {q} : UNCHANGED <<chain, at[p], op[p], seen[p], read[p]>>
  BY DEF Finish, TypeOK
<1>3. \A p \in Requests \ {q} : RequestOK(p)'
  BY <1>2, OtherRequest
<1>4. QED
  BY <1>1, <1>3

\* The commit of a decision.  The final approval writes "approved" with a record
\* for each step; any other writes a status that already met the invariant.
LEMMA DecisionCommit ==
    ASSUME IInv, NEW q \in Requests, CommitApprove(q) \/ CommitReject(q)
    PROVE  DatabaseOK' /\ records \subseteq records'
<1> USE IInvParts
<1>1. /\ at[q] = "save" /\ op[q] \in ProgressCommands
      /\ records' = SaveRecords(records, read[q])
      /\ status' = seen[q]
      /\ UNCHANGED <<chain, progress>>
  BY DEF CommitApprove, CommitReject, Finish, ProgressCommands
<1>2. SnapshotOK(q)
  BY <1>1 DEF RequestOK, Deciding
<1>3. RecordsContiguous /\ SeparationOfDuties /\ ApprovalsAuthorised
  BY DEF DatabaseOK
<1>4. /\ RecordsContiguous' /\ SeparationOfDuties' /\ ApprovalsAuthorised'
      /\ records \subseteq records'
      /\ StepOrders(records') = StepOrders(records) \cup 1 .. Cardinality(read[q])
  BY <1>1, <1>2, <1>3, CommitRecords
<1>5. WholeChain => WholeChain'
  BY <1>1, <1>4 DEF WholeChain
<1>6. HoldsFinalApproval(q) => WholeChain'
  <2>1. chain \in Chains
    BY DEF TypeOK
  <2>2. DOMAIN chain = 1 .. Len(chain)
    BY <2>1, ChainSteps
  <2>3. QED
    BY <1>1, <1>4, <2>2 DEF HoldsFinalApproval, WholeChain
<1>7. status' = "approved" => WholeChain'
  BY <1>1, <1>5, <1>6 DEF RequestOK
<1>8. ASSUME CommitApprove(q)
      PROVE  /\ Announced("ExpenseApproved")' => WholeChain'
             /\ SubmittedAtMostOnce'
             /\ chain' # <<>> /\ Announced("ExpenseSubmittedForApproval")' => progress'
  <2>1. Announced("ExpenseApproved") => WholeChain
    BY DEF DatabaseOK, ApprovedOnlyByWholeChain, WholeChain
  <2>2. CASE Cardinality(read[q]) = Len(chain)
    <3>1. op[q] = "approve" /\ outbox' = Append(outbox, "ExpenseApproved")
      BY <1>8, <2>2 DEF CommitApprove
    <3>2. "ExpenseApproved" \in EventTypes \ {"ExpenseSubmittedForApproval"}
      BY DEF EventTypes
    <3>3. /\ SubmittedAtMostOnce'
          /\ chain' # <<>> /\ Announced("ExpenseSubmittedForApproval")' => progress'
      BY <1>1, <3>1, <3>2, OtherEvent
    <3>4. QED
      BY <1>1, <1>6, <2>2, <3>1, <3>3 DEF HoldsFinalApproval
  <2>3. CASE Cardinality(read[q]) # Len(chain)
    <3>1. outbox' = outbox
      BY <1>8, <2>3 DEF CommitApprove
    <3>2. QED
      BY <1>1, <1>5, <2>1, <3>1 DEF DatabaseOK, SubmittedAtMostOnce, Announced
  <2>4. QED
    BY <2>2, <2>3
<1>9. ASSUME CommitReject(q)
      PROVE  /\ Announced("ExpenseApproved")' => WholeChain'
             /\ SubmittedAtMostOnce'
             /\ chain' # <<>> /\ Announced("ExpenseSubmittedForApproval")' => progress'
  <2>1. Announced("ExpenseApproved") => WholeChain
    BY DEF DatabaseOK, ApprovedOnlyByWholeChain, WholeChain
  <2>2. outbox' = Append(outbox, "ExpenseRejected")
    BY <1>9 DEF CommitReject
  <2>3. "ExpenseRejected" \in EventTypes \ {"ExpenseSubmittedForApproval"}
    BY DEF EventTypes
  <2>4. /\ SubmittedAtMostOnce'
        /\ chain' # <<>> /\ Announced("ExpenseSubmittedForApproval")' => progress'
        /\ Announced("ExpenseApproved")' => Announced("ExpenseApproved")
    BY <1>1, <2>2, <2>3, OtherEvent
  <2>5. QED
    BY <1>5, <2>1, <2>4
<1>10. ApprovedOnlyByWholeChain'
  BY <1>7, <1>8, <1>9 DEF ApprovedOnlyByWholeChain, WholeChain
<1>11. QED
  BY <1>4, <1>8, <1>9, <1>10 DEF DatabaseOK

\* The commit of a submission: the first for an expense that needs approval,
\* or the immediate approval of one that needs none.
LEMMA SubmitCommit ==
    ASSUME IInv, NEW q \in Requests, CommitSubmit(q)
    PROVE  DatabaseOK' /\ records \subseteq records'
<1> USE IInvParts
<1>1. UNCHANGED <<chain, records>>
  BY DEF CommitSubmit, InitializeProgress, Finish
<1>2. RecordsContiguous' /\ SeparationOfDuties' /\ ApprovalsAuthorised'
  BY <1>1 DEF DatabaseOK, RecordsContiguous, SeparationOfDuties, ApprovalsAuthorised,
             HoldsStepRole
<1>3. CASE chain = <<>>
  <2>1. DOMAIN chain' = {}
    BY <1>1, <1>3
  <2>2. QED
    BY <1>1, <1>2, <1>3, <2>1
       DEF DatabaseOK, ApprovedOnlyByWholeChain, SubmittedAtMostOnce
<1>4. CASE chain # <<>>
  <2>1. /\ ~progress /\ progress' = TRUE /\ status' = "pending_approval"
        /\ outbox' = Append(outbox, "ExpenseSubmittedForApproval")
    BY <1>4 DEF CommitSubmit, InitializeProgress
  <2>2. outbox \in Seq(EventTypes) /\ "ExpenseSubmittedForApproval" \in EventTypes
    BY DEF TypeOK, EventTypes
  <2>3. /\ DOMAIN outbox' = DOMAIN outbox \cup {Len(outbox) + 1}
        /\ \A i \in DOMAIN outbox : outbox'[i] = outbox[i]
        /\ outbox'[Len(outbox) + 1] = "ExpenseSubmittedForApproval"
    BY <2>1, <2>2, AppendEvent
  <2>4. \A i \in DOMAIN outbox : outbox[i] # "ExpenseSubmittedForApproval"
    BY <1>4, <2>1 DEF DatabaseOK, Announced
  <2>5. SubmittedAtMostOnce'
    BY <2>3, <2>4 DEF SubmittedAtMostOnce
  <2>6. Announced("ExpenseApproved")' => Announced("ExpenseApproved")
    BY <2>3 DEF Announced
  <2>7. ApprovedOnlyByWholeChain'
    BY <1>1, <2>1, <2>6 DEF DatabaseOK, ApprovedOnlyByWholeChain
  <2>8. QED
    BY <1>1, <1>2, <2>1, <2>5, <2>7 DEF DatabaseOK
<1>5. QED
  BY <1>1, <1>3, <1>4

\* The commit of a cancellation.
LEMMA CancelCommit ==
    ASSUME IInv, NEW q \in Requests, CommitCancel(q)
    PROVE  DatabaseOK' /\ records \subseteq records'
<1> USE IInvParts
<1>1. /\ UNCHANGED <<chain, records, progress>>
      /\ status' = "cancelled"
      /\ outbox' = Append(outbox, "ExpenseCancelled")
  BY DEF CommitCancel, Finish
<1>2. RecordsContiguous' /\ SeparationOfDuties' /\ ApprovalsAuthorised'
  BY <1>1 DEF DatabaseOK, RecordsContiguous, SeparationOfDuties, ApprovalsAuthorised,
             HoldsStepRole
<1>3. "ExpenseCancelled" \in EventTypes \ {"ExpenseSubmittedForApproval"}
  BY DEF EventTypes
<1>4. /\ SubmittedAtMostOnce'
      /\ chain' # <<>> /\ Announced("ExpenseSubmittedForApproval")' => progress'
      /\ Announced("ExpenseApproved")' => Announced("ExpenseApproved")
  BY <1>1, <1>3, OtherEvent
<1>5. ApprovedOnlyByWholeChain'
  BY <1>1, <1>4 DEF DatabaseOK, ApprovedOnlyByWholeChain
<1>6. QED
  BY <1>1, <1>2, <1>4, <1>5 DEF DatabaseOK

-----------------------------------------------------------------------------

LEMMA InitIInv == Init => IInv
<1> SUFFICES ASSUME Init PROVE IInv
  OBVIOUS
<1>1. TypeOK /\ Finite
  BY InitType
<1>2. Cardinality({}) = 0
  BY FS_EmptySet
<1>3. DatabaseOK
  BY <1>2 DEF Init, DatabaseOK, RecordsContiguous, SeparationOfDuties, ApprovalsAuthorised,
              ApprovedOnlyByWholeChain, SubmittedAtMostOnce, Announced, StepOrders
<1>4. \A q \in Requests : RequestOK(q)
  BY DEF Init, RequestOK, Deciding
<1>5. QED
  BY <1>1, <1>3, <1>4, IInvParts

\* IInv is inductive.
LEMMA NextIInv == IInv /\ [Next]_vars => IInv'
<1> SUFFICES ASSUME IInv, [Next]_vars PROVE IInv'
  OBVIOUS
<1>1. TypeOK' /\ Finite'
  BY NextType, IInvParts
<1>2. DatabaseOK' /\ \A p \in Requests : RequestOK(p)'
  <2>1. ASSUME NEW q \in Requests,
               \/ \E c \in Commands, u \in Users : Begin(q, c, u)
               \/ CheckPeriod(q) \/ DecideApproval(q) \/ DecideRejection(q)
        PROVE  DatabaseOK' /\ \A p \in Requests : RequestOK(p)'
    BY <2>1, ReadStep
  <2>2. ASSUME NEW q \in Requests,
               CommitSubmit(q) \/ CommitApprove(q) \/ CommitReject(q) \/ CommitCancel(q)
        PROVE  DatabaseOK' /\ \A p \in Requests : RequestOK(p)'
    <3>1. DatabaseOK' /\ records \subseteq records'
      BY <2>2, SubmitCommit, DecisionCommit, CancelCommit
    <3>2. Finish(q)
      BY <2>2 DEF CommitSubmit, InitializeProgress, CommitApprove, CommitReject, CommitCancel
    <3>3. QED
      BY <3>1, <3>2, RequestsAfterFinish
  <2>3. ASSUME NEW q \in Requests, Rollback(q)
        PROVE  DatabaseOK' /\ \A p \in Requests : RequestOK(p)'
    <3>1. Finish(q) /\ UNCHANGED <<chain, database>> /\ records \subseteq records'
      BY <2>3 DEF Rollback, Finish, database
    <3>2. QED
      BY <3>1, RequestsAfterFinish, DatabaseUnchanged, IInvParts
  <2>4. ASSUME ClosePeriod \/ ReopenPeriod \/ UNCHANGED vars
        PROVE  DatabaseOK' /\ \A p \in Requests : RequestOK(p)'
    <3>1. UNCHANGED <<chain, database, request>>
      BY <2>4 DEF ClosePeriod, ReopenPeriod, vars
    <3>2. \A p \in Requests : UNCHANGED <<chain, at[p], op[p], seen[p], read[p]>>
      BY <3>1 DEF request
    <3>3. \A p \in Requests : RequestOK(p)'
      BY <3>1, <3>2, OtherRequest, IInvParts DEF database
    <3>4. QED
      BY <3>1, <3>3, DatabaseUnchanged, IInvParts
  <2>5. QED
    BY <2>1, <2>2, <2>3, <2>4 DEF Next, Step
<1>3. QED
  BY <1>1, <1>2 DEF IInv, Finite, DatabaseOK, RequestOK

\* IInv holds in every reachable state.
THEOREM Invariance == Spec => []IInv
<1>1. QED
  BY InitIInv, NextIInv, PTL DEF Spec

\* Requests that decide the same step at once leave one record for it, and no
\* step is skipped, however many requests run.
THEOREM RecordsStayContiguous == Spec => []RecordsContiguous
<1>1. IInv => RecordsContiguous
  BY DEF IInv
<1>2. QED
  BY <1>1, Invariance, PTL

\* Nobody decides on their own expense or approves two steps of one chain,
\* although every request checks that against rows it read earlier.
THEOREM DutiesSeparated == Spec => []SeparationOfDuties
<1>1. IInv => SeparationOfDuties
  BY DEF IInv
<1>2. QED
  BY <1>1, Invariance, PTL

\* An approved expense, and an announced approval, have a record for each step
\* of the chain.
THEOREM ChainCompleted == Spec => []ApprovedOnlyByWholeChain
<1>1. IInv => ApprovedOnlyByWholeChain
  BY DEF IInv
<1>2. QED
  BY <1>1, Invariance, PTL

\* Each approval on record is of a step of the chain, by a holder of its role.
THEOREM ApprovalsByRoleHolders == Spec => []ApprovalsAuthorised
<1>1. IInv => ApprovalsAuthorised
  BY DEF IInv
<1>2. QED
  BY <1>1, Invariance, PTL

\* Of submits that run at the same time one at most succeeds.
THEOREM SubmittedOnce == Spec => []SubmittedAtMostOnce
<1>1. IInv => SubmittedAtMostOnce
  BY DEF IInv
<1>2. QED
  BY <1>1, Invariance, PTL

-----------------------------------------------------------------------------
(* Requests that do not overlap: with one request slot, ExpenseApproval     *)
(* implements ExpenseLifecycle, and the status tells what is on record.     *)

OneRequestAtATime == \A p, q \in Requests : p = q

\* While the only request runs, nobody else moves the expense, so what it has
\* in memory is the committed status, or the move it will make from it.
MemoryIsCurrent(q) ==
    /\ at[q] \in {"period", "progress"} => seen[q] = status
    /\ at[q] = "save" =>
         /\ op[q] = "submit" => status = "draft"
         /\ op[q] = "cancel" => status \in {"draft", "pending_approval"}
         /\ op[q] = "reject" => status = "pending_approval" /\ seen[q] = "rejected"
         /\ op[q] = "approve" =>
              IF Cardinality(read[q]) = Len(chain)
              THEN status = "pending_approval" /\ seen[q] = "approved"
              ELSE seen[q] = status

SerialInv == \A q \in Requests : MemoryIsCurrent(q)

\* The only request keeps its memory current.
LEMMA SerialStep ==
    ASSUME OneRequestAtATime, IInv, SerialInv, [Next]_vars
    PROVE  SerialInv'
<1> USE IInvParts
<1>1. ASSUME NEW q \in Requests, Finish(q)
      PROVE  SerialInv'
  <2>1. at'[q] = "idle"
    BY <1>1 DEF Finish, TypeOK
  <2>2. \A p \in Requests : p = q
    BY DEF OneRequestAtATime
  <2>3. QED
    BY <2>1, <2>2 DEF SerialInv, MemoryIsCurrent
<1>2. ASSUME NEW q \in Requests, NEW c \in Commands, NEW u \in Users, Begin(q, c, u)
      PROVE  SerialInv'
  <2>1. at'[q] = "period" /\ seen'[q] = status' /\ \A p \in Requests : p = q
    BY <1>2 DEF Begin, TypeOK, database, OneRequestAtATime
  <2>2. QED
    BY <2>1 DEF SerialInv, MemoryIsCurrent
<1>3. ASSUME NEW q \in Requests, CheckPeriod(q)
      PROVE  SerialInv'
  <2>1. /\ at[q] = "period" /\ seen'[q] = seen[q] /\ op'[q] = op[q] /\ status' = status
        /\ at'[q] = IF op[q] \in ProgressCommands THEN "progress" ELSE "save"
        /\ op[q] = "submit" => seen[q] = "draft"
        /\ op[q] = "cancel" => seen[q] \in {"draft", "pending_approval"}
        /\ \A p \in Requests : p = q
    BY <1>3 DEF CheckPeriod, MayMove, AllowedFrom, TypeOK, database, OneRequestAtATime
  <2>2. QED
    BY <2>1 DEF SerialInv, MemoryIsCurrent, ProgressCommands
<1>4. ASSUME NEW q \in Requests, DecideApproval(q)
      PROVE  SerialInv'
  <2>1. Cardinality(read'[q]) = CurrentStepOrder(records)
    <3>1. /\ MayApprove(actor[q], chain, records, Item)
          /\ read' = [read EXCEPT ![q] =
                          records \cup {DecisionRecord(actor[q], records, "approved")}]
          /\ UNCHANGED <<chain, records>>
      BY <1>4 DEF DecideApproval, database
    <3>2. actor[q] # Item.requester
      BY <3>1 DEF MayApprove
    <3>3. "approved" \in Decisions /\ RecordsContiguous
      BY DEF Decisions, DatabaseOK
    <3>4. QED
      BY <3>1, <3>2, <3>3, DecisionSnapshot DEF CurrentStepOrder
  <2>2. /\ at[q] = "progress" /\ at'[q] = "save" /\ op'[q] = "approve"
        /\ seen'[q] = IF IsFinalApproval(chain, records) THEN "approved" ELSE seen[q]
        /\ IsFinalApproval(chain, records) => seen[q] = "pending_approval"
        /\ chain' = chain /\ status' = status
        /\ \A p \in Requests : p = q
    BY <1>4 DEF DecideApproval, MayMove, AllowedFrom, TypeOK, database, OneRequestAtATime
  <2>3. seen[q] = status
    BY <2>2 DEF SerialInv, MemoryIsCurrent
  <2>4. QED
    BY <2>1, <2>2, <2>3 DEF SerialInv, MemoryIsCurrent, IsFinalApproval
<1>5. ASSUME NEW q \in Requests, DecideRejection(q)
      PROVE  SerialInv'
  <2>1. /\ at[q] = "progress" /\ op'[q] = "reject" /\ status' = status
        /\ seen[q] = "pending_approval" /\ seen'[q] = "rejected"
        /\ at'[q] = "save"
        /\ \A p \in Requests : p = q
    BY <1>5 DEF DecideRejection, MayMove, AllowedFrom, TypeOK, database, OneRequestAtATime
  <2>2. QED
    BY <2>1 DEF SerialInv, MemoryIsCurrent
<1>6. ASSUME ClosePeriod \/ ReopenPeriod \/ UNCHANGED vars
      PROVE  SerialInv'
  BY <1>6 DEF ClosePeriod, ReopenPeriod, vars, database, request, SerialInv, MemoryIsCurrent
<1>7. QED
  BY <1>1, <1>2, <1>3, <1>4, <1>5, <1>6
     DEF Next, Step, CommitSubmit, InitializeProgress, CommitApprove, CommitReject, CommitCancel, Rollback

\* Each step of the only request is a move of the lifecycle or changes neither
\* the status nor the events.
LEMMA SerialSimulation ==
    ASSUME IInv, SerialInv, [Next]_vars
    PROVE  [Lifecycle!Next]_<<status, outbox>>
<1> USE IInvParts
<1>1. ASSUME NEW q \in Requests, CommitSubmit(q)
      PROVE  Lifecycle!Submit \/ Lifecycle!AutoApprove
  <2>1. status = "draft"
    BY <1>1 DEF CommitSubmit, InitializeProgress, SerialInv, MemoryIsCurrent
  <2>2. Append(outbox, "ExpenseSubmittedForApproval")
          = outbox \o <<"ExpenseSubmittedForApproval">>
    BY DEF TypeOK
  <2>3. QED
    BY <1>1, <2>1, <2>2
       DEF CommitSubmit, InitializeProgress, Lifecycle!Submit, Lifecycle!AutoApprove, Lifecycle!Move
<1>2. ASSUME NEW q \in Requests, CommitApprove(q)
      PROVE  Lifecycle!Approve \/ UNCHANGED <<status, outbox>>
  <2>1. Append(outbox, "ExpenseApproved") = outbox \o <<"ExpenseApproved">>
    BY DEF TypeOK
  <2>2. IF Cardinality(read[q]) = Len(chain)
        THEN status = "pending_approval" /\ seen[q] = "approved"
        ELSE seen[q] = status
    BY <1>2 DEF CommitApprove, SerialInv, MemoryIsCurrent
  <2>3. /\ status' = seen[q]
        /\ outbox' = IF Cardinality(read[q]) = Len(chain)
                     THEN Append(outbox, "ExpenseApproved") ELSE outbox
    BY <1>2 DEF CommitApprove
  <2>4. QED
    BY <2>1, <2>2, <2>3 DEF Lifecycle!Approve, Lifecycle!Move
<1>3. ASSUME NEW q \in Requests, CommitReject(q)
      PROVE  Lifecycle!Reject
  <2>1. Append(outbox, "ExpenseRejected") = outbox \o <<"ExpenseRejected">>
    BY DEF TypeOK
  <2>2. status = "pending_approval" /\ seen[q] = "rejected"
    BY <1>3 DEF CommitReject, SerialInv, MemoryIsCurrent
  <2>3. QED
    BY <1>3, <2>1, <2>2 DEF CommitReject, Lifecycle!Reject, Lifecycle!Move
<1>4. ASSUME NEW q \in Requests, CommitCancel(q)
      PROVE  Lifecycle!Cancel
  <2>1. Append(outbox, "ExpenseCancelled") = outbox \o <<"ExpenseCancelled">>
    BY DEF TypeOK
  <2>2. status \in {"draft", "pending_approval"}
    BY <1>4 DEF CommitCancel, SerialInv, MemoryIsCurrent
  <2>3. QED
    BY <1>4, <2>1, <2>2 DEF CommitCancel, Lifecycle!Cancel, Lifecycle!Move
<1>5. ASSUME NEW q \in Requests,
             \/ \E c \in Commands, u \in Users : Begin(q, c, u)
             \/ CheckPeriod(q) \/ DecideApproval(q) \/ DecideRejection(q) \/ Rollback(q)
      PROVE  UNCHANGED <<status, outbox>>
  BY <1>5 DEF Begin, CheckPeriod, DecideApproval, DecideRejection, Rollback, database
<1>6. ASSUME ClosePeriod \/ ReopenPeriod \/ UNCHANGED vars
      PROVE  UNCHANGED <<status, outbox>>
  BY <1>6 DEF ClosePeriod, ReopenPeriod, vars, database
<1>7. QED
  BY <1>1, <1>2, <1>3, <1>4, <1>5, <1>6 DEF Next, Step, Lifecycle!Next

\* Taken one at a time, the handlers implement the lifecycle: every status an
\* expense shows, and every event it emits, is a move of ExpenseLifecycle.
THEOREM SerialImplementsLifecycle ==
    ASSUME OneRequestAtATime
    PROVE  Spec => ImplementsLifecycle
<1>1. Init => SerialInv /\ Lifecycle!Init
  BY DEF Init, SerialInv, MemoryIsCurrent, Lifecycle!Init
<1>2. IInv /\ SerialInv /\ [Next]_vars => SerialInv'
  BY SerialStep
<1>3. IInv /\ SerialInv /\ [Next]_vars => [Lifecycle!Next]_<<status, outbox>>
  BY SerialSimulation
<1>4. QED
  BY <1>1, <1>2, <1>3, Invariance, PTL DEF Spec, ImplementsLifecycle, Lifecycle!Spec

-----------------------------------------------------------------------------
(* What the status tells, of requests that do not overlap *)

\* The decision that is about to be committed is one record more than there are,
\* for a step nobody has decided.
DecisionIsCurrent(q) ==
    Deciding(q) =>
        \E d \in read[q] :
            /\ read[q] = records \cup {d}
            /\ d.stepOrder \notin StepOrders(records)
            /\ d.decision = IF op[q] = "approve" THEN "approved" ELSE "rejected"

StatusInv == StatusMatchesRecords /\ \A q \in Requests : DecisionIsCurrent(q)

\* A decision made on the committed records is current.
LEMMA DecidedOnCommitted ==
    ASSUME RecordsContiguous, IsFiniteSet(records), NEW u, NEW k,
           NEW M, M = records \cup {DecisionRecord(u, records, k)}
    PROVE  \E d \in M :
              M = records \cup {d} /\ d.stepOrder \notin StepOrders(records) /\ d.decision = k
<1> DEFINE d == DecisionRecord(u, records, k)
<1>1. d.stepOrder = Cardinality(records) + 1 /\ d.decision = k
  BY DEF DecisionRecord, CurrentStepOrder
<1>2. Cardinality(records) \in Nat
  BY FS_CardinalityType
<1>3. d.stepOrder \notin StepOrders(records)
  BY <1>1, <1>2 DEF RecordsContiguous
<1> HIDE DEF d
<1>4. QED
  BY <1>1, <1>3 DEF d

\* What one step does to the status and the records, when requests do not overlap.
LEMMA StatusStep ==
    ASSUME OneRequestAtATime, IInv, SerialInv, StatusInv, [Next]_vars
    PROVE  StatusInv'
<1> USE IInvParts
<1>1. ASSUME NEW q \in Requests, Finish(q), StatusMatchesRecords'
      PROVE  StatusInv'
  <2>1. at'[q] = "idle" /\ \A p \in Requests : p = q
    BY <1>1 DEF Finish, TypeOK, OneRequestAtATime
  <2>2. QED
    BY <1>1, <2>1 DEF StatusInv, DecisionIsCurrent, Deciding
<1>2. ASSUME UNCHANGED <<status, records>>, NEW q \in Requests, DecisionIsCurrent(q)'
      PROVE  StatusInv'
  <2>1. \A p \in Requests : p = q
    BY DEF OneRequestAtATime
  <2>2. QED
    BY <1>2, <2>1 DEF StatusInv, StatusMatchesRecords
<1>3. ASSUME NEW q \in Requests,
             (\E c \in Commands, u \in Users : Begin(q, c, u)) \/ CheckPeriod(q)
      PROVE  StatusInv'
  <2>1. ~Deciding(q)'
    BY <1>3 DEF Begin, CheckPeriod, Deciding, TypeOK, ProgressCommands
  <2>2. UNCHANGED <<status, records>>
    BY <1>3 DEF Begin, CheckPeriod, database
  <2>3. QED
    BY <1>2, <2>1, <2>2 DEF DecisionIsCurrent
<1>4. ASSUME NEW q \in Requests, DecideApproval(q) \/ DecideRejection(q)
      PROVE  StatusInv'
  <2>1. UNCHANGED <<status, records>> /\ op' = op
    BY <1>4 DEF DecideApproval, DecideRejection, database
  <2>2. RecordsContiguous /\ IsFiniteSet(records)
    BY DEF IInv
  <2>3. CASE DecideApproval(q)
    <3>1. /\ op[q] = "approve"
          /\ read'[q] = records \cup {DecisionRecord(actor[q], records, "approved")}
      BY <2>3 DEF DecideApproval, TypeOK
    <3>2. \E d \in read'[q] : /\ read'[q] = records \cup {d}
                             /\ d.stepOrder \notin StepOrders(records)
                             /\ d.decision = "approved"
      BY <2>2, <3>1, DecidedOnCommitted
    <3>3. QED
      BY <1>2, <2>1, <3>1, <3>2 DEF DecisionIsCurrent
  <2>4. CASE DecideRejection(q)
    <3>1. /\ op[q] = "reject"
          /\ read'[q] = records \cup {DecisionRecord(actor[q], records, "rejected")}
      BY <2>4 DEF DecideRejection, TypeOK
    <3>2. \E d \in read'[q] : /\ read'[q] = records \cup {d}
                             /\ d.stepOrder \notin StepOrders(records)
                             /\ d.decision = "rejected"
      BY <2>2, <3>1, DecidedOnCommitted
    <3>3. QED
      BY <1>2, <2>1, <3>1, <3>2 DEF DecisionIsCurrent
  <2>5. QED
    BY <1>4, <2>3, <2>4
<1>5. ASSUME NEW q \in Requests, CommitApprove(q) \/ CommitReject(q)
      PROVE  StatusInv'
  <2>1. /\ at[q] = "save" /\ op[q] \in ProgressCommands
        /\ records' = SaveRecords(records, read[q])
        /\ status' = seen[q] /\ Finish(q)
        /\ op[q] = "approve" <=> CommitApprove(q)
        /\ op[q] = "reject" <=> CommitReject(q)
    BY <1>5 DEF CommitApprove, CommitReject, ProgressCommands
  <2>2. PICK d \in read[q] :
            /\ read[q] = records \cup {d}
            /\ d.stepOrder \notin StepOrders(records)
            /\ d.decision = IF op[q] = "approve" THEN "approved" ELSE "rejected"
    BY <2>1 DEF StatusInv, DecisionIsCurrent, Deciding
  <2>3. records' = records \cup {d}
    BY <2>1, <2>2 DEF SaveRecords, StepOrders
  <2>4. CASE op[q] = "approve"
    <3>1. d.decision = "approved"
      BY <2>2, <2>4
    <3>2. seen[q] = status \/ (status = "pending_approval" /\ seen[q] = "approved")
      BY <2>1, <2>4 DEF SerialInv, MemoryIsCurrent
    <3>3. \A r \in records : r.decision \in Decisions
      BY DEF TypeOK, ApprovalRecord
    <3>4. StatusMatchesRecords'
      BY <2>1, <2>3, <3>1, <3>2, <3>3 DEF StatusInv, StatusMatchesRecords, Decisions
    <3>5. QED
      BY <1>1, <2>1, <3>4
  <2>5. CASE op[q] = "reject"
    <3>1. d.decision = "rejected"
      BY <2>2, <2>5
    <3>2. seen[q] = "rejected"
      BY <2>1, <2>5 DEF SerialInv, MemoryIsCurrent
    <3>3. StatusMatchesRecords'
      BY <2>1, <2>3, <3>1, <3>2 DEF StatusMatchesRecords
    <3>4. QED
      BY <1>1, <2>1, <3>3
  <2>6. QED
    BY <2>1, <2>4, <2>5 DEF ProgressCommands
<1>6. ASSUME NEW q \in Requests, CommitSubmit(q) \/ CommitCancel(q) \/ Rollback(q)
      PROVE  StatusInv'
  <2>1. Finish(q) /\ records' = records
    BY <1>6 DEF CommitSubmit, CommitCancel, Rollback, InitializeProgress, database
  <2>2. \/ status = "draft" /\ status' \in {"approved", "pending_approval"}
        \/ status \in {"draft", "pending_approval"} /\ status' = "cancelled"
        \/ status' = status
    BY <1>6 DEF CommitSubmit, CommitCancel, Rollback, InitializeProgress, database,
                SerialInv, MemoryIsCurrent
  <2>3. \A r \in records : r.decision \in Decisions
    BY DEF TypeOK, ApprovalRecord
  <2>4. StatusMatchesRecords'
    BY <2>1, <2>2, <2>3 DEF StatusInv, StatusMatchesRecords, Decisions
  <2>5. QED
    BY <1>1, <2>1, <2>4
<1>7. ASSUME ClosePeriod \/ ReopenPeriod \/ UNCHANGED vars
      PROVE  StatusInv'
  BY <1>7 DEF ClosePeriod, ReopenPeriod, vars, database, request, StatusInv,
              StatusMatchesRecords, DecisionIsCurrent, Deciding
<1>8. QED
  BY <1>3, <1>4, <1>5, <1>6, <1>7 DEF Next, Step

\* Taken one at a time, what the handlers leave in the row agrees with what they
\* left on record: an approved expense has no rejection, and a rejection is on
\* record exactly when the status says so.
THEOREM SerialStatusMatches ==
    ASSUME OneRequestAtATime
    PROVE  Spec => []StatusMatchesRecords
<1>1. Init => SerialInv /\ StatusInv
  BY DEF Init, SerialInv, MemoryIsCurrent, StatusInv, StatusMatchesRecords,
         DecisionIsCurrent, Deciding
<1>2. IInv /\ SerialInv /\ StatusInv /\ [Next]_vars => SerialInv' /\ StatusInv'
  BY SerialStep, StatusStep
<1>3. StatusInv => StatusMatchesRecords
  BY DEF StatusInv
<1>4. QED
  BY <1>1, <1>2, <1>3, Invariance, PTL DEF Spec

-----------------------------------------------------------------------------
(* Two sentences of the documentation that are true of requests that do not   *)
(* overlap                                                                    *)

\* No move of the lifecycle leaves the rejected status.
THEOREM SerialRejectionIsFinal ==
    ASSUME OneRequestAtATime
    PROVE  Spec => RejectedIsTerminal
<1>1. [Lifecycle!Next]_<<status, outbox>> => (status = "rejected" => status' = "rejected")
  BY DEF Lifecycle!Next, Lifecycle!Submit, Lifecycle!AutoApprove, Lifecycle!Approve,
         Lifecycle!Reject, Lifecycle!Cancel, Lifecycle!Move
<1>2. QED
  BY <1>1, SerialImplementsLifecycle, PTL DEF ImplementsLifecycle, Lifecycle!Spec, RejectedIsTerminal

\* The decision is of a step of the chain, by a holder of its role.
Authorised(d) ==
    d.stepOrder \in DOMAIN chain /\ HoldsStepRole(d.approver, chain[d.stepOrder], Item)

\* A pending expense has a step that nobody has decided, so that the engine has a
\* role to check; a draft has no records at all.
RejectInv ==
    /\ status = "draft" => ~progress /\ records = {}
    /\ status = "pending_approval" => Cardinality(records) < Len(chain)
    /\ RejectionsAuthorised
    /\ \A q \in Requests :
          Deciding(q) => /\ status # "draft"
                         /\ \A d \in read[q] : d.decision = "rejected" => Authorised(d)

LEMMA RejectStep ==
    ASSUME OneRequestAtATime, IInv, SerialInv, StatusInv, RejectInv, [Next]_vars
    PROVE  RejectInv'
<1> USE IInvParts
<1>1. ASSUME NEW q \in Requests, Finish(q), UNCHANGED chain,
             status' = "draft" => ~progress' /\ records' = {},
             status' = "pending_approval" => Cardinality(records') < Len(chain),
             \A r \in records' : r.decision = "rejected" => Authorised(r)
      PROVE  RejectInv'
  <2>1. at'[q] = "idle" /\ \A p \in Requests : p = q
    BY <1>1 DEF Finish, TypeOK, OneRequestAtATime
  <2>2. RejectionsAuthorised'
    BY <1>1 DEF RejectionsAuthorised, Authorised
  <2>3. QED
    BY <1>1, <2>1, <2>2 DEF RejectInv, Deciding
<1>2. ASSUME UNCHANGED <<chain, database>>, NEW q \in Requests,
             Deciding(q)' =>
                /\ status # "draft"
                /\ \A d \in read'[q] : d.decision = "rejected" => Authorised(d)
      PROVE  RejectInv'
  <2>1. \A p \in Requests : p = q
    BY DEF OneRequestAtATime
  <2>2. QED
    BY <1>2, <2>1 DEF RejectInv, RejectionsAuthorised, Authorised, database
<1>3. ASSUME NEW q \in Requests,
             (\E c \in Commands, u \in Users : Begin(q, c, u)) \/ CheckPeriod(q)
      PROVE  RejectInv'
  <2>1. ~Deciding(q)'
    BY <1>3 DEF Begin, CheckPeriod, Deciding, TypeOK, ProgressCommands
  <2>2. UNCHANGED <<chain, database>>
    BY <1>3 DEF Begin, CheckPeriod
  <2>3. QED
    BY <1>2, <2>1, <2>2
<1>4. \A r \in records : r.decision = "rejected" => Authorised(r)
  BY DEF RejectInv, RejectionsAuthorised, Authorised
<1>5. ASSUME NEW q \in Requests, DecideApproval(q)
      PROVE  RejectInv'
  <2>1. UNCHANGED <<chain, database>> /\ progress
        /\ read'[q] = records \cup {DecisionRecord(actor[q], records, "approved")}
    BY <1>5 DEF DecideApproval, TypeOK
  <2>2. status # "draft"
    BY <2>1 DEF RejectInv
  <2>3. DecisionRecord(actor[q], records, "approved").decision # "rejected"
    BY DEF DecisionRecord
  <2>4. QED
    BY <1>2, <1>4, <2>1, <2>2, <2>3
<1>6. ASSUME NEW q \in Requests, DecideRejection(q)
      PROVE  RejectInv'
  <2> DEFINE d == DecisionRecord(actor[q], records, "rejected")
  <2>1. UNCHANGED <<chain, database>> /\ read'[q] = records \cup {d}
        /\ MayReject(actor[q], chain, records, Item)
    BY <1>6 DEF DecideRejection, TypeOK
  <2>2. status = "pending_approval"
    BY <1>6 DEF DecideRejection, MayMove, AllowedFrom, SerialInv, MemoryIsCurrent
  <2>3. CurrentStepOrder(records) \in DOMAIN chain
    <3>1. Cardinality(records) \in Nat /\ Cardinality(records) < Len(chain)
      BY <2>2, FS_CardinalityType DEF RejectInv, IInv
    <3>2. Len(chain) \in Nat /\ DOMAIN chain = 1 .. Len(chain)
      BY ChainsType DEF TypeOK, ApprovalChain
    <3>3. QED
      BY <3>1, <3>2 DEF CurrentStepOrder
  <2>4. Authorised(d)
    BY <2>1, <2>3 DEF MayReject, HoldsCurrentStepRole, HasCurrentStep, Authorised, DecisionRecord
  <2> HIDE DEF d
  <2>5. QED
    BY <1>2, <1>4, <2>1, <2>2, <2>4
<1>7. ASSUME NEW q \in Requests, CommitApprove(q) \/ CommitReject(q)
      PROVE  RejectInv'
  <2>1. /\ Deciding(q) /\ UNCHANGED <<chain, progress>>
        /\ records' = SaveRecords(records, read[q])
        /\ status' = seen[q] /\ Finish(q)
        /\ op[q] = "approve" <=> CommitApprove(q)
    BY <1>7 DEF CommitApprove, CommitReject, Deciding, ProgressCommands, Finish
  <2>2. \A r \in records' : r.decision = "rejected" => Authorised(r)
    BY <1>4, <2>1 DEF RejectInv, SaveRecords
  <2>3. status # "draft"
    BY <2>1 DEF RejectInv
  <2>4. PICK d \in read[q] : read[q] = records \cup {d} /\ d.stepOrder \notin StepOrders(records)
    BY <2>1 DEF StatusInv, DecisionIsCurrent
  <2>5. records' = records \cup {d} /\ d \notin records
    BY <2>1, <2>4 DEF SaveRecords, StepOrders
  <2>6. /\ Cardinality(records') = Cardinality(records) + 1
        /\ Cardinality(records) \in Nat
    BY <2>5, FS_AddElement, FS_CardinalityType DEF IInv
  <2>7. Len(chain) \in Nat
    BY ChainsType DEF TypeOK, ApprovalChain
  <2>8. status' # "draft" /\ (status' = "pending_approval" => Cardinality(records') < Len(chain))
    <3>1. CASE op[q] = "approve"
      <4>1. IF Cardinality(read[q]) = Len(chain) THEN seen[q] = "approved" ELSE seen[q] = status
        BY <2>1, <3>1 DEF SerialInv, MemoryIsCurrent, Deciding
      <4>2. read[q] = records'
        BY <2>4, <2>5
      <4>3. QED
        BY <2>1, <2>3, <2>6, <2>7, <4>1, <4>2 DEF RejectInv
    <3>2. CASE op[q] # "approve"
      BY <2>1, <3>2 DEF SerialInv, MemoryIsCurrent, Deciding, ProgressCommands
    <3>3. QED
      BY <3>1, <3>2
  <2>9. QED
    BY <1>1, <2>1, <2>2, <2>8
<1>8. ASSUME NEW q \in Requests, CommitSubmit(q)
      PROVE  RejectInv'
  <2>1. Finish(q) /\ records' = records /\ UNCHANGED chain /\ status = "draft"
    BY <1>8 DEF CommitSubmit, InitializeProgress, Finish, SerialInv, MemoryIsCurrent
  <2>2. records = {} /\ Cardinality(records) = 0
    BY <2>1, FS_EmptySet DEF RejectInv
  <2>3. status' # "draft" /\ (status' = "pending_approval" => Len(chain) > 0)
    <3>1. chain # <<>> => Len(chain) > 0
      BY ChainsType DEF TypeOK, ApprovalChain
    <3>2. QED
      BY <1>8, <3>1 DEF CommitSubmit
  <2>4. QED
    BY <1>1, <1>4, <2>1, <2>2, <2>3
<1>9. ASSUME NEW q \in Requests, CommitCancel(q) \/ Rollback(q)
      PROVE  RejectInv'
  <2>1. /\ Finish(q) /\ UNCHANGED <<chain, records, progress>>
        /\ status' \in {"cancelled", status}
    BY <1>9 DEF CommitCancel, Rollback, Finish, database
  <2>2. QED
    BY <1>1, <1>4, <2>1 DEF RejectInv
<1>10. ASSUME ClosePeriod \/ ReopenPeriod \/ UNCHANGED vars
       PROVE  RejectInv'
  BY <1>10 DEF ClosePeriod, ReopenPeriod, vars, database, request, RejectInv,
               RejectionsAuthorised, Authorised, Deciding
<1>11. QED
  BY <1>3, <1>5, <1>6, <1>7, <1>8, <1>9, <1>10 DEF Next, Step

\* Each rejection is of a step of the chain, by a holder of the role it requires:
\* the engine lets a rejection pass unchecked only when no step is left, and then
\* the expense is not pending.
THEOREM SerialRejectionsAuthorised ==
    ASSUME OneRequestAtATime
    PROVE  Spec => []RejectionsAuthorised
<1>1. Init => SerialInv /\ StatusInv /\ RejectInv
  <2> SUFFICES ASSUME Init PROVE SerialInv /\ StatusInv /\ RejectInv
    OBVIOUS
  <2>1. Cardinality(records) = 0 /\ (chain # <<>> => Len(chain) > 0)
    BY FS_EmptySet, ChainsType DEF Init, ApprovalChain
  <2>2. QED
    BY <2>1 DEF Init, SerialInv, MemoryIsCurrent, StatusInv, StatusMatchesRecords,
            DecisionIsCurrent, Deciding, RejectInv, RejectionsAuthorised
<1>2. IInv /\ SerialInv /\ StatusInv /\ RejectInv /\ [Next]_vars
         => SerialInv' /\ StatusInv' /\ RejectInv'
  BY SerialStep, StatusStep, RejectStep
<1>3. RejectInv => RejectionsAuthorised
  BY DEF RejectInv
<1>4. QED
  BY <1>1, <1>2, <1>3, Invariance, PTL DEF Spec

=============================================================================
