------------------------- MODULE WorkflowEngineProofs -------------------------
(***************************************************************************)
(* Facts about the approval framework's operators, cited by the proofs of  *)
(* the modules that use it.                                                *)
(***************************************************************************)
EXTENDS WorkflowEngine, FiniteSetTheorems, TLAPS

\* currentStepOrder is a positive number, whatever finite set was read.
LEMMA CurrentStepOrderType ==
    ASSUME NEW T, IsFiniteSet(T)
    PROVE  CurrentStepOrder(T) \in Nat \ {0}
BY FS_CardinalityType DEF CurrentStepOrder

\* The record a decision appends is a well-formed row, for the step after the
\* ones read, by the user who decides.
LEMMA DecisionRecordType ==
    ASSUME NEW T, IsFiniteSet(T), NEW u \in Users, NEW d \in Decisions
    PROVE  /\ DecisionRecord(u, T, d) \in ApprovalRecord
           /\ DecisionRecord(u, T, d).stepOrder = Cardinality(T) + 1
           /\ DecisionRecord(u, T, d).approver = u
           /\ DecisionRecord(u, T, d).decision = d
BY CurrentStepOrderType DEF DecisionRecord, ApprovalRecord, CurrentStepOrder

\* PrismaApprovalProgressRepository.save only adds rows, keeps the table finite
\* and leaves every step in memory on record.
LEMMA SaveRecordsGrows ==
    ASSUME NEW T, IsFiniteSet(T), NEW M, IsFiniteSet(M)
    PROVE  /\ T \subseteq SaveRecords(T, M)
           /\ SaveRecords(T, M) \subseteq T \cup M
           /\ IsFiniteSet(SaveRecords(T, M))
           /\ StepOrders(SaveRecords(T, M)) = StepOrders(T) \cup StepOrders(M)
<1>1. /\ T \subseteq SaveRecords(T, M)
      /\ SaveRecords(T, M) \subseteq T \cup M
  BY DEF SaveRecords
<1>2. IsFiniteSet(T \cup M)
  BY FS_Union
<1>3. IsFiniteSet(SaveRecords(T, M))
  BY <1>1, <1>2, FS_Subset
<1>4. StepOrders(SaveRecords(T, M)) = StepOrders(T) \cup StepOrders(M)
  BY DEF SaveRecords, StepOrders
<1>5. QED
  BY <1>1, <1>3, <1>4

\* A copy of the table's rows that is as long as the number of its steps, and
\* whose next step the table does not have, is the whole table: nobody decided
\* between the read and the save.
LEMMA CopyIsCurrent ==
    ASSUME NEW T, IsFiniteSet(T), StepOrders(T) = 1 .. Cardinality(T),
           NEW B \in SUBSET T, Cardinality(B) + 1 \notin StepOrders(T)
    PROVE  B = T
<1>1. /\ IsFiniteSet(B)
      /\ Cardinality(B) <= Cardinality(T)
      /\ Cardinality(T) = Cardinality(B) => T = B
  BY FS_Subset
<1>2. Cardinality(B) \in Nat /\ Cardinality(T) \in Nat
  BY <1>1, FS_CardinalityType
<1>3. Cardinality(B) = Cardinality(T)
  BY <1>1, <1>2
<1>4. QED
  BY <1>1, <1>3

\* A record at the step after the last one extends the steps by one.
LEMMA NextInterval ==
    ASSUME NEW n \in Nat
    PROVE  (1 .. n) \cup {n + 1} = 1 .. (n + 1)
OBVIOUS

\* Saving one new record after a copy of the table: either its step is already
\* there and the table stays as it is, or the copy was current and the record
\* takes the next step.
LEMMA SaveOneRecord ==
    ASSUME NEW T, IsFiniteSet(T), StepOrders(T) = 1 .. Cardinality(T),
           NEW B \in SUBSET T, NEW d, d.stepOrder = Cardinality(B) + 1
    PROVE  \/ SaveRecords(T, B \cup {d}) = T
           \/ /\ B = T
              /\ d \notin T
              /\ SaveRecords(T, B \cup {d}) = T \cup {d}
              /\ Cardinality(T \cup {d}) = Cardinality(T) + 1
              /\ StepOrders(T \cup {d}) = 1 .. Cardinality(T \cup {d})
<1>1. \A r \in B : r.stepOrder \in StepOrders(T)
  BY DEF StepOrders
<1>2. CASE d.stepOrder \in StepOrders(T)
  BY <1>1, <1>2 DEF SaveRecords
<1>3. CASE d.stepOrder \notin StepOrders(T)
  <2>0. Cardinality(B) + 1 \notin StepOrders(T)
    BY <1>3
  <2>1. B = T
    BY <2>0, CopyIsCurrent
  <2>2. d \notin T
    BY <1>3 DEF StepOrders
  <2>3. SaveRecords(T, B \cup {d}) = T \cup {d}
    BY <1>1, <1>3 DEF SaveRecords
  <2>4. Cardinality(T \cup {d}) = Cardinality(T) + 1
    BY <2>2, FS_AddElement
  <2>5. StepOrders(T \cup {d}) = StepOrders(T) \cup {Cardinality(T) + 1}
    BY <2>1 DEF StepOrders
  <2>6. Cardinality(T) \in Nat
    BY FS_CardinalityType
  <2>7. StepOrders(T \cup {d}) = 1 .. Cardinality(T \cup {d})
    BY <2>4, <2>5, <2>6, NextInterval
  <2>8. QED
    BY <2>1, <2>2, <2>3, <2>4, <2>7
<1>4. QED
  BY <1>2, <1>3

=============================================================================
