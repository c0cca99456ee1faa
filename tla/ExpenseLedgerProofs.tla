-------------------------- MODULE ExpenseLedgerProofs --------------------------
(***************************************************************************)
(* The numbering of expenses, and the approval of adjustments that raise   *)
(* one, for every set of requests, periods and amounts.  IInv is inductive *)
(* and the theorems at the end read it off.                                *)
(***************************************************************************)
EXTENDS ExpenseLedger, SequenceTheorems, TLAPS

\* What a request may be doing.
CommandType == [parent : Nat, amount : Nat]
RequestStates ==
    {Idle}
        \cup [at : {"period"}, period : Periods, status : PeriodStatuses]
        \cup [at : {"number"}, command : CommandType, period : Periods]
        \cup [at : {"save"}, command : CommandType, row : RowType]

\* An adjustment that is about to be saved without approval raises nothing.
NoSilentRaise(row) ==
    (row.parent # None /\ row.status = "approved" /\ ~row.decided) => row.amount <= 0

\* What a request carries agrees with the rows there are.
Carried ==
    \A r \in Requests :
        /\ request[r].at = "number" => request[r].command.parent \in DOMAIN expenses \cup {None}
        /\ request[r].at = "save" => NoSilentRaise(request[r].row)

\* The inductive invariant.
IInv ==
    /\ TypeOK
    /\ request \in [Requests -> RequestStates]
    /\ Carried
    /\ NumbersGapless
    /\ RaisesAreApproved

\* The invariant holds at the start.
LEMMA InitInv == Init => IInv
<1> SUFFICES ASSUME Init PROVE IInv
  OBVIOUS
<1>1. <<>> \in Seq(RowType) /\ Len(<<>>) = 0 /\ DOMAIN <<>> = {}
  BY EmptySeq
<1>2. request \in [Requests -> RequestStates]
  BY DEF Init, RequestStates
<1>3. \A r \in Requests : request[r].at = "idle"
  BY DEF Init, Idle
<1>4. TypeOK
  BY <1>1, <1>3 DEF Init, TypeOK
<1>5. NumbersGapless /\ RaisesAreApproved
  BY <1>1 DEF Init, NumbersGapless, RaisesAreApproved
<1>6. QED
  BY <1>2, <1>3, <1>4, <1>5 DEF IInv, Carried

\* The row of a command has the number it was given, and raises nothing alone.
LEMMA RowOfCommand ==
    ASSUME IInv,
           NEW command \in CommandType, command.parent \in DOMAIN expenses \cup {None},
           NEW p \in Periods
    PROVE  /\ Row(command, p, nextValue) \in RowType
           /\ Row(command, p, nextValue).number = nextValue
           /\ NoSilentRaise(Row(command, p, nextValue))
<1>1. nextValue \in Nat \ {0} /\ expenses \in Seq(RowType)
  <2>1. expenses \in Seq(RowType) /\ nextValue = Len(expenses) + 1
    BY DEF IInv, TypeOK, NumbersGapless
  <2>2. Len(expenses) \in Nat
    BY <2>1, LenProperties
  <2>3. QED
    BY <2>1, <2>2
<1>2. command.parent \in Nat /\ command.amount \in Nat
  BY DEF CommandType
<1>3. CASE command.parent = None
  <2>1. Row(command, p, nextValue) =
          [number |-> nextValue, period |-> p, parent |-> None, amount |-> command.amount,
           status |-> "draft", decided |-> FALSE]
    BY <1>3 DEF Row
  <2>2. None \in Nat /\ command.amount \in Int
    BY <1>2 DEF None
  <2>3. QED
    BY <1>1, <2>1, <2>2 DEF RowType, Statuses, NoSilentRaise
<1>4. CASE command.parent # None
  <2> DEFINE original == expenses[command.parent].amount
             status == IF RequiresApproval(command.amount, original)
                       THEN "pending_approval" ELSE "approved"
  <2>1. expenses[command.parent] \in RowType
    BY <1>1, <1>4, ElementOfSeq, LenProperties
  <2>2. original \in Int
    BY <2>1 DEF RowType
  <2>3. Row(command, p, nextValue) =
          [number |-> nextValue, period |-> p, parent |-> command.parent,
           amount |-> command.amount - original, status |-> status, decided |-> FALSE]
    BY <1>4 DEF Row
  <2>4. command.amount - original \in Int
    BY <1>2, <2>2
  <2>5. status \in Statuses /\ (status = "approved" => command.amount - original <= 0)
    BY <1>2, <2>2 DEF Statuses, RequiresApproval
  <2> HIDE DEF original, status
  <2>6. Row(command, p, nextValue) \in RowType
    BY <1>1, <1>2, <2>3, <2>4, <2>5 DEF RowType
  <2>7. QED
    BY <2>3, <2>5, <2>6 DEF NoSilentRaise
<1>5. QED
  BY <1>3, <1>4

-----------------------------------------------------------------------------
(* One lemma per action. *)

\* Opening or saving a period touches neither rows nor the sequence.
LEMMA OpenPeriodInv == \A p \in Periods : IInv /\ OpenPeriod(p) => IInv'
<1> SUFFICES ASSUME NEW p \in Periods, IInv, OpenPeriod(p) PROVE IInv'
  OBVIOUS
<1> USE DEF IInv, Carried, OpenPeriod
<1>1. period' \in [Periods -> PeriodStatuses \cup {"none"}]
  BY DEF TypeOK, PeriodStatuses
<1>2. TypeOK'
  BY <1>1 DEF TypeOK
<1>3. NumbersGapless' /\ RaisesAreApproved'
  BY DEF NumbersGapless, RaisesAreApproved
<1>4. QED
  BY <1>2, <1>3

\* What a period command decided is a status.
LEMMA LoadPeriodInv ==
    \A r \in Requests, p \in Periods, command \in {"close", "reopen"} :
        IInv /\ LoadPeriod(r, p, command) => IInv'
<1> SUFFICES ASSUME NEW r \in Requests, NEW p \in Periods, NEW command \in {"close", "reopen"},
                    IInv, LoadPeriod(r, p, command)
             PROVE  IInv'
  OBVIOUS
<1>1. PICK status \in PeriodTarget(command, period[p]) :
          request' = [request EXCEPT ![r] = [at |-> "period", period |-> p, status |-> status]]
  BY DEF LoadPeriod
<1>2. status \in PeriodStatuses
  BY <1>1 DEF PeriodTarget, PeriodStatuses
<1> DEFINE state == [at |-> "period", period |-> p, status |-> status]
<1>3. state \in RequestStates
  BY <1>2 DEF RequestStates
<1>4. request' \in [Requests -> RequestStates]
  BY <1>1, <1>3 DEF IInv
<1>5. request[r].at = "idle"
  BY DEF LoadPeriod
<1>6. \A q \in Requests : request'[q] = IF q = r THEN state ELSE request[q]
  BY <1>1 DEF IInv
<1>7. UNCHANGED <<period, expenses, nextValue, locker>>
  BY DEF LoadPeriod
<1>8. TypeOK'
  BY <1>5, <1>6, <1>7 DEF IInv, TypeOK
<1>9. NumbersGapless' /\ RaisesAreApproved'
  BY <1>7 DEF IInv, NumbersGapless, RaisesAreApproved
<1>10. QED
  BY <1>4, <1>6, <1>7, <1>8, <1>9 DEF IInv, Carried

\* A period gets the status its request carries.
LEMMA SavePeriodInv == \A r \in Requests : IInv /\ SavePeriod(r) => IInv'
<1> SUFFICES ASSUME NEW r \in Requests, IInv, SavePeriod(r) PROVE IInv'
  OBVIOUS
<1>1. request[r].at = "period" /\ request[r] \in RequestStates
  BY DEF SavePeriod, IInv
<1>2. request[r] \in [at : {"period"}, period : Periods, status : PeriodStatuses]
  BY <1>1 DEF RequestStates, Idle
<1>3. period' \in [Periods -> PeriodStatuses \cup {"none"}]
  BY <1>2 DEF SavePeriod, IInv, TypeOK
<1>4. request' \in [Requests -> RequestStates]
  BY DEF SavePeriod, IInv, RequestStates
<1>5. \A q \in Requests : request'[q] = IF q = r THEN Idle ELSE request[q]
  BY DEF SavePeriod, IInv
<1>6. UNCHANGED <<expenses, nextValue, locker>>
  BY DEF SavePeriod
<1>7. TypeOK'
  BY <1>1, <1>3, <1>5, <1>6 DEF IInv, TypeOK, Idle
<1>8. NumbersGapless' /\ RaisesAreApproved'
  BY <1>6 DEF IInv, NumbersGapless, RaisesAreApproved
<1>9. QED
  BY <1>4, <1>5, <1>6, <1>7, <1>8 DEF IInv, Carried, Idle

\* A request that starts refers to a row there is.
LEMMA ReadPeriodInv ==
    \A r \in Requests, command \in Commands : IInv /\ ReadPeriod(r, command) => IInv'
<1> SUFFICES ASSUME NEW r \in Requests, NEW command \in Commands, IInv, ReadPeriod(r, command)
             PROVE  IInv'
  OBVIOUS
<1>1. PICK p \in Periods :
          request' = [request EXCEPT ![r] = [at |-> "number", command |-> command, period |-> p]]
  BY DEF ReadPeriod, OpenPeriods
<1>2. Len(expenses) \in Nat /\ DOMAIN expenses = 1 .. Len(expenses)
  BY LenProperties DEF IInv, TypeOK
<1>3. command \in CommandType /\ command.parent \in DOMAIN expenses \cup {None}
  BY <1>2, LedgerAssumption DEF Commands, CommandType, None
<1> DEFINE state == [at |-> "number", command |-> command, period |-> p]
<1>4. state \in RequestStates
  BY <1>3 DEF RequestStates
<1>5. request' \in [Requests -> RequestStates]
  BY <1>1, <1>4 DEF IInv
<1>6. request[r].at = "idle"
  BY DEF ReadPeriod
<1>7. \A q \in Requests : request'[q] = IF q = r THEN state ELSE request[q]
  BY <1>1 DEF IInv
<1>8. UNCHANGED <<period, expenses, nextValue, locker>>
  BY DEF ReadPeriod
<1>9. TypeOK'
  BY <1>6, <1>7, <1>8 DEF IInv, TypeOK
<1>10. NumbersGapless' /\ RaisesAreApproved'
  BY <1>8 DEF IInv, NumbersGapless, RaisesAreApproved
<1>11. QED
  BY <1>3, <1>5, <1>7, <1>8, <1>9, <1>10 DEF IInv, Carried

\* Who takes a number is the only holder of the sequence row, and takes the next.
LEMMA TakeNumberInv == \A r \in Requests : IInv /\ TakeNumber(r) => IInv'
<1> SUFFICES ASSUME NEW r \in Requests, IInv, TakeNumber(r) PROVE IInv'
  OBVIOUS
<1>1. request[r].at = "number" /\ request[r] \in RequestStates
  BY DEF TakeNumber, IInv
<1>2. request[r] \in [at : {"number"}, command : CommandType, period : Periods]
  BY <1>1 DEF RequestStates, Idle
<1> DEFINE command == request[r].command
           row == Row(command, request[r].period, nextValue)
           state == [at |-> "save", command |-> command, row |-> row]
<1>3. /\ command \in CommandType
      /\ request[r].period \in Periods
      /\ command.parent \in DOMAIN expenses \cup {None}
  BY <1>1, <1>2 DEF IInv, Carried
<1>4. row \in RowType /\ row.number = nextValue /\ NoSilentRaise(row)
  BY <1>3, RowOfCommand
<1>5. request' = [request EXCEPT ![r] = state]
  BY DEF TakeNumber
<1> HIDE DEF row
<1>6. state \in RequestStates
  BY <1>3, <1>4 DEF RequestStates
<1>7. request' \in [Requests -> RequestStates]
  BY <1>5, <1>6 DEF IInv
<1>8. \A q \in Requests : request'[q] = IF q = r THEN state ELSE request[q]
  BY <1>5 DEF IInv
<1>9. locker = {} /\ locker' = {r} /\ UNCHANGED <<period, expenses, nextValue>>
  BY DEF TakeNumber, SequenceFree
<1>10. TypeOK'
  BY <1>4, <1>8, <1>9 DEF IInv, TypeOK
<1>11. NumbersGapless' /\ RaisesAreApproved'
  BY <1>9 DEF IInv, NumbersGapless, RaisesAreApproved
<1>12. QED
  BY <1>4, <1>7, <1>8, <1>9, <1>10, <1>11 DEF IInv, Carried

\* A request that ends without a row frees the sequence row as it was.
LEMMA RollbackInv == \A r \in Requests : IInv /\ Rollback(r) => IInv'
<1> SUFFICES ASSUME NEW r \in Requests, IInv, Rollback(r) PROVE IInv'
  OBVIOUS
<1>1. request' \in [Requests -> RequestStates]
  BY DEF Rollback, IInv, RequestStates
<1>2. \A q \in Requests : request'[q] = IF q = r THEN Idle ELSE request[q]
  BY DEF Rollback, IInv
<1>3. locker' = locker \ {r} /\ UNCHANGED <<period, expenses, nextValue>>
  BY DEF Rollback, AfterRollback
<1>4. TypeOK'
  BY <1>2, <1>3 DEF IInv, TypeOK, Idle
<1>5. NumbersGapless' /\ RaisesAreApproved'
  BY <1>3 DEF IInv, NumbersGapless, RaisesAreApproved
<1>6. QED
  BY <1>1, <1>2, <1>3, <1>4, <1>5 DEF IInv, Carried, Idle

\* The row that is saved is the next, and its number too; no other request holds one.
LEMMA SaveInv == \A r \in Requests : IInv /\ Save(r) => IInv'
<1> SUFFICES ASSUME NEW r \in Requests, IInv, Save(r) PROVE IInv'
  OBVIOUS
<1> DEFINE row == request[r].row
<1>1. request[r].at = "save" /\ row.amount # 0 /\ expenses' = Append(expenses, row)
  BY DEF Save, Acceptable
<1>2. /\ row \in RowType /\ row.number = nextValue /\ locker = {r}
      /\ NoSilentRaise(row)
  BY <1>1 DEF IInv, Carried, TypeOK
<1>3. expenses \in Seq(RowType) /\ Len(expenses) \in Nat /\ DOMAIN expenses = 1 .. Len(expenses)
  BY LenProperties DEF IInv, TypeOK
<1> HIDE DEF row
<1>4. /\ expenses' \in Seq(RowType)
      /\ Len(expenses') = Len(expenses) + 1
      /\ \A i \in 1 .. Len(expenses) : expenses'[i] = expenses[i]
      /\ expenses'[Len(expenses) + 1] = row
  BY <1>1, <1>2, <1>3, AppendProperties
<1>5. DOMAIN expenses' = 1 .. Len(expenses) + 1
  BY <1>3, <1>4, LenProperties
<1>6. \A i \in DOMAIN expenses' : i \in DOMAIN expenses \/ i = Len(expenses) + 1
  BY <1>3, <1>5
<1>7. request' \in [Requests -> RequestStates]
  BY DEF Save, IInv, RequestStates
<1>8. \A q \in Requests : request'[q] = IF q = r THEN Idle ELSE request[q]
  BY DEF Save, IInv
<1>9. nextValue' = nextValue + 1 /\ locker' = {} /\ period' = period
  BY <1>2 DEF Save
<1>10. \A q \in Requests : q # r => request[q].at # "save"
  BY <1>2 DEF IInv, TypeOK
<1>11. TypeOK'
  <2>1. nextValue' \in Nat /\ period' = period
    BY <1>9 DEF IInv, TypeOK
  <2>2. \A q \in Requests : request'[q].at # "save"
    BY <1>8, <1>10 DEF Idle
  <2>3. QED
    BY <1>4, <1>9, <2>1, <2>2 DEF IInv, TypeOK
<1>12. NumbersGapless'
  BY <1>2, <1>3, <1>4, <1>6, <1>9 DEF IInv, NumbersGapless
<1>13. RaisesAreApproved'
  <2>1. row.amount \in Int /\ row.amount # 0
    BY <1>1, <1>2 DEF RowType, row
  <2>2. (row.parent # None /\ row.status = "approved" /\ ~row.decided) => row.amount < 0
    BY <1>2, <2>1 DEF NoSilentRaise
  <2>3. QED
    BY <1>3, <1>4, <1>6, <2>2 DEF IInv, RaisesAreApproved
<1>14. Carried'
  BY <1>3, <1>5, <1>8 DEF IInv, Carried, Idle
<1>15. QED
  BY <1>7, <1>11, <1>12, <1>13, <1>14 DEF IInv

\* A move changes the status of one row, and notes a decision.
LEMMA MoveInv == \A i \in DOMAIN expenses : IInv /\ Move(i) => IInv'
<1> SUFFICES ASSUME NEW i \in DOMAIN expenses, IInv, Move(i) PROVE IInv'
  OBVIOUS
<1>1. PICK s \in MoveStatus(expenses[i].status) :
          expenses' = [expenses EXCEPT ![i].status = s, ![i].decided = (s \in {"approved", "rejected"})]
  BY DEF Move
<1>2. s \in Statuses
  BY <1>1 DEF MoveStatus, Statuses
<1>3. expenses \in Seq(RowType) /\ Len(expenses) \in Nat /\ DOMAIN expenses = 1 .. Len(expenses)
  BY LenProperties DEF IInv, TypeOK
<1> DEFINE decided == s \in {"approved", "rejected"}
           row == [expenses[i] EXCEPT !.status = s, !.decided = decided]
<1>4. expenses[i] \in RowType
  BY <1>3, ElementOfSeq
<1>5. decided \in BOOLEAN /\ (s = "approved" => decided)
  OBVIOUS
<1>6. expenses' = [expenses EXCEPT ![i] = row]
  BY <1>1
<1> HIDE DEF decided
<1>7. row \in RowType /\ row.number = expenses[i].number
  BY <1>2, <1>4, <1>5 DEF RowType
<1>8. row.status = s /\ row.decided = decided
  BY <1>4 DEF RowType
<1> HIDE DEF row
<1>9. /\ expenses' \in Seq(RowType)
      /\ Len(expenses') = Len(expenses)
      /\ \A j \in 1 .. Len(expenses) : expenses'[j] = IF j = i THEN row ELSE expenses[j]
  BY <1>3, <1>6, <1>7, ExceptSeq
<1>10. DOMAIN expenses' = DOMAIN expenses
  BY <1>3, <1>6
<1>11. UNCHANGED <<period, nextValue, locker, request>>
  BY DEF Move
<1>12. TypeOK'
  BY <1>7, <1>9, <1>11 DEF IInv, TypeOK
<1>13. NumbersGapless'
  BY <1>3, <1>7, <1>9, <1>10, <1>11 DEF IInv, NumbersGapless
<1>14. RaisesAreApproved'
  BY <1>3, <1>5, <1>8, <1>9, <1>10 DEF IInv, RaisesAreApproved
<1>15. Carried'
  BY <1>10, <1>11 DEF IInv, Carried
<1>16. QED
  BY <1>11, <1>12, <1>13, <1>14, <1>15 DEF IInv

-----------------------------------------------------------------------------

\* Every step keeps the invariant.
LEMMA NextInv == IInv /\ [Next]_vars => IInv'
<1> SUFFICES ASSUME IInv, [Next]_vars PROVE IInv'
  OBVIOUS
<1>1. CASE UNCHANGED vars
  BY <1>1 DEF vars, IInv, Carried, TypeOK, NumbersGapless, RaisesAreApproved
<1>2. CASE Next
  BY <1>2, OpenPeriodInv, LoadPeriodInv, SavePeriodInv, ReadPeriodInv, TakeNumberInv,
     SaveInv, RollbackInv, MoveInv DEF Next
<1>3. QED
  BY <1>1, <1>2

\* The invariant holds in every reachable state: TypeOK, and what a request carries.
THEOREM Invariance == Spec => []IInv
<1>1. QED
  BY InitInv, NextInv, PTL DEF Spec

\* Expense numbers have no gap and no duplicate, however many requests create and
\* adjust expenses at once and whichever of them roll back.
THEOREM NumberedWithoutGaps == Spec => []NumbersGapless
<1>1. IInv => NumbersGapless
  BY DEF IInv
<1>2. QED
  BY <1>1, Invariance, PTL

\* An adjustment that raises an expense counts only once somebody approved it.
THEOREM RaisesApproved == Spec => []RaisesAreApproved
<1>1. IInv => RaisesAreApproved
  BY DEF IInv
<1>2. QED
  BY <1>1, Invariance, PTL

-----------------------------------------------------------------------------
(* Closed periods. *)

\* A step that starts no booking and touches no row leaves a closed period alone.
LEMMA NothingBooked ==
    ASSUME NEW p \in Periods, UNCHANGED expenses,
           \A q \in Requests : \/ request'[q] = request[q]
                               \/ request'[q].at \in {"idle", "period"}
    PROVE  LeavesClosed(p)
<1>1. Booking(p)' \subseteq Booking(p)
  BY DEF Booking
<1>2. QED
  BY <1>1 DEF LeavesClosed

\* A request starts to book in an open period only.
LEMMA ReadPeriodLeaves ==
    \A r \in Requests, command \in Commands, p \in Periods :
        IInv /\ ReadPeriod(r, command) => LeavesClosed(p)
<1> SUFFICES ASSUME NEW r \in Requests, NEW command \in Commands, NEW p \in Periods,
                    IInv, ReadPeriod(r, command), period[p] = "closed"
             PROVE  LeavesClosed(p)
  BY DEF LeavesClosed
<1>1. PICK s \in OpenPeriods :
          request' = [request EXCEPT ![r] = [at |-> "number", command |-> command, period |-> s]]
  BY DEF ReadPeriod
<1>2. s # p
  BY <1>1 DEF OpenPeriods, IsOpen, IsOpenStatus
<1>3. \A q \in Requests :
          request'[q] = IF q = r THEN [at |-> "number", command |-> command, period |-> s]
                        ELSE request[q]
  BY <1>1 DEF IInv
<1>4. Booking(p)' \subseteq Booking(p)
  BY <1>2, <1>3 DEF Booking
<1>5. UNCHANGED expenses
  BY DEF ReadPeriod
<1>6. QED
  BY <1>4, <1>5 DEF LeavesClosed

\* The row that is prepared belongs to the period that was read.
LEMMA TakeNumberLeaves ==
    \A r \in Requests, p \in Periods : IInv /\ TakeNumber(r) => LeavesClosed(p)
<1> SUFFICES ASSUME NEW r \in Requests, NEW p \in Periods, IInv, TakeNumber(r)
             PROVE  LeavesClosed(p)
  OBVIOUS
<1> DEFINE row == Row(request[r].command, request[r].period, nextValue)
<1>1. row.period = request[r].period
  BY DEF Row
<1>2. request' = [request EXCEPT ![r] = [at |-> "save", command |-> request[r].command,
                                         row |-> row]]
  BY DEF TakeNumber
<1> HIDE DEF row
<1>3. \A q \in Requests :
          request'[q] = IF q = r THEN [at |-> "save", command |-> request[r].command, row |-> row]
                        ELSE request[q]
  BY <1>2 DEF IInv
<1>4. request[r].at = "number" /\ UNCHANGED expenses
  BY DEF TakeNumber
<1>5. Booking(p)' \subseteq Booking(p)
  BY <1>1, <1>3, <1>4 DEF Booking
<1>6. QED
  BY <1>4, <1>5 DEF LeavesClosed

\* A row is added to a period by a request that books in it.
LEMMA SaveLeaves ==
    \A r \in Requests, p \in Periods : IInv /\ Save(r) => LeavesClosed(p)
<1> SUFFICES ASSUME NEW r \in Requests, NEW p \in Periods, IInv, Save(r)
             PROVE  LeavesClosed(p)
  OBVIOUS
<1> DEFINE row == request[r].row
<1>1. request[r].at = "save" /\ expenses' = Append(expenses, row)
  BY DEF Save
<1>2. expenses \in Seq(RowType) /\ Len(expenses) \in Nat /\ DOMAIN expenses = 1 .. Len(expenses)
      /\ row \in RowType
  BY <1>1, LenProperties DEF IInv, TypeOK
<1>3. \A q \in Requests : request'[q] = IF q = r THEN Idle ELSE request[q]
  BY DEF Save, IInv
<1>4. Booking(p)' \subseteq Booking(p)
  BY <1>3 DEF Booking, Idle
<1>5. row.period = p => r \in Booking(p)
  BY <1>1 DEF Booking
<1> HIDE DEF row
<1>6. /\ expenses' \in Seq(RowType)
      /\ Len(expenses') = Len(expenses) + 1
      /\ \A i \in 1 .. Len(expenses) : expenses'[i] = expenses[i]
      /\ expenses'[Len(expenses) + 1] = row
  BY <1>1, <1>2, AppendProperties
<1>7. \A i \in DOMAIN expenses' : i \in DOMAIN expenses \/ i = Len(expenses) + 1
  BY <1>2, <1>6, LenProperties
<1>8. QED
  BY <1>2, <1>4, <1>5, <1>6, <1>7 DEF LeavesClosed

\* An expense moves only while its period is open.
LEMMA MoveLeaves ==
    \A i \in DOMAIN expenses, p \in Periods : IInv /\ Move(i) => LeavesClosed(p)
<1> SUFFICES ASSUME NEW i \in DOMAIN expenses, NEW p \in Periods, IInv, Move(i),
                    period[p] = "closed"
             PROVE  LeavesClosed(p)
  BY DEF LeavesClosed
<1>1. expenses[i].period # p
  BY DEF Move, IsOpen, IsOpenStatus
<1>2. PICK s \in MoveStatus(expenses[i].status) :
          expenses' = [expenses EXCEPT ![i].status = s, ![i].decided = (s \in {"approved", "rejected"})]
  BY DEF Move
<1>3. expenses \in Seq(RowType) /\ DOMAIN expenses = 1 .. Len(expenses)
  BY LenProperties DEF IInv, TypeOK
<1>4. expenses[i] \in RowType
  BY <1>3, ElementOfSeq
<1> DEFINE decided == s \in {"approved", "rejected"}
           row == [expenses[i] EXCEPT !.status = s, !.decided = decided]
<1>5. expenses' = [expenses EXCEPT ![i] = row]
  BY <1>2
<1> HIDE DEF decided
<1>6. row.period = expenses[i].period
  BY <1>4 DEF RowType
<1> HIDE DEF row
<1>7. /\ DOMAIN expenses' = DOMAIN expenses
      /\ \A j \in DOMAIN expenses : expenses'[j] = IF j = i THEN row ELSE expenses[j]
  BY <1>3, <1>5
<1>8. Booking(p)' = Booking(p)
  BY DEF Move, Booking
<1>9. QED
  BY <1>1, <1>6, <1>7, <1>8 DEF LeavesClosed

\* Every step leaves the closed periods alone.
LEMMA NextLeaves == \A p \in Periods : IInv /\ [Next]_vars => LeavesClosed(p)
<1> SUFFICES ASSUME NEW p \in Periods, IInv, [Next]_vars PROVE LeavesClosed(p)
  OBVIOUS
<1>1. CASE UNCHANGED vars
  BY <1>1, NothingBooked DEF vars
<1>2. CASE \E s \in Periods : OpenPeriod(s)
  BY <1>2, NothingBooked DEF OpenPeriod
<1>3. ASSUME NEW r \in Requests, NEW s \in Periods, NEW command \in {"close", "reopen"},
             LoadPeriod(r, s, command)
      PROVE  LeavesClosed(p)
  <2>1. \A q \in Requests : request'[q] = request[q] \/ request'[q].at = "period"
    BY <1>3 DEF LoadPeriod, IInv
  <2>2. QED
    BY <1>3, <2>1, NothingBooked DEF LoadPeriod
<1>4. ASSUME NEW r \in Requests, SavePeriod(r) \/ Rollback(r)
      PROVE  LeavesClosed(p)
  <2>1. UNCHANGED expenses /\ request' = [request EXCEPT ![r] = Idle]
    BY <1>4 DEF SavePeriod, Rollback
  <2>2. \A q \in Requests : request'[q] = request[q] \/ request'[q].at = "idle"
    BY <2>1 DEF IInv, Idle
  <2>3. QED
    BY <2>1, <2>2, NothingBooked
<1>5. QED
  BY <1>1, <1>2, <1>3, <1>4, ReadPeriodLeaves, TakeNumberLeaves, SaveLeaves, MoveLeaves DEF Next

\* A closed period stays as it was closed once the requests that had read it as
\* open are through, for any number of requests and periods.
THEOREM PeriodsSettle == Spec => ClosedPeriodsSettle
<1>1. IInv /\ [Next]_vars => [\A p \in Periods : LeavesClosed(p)]_vars
  BY NextLeaves
<1>2. QED
  BY <1>1, Invariance, PTL DEF Spec, ClosedPeriodsSettle
=============================================================================
