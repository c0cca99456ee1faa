------------------------------ MODULE ExpenseLedger ------------------------------
(***************************************************************************)
(* The expenses of one organization, as a ledger: creation, adjustment,    *)
(* numbering, and the financial periods they are booked in.  What happens  *)
(* between the submission of an expense and its decision is the subject of *)
(* ExpenseApproval; here a decision is one step.                           *)
(*                                                                         *)
(* CreateExpenseHandler and CreateAdjustmentHandler look the current open  *)
(* period up before their transaction starts; the transaction takes the    *)
(* next number, which locks the organization's sequence row until it ends. *)
(* ClosePeriodHandler and ReopenPeriodHandler write back the period they   *)
(* loaded, without a lock.                                                 *)
(***************************************************************************)
EXTENDS Integers, Sequences, FiniteSets, FiniteSetsExt, PeriodStatus

CONSTANTS
    Requests,      \* concurrent requests
    Periods,       \* the start dates of the periods that may be opened
    Amounts,       \* the amounts, and corrected amounts, in minor units
    MaxExpenses    \* bound on the expenses

ASSUME LedgerAssumption == Periods \subseteq Nat /\ Amounts \subseteq Nat

VARIABLES
    period,      \* period[p]: the status of the period that starts at p, or "none"
    expenses,    \* the rows, in the order they were committed; an id is an index
    nextValue,   \* expense_number_sequences.next_value
    locker,      \* the requests whose transaction holds the sequence row
    request      \* request[r]: what r is doing and has read

vars == <<period, expenses, nextValue, locker, request>>

Idle == [at |-> "idle"]
None == 0    \* the parent of a row that is no adjustment

Init ==
    /\ period = [p \in Periods |-> "none"]
    /\ expenses = <<>>
    /\ nextValue = 1
    /\ locker = {}
    /\ request = [r \in Requests |-> Idle]

IsOpen(p) == IsOpenStatus(period[p])

-----------------------------------------------------------------------------
(* Financial periods. *)

\* OpenPeriodHandler: other periods may be open.
OpenPeriod(p) ==
    /\ period[p] = "none"
    /\ period' = [period EXCEPT ![p] = "open"]
    /\ UNCHANGED <<expenses, nextValue, locker, request>>

\* Where a command takes a period of status s, if it may.
PeriodTarget(command, s) ==
    CASE command = "close"  /\ MayClose(s)  -> {"closed"}
      [] command = "reopen" /\ MayReopen(s) -> {"reopened"}
      [] OTHER -> {}

\* The period is loaded, and the aggregate decides.
LoadPeriod(r, p, command) ==
    /\ request[r].at = "idle"
    /\ \E status \in PeriodTarget(command, period[p]) :
          request' = [request EXCEPT ![r] = [at |-> "period", period |-> p, status |-> status]]
    /\ UNCHANGED <<period, expenses, nextValue, locker>>

\* What was decided is saved, whatever the period's status is by now.
SavePeriod(r) ==
    /\ request[r].at = "period"
    /\ period' = [period EXCEPT ![request[r].period] = request[r].status]
    /\ request' = [request EXCEPT ![r] = Idle]
    /\ UNCHANGED <<expenses, nextValue, locker>>

-----------------------------------------------------------------------------
(* Creating and adjusting. *)

\* Mutation: the newest period, open or not.
NewestPeriods == {p \in Periods : period[p] # "none"}

\* findCurrentOpen: among these, the newest.
OpenPeriods == {p \in Periods : IsOpen(p)}

\* A command as it arrives: what it corrects, if anything, and an amount.  create
\* refuses an amount of zero.
Commands ==
    {[parent |-> None, amount |-> a] : a \in Amounts \ {0}}
        \cup {[parent |-> i, amount |-> a] : i \in DOMAIN expenses, a \in Amounts}

\* currentOpenPeriod, before the transaction; without one the request fails.
ReadPeriod(r, command) ==
    /\ request[r].at = "idle"
    /\ \E p \in OpenPeriods :
          /\ \A q \in OpenPeriods : q <= p
          /\ request' = [request EXCEPT ![r] = [at |-> "number", command |-> command, period |-> p]]
    /\ UNCHANGED <<period, expenses, nextValue, locker>>

\* Mutation: only an increase above a threshold needs approval.
RequiresApprovalAboveThreshold(newAmount, original) == newAmount > original + 1

\* ExpenseAdjustmentApprovalPolicy.requiresApproval.
RequiresApproval(newAmount, original) == newAmount > original

\* The row a command creates.  An adjustment holds the difference to the row it
\* corrects, and needs no approval if it lowers it.
Row(command, p, number) ==
    IF command.parent = None
    THEN [number |-> number, period |-> p, parent |-> None, amount |-> command.amount,
          status |-> "draft", decided |-> FALSE]
    ELSE LET original == expenses[command.parent].amount
         IN  [number |-> number, period |-> p, parent |-> command.parent,
              amount |-> command.amount - original,
              status |-> IF RequiresApproval(command.amount, original)
                         THEN "pending_approval" ELSE "approved",
              decided |-> FALSE]

\* Mutation: the sequence row is read without a lock.
AnyTime == TRUE

SequenceFree == locker = {}

\* The row to correct is loaded (its amount never changes) and nextExpenseNumber
\* called, whose upsert of the sequence row waits for whoever holds it.
TakeNumber(r) ==
    /\ request[r].at = "number"
    /\ SequenceFree
    /\ locker' = locker \cup {r}
    /\ request' = [request EXCEPT ![r] = [at |-> "save", command |-> request[r].command,
                                          row |-> Row(request[r].command, request[r].period,
                                                      nextValue)]]
    /\ UNCHANGED <<period, expenses, nextValue>>

\* createAdjustment refuses a correction that corrects nothing.
Acceptable(row) == row.amount # 0

\* The row is saved, and with it the sequence: the transaction commits.
Save(r) ==
    /\ request[r].at = "save"
    /\ Acceptable(request[r].row)
    /\ Len(expenses) < MaxExpenses
    /\ expenses' = Append(expenses, request[r].row)
    /\ nextValue' = nextValue + 1
    /\ locker' = locker \ {r}
    /\ request' = [request EXCEPT ![r] = Idle]
    /\ UNCHANGED period

\* What a transaction that fails leaves of the sequence.
AfterRollback(r) == nextValue

\* Anything throws: the transaction rolls back, and the number is free again.
Rollback(r) ==
    /\ request[r].at \in {"number", "save"}
    /\ nextValue' = AfterRollback(r)
    /\ locker' = locker \ {r}
    /\ request' = [request EXCEPT ![r] = Idle]
    /\ UNCHANGED <<period, expenses>>

-----------------------------------------------------------------------------

\* Where the workflow may take an expense in one step.
MoveStatus(s) ==
    CASE s = "draft" -> {"pending_approval", "cancelled"}
      [] s = "pending_approval" -> {"approved", "rejected", "cancelled"}
      [] OTHER -> {}

\* submit, approve, reject and cancel, while the period is open.
Move(i) ==
    /\ IsOpen(expenses[i].period)
    /\ \E s \in MoveStatus(expenses[i].status) :
          expenses' = [expenses EXCEPT ![i].status = s, ![i].decided = (s \in {"approved", "rejected"})]
    /\ UNCHANGED <<period, nextValue, locker, request>>

Next ==
    \/ \E p \in Periods : OpenPeriod(p)
    \/ \E r \in Requests :
          \/ \E p \in Periods, command \in {"close", "reopen"} : LoadPeriod(r, p, command)
          \/ SavePeriod(r)
          \/ \E command \in Commands : ReadPeriod(r, command)
          \/ TakeNumber(r)
          \/ Save(r)
          \/ Rollback(r)
    \/ \E i \in DOMAIN expenses : Move(i)

Spec == Init /\ [][Next]_vars

-----------------------------------------------------------------------------
(* Properties *)

Statuses == {"draft", "pending_approval", "approved", "rejected", "cancelled"}
RowType == [number : Nat \ {0}, period : Periods, parent : Nat, amount : Int,
            status : Statuses, decided : BOOLEAN]

\* Every variable keeps its type; a request that is about to save a row holds the
\* sequence row, alone, and has the number that comes next.
TypeOK ==
    /\ period \in [Periods -> PeriodStatuses \cup {"none"}]
    /\ expenses \in Seq(RowType)
    /\ nextValue \in Nat
    /\ locker \subseteq Requests
    /\ \A r \in Requests :
          /\ r \in locker <=> request[r].at = "save"
          /\ request[r].at = "save" =>
                /\ locker = {r}
                /\ request[r].row \in RowType
                /\ request[r].row.number = nextValue

\* Expense numbers are gapless and unique: the n-th expense an organization commits
\* has number n, however requests overlap and fail.
NumbersGapless ==
    /\ nextValue = Len(expenses) + 1
    /\ \A i \in DOMAIN expenses : expenses[i].number = i

\* Nobody raises an expense alone: an adjustment counts without anybody's approval
\* only if it lowers what it corrects.
RaisesAreApproved ==
    \A i \in DOMAIN expenses :
        (expenses[i].parent # None /\ expenses[i].status = "approved" /\ ~expenses[i].decided)
            => expenses[i].amount < 0

\* The requests that will book an expense in period p if they succeed.
Booking(p) ==
    {r \in Requests : \/ request[r].at = "number" /\ request[r].period = p
                      \/ request[r].at = "save" /\ request[r].row.period = p}

\* A step starts nothing new in period p if it is closed, and without a request
\* that books in it leaves the expenses of p alone.
LeavesClosed(p) ==
    period[p] = "closed" =>
        /\ Booking(p)' \subseteq Booking(p)
        /\ Booking(p) = {} =>
              \A i \in DOMAIN expenses' :
                  expenses'[i].period = p => i \in DOMAIN expenses /\ expenses'[i] = expenses[i]

\* A closed period stays as it was closed once the requests that had read it as
\* open are through, whatever else the code does with its stale reads.
ClosedPeriodsSettle == [][\A p \in Periods : LeavesClosed(p)]_vars

-----------------------------------------------------------------------------
(* What the documentation says, and the code does not do. *)

\* What the reports add up for an expense: its amount and its approved corrections.
Net(i) ==
    expenses[i].amount +
        MapThenSumSet(LAMBDA j : expenses[j].amount,
                      {j \in DOMAIN expenses : expenses[j].parent = i /\ expenses[j].status = "approved"})

\* InvalidAdjustmentAmountError: "an expense can't cost less than nothing".
NetNeverNegative ==
    \A i \in DOMAIN expenses :
        (expenses[i].parent = None /\ expenses[i].status = "approved") => Net(i) >= 0
=============================================================================
