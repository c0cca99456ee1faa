------------------------------- MODULE ReadModel -------------------------------
(***************************************************************************)
(* The reporting read model.  ExpenseReadModelProjector takes each event   *)
(* of an expense as a hint only: it reads the expense as it is by then,    *)
(* then the names the expense refers to, and then upserts its row.  These  *)
(* are three database calls without a transaction around them, and the     *)
(* poller's deliveries, the redeliveries and a second poller may overlap.  *)
(*                                                                         *)
(* How an event gets here is EventDelivery's matter; here it is pending    *)
(* until a delivery ends, may be delivered twice, is retried when the      *)
(* projector throws, and may fail for good.                                *)
(***************************************************************************)
EXTENDS Reports

CONSTANTS
    Expenses,
    Attributes,    \* what an expense keeps from its creation, a record each
    Handlers,      \* how many deliveries may overlap
    Queries,       \* the report queries the properties look at
    Renamed,       \* bound: the references that may be renamed, once each
    MaxFaults      \* bound: failures, duplicates and unannounced writes

\* expenses.amount is a number of minor units, and NULL is no status.
ASSUME ExpensesAssumption ==
    /\ IsFiniteSet(Expenses)
    /\ \A e \in Expenses : Attributes[e].amount \in Int
    /\ None \notin {"draft", "pending_approval", "approved", "rejected", "cancelled"}

VARIABLES
    source,        \* source[e]: expenses.status, or None before its creation
    names,         \* names[r]: which name the reference r has
    copy,          \* copy[e]: status and names in expense_read_model, or None
    pending,       \* pending[e]: the events of e still to be delivered
    delivery,      \* delivery[h]: what a delivery has read, or None
    excused,       \* history: expenses whose row may be out of date, see below
    faults

projectionVars == <<source, names, copy, pending, delivery, excused, faults>>

Refs(e) == {Attributes[e].department, Attributes[e].category,
            Attributes[e].vendor, Attributes[e].project} \ {None}

References == UNION {Refs(e) : e \in Expenses}

NamesOf(e) == [r \in Refs(e) |-> names[r]]

ProjectionInit ==
    /\ source = [e \in Expenses |-> None]
    /\ names = [r \in References |-> 1]
    /\ copy = [e \in Expenses |-> None]
    /\ pending = [e \in Expenses |-> 0]
    /\ delivery = [h \in Handlers |-> None]
    /\ excused = {}
    /\ faults = 0

-----------------------------------------------------------------------------
(* The expenses and the reference data, changed by other handlers. *)

\* Each move of the expense with the number of projected events it emits: a
\* submission that is approved at once emits two; an adjustment of an approved
\* expense starts as pending or approved.
Moves ==
    {<<"draft", "pending_approval", 1>>, <<"draft", "approved", 2>>,
     <<"draft", "cancelled", 1>>, <<"pending_approval", "approved", 1>>,
     <<"pending_approval", "rejected", 1>>, <<"pending_approval", "cancelled", 1>>}

Creations(e) ==
    IF Attributes[e].parent = None THEN {<<None, "draft", 1>>}
    ELSE IF source[Attributes[e].parent] = "approved"
         THEN {<<None, "pending_approval", 1>>, <<None, "approved", 1>>} ELSE {}

\* A transaction commits the new status and its events together.
Change(e, move) ==
    /\ source[e] = move[1]
    /\ source' = [source EXCEPT ![e] = move[2]]
    /\ pending' = [pending EXCEPT ![e] = @ + move[3]]
    /\ UNCHANGED <<names, copy, delivery, excused, faults>>

\* An approval that is not the final one emits no event, and when it overlaps
\* a rejection or a cancellation it writes the status back all the same
\* (RejectedIsTerminal in ExpenseApproval).
WriteBack(e) ==
    /\ faults < MaxFaults
    /\ source[e] \in {"rejected", "cancelled"}
    /\ source' = [source EXCEPT ![e] = "pending_approval"]
    /\ excused' = excused \cup {e}
    /\ faults' = faults + 1
    /\ UNCHANGED <<names, copy, pending, delivery>>

\* A department, category, vendor or project is renamed: no projected event.
Rename(r) ==
    /\ names[r] = 1
    /\ names' = [names EXCEPT ![r] = 2]
    /\ UNCHANGED <<source, copy, pending, delivery, excused, faults>>

-----------------------------------------------------------------------------
(* ExpenseReadModelProjector.projectFromSource. *)

\* findFirst on the expense: whatever event it is, the status is today's.
Read(e) == [expense |-> e, at |-> "names", status |-> source[e], names |-> <<>>,
            overtaken |-> FALSE]

Begin(h, e) ==
    /\ delivery[h] = None
    /\ pending[e] > 0
    /\ pending' = [pending EXCEPT ![e] = @ - 1]
    /\ delivery' = [delivery EXCEPT ![h] = Read(e)]
    /\ UNCHANGED <<source, names, copy, excused, faults>>

\* A second poller delivers an event that the first one delivers as well.
BeginAgain(h, e) ==
    /\ delivery[h] = None
    /\ pending[e] > 0
    /\ faults < MaxFaults
    /\ delivery' = [delivery EXCEPT ![h] = Read(e)]
    /\ faults' = faults + 1
    /\ UNCHANGED <<source, names, copy, pending, excused>>

\* findUnique on each reference.
ReadNames(h) ==
    /\ delivery[h] # None
    /\ delivery[h].at = "names"
    /\ delivery' = [delivery EXCEPT ![h].at = "upsert",
                                    ![h].names = NamesOf(delivery[h].expense)]
    /\ UNCHANGED <<source, names, copy, pending, excused, faults>>

\* Mutation: the update branch re-syncs the names only.
ProjectedNames(d) ==
    IF copy[d.expense] = None THEN [status |-> d.status, names |-> d.names]
    ELSE [copy[d.expense] EXCEPT !.names = d.names]

\* The row upsert leaves: all of it, whether it was there or not.
Projected(d) == [status |-> d.status, names |-> d.names]

Overlapping(h) ==
    {g \in Handlers \ {h} : delivery[g] # None /\ delivery[g].expense = delivery[h].expense}

\* History: a row written after a later read of the same expense was written
\* is excused, until one is written that is up to date.
Upsert(h) ==
    LET d == delivery[h]
        e == d.expense
    IN  /\ d # None
        /\ d.at = "upsert"
        /\ copy' = [copy EXCEPT ![e] = Projected(d)]
        /\ delivery' = [g \in Handlers |->
                          IF g = h THEN None
                          ELSE IF g \in Overlapping(h) THEN [delivery[g] EXCEPT !.overtaken = TRUE]
                          ELSE delivery[g]]
        /\ excused' = IF d.status = source[e] THEN excused \ {e}
                      ELSE IF d.overtaken THEN excused \cup {e} ELSE excused
        /\ UNCHANGED <<source, names, pending, faults>>

\* Mutation: a failure is only logged.
RetryDropped(e) == UNCHANGED <<pending, excused>>

\* The failed delivery is recorded and will be redelivered, or it was the last
\* attempt and stays permanently_failed for an operator to see.
RetryOrGiveUp(e) ==
    \/ pending' = [pending EXCEPT ![e] = @ + 1] /\ UNCHANGED excused
    \/ excused' = excused \cup {e} /\ UNCHANGED pending

\* Any of the calls throws.
Fail(h) ==
    /\ delivery[h] # None
    /\ faults < MaxFaults
    /\ RetryOrGiveUp(delivery[h].expense)
    /\ delivery' = [delivery EXCEPT ![h] = None]
    /\ faults' = faults + 1
    /\ UNCHANGED <<source, names, copy>>

-----------------------------------------------------------------------------

Deliver(h) == (\E e \in Expenses : Begin(h, e)) \/ ReadNames(h) \/ Upsert(h)

ProjectionNext ==
    \/ \E e \in Expenses : \E move \in Moves \cup Creations(e) : Change(e, move)
    \/ \E e \in Expenses : WriteBack(e)
    \/ \E r \in Renamed : Rename(r)
    \/ \E h \in Handlers : Deliver(h)
    \/ \E h \in Handlers, e \in Expenses : BeginAgain(h, e)
    \/ \E h \in Handlers : Fail(h)

\* The poller and the redelivery queue go on.
ProjectionFairness == \A h \in Handlers : WF_projectionVars(Deliver(h))

ProjectionSpec == ProjectionInit /\ [][ProjectionNext]_projectionVars /\ ProjectionFairness

-----------------------------------------------------------------------------
(* Properties *)

InHand(e) == {h \in Handlers : delivery[h] # None /\ delivery[h].expense = e}

Stale(e) == source[e] # None /\ (copy[e] = None \/ copy[e].status # source[e])

\* The row of an expense is behind only while there is an event to deliver or
\* a delivery under way that read the present status; otherwise something went
\* wrong that has a name: the event failed for good, the status was written
\* back without an event, or a delivery was overtaken by a later one.  It does
\* not matter in which order the events come.
LagsForAReason ==
    \A e \in Expenses :
        Stale(e) => \/ pending[e] > 0
                    \/ \E h \in InHand(e) : delivery[h].status = source[e]
                    \/ e \in excused

\* The read model keeps catching up: PHASES.md's "the event is retried until
\* the read model catches up", but for the excuses above.
CatchesUp == \A e \in Expenses : []<>(~Stale(e) \/ e \in excused)

\* expense_read_model, and the rows it should have.
Row(e, status, refs) ==
    LET own == Attributes[e]
    IN  [expense |-> e, status |-> status, names |-> refs,
         department |-> own.department, category |-> own.category, vendor |-> own.vendor,
         project |-> own.project, actor |-> own.actor, amount |-> own.amount,
         parent |-> own.parent, month |-> own.month]
ModelRows == {Row(e, copy[e].status, copy[e].names) : e \in {x \in Expenses : copy[x] # None}}
TrueRows == {Row(e, source[e], NamesOf(e)) : e \in {x \in Expenses : source[x] # None}}

\* What each report of one user and period adds up to.
SpentTotals(rows, q) ==
    {LineTotal(DepartmentSpending(rows, q)), LineTotal(CategorySpending(rows, q)),
     LineTotal(RequesterSpending(rows, q)), LineTotal(CashOutflow(rows, q)),
     LineTotal({l \in StatusBreakdown(rows, q) : l.key = "approved"})}

\* The reports of one user and period tell the same story, each in a query of
\* its own: they add up to the same total, what is pending and what is spent is
\* part of the breakdown, adjustments and projects are part of what is spent, a
\* limit that cuts nothing off leaves the report whole, and once the rows are up
\* to date the total is that of the expenses.
ReportsAgree ==
    LET rows == ModelRows
    IN  \A q \in Queries :
          LET totals == SpentTotals(rows, q)
              spent  == LineCount(CashOutflow(rows, q))
          IN  /\ Cardinality(totals) = 1
              /\ LineCount(ExpenseAdjustments(rows, q)) <= spent
              /\ LineCount(ProjectSpending(rows, q)) <= spent
              /\ TopCategories(rows, q, Cardinality(Expenses)) = {CategorySpending(rows, q)}
              /\ LineCount(PendingDepartmentSpending(rows, q)) + spent
                   <= LineCount(StatusBreakdown(rows, q))
              /\ (\A e \in Expenses : ~Stale(e)) => totals = SpentTotals(TrueRows, q)

-----------------------------------------------------------------------------
(* What the documentation says of the read model, and the code does not do. *)

\* PHASES.md: "If projection processing fails, the event is retried until the
\* read model catches up".
AlwaysCatchesUp == \A e \in Expenses : []<>~Stale(e)

\* ReportsController: "Top N vendors by total approved spending".
TopVendorIsTop ==
    \A q \in Queries : \A top \in TopVendors(ModelRows, q, 1) : \A l \in top :
        LET Of(v) == {r \in Spent(ModelRows, q) : r.vendor = v}
        IN  \A r \in Spent(ModelRows, q) :
                r.vendor # None => Total(Of(l.key[1])) >= Total(Of(r.vendor))
=============================================================================
