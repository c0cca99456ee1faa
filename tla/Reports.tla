-------------------------------- MODULE Reports --------------------------------
(***************************************************************************)
(* The reporting queries, as operators on the rows of expense_read_model.  *)
(* A row is a record with the ids an expense refers to, the names it had   *)
(* for them when it was projected, its amount, status and month.  A report *)
(* is the set of its lines [key, total, count]: what groupBy returns,      *)
(* without the order, which only decides what a limit cuts off.            *)
(***************************************************************************)
EXTENDS Integers, FiniteSets, FiniteSetsExt

CONSTANTS
    None,          \* NULL: an expense without a vendor or a project
    ReportGrants   \* role_permissions for report:view: role -> scope

Total(rows) == MapThenSumSet(LAMBDA r : r.amount, rows)

Line(key, rows) == [key |-> key, total |-> Total(rows), count |-> Cardinality(rows)]

GroupBy(Key(_), rows) ==
    {Line(k, {r \in rows : Key(r) = k}) : k \in {Key(r) : r \in rows}}

LineTotal(report) == MapThenSumSet(LAMBDA l : l.total, report)
LineCount(report) == MapThenSumSet(LAMBDA l : l.count, report)

\* orderBy total desc, take limit: ties may be cut in either way.
Top(limit, report) ==
    {top \in SUBSET report :
        /\ Cardinality(top) = Min({limit, Cardinality(report)})
        /\ \A l \in top, other \in report \ top : l.total >= other.total}

-----------------------------------------------------------------------------
(* Whose rows a user sees.  A user is the set of his role assignments.      *)

\* resolveWidestScope(roles, 'report:view'): None when no role has a grant.
WidestScope(user) ==
    LET scopes == {ReportGrants[a.role] : a \in {b \in user : b.role \in DOMAIN ReportGrants}}
    IN  IF "organization" \in scopes THEN "organization"
        ELSE IF "department" \in scopes THEN "department"
        ELSE IF "own" \in scopes THEN "own" ELSE None

DepartmentsOf(user) == {a.department : a \in user} \ {None}

\* The where clause the handlers share, before the status.
Visible(rows, query) ==
    LET scope == WidestScope(query.user)
    IN  {r \in rows :
            /\ scope # None
            /\ r.month \in query.from .. query.to
            /\ scope = "department" => r.department \in DepartmentsOf(query.user)}

WithStatus(s, rows, query) == {r \in Visible(rows, query) : r.status = s}

Spent(rows, query) == WithStatus("approved", rows, query)

-----------------------------------------------------------------------------
(* The reports. *)

\* A reference and its name: two names of one reference make two lines.
Named(r, ref) == <<ref, r.names[ref]>>

ByDepartment(rows) == GroupBy(LAMBDA r : Named(r, r.department), rows)

DepartmentSpending(rows, query) == ByDepartment(Spent(rows, query))

PendingDepartmentSpending(rows, query) ==
    ByDepartment(WithStatus("pending_approval", rows, query))

ExpenseAdjustments(rows, query) ==
    ByDepartment({r \in Spent(rows, query) : r.parent # None})

\* Mutation: a filter of its own, without the status.
AnyCategorySpending(rows, query) ==
    GroupBy(LAMBDA r : Named(r, r.category), Visible(rows, query))

CategorySpending(rows, query) ==
    GroupBy(LAMBDA r : Named(r, r.category), Spent(rows, query))

TopCategories(rows, query, limit) == Top(limit, CategorySpending(rows, query))

VendorSpending(rows, query) ==
    GroupBy(LAMBDA r : Named(r, r.vendor), {r \in Spent(rows, query) : r.vendor # None})

TopVendors(rows, query, limit) == Top(limit, VendorSpending(rows, query))

ProjectSpending(rows, query) ==
    GroupBy(LAMBDA r : Named(r, r.project), {r \in Spent(rows, query) : r.project # None})

RequesterSpending(rows, query) == GroupBy(LAMBDA r : r.actor, Spent(rows, query))

\* A department-scoped user without a department gets nothing, as elsewhere.
CashOutflow(rows, query) == GroupBy(LAMBDA r : r.month, Spent(rows, query))

StatusBreakdown(rows, query) == GroupBy(LAMBDA r : r.status, Visible(rows, query))
=============================================================================
