-------------------------------- MODULE Listing --------------------------------
(***************************************************************************)
(* Walking a list page by page while rows are added to it and leave it.    *)
(*                                                                         *)
(* Expenses and payroll runs are listed with a cursor: the time and the id *)
(* of the last row shown, after which the next page starts.  The audit log *)
(* is listed with an offset.  Both show the newest first, and each page is *)
(* a query of its own.                                                     *)
(***************************************************************************)
EXTENDS Naturals, FiniteSets

CONSTANTS
    RowIds,      \* the ids of the rows that may exist, random in the code
    Limit,       \* the rows of a page
    MaxTime      \* bound: the clock's last tick

ASSUME PagesHaveRows == RowIds \subseteq Nat /\ Limit \in Nat \ {0}

VARIABLES
    scheme,      \* which of the two lists is walked: "cursor" or "offset"
    now,
    listed,      \* the committed rows that the filter matches: [id, time]
    stage,       \* of the walk: "start", "middle" or "end"
    last,        \* the cursor the client sends: the last row shown
    offset,      \* the offset the client sends
    start,       \* history: the rows that matched when the walk began
    shown        \* history: shown[i]: how many pages the row i was on

walk == <<stage, last, offset, start, shown>>
listVars == <<scheme, now, listed, walk>>

ListInit ==
    /\ scheme \in {"cursor", "offset"}
    /\ now = 1
    /\ listed = {}
    /\ stage = "start"
    /\ last = [id |-> 0, time |-> 0]
    /\ offset = 0
    /\ start = {}
    /\ shown = [i \in RowIds |-> 0]

-----------------------------------------------------------------------------
(* The rows. *)

ListTick ==
    /\ now < MaxTime
    /\ now' = now + 1
    /\ UNCHANGED <<scheme, listed, walk>>

\* A transaction commits a row; createdAt was set before, when the aggregate
\* was built or the entry hashed, so older rows may appear after newer ones.
AddRow(i, time) ==
    /\ shown[i] = 0
    /\ \A r \in listed \cup start : r.id # i
    /\ time <= now
    /\ listed' = listed \cup {[id |-> i, time |-> time]}
    /\ UNCHANGED <<scheme, now, walk>>

\* An expense takes another status than the one the list is filtered by; audit
\* entries never change.
Leave(r) ==
    /\ scheme = "cursor"
    /\ listed' = listed \ {r}
    /\ UNCHANGED <<scheme, now, walk>>

-----------------------------------------------------------------------------
(* The pages. *)

\* orderBy createdAt desc, id desc: r comes before s.
Newer(r, s) == r.time > s.time \/ (r.time = s.time /\ r.id > s.id)

\* Mutation: the cursor is a time only.
AfterTime(r) == stage = "start" \/ r.time < last.time

\* where.OR: what the cursor leaves.
After(r) == stage = "start" \/ Newer(last, r)

FirstOf(n, rows) == {r \in rows : Cardinality({s \in rows : Newer(s, r)}) < n}

Show(page) ==
    /\ start' = IF stage = "start" THEN listed ELSE start
    /\ shown' = [i \in RowIds |-> IF \E r \in page : r.id = i THEN shown[i] + 1 ELSE shown[i]]
    /\ UNCHANGED <<scheme, now, listed>>

\* take limit + 1: the extra row tells that there is a next page, and the last
\* row shown is the cursor.
CursorPage ==
    LET rows == {r \in listed : After(r)}
        page == FirstOf(Limit, rows)
    IN  /\ scheme = "cursor"
        /\ stage # "end"
        /\ IF Cardinality(rows) > Limit
           THEN /\ stage' = "middle"
                /\ last' = CHOOSE r \in page : \A s \in page \ {r} : Newer(s, r)
           ELSE stage' = "end" /\ UNCHANGED last
        /\ UNCHANGED offset
        /\ Show(page)

\* Rows that may be the n first when the order is by time alone.
Leading(n, rows) ==
    {first \in SUBSET rows :
        /\ Cardinality(first) = IF n > Cardinality(rows) THEN Cardinality(rows) ELSE n
        /\ \A r \in first, s \in rows \ first : r.time >= s.time}

\* The offset of the client's next request.
NextOffset == offset + Limit

\* orderBy createdAt desc, skip, take: rows of the same time come in any order,
\* another one in each query.  The client stops at a page that is not full.
OffsetPage ==
    /\ scheme = "offset"
    /\ stage # "end"
    /\ \E before \in Leading(offset, listed) :
          \E page \in Leading(Limit, listed \ before) :
              /\ Show(page)
              /\ stage' = IF Cardinality(page) = Limit THEN "middle" ELSE "end"
    /\ offset' = NextOffset
    /\ UNCHANGED last

ListNext ==
    \/ ListTick
    \/ \E i \in RowIds, time \in 1 .. now : AddRow(i, time)
    \/ \E r \in listed : Leave(r)
    \/ CursorPage
    \/ OffsetPage

ListSpec == ListInit /\ [][ListNext]_listVars

-----------------------------------------------------------------------------
(* Properties *)

Tied(r) == \E s \in listed : s # r /\ s.time = r.time

\* A walk that ended has shown each row that was there from its beginning to
\* its end, and with a cursor nothing is ever shown twice, whatever appears or
\* leaves meanwhile and however many rows have the same time.  With an offset
\* a new row pushes others onto the next page, which are shown again; a row is
\* missed only if another one has the same time.
WalksShowEachRow ==
    /\ stage = "end" =>
          \A r \in start \cap listed :
              shown[r.id] > 0 \/ (scheme = "offset" /\ Tied(r))
    /\ scheme = "cursor" => \A i \in RowIds : shown[i] <= 1
=============================================================================
