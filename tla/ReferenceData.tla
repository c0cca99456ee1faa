----------------------------- MODULE ReferenceData -----------------------------
(***************************************************************************)
(* Departments, categories, vendors and projects, and the expenses that    *)
(* name them.  The four kinds have the same handlers, each a transaction   *)
(* at READ COMMITTED that reads, decides and writes at its end.  Creating  *)
(* an expense looks at each reference in a query of its own, before the    *)
(* transaction that inserts the expense.  A CSV import takes a vendor by   *)
(* its name, and creates or reactivates it.                                *)
(***************************************************************************)
EXTENDS Naturals, Sequences, FiniteSets

CONSTANTS
    Refs,         \* the ids of references
    KindChoices,  \* which kinds the references may be of: functions on Refs
    Names,
    Clients,      \* how many requests may be in flight together
    MaxExpenses,  \* bound: the expenses created
    None

ASSUME NoneAssumption == None \notin Refs /\ None \notin [name : Names, active : BOOLEAN]

VARIABLES
    kind,         \* kind[r]: the table r belongs to
    refs,         \* refs[r]: its row, [name, active], or None
    retired,      \* the references with a referenceDataDeactivated event
    charged,      \* the references of the expenses created, a set for each
    client        \* client[c]: what a request is doing, with what it has read

refVars == <<kind, refs, retired, charged, client>>

Kinds == <<"department", "category", "vendor", "project">>

Missing == [name |-> None, active |-> FALSE]

Free == [at |-> "idle", op |-> "none", ref |-> None, name |-> None, row |-> Missing,
         wanted |-> {}, checked |-> {}]

RefInit ==
    /\ kind \in KindChoices
    /\ refs = [r \in Refs |-> None]
    /\ retired = {}
    /\ charged = {}
    /\ client = [c \in Clients |-> Free]

-----------------------------------------------------------------------------
(* Create, update and deactivate: what each reads. *)

\* findFirst by organization and name, but for the row r itself.
NameTaken(r, name) ==
    \E s \in Refs \ {r} : kind[s] = kind[r] /\ refs[s] # None /\ refs[s].name = name

Unborn(r) == refs[r] = None /\ \A c \in Clients : client[c].ref # r

BeginCreate(c, r, name) ==
    /\ client[c].at = "idle"
    /\ Unborn(r)
    /\ ~NameTaken(r, name)
    /\ client' = [client EXCEPT ![c] =
          [Free EXCEPT !.at = "write", !.op = "create", !.ref = r, !.name = name]]
    /\ UNCHANGED <<kind, refs, retired, charged>>

BeginUpdate(c, r, name) ==
    /\ client[c].at = "idle"
    /\ refs[r] # None
    /\ ~NameTaken(r, name)
    /\ client' = [client EXCEPT ![c] =
          [Free EXCEPT !.at = "write", !.op = "update", !.ref = r, !.name = name,
                       !.row = refs[r]]]
    /\ UNCHANGED <<kind, refs, retired, charged>>

BeginDeactivate(c, r) ==
    /\ client[c].at = "idle"
    /\ refs[r] # None
    /\ client' = [client EXCEPT ![c] =
          [Free EXCEPT !.at = "write", !.op = "deactivate", !.ref = r]]
    /\ UNCHANGED <<kind, refs, retired, charged>>

\* The handlers of one kind.
Handlers(c, k) ==
    \E r \in {s \in Refs : kind[s] = k} :
        \/ \E name \in Names : BeginCreate(c, r, name) \/ BeginUpdate(c, r, name)
        \/ BeginDeactivate(c, r)

Departments(c) == Handlers(c, "department")
Categories(c) == Handlers(c, "category")
Vendors(c) == Handlers(c, "vendor")
Projects(c) == Handlers(c, "project")

-----------------------------------------------------------------------------
(* What they write, at their end. *)

\* Mutation: the tables do not have the unique index.
NoIndex(r, name) == TRUE

\* The unique index on organization and name.
IndexAllows(r, name) == ~NameTaken(r, name)

\* Mutation: the update saves the row it has loaded, under the new name.
UpdatedWhole(t) == [t.row EXCEPT !.name = t.name]

\* The update sets the name only.
Updated(t) == [refs[t.ref] EXCEPT !.name = t.name]

\* The row and its event; a violation of the index rolls both back.  Of the
\* events, which only go to the audit log, the deactivations are kept here.
Write(c) ==
    LET t == client[c]
        commits == t.op = "deactivate" \/ IndexAllows(t.ref, t.name)
    IN  /\ t.at = "write"
        /\ refs' = IF ~commits THEN refs
                   ELSE [refs EXCEPT ![t.ref] =
                           CASE t.op = "create" -> [name |-> t.name, active |-> TRUE]
                             [] t.op = "update" -> Updated(t)
                             [] t.op = "deactivate" -> [@ EXCEPT !.active = FALSE]]
        /\ retired' = IF t.op = "deactivate" THEN retired \cup {t.ref} ELSE retired
        /\ client' = [client EXCEPT ![c] = Free]
        /\ UNCHANGED <<kind, charged>>

-----------------------------------------------------------------------------
(* CreateExpenseHandler and ImportRecordMapper. *)

Active(r) == refs[r] # None /\ refs[r].active

OneOfEachKind(wanted) == \A r, s \in wanted : r # s => kind[r] # kind[s]

BeginExpense(c, wanted) ==
    /\ client[c].at = "idle"
    /\ wanted # {}
    /\ OneOfEachKind(wanted)
    /\ client' = [client EXCEPT ![c] = [Free EXCEPT !.at = "check", !.wanted = wanted]]
    /\ UNCHANGED <<kind, refs, retired, charged>>

\* vendor.upsert: one statement, and no event.  The department and the category
\* of the row are found by name and have to be active, to begin with.
ImportVendor(c, others, v) ==
    /\ client[c].at = "idle"
    /\ kind[v] = "vendor"
    /\ OneOfEachKind(others)
    /\ \A r \in others : kind[r] \in {"department", "category"} /\ Active(r)
    /\ \/ \E name \in Names :
             /\ Unborn(v)
             /\ ~NameTaken(v, name)
             /\ refs' = [refs EXCEPT ![v] = [name |-> name, active |-> TRUE]]
       \/ /\ refs[v] # None
          /\ refs' = [refs EXCEPT ![v].active = TRUE]
    /\ client' = [client EXCEPT ![c] =
          [Free EXCEPT !.at = "check", !.op = "import", !.wanted = others \cup {v}]]
    /\ UNCHANGED <<kind, retired, charged>>

Checked(t, r) == [t EXCEPT !.checked = @ \cup {r}]

\* The kinds are looked at in order; a reference that is not active refuses.
CheckRef(c) ==
    LET left == client[c].wanted \ client[c].checked
    IN  /\ client[c].at = "check"
        /\ \E i \in DOMAIN Kinds : \E r \in left :
              /\ kind[r] = Kinds[i]
              /\ \A s \in left : kind[s] \notin {Kinds[j] : j \in 1 .. i - 1}
              /\ client' = [client EXCEPT ![c] =
                    IF Active(r) THEN Checked(@, r) ELSE Free]
        /\ UNCHANGED <<kind, refs, retired, charged>>

\* The transaction that inserts the expense.
InsertExpense(c) ==
    /\ client[c].at = "check"
    /\ client[c].checked = client[c].wanted
    /\ Cardinality(charged) < MaxExpenses
    /\ charged' = charged \cup {client[c].wanted}
    /\ client' = [client EXCEPT ![c] = Free]
    /\ UNCHANGED <<kind, refs, retired>>

RefNext ==
    \E c \in Clients :
        \/ Departments(c)
        \/ Categories(c)
        \/ Vendors(c)
        \/ Projects(c)
        \/ Write(c)
        \/ \E wanted \in SUBSET Refs : BeginExpense(c, wanted)
        \/ \E others \in SUBSET Refs, v \in Refs : ImportVendor(c, others, v)
        \/ CheckRef(c)
        \/ InsertExpense(c)

RefSpec == RefInit /\ [][RefNext]_refVars

-----------------------------------------------------------------------------
(* Properties *)

\* Two requests that both found a name free never leave two rows of a kind with
\* that name: an import finds a vendor by it, and the reports group by it.
NamesUnique ==
    \A r, s \in Refs :
        (r # s /\ kind[r] = kind[s] /\ refs[r] # None /\ refs[s] # None)
            => refs[r].name # refs[s].name

\* A reference is out of use exactly because an event said so, and stays so
\* whatever update was under way with the row as it was: only a vendor comes
\* back, when an import names it.
DeactivationSticks ==
    \A r \in Refs : refs[r] # None =>
        /\ ~refs[r].active => r \in retired
        /\ r \in retired => ~refs[r].active \/ kind[r] = "vendor"

-----------------------------------------------------------------------------
(* What the documentation says, and the code does not do. *)

\* TECH_DEBT #39: the handler checks that the references are active "rather than
\* ... silently allowing a deactivated department/category/vendor/project to be
\* used".
ExpensesUseActive ==
    [][\A wanted \in charged' \ charged : \A r \in wanted : Active(r)]_refVars
=============================================================================
