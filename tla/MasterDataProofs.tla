--------------------------- MODULE MasterDataProofs ---------------------------
(***************************************************************************)
(* The invariants of the master data and of the sessions, for any number   *)
(* of rows and of requests in flight: each component by itself, as they    *)
(* share no state, and then of their composition.                          *)
(***************************************************************************)
EXTENDS MCMasterData, FiniteSetTheorems, SequenceTheorems, TLAPS

-----------------------------------------------------------------------------
(* Reference data *)

RefRow == [name : Names, active : BOOLEAN]

ClientState ==
    [at : {"idle", "write", "check"},
     op : {"none", "create", "update", "deactivate", "import"},
     ref : Refs \cup {None}, name : Names \cup {None}, row : RefRow \cup {Missing},
     wanted : SUBSET Refs, checked : SUBSET Refs]

RefTypes ==
    /\ refs \in [Refs -> RefRow \cup {None}]
    /\ retired \in SUBSET Refs
    /\ client \in [Clients -> ClientState]

\* A request that is about to create a row is alone with it; any other is about
\* to write a row that is there, and stays there.
WritesFit ==
    \A c \in Clients :
        client[c].at = "write" =>
            /\ client[c].ref \in Refs
            /\ client[c].op \in {"create", "update"} => client[c].name \in Names
            /\ client[c].op \in {"create", "update", "deactivate"}
            /\ IF client[c].op = "create"
               THEN /\ refs[client[c].ref] = None
                    /\ \A d \in Clients \ {c} : client[d].ref # client[c].ref
               ELSE refs[client[c].ref] # None

RetiredExist == \A r \in retired : refs[r] # None

RefInv == RefTypes /\ WritesFit /\ RetiredExist

\* A request takes a state of its own, and no row changes.
LEMMA RequestMoves ==
    ASSUME RefInv, NEW c \in Clients, NEW t \in ClientState,
           client' = [client EXCEPT ![c] = t], UNCHANGED <<refs, retired>>,
           t.at = "write" =>
               /\ t.ref \in Refs
               /\ t.op \in {"create", "update"} => t.name \in Names
               /\ t.op \in {"create", "update", "deactivate"}
               /\ IF t.op = "create"
                  THEN refs[t.ref] = None /\ \A d \in Clients \ {c} : client[d].ref # t.ref
                  ELSE refs[t.ref] # None,
           t.ref = None \/ t.ref = client[c].ref \/ refs[t.ref] # None
              \/ \A d \in Clients : client[d].ref # t.ref
    PROVE  RefInv'
<1>1. RefTypes'
  BY DEF RefInv, RefTypes
<1>2. client'[c] = t /\ \A d \in Clients \ {c} : client'[d] = client[d]
  BY DEF RefInv, RefTypes
<1>3. WritesFit'
  <2> SUFFICES ASSUME NEW d \in Clients, client'[d].at = "write"
               PROVE  /\ client'[d].ref \in Refs
                      /\ client'[d].op \in {"create", "update"} => client'[d].name \in Names
                      /\ client'[d].op \in {"create", "update", "deactivate"}
                      /\ client'[d].op = "create" =>
                            /\ refs[client'[d].ref] = None
                            /\ \A b \in Clients \ {d} : client'[b].ref # client'[d].ref
                      /\ client'[d].op # "create" => refs[client'[d].ref] # None
    BY DEF WritesFit
  <2>1. CASE d = c
    BY <1>2, <2>1
  <2>2. CASE d # c
    <3>1. /\ client[d].ref \in Refs
          /\ client[d].op \in {"create", "update"} => client[d].name \in Names
          /\ client[d].op \in {"create", "update", "deactivate"}
          /\ client[d].op = "create" =>
                /\ refs[client[d].ref] = None
                /\ \A b \in Clients \ {d} : client[b].ref # client[d].ref
          /\ client[d].op # "create" => refs[client[d].ref] # None
      BY <1>2, <2>2 DEF RefInv, WritesFit
    <3>2. client[d].op = "create" => t.ref # client[d].ref
      BY <2>2, <3>1, NoneAssumption
    <3>3. QED
      BY <1>2, <2>2, <3>1, <3>2
  <2>3. QED
    BY <2>1, <2>2
<1>4. QED
  BY <1>1, <1>3 DEF RefInv, RetiredExist

\* Of a request that has ended, nothing is left.
LEMMA FreeType == Free \in ClientState
BY DEF Free, ClientState, Missing

\* The requests that begin, check and insert write no row and no retirement.
LEMMA ReadsKeepRefInv ==
    ASSUME RefInv, NEW c \in Clients,
           \/ Departments(c) \/ Categories(c) \/ Vendors(c) \/ Projects(c)
           \/ \E wanted \in SUBSET Refs : BeginExpense(c, wanted)
           \/ CheckRef(c)
           \/ InsertExpense(c)
    PROVE  RefInv' /\ UNCHANGED <<kind, refs, retired>>
<1>1. ASSUME NEW r \in Refs, NEW name \in Names, BeginCreate(c, r, name)
      PROVE  RefInv' /\ UNCHANGED <<kind, refs, retired>>
  <2> DEFINE t == [Free EXCEPT !.at = "write", !.op = "create", !.ref = r, !.name = name]
  <2>1. /\ t.at = "write" /\ t.op = "create" /\ t.ref = r /\ t.name = name
        /\ t \in ClientState
    BY DEF Free, ClientState, Missing
  <2>2. /\ client' = [client EXCEPT ![c] = t]
        /\ UNCHANGED <<kind, refs, retired>>
        /\ refs[r] = None /\ \A d \in Clients : client[d].ref # r
    BY <1>1 DEF BeginCreate, Unborn
  <2> HIDE DEF t
  <2>3. QED
    BY <2>1, <2>2, RequestMoves
<1>2. ASSUME NEW r \in Refs, NEW name \in Names, BeginUpdate(c, r, name)
      PROVE  RefInv' /\ UNCHANGED <<kind, refs, retired>>
  <2> DEFINE t == [Free EXCEPT !.at = "write", !.op = "update", !.ref = r, !.name = name,
                               !.row = refs[r]]
  <2>1. /\ client' = [client EXCEPT ![c] = t]
        /\ UNCHANGED <<kind, refs, retired>>
        /\ refs[r] # None
    BY <1>2 DEF BeginUpdate
  <2>2. refs[r] \in RefRow
    BY <2>1 DEF RefInv, RefTypes
  <2>3. /\ t.at = "write" /\ t.op = "update" /\ t.ref = r /\ t.name = name
        /\ t \in ClientState
    BY <2>2 DEF Free, ClientState, Missing
  <2> HIDE DEF t
  <2>4. QED
    BY <2>1, <2>3, RequestMoves
<1>3. ASSUME NEW r \in Refs, BeginDeactivate(c, r)
      PROVE  RefInv' /\ UNCHANGED <<kind, refs, retired>>
  <2> DEFINE t == [Free EXCEPT !.at = "write", !.op = "deactivate", !.ref = r]
  <2>1. /\ t.at = "write" /\ t.op = "deactivate" /\ t.ref = r
        /\ t \in ClientState
    BY DEF Free, ClientState, Missing
  <2>2. /\ client' = [client EXCEPT ![c] = t]
        /\ UNCHANGED <<kind, refs, retired>>
        /\ refs[r] # None
    BY <1>3 DEF BeginDeactivate
  <2> HIDE DEF t
  <2>3. QED
    BY <2>1, <2>2, RequestMoves
<1>4. ASSUME NEW wanted \in SUBSET Refs, BeginExpense(c, wanted)
      PROVE  RefInv' /\ UNCHANGED <<kind, refs, retired>>
  <2> DEFINE t == [Free EXCEPT !.at = "check", !.wanted = wanted]
  <2>1. t.at = "check" /\ t.ref = None /\ t \in ClientState
    BY DEF Free, ClientState, Missing
  <2>2. client' = [client EXCEPT ![c] = t] /\ UNCHANGED <<kind, refs, retired>>
    BY <1>4 DEF BeginExpense
  <2> HIDE DEF t
  <2>3. QED
    BY <2>1, <2>2, RequestMoves
<1>5. Free.at = "idle" /\ Free.ref = None /\ Free \in ClientState
  BY FreeType DEF Free
<1>6. CASE CheckRef(c)
  <2>1. PICK r \in Refs : client' = [client EXCEPT ![c] =
            IF Active(r) THEN Checked(client[c], r) ELSE Free]
    BY <1>6 DEF CheckRef, RefInv, RefTypes, ClientState
  <2> DEFINE q == client[c]
             t == Checked(q, r)
  <2>2. q \in ClientState /\ q.at = "check"
    BY <1>6 DEF CheckRef, RefInv, RefTypes
  <2>3. t \in ClientState /\ t.at = "check" /\ t.ref = q.ref
    <3> HIDE DEF q
    <3>1. QED
      BY <2>2 DEF Checked, ClientState
  <2>4. UNCHANGED <<kind, refs, retired>>
    BY <1>6 DEF CheckRef
  <2>5. CASE Active(r)
    <3>1. client' = [client EXCEPT ![c] = t]
      BY <2>1, <2>5
    <3>2. t.ref = client[c].ref
      BY <2>3
    <3> HIDE DEF t
    <3>3. QED
      BY <2>3, <2>4, <3>1, <3>2, RequestMoves
  <2>6. CASE ~Active(r)
    <3>1. client' = [client EXCEPT ![c] = Free]
      BY <2>1, <2>6
    <3>2. QED
      BY <1>5, <2>4, <3>1, RequestMoves
  <2>7. QED
    BY <2>5, <2>6
<1>7. CASE InsertExpense(c)
  BY <1>5, <1>7, RequestMoves DEF InsertExpense
<1>8. QED
  BY <1>1, <1>2, <1>3, <1>4, <1>6, <1>7 DEF Departments, Categories, Vendors, Projects,
                                            Handlers

\* Setting one column leaves the other.
LEMMA ActiveSet ==
    ASSUME NEW row \in RefRow, NEW b \in BOOLEAN
    PROVE  /\ [row EXCEPT !.active = b].name = row.name
           /\ [row EXCEPT !.active = b].active = b
           /\ [row EXCEPT !.active = b] \in RefRow
BY DEF RefRow

\* What a write does to the row it is about; the others stay as they are.
LEMMA WriteEffect ==
    ASSUME RefInv, NEW c \in Clients, Write(c)
    PROVE  \E r \in Refs :
              /\ r = client[c].ref
              /\ \A s \in Refs \ {r} : refs'[s] = refs[s]
              /\ refs' \in [Refs -> RefRow \cup {None}]
              /\ \/ refs'[r] = refs[r] /\ retired' = retired /\ client[c].op # "deactivate"
                 \/ /\ client[c].op = "create" /\ refs[r] = None /\ retired' = retired
                    /\ refs'[r].name = client[c].name /\ refs'[r].active = TRUE
                    /\ refs'[r] \in RefRow
                    /\ IndexAllows(r, client[c].name)
                 \/ /\ client[c].op = "update" /\ refs[r] # None /\ retired' = retired
                    /\ refs'[r].name = client[c].name /\ refs'[r].active = refs[r].active
                    /\ refs'[r] \in RefRow
                    /\ IndexAllows(r, client[c].name)
                 \/ /\ client[c].op = "deactivate" /\ refs[r] # None
                    /\ retired' = retired \cup {r} /\ refs'[r] \in RefRow
                    /\ refs'[r].name = refs[r].name /\ ~refs'[r].active
<1> DEFINE r == client[c].ref
<1>1. /\ client[c].at = "write" /\ r \in Refs
      /\ client[c].op \in {"create", "update", "deactivate"}
      /\ client[c].op \in {"create", "update"} => client[c].name \in Names
      /\ client[c].op = "create" => refs[r] = None
      /\ client[c].op # "create" => refs[r] \in RefRow
  BY DEF Write, RefInv, RefTypes, WritesFit
<1>2. refs \in [Refs -> RefRow \cup {None}]
  BY DEF RefInv, RefTypes
<1>3. CASE client[c].op = "create"
  <2>1. refs' = IF IndexAllows(r, client[c].name)
                THEN [refs EXCEPT ![r] = [name |-> client[c].name, active |-> TRUE]]
                ELSE refs
    BY <1>3 DEF Write
  <2>2. retired' = retired
    BY <1>3 DEF Write
  <2> HIDE DEF r
  <2>3. [name |-> client[c].name, active |-> TRUE] \in RefRow
    BY <1>1, <1>3 DEF RefRow
  <2>4. QED
    BY <1>1, <1>2, <1>3, <2>1, <2>2, <2>3 DEF r
<1>4. CASE client[c].op = "update"
  <2>1. refs' = IF IndexAllows(r, client[c].name)
                THEN [refs EXCEPT ![r] = [refs[r] EXCEPT !.name = client[c].name]]
                ELSE refs
    BY <1>4 DEF Write, Updated
  <2>2. retired' = retired
    BY <1>4 DEF Write
  <2>3. /\ [refs[r] EXCEPT !.name = client[c].name]
             = [name |-> client[c].name, active |-> refs[r].active]
        /\ [refs[r] EXCEPT !.name = client[c].name] \in RefRow
    BY <1>1, <1>4 DEF RefRow
  <2> HIDE DEF r
  <2>4. refs[r] # None
    BY <1>1, <1>4, NoneAssumption DEF RefRow
  <2>5. QED
    BY <1>1, <1>2, <1>4, <2>1, <2>2, <2>3, <2>4 DEF r
<1>5. CASE client[c].op = "deactivate"
  <2>1. refs' = [refs EXCEPT ![r] = [refs[r] EXCEPT !.active = FALSE]]
    BY <1>5 DEF Write
  <2>2. retired' = retired \cup {r}
    BY <1>5 DEF Write
  <2>3. /\ [refs[r] EXCEPT !.active = FALSE].name = refs[r].name
        /\ ~[refs[r] EXCEPT !.active = FALSE].active
        /\ [refs[r] EXCEPT !.active = FALSE] \in RefRow
    BY <1>1, <1>5, ActiveSet
  <2> HIDE DEF r
  <2>4. refs[r] # None
    BY <1>1, <1>5, NoneAssumption DEF RefRow
  <2>5. QED
    BY <1>1, <1>2, <1>5, <2>1, <2>2, <2>3, <2>4 DEF r
<1>6. QED
  BY <1>1, <1>3, <1>4, <1>5

\* An import writes one row, of a vendor, and leaves the name of a row that was there.
LEMMA ImportEffect ==
    ASSUME RefInv, NEW c \in Clients, NEW others \in SUBSET Refs, NEW v \in Refs,
           ImportVendor(c, others, v)
    PROVE  /\ kind[v] = "vendor" /\ kind' = kind /\ retired' = retired
           /\ \A s \in Refs \ {v} : refs'[s] = refs[s]
           /\ refs' \in [Refs -> RefRow \cup {None}]
           /\ refs'[v] \in RefRow /\ refs'[v].active = TRUE
           /\ refs[v] = None => \A d \in Clients : client[d].ref # v
           /\ \/ refs[v] # None /\ refs'[v].name = refs[v].name
              \/ ~NameTaken(v, refs'[v].name)
<1>1. kind[v] = "vendor" /\ kind' = kind /\ retired' = retired
  BY DEF ImportVendor
<1>2. refs \in [Refs -> RefRow \cup {None}]
  BY DEF RefInv, RefTypes
<1>3. ASSUME NEW name \in Names, Unborn(v), ~NameTaken(v, name),
             refs' = [refs EXCEPT ![v] = [name |-> name, active |-> TRUE]]
      PROVE  /\ refs[v] = None /\ \A d \in Clients : client[d].ref # v
             /\ \A s \in Refs \ {v} : refs'[s] = refs[s]
             /\ refs' \in [Refs -> RefRow \cup {None}]
             /\ refs'[v].name = name /\ refs'[v].active = TRUE
             /\ refs'[v] \in RefRow
  <2>1. [name |-> name, active |-> TRUE] \in RefRow
    BY DEF RefRow
  <2>2. QED
    BY <1>2, <1>3, <2>1 DEF Unborn
<1>4. ASSUME refs[v] # None, refs' = [refs EXCEPT ![v].active = TRUE]
      PROVE  /\ \A s \in Refs \ {v} : refs'[s] = refs[s]
             /\ refs' \in [Refs -> RefRow \cup {None}]
             /\ refs'[v].name = refs[v].name /\ refs'[v].active = TRUE
             /\ refs'[v] \in RefRow
  <2> DEFINE row == refs[v]
  <2>1. row \in [name : Names, active : BOOLEAN]
    BY <1>2, <1>4 DEF RefRow
  <2>2. refs' = [refs EXCEPT ![v] = [row EXCEPT !.active = TRUE]]
    BY <1>4
  <2> HIDE DEF row
  <2>3. /\ [row EXCEPT !.active = TRUE].name = row.name
        /\ [row EXCEPT !.active = TRUE].active = TRUE
        /\ [row EXCEPT !.active = TRUE] \in RefRow
    BY <2>1, ActiveSet DEF RefRow
  <2>4. QED
    BY <1>2, <2>2, <2>3 DEF row
<1>5. \/ \E name \in Names :
            /\ Unborn(v) /\ ~NameTaken(v, name)
            /\ refs' = [refs EXCEPT ![v] = [name |-> name, active |-> TRUE]]
      \/ refs[v] # None /\ refs' = [refs EXCEPT ![v].active = TRUE]
  BY DEF ImportVendor
<1>6. CASE refs[v] # None /\ refs' = [refs EXCEPT ![v].active = TRUE]
  BY <1>1, <1>4, <1>6
<1>7. ASSUME NEW name \in Names, Unborn(v), ~NameTaken(v, name),
             refs' = [refs EXCEPT ![v] = [name |-> name, active |-> TRUE]]
      PROVE  /\ \A s \in Refs \ {v} : refs'[s] = refs[s]
             /\ refs' \in [Refs -> RefRow \cup {None}]
             /\ refs'[v] \in RefRow /\ refs'[v].active = TRUE
             /\ \A d \in Clients : client[d].ref # v
             /\ ~NameTaken(v, refs'[v].name)
  <2>1. refs'[v].name = name
    BY <1>3, <1>7
  <2>2. ~NameTaken(v, refs'[v].name)
    BY <1>7, <2>1
  <2>3. QED
    BY <1>3, <1>7, <2>2
<1>8. QED
  BY <1>1, <1>5, <1>6, <1>7

\* Rows are never deleted, and what a request is about to write stays fitting.
LEMMA RefInvKept ==
    ASSUME RefInv, [RefNext]_refVars
    PROVE  RefInv'
<1>1. CASE UNCHANGED refVars
  BY <1>1 DEF refVars, RefInv, RefTypes, WritesFit, RetiredExist
<1>2. ASSUME NEW c \in Clients, Write(c) PROVE RefInv'
  <2>1. PICK r \in Refs :
            /\ r = client[c].ref
            /\ \A s \in Refs \ {r} : refs'[s] = refs[s]
            /\ refs' \in [Refs -> RefRow \cup {None}]
            /\ retired' \in {retired, retired \cup {r}}
            /\ refs'[r] = refs[r] \/ refs'[r] \in RefRow
            /\ r \in retired' \ retired => refs'[r] # None
            /\ \/ refs'[r] = refs[r]
               \/ refs'[r] # None /\ (client[c].op = "create" \/ refs[r] # None)
    <3>1. \A row \in RefRow : row # None
      BY NoneAssumption DEF RefRow
    <3>2. PICK r \in Refs :
              /\ r = client[c].ref
              /\ \A s \in Refs \ {r} : refs'[s] = refs[s]
              /\ refs' \in [Refs -> RefRow \cup {None}]
              /\ \/ refs'[r] = refs[r] /\ retired' = retired
                 \/ /\ client[c].op = "create" /\ retired' = retired
                    /\ refs'[r] \in RefRow
                 \/ /\ refs[r] # None /\ retired' \in {retired, retired \cup {r}}
                    /\ refs'[r] \in RefRow
      BY <1>2, WriteEffect
    <3>3. QED
      BY <3>1, <3>2
  <2>2. client' = [client EXCEPT ![c] = Free]
    BY <1>2 DEF Write
  <2>3. Free \in ClientState /\ Free.at = "idle" /\ Free.ref = None
    BY FreeType DEF Free
  <2>4. RefTypes'
    BY <2>1, <2>2, <2>3 DEF RefInv, RefTypes
  <2>5. /\ client'[c] = Free
        /\ \A d \in Clients \ {c} : client'[d] = client[d]
    BY <2>2 DEF RefInv, RefTypes
  <2>6. WritesFit'
    <3> SUFFICES ASSUME NEW d \in Clients, client'[d].at = "write"
                 PROVE  /\ client'[d].ref \in Refs
                        /\ client'[d].op \in {"create", "update"} => client'[d].name \in Names
                        /\ client'[d].op \in {"create", "update", "deactivate"}
                        /\ client'[d].op = "create" =>
                              /\ refs'[client'[d].ref] = None
                              /\ \A b \in Clients \ {d} : client'[b].ref # client'[d].ref
                        /\ client'[d].op # "create" => refs'[client'[d].ref] # None
      BY DEF WritesFit
    <3>1. d # c /\ client'[d] = client[d]
      BY <2>3, <2>5
    <3>2. /\ client[d].ref \in Refs
          /\ client[d].op \in {"create", "update"} => client[d].name \in Names
          /\ client[d].op \in {"create", "update", "deactivate"}
          /\ client[d].op = "create" =>
                /\ refs[client[d].ref] = None
                /\ \A b \in Clients \ {d} : client[b].ref # client[d].ref
          /\ client[d].op # "create" => refs[client[d].ref] # None
      BY <3>1 DEF RefInv, WritesFit
    <3>3. client[d].op = "create" => client[d].ref # client[c].ref
      BY <3>1, <3>2
    <3>4. client[d].op = "create" =>
              \A b \in Clients \ {d} : client'[b].ref # client[d].ref
      BY <2>3, <2>5, <3>2, NoneAssumption
    <3>5. client[d].op # "create" => refs'[client[d].ref] # None
      BY <2>1, <3>2
    <3>6. client[d].op = "create" => refs'[client[d].ref] = None
      BY <2>1, <3>2, <3>3
    <3>7. QED
      BY <3>1, <3>2, <3>4, <3>5, <3>6
  <2>7. RetiredExist'
    BY <2>1 DEF RefInv, RefTypes, RetiredExist
  <2>8. QED
    BY <2>4, <2>6, <2>7 DEF RefInv
<1>3. ASSUME NEW c \in Clients, NEW others \in SUBSET Refs, NEW v \in Refs,
             ImportVendor(c, others, v)
      PROVE  RefInv'
  <2> DEFINE t == [Free EXCEPT !.at = "check", !.op = "import", !.wanted = others \cup {v}]
  <2>1. t \in ClientState /\ t.at = "check" /\ t.ref = None
    BY DEF Free, ClientState, Missing
  <2>2. client' = [client EXCEPT ![c] = t] /\ retired' = retired
    BY <1>3 DEF ImportVendor
  <2> HIDE DEF t
  <2>3. /\ client'[c] = t
        /\ \A d \in Clients \ {c} : client'[d] = client[d]
    BY <2>2 DEF RefInv, RefTypes
  <2>4. /\ \A s \in Refs \ {v} : refs'[s] = refs[s]
        /\ refs' \in [Refs -> RefRow \cup {None}]
        /\ refs'[v] # None
        /\ refs[v] = None => \A d \in Clients : client[d].ref # v
    <3>1. \A row \in RefRow : row # None
      BY NoneAssumption DEF RefRow
    <3>2. refs'[v] \in RefRow
      BY <1>3, ImportEffect
    <3>3. QED
      BY <1>3, <3>1, <3>2, ImportEffect
  <2>5. RefTypes'
    BY <2>1, <2>2, <2>4 DEF RefInv, RefTypes
  <2>6. WritesFit'
    <3> SUFFICES ASSUME NEW d \in Clients, client'[d].at = "write"
                 PROVE  /\ client'[d].ref \in Refs
                        /\ client'[d].op \in {"create", "update"} => client'[d].name \in Names
                        /\ client'[d].op \in {"create", "update", "deactivate"}
                        /\ client'[d].op = "create" =>
                              /\ refs'[client'[d].ref] = None
                              /\ \A b \in Clients \ {d} : client'[b].ref # client'[d].ref
                        /\ client'[d].op # "create" => refs'[client'[d].ref] # None
      BY DEF WritesFit
    <3>1. d # c /\ client'[d] = client[d]
      BY <2>1, <2>3
    <3>2. /\ client[d].ref \in Refs
          /\ client[d].op \in {"create", "update"} => client[d].name \in Names
          /\ client[d].op \in {"create", "update", "deactivate"}
          /\ client[d].op = "create" =>
                /\ refs[client[d].ref] = None
                /\ \A b \in Clients \ {d} : client[b].ref # client[d].ref
          /\ client[d].op # "create" => refs[client[d].ref] # None
      BY <3>1 DEF RefInv, WritesFit
    <3>3. client[d].op = "create" =>
              \A b \in Clients \ {d} : client'[b].ref # client[d].ref
      BY <2>1, <2>3, <3>2, NoneAssumption
    <3>4. client[d].op # "create" => refs'[client[d].ref] # None
      BY <2>4, <3>2
    <3>5. client[d].op = "create" => refs'[client[d].ref] = None
      BY <2>4, <3>2
    <3>6. QED
      BY <3>1, <3>2, <3>3, <3>4, <3>5
  <2>7. RetiredExist'
    BY <2>2, <2>4 DEF RefInv, RefTypes, RetiredExist
  <2>8. QED
    BY <2>5, <2>6, <2>7 DEF RefInv
<1>4. QED
  BY <1>1, <1>2, <1>3, ReadsKeepRefInv DEF RefNext

LEMMA RefInvHolds == RefSpec => []RefInv
<1>1. RefInit => RefInv
  BY FreeType DEF RefInit, RefInv, RefTypes, WritesFit, RetiredExist, Free
<1>2. QED
  BY <1>1, RefInvKept, PTL DEF RefSpec

\* The name of a row that changes is one the unique index allows.
LEMMA NamesKept ==
    ASSUME NamesUnique, UNCHANGED kind, NEW r \in Refs,
           \A s \in Refs \ {r} : refs'[s] = refs[s],
           \/ refs'[r] = refs[r]
           \/ refs[r] # None /\ refs'[r].name = refs[r].name
           \/ ~NameTaken(r, refs'[r].name)
    PROVE  NamesUnique'
<1> SUFFICES ASSUME NEW s \in Refs, NEW t \in Refs, s # t, kind[s] = kind[t],
                    refs'[s] # None, refs'[t] # None
             PROVE  refs'[s].name # refs'[t].name
  BY DEF NamesUnique
<1>1. CASE s # r /\ t # r
  BY <1>1 DEF NamesUnique
<1>2. ASSUME NEW o \in Refs \ {r}, kind[o] = kind[r], refs'[o] # None, refs'[r] # None
      PROVE  refs'[o].name # refs'[r].name
  BY <1>2 DEF NamesUnique, NameTaken
<1>3. QED
  BY <1>1, <1>2

\* Two requests that both found a name free never leave two rows of a kind with
\* that name (NamesUnique, in IdentitiesUnique): the index decides at the write.
THEOREM ReferenceNamesUnique == RefSpec => []NamesUnique
<1>1. RefInit => NamesUnique
  BY DEF RefInit, NamesUnique
<1>2. RefInv /\ NamesUnique /\ [RefNext]_refVars => NamesUnique'
  <2> SUFFICES ASSUME RefInv, NamesUnique, [RefNext]_refVars PROVE NamesUnique'
    OBVIOUS
  <2>1. CASE UNCHANGED <<kind, refs, retired>>
    BY <2>1 DEF NamesUnique
  <2>2. ASSUME NEW c \in Clients, Write(c) PROVE NamesUnique'
    <3>1. PICK r \in Refs :
              /\ \A s \in Refs \ {r} : refs'[s] = refs[s]
              /\ \/ refs'[r] = refs[r]
                 \/ refs'[r].name = client[c].name /\ IndexAllows(r, client[c].name)
                 \/ refs[r] # None /\ refs'[r].name = refs[r].name
      BY <2>2, WriteEffect
    <3>2. UNCHANGED kind
      BY <2>2 DEF Write
    <3>3. QED
      BY <3>1, <3>2, NamesKept DEF IndexAllows
  <2>3. ASSUME NEW c \in Clients, NEW others \in SUBSET Refs, NEW v \in Refs,
               ImportVendor(c, others, v)
        PROVE  NamesUnique'
    <3>1. /\ UNCHANGED kind
          /\ \A s \in Refs \ {v} : refs'[s] = refs[s]
          /\ \/ refs[v] # None /\ refs'[v].name = refs[v].name
             \/ ~NameTaken(v, refs'[v].name)
      BY <2>3, ImportEffect
    <3>2. QED
      BY <3>1, NamesKept
  <2>4. QED
    BY <2>1, <2>2, <2>3, ReadsKeepRefInv DEF RefNext, refVars
<1>3. QED
  BY <1>1, <1>2, RefInvHolds, PTL DEF RefSpec

\* A reference is out of use exactly because an event said so, and no update
\* under way brings it back: only an import does, a vendor.
THEOREM DeactivationsStick == RefSpec => []DeactivationSticks
<1>1. RefInit => DeactivationSticks
  BY DEF RefInit, DeactivationSticks
<1>2. RefInv /\ DeactivationSticks /\ [RefNext]_refVars => DeactivationSticks'
  <2> SUFFICES ASSUME RefInv, DeactivationSticks, [RefNext]_refVars
               PROVE  DeactivationSticks'
    OBVIOUS
  <2>1. CASE UNCHANGED <<kind, refs, retired>>
    BY <2>1 DEF DeactivationSticks
  <2>2. ASSUME NEW c \in Clients, Write(c) PROVE DeactivationSticks'
    <3>1. PICK r \in Refs :
              /\ \A s \in Refs \ {r} : refs'[s] = refs[s]
              /\ \/ refs'[r] = refs[r] /\ retired' = retired
                 \/ refs[r] = None /\ retired' = retired /\ refs'[r].active = TRUE
                 \/ /\ refs[r] # None /\ retired' = retired
                    /\ refs'[r].active = refs[r].active
                 \/ retired' = retired \cup {r} /\ ~refs'[r].active
      BY <2>2, WriteEffect
    <3>2. UNCHANGED kind /\ retired \in SUBSET Refs
      BY <2>2 DEF Write, RefInv, RefTypes
    <3>3. refs[r] = None => r \notin retired
      BY DEF RefInv, RetiredExist
    <3>4. QED
      BY <3>1, <3>2, <3>3 DEF DeactivationSticks
  <2>3. ASSUME NEW c \in Clients, NEW others \in SUBSET Refs, NEW v \in Refs,
               ImportVendor(c, others, v)
        PROVE  DeactivationSticks'
    <3>1. /\ kind' = kind /\ retired' = retired /\ kind[v] = "vendor"
          /\ \A s \in Refs \ {v} : refs'[s] = refs[s]
          /\ refs'[v].active = TRUE
      BY <2>3, ImportEffect
    <3>2. QED
      BY <3>1 DEF DeactivationSticks
  <2>4. QED
    BY <2>1, <2>2, <2>3, ReadsKeepRefInv DEF RefNext, refVars
<1>3. QED
  BY <1>1, <1>2, RefInvHolds, PTL DEF RefSpec

OneClientAtATime == \A c, d \in Clients : c = d

\* What the one request has looked at is still as it was.
CheckedStand == \A c \in Clients : \A r \in client[c].checked : Active(r)

\* A reference an expense names is active when the expense is inserted, if
\* requests do not overlap: nothing else can deactivate one that was looked at.
THEOREM SerialExpensesUseActive ==
    ASSUME OneClientAtATime
    PROVE  RefSpec => ExpensesUseActive
<1>1. RefInit => CheckedStand
  BY DEF RefInit, CheckedStand, Free
<1>2. RefInv /\ CheckedStand /\ [RefNext]_refVars => CheckedStand'
  <2> SUFFICES ASSUME RefInv, CheckedStand, [RefNext]_refVars PROVE CheckedStand'
    OBVIOUS
  <2>1. ASSUME NEW c \in Clients, client'[c].checked = {} PROVE CheckedStand'
    BY <2>1 DEF OneClientAtATime, CheckedStand
  <2>2. DOMAIN client = Clients
    BY DEF RefInv, RefTypes
  <2>3. ASSUME NEW c \in Clients, Departments(c) \/ Categories(c) \/ Vendors(c) \/ Projects(c)
        PROVE  CheckedStand'
    <3>1. ASSUME NEW k, Handlers(c, k) PROVE client'[c].checked = {}
      BY <2>2, <3>1 DEF Handlers, BeginCreate, BeginUpdate, BeginDeactivate, Free
    <3>2. client'[c].checked = {}
      BY <2>3, <3>1 DEF Departments, Categories, Vendors, Projects
    <3>3. QED
      BY <2>1, <3>2
  <2>4. ASSUME NEW c \in Clients,
               \/ Write(c) \/ InsertExpense(c)
               \/ \E wanted \in SUBSET Refs : BeginExpense(c, wanted)
               \/ \E others \in SUBSET Refs, v \in Refs : ImportVendor(c, others, v)
        PROVE  CheckedStand'
    <3>1. ASSUME Write(c) \/ InsertExpense(c) PROVE client'[c].checked = {}
      BY <2>2, <3>1 DEF Write, InsertExpense, Free
    <3>2. ASSUME NEW wanted, BeginExpense(c, wanted) PROVE client'[c].checked = {}
      BY <2>2, <3>2 DEF BeginExpense, Free
    <3>3. ASSUME NEW others, NEW v, ImportVendor(c, others, v) PROVE client'[c].checked = {}
      BY <2>2, <3>3 DEF ImportVendor, Free
    <3>4. QED
      BY <2>1, <2>4, <3>1, <3>2, <3>3
  <2>5. ASSUME NEW c \in Clients, CheckRef(c)
        PROVE  CheckedStand'
    <3>1. UNCHANGED refs
      BY <2>5 DEF CheckRef
    <3>2. PICK r : client'[c] = IF Active(r) THEN Checked(client[c], r) ELSE Free
      BY <2>2, <2>5 DEF CheckRef
    <3>3. CASE Active(r)
      <4>1. client'[c].checked = client[c].checked \cup {r}
        BY <2>2, <3>2, <3>3 DEF Checked, RefInv, RefTypes, ClientState
      <4>2. \A s \in client'[c].checked : Active(s)'
        BY <3>1, <3>3, <4>1 DEF CheckedStand, Active
      <4>3. QED
        BY <4>2 DEF OneClientAtATime, CheckedStand
    <3>4. CASE ~Active(r)
      BY <2>1, <3>2, <3>4 DEF Free
    <3>5. QED
      BY <3>3, <3>4
  <2>6. CASE UNCHANGED refVars
    BY <2>6 DEF refVars, CheckedStand, Active
  <2>7. QED
    BY <2>3, <2>4, <2>5, <2>6 DEF RefNext
<1>3. RefInv /\ CheckedStand /\ [RefNext]_refVars
         => [\A wanted \in charged' \ charged : \A r \in wanted : Active(r)]_refVars
  <2> SUFFICES ASSUME CheckedStand, [RefNext]_refVars
               PROVE  \A wanted \in charged' \ charged : \A r \in wanted : Active(r)
    OBVIOUS
  <2>1. ASSUME NEW c \in Clients, InsertExpense(c)
        PROVE  \A wanted \in charged' \ charged : \A r \in wanted : Active(r)
    BY <2>1 DEF InsertExpense, CheckedStand
  <2>2. ASSUME NEW c \in Clients, ~InsertExpense(c),
               \/ Departments(c) \/ Categories(c) \/ Vendors(c) \/ Projects(c)
               \/ Write(c) \/ CheckRef(c)
               \/ \E wanted \in SUBSET Refs : BeginExpense(c, wanted)
               \/ \E others \in SUBSET Refs, v \in Refs : ImportVendor(c, others, v)
        PROVE  UNCHANGED charged
    BY <2>2 DEF Departments, Categories, Vendors, Projects, Handlers, BeginCreate, BeginUpdate,
                BeginDeactivate, Write, CheckRef, BeginExpense, ImportVendor
  <2>3. QED
    BY <2>1, <2>2 DEF RefNext, refVars
<1>4. QED
  BY <1>1, <1>2, <1>3, RefInvHolds, PTL DEF RefSpec, ExpensesUseActive

-----------------------------------------------------------------------------
(* Employees *)

EmployeeRow == [login : Logins \cup {Null}, active : BOOLEAN]

HrState == [op : {"none", "create", "link", "unlink", "deactivate"},
            employee : Staff \cup {Null}, login : Logins \cup {Null}]

\* No employee is deleted, so one that a request has found is there at its end.
HrInv ==
    /\ employee \in [Staff -> EmployeeRow \cup {Null}]
    /\ hr \in [HrRequests -> HrState]
    /\ \A q \in HrRequests :
          /\ hr[q].op # "none" => hr[q].employee \in Staff
          /\ hr[q].op \in {"link", "unlink", "deactivate"} => Employed(hr[q].employee)
          /\ hr[q].op = "link" => hr[q].login \in Logins

\* What a write makes of an employee: the index, or no change, decides the user.
LEMMA EmployeeWritten ==
    ASSUME HrInv, NEW q \in HrRequests, WriteEmployee(q)
    PROVE  \E e \in Staff :
              /\ \A f \in Staff \ {e} : employee'[f] = employee[f]
              /\ employee' \in [Staff -> EmployeeRow \cup {Null}]
              /\ \/ employee' = employee
                 \/ /\ employee'[e] \in EmployeeRow
                    /\ \/ employee'[e].login = Null
                       \/ Employed(e) /\ employee'[e].login = employee[e].login
                       \/ LinkedTo(employee'[e].login) \subseteq {e}
<1> DEFINE e == hr[q].employee
           login == hr[q].login
<1>1. /\ hr[q].op \in {"create", "link", "unlink", "deactivate"} => e \in Staff
      /\ hr[q].op \in {"link", "unlink", "deactivate"} =>
            Employed(e) /\ employee[e] \in EmployeeRow
      /\ hr[q].op = "link" => login \in Logins
      /\ employee \in [Staff -> EmployeeRow \cup {Null}]
  BY DEF HrInv, Employed
<1>2. CASE Hire(hr[q])
  <2>1. e \in Staff /\ employee' = [employee EXCEPT ![e] = [login |-> Null, active |-> TRUE]]
    BY <1>1, <1>2 DEF Hire
  <2>2. [login |-> Null, active |-> TRUE] \in EmployeeRow
    BY DEF EmployeeRow
  <2> HIDE DEF e
  <2>3. QED
    BY <1>1, <2>1, <2>2
<1>3. CASE Link(hr[q])
  <2>1. /\ e \in Staff /\ employee[e] \in EmployeeRow /\ login \in Logins
        /\ employee' = IF LinkedTo(login) \subseteq {e}
                       THEN [employee EXCEPT ![e] = [employee[e] EXCEPT !.login = login]]
                       ELSE employee
    BY <1>1, <1>3 DEF Link, LoginIndexAllows
  <2> HIDE DEF e, login
  <2>2. /\ [employee[e] EXCEPT !.login = login] \in EmployeeRow
        /\ [employee[e] EXCEPT !.login = login].login = login
    BY <2>1 DEF EmployeeRow
  <2>3. QED
    BY <1>1, <2>1, <2>2
<1>4. CASE Unlink(hr[q])
  <2>1. /\ e \in Staff /\ employee[e] \in EmployeeRow
        /\ employee' = [employee EXCEPT ![e] = [employee[e] EXCEPT !.login = Null]]
    BY <1>1, <1>4 DEF Unlink
  <2> HIDE DEF e
  <2>2. /\ [employee[e] EXCEPT !.login = Null] \in EmployeeRow
        /\ [employee[e] EXCEPT !.login = Null].login = Null
    BY <2>1 DEF EmployeeRow
  <2>3. QED
    BY <1>1, <2>1, <2>2
<1>5. CASE Retire(hr[q])
  <2>1. /\ e \in Staff /\ employee[e] \in EmployeeRow /\ Employed(e)
        /\ employee' = [employee EXCEPT ![e] = [employee[e] EXCEPT !.active = FALSE]]
    BY <1>1, <1>5 DEF Retire
  <2> HIDE DEF e
  <2>2. /\ [employee[e] EXCEPT !.active = FALSE] \in EmployeeRow
        /\ [employee[e] EXCEPT !.active = FALSE].login = employee[e].login
    BY <2>1 DEF EmployeeRow
  <2>3. QED
    BY <1>1, <2>1, <2>2
<1>6. QED
  BY <1>2, <1>3, <1>4, <1>5 DEF WriteEmployee

LEMMA HrInvKept ==
    ASSUME HrInv, [HrNext]_hrVars
    PROVE  HrInv'
<1>1. CASE UNCHANGED hrVars
  BY <1>1 DEF hrVars, HrInv, Employed
<1>2. ASSUME NEW q \in HrRequests, NEW e \in Staff, NEW login \in Logins \cup {Null},
             NEW op \in {"create", "link", "unlink", "deactivate"}, Hold(q, op, e, login),
             op # "create" => Employed(e), op = "link" => login \in Logins
      PROVE  HrInv'
  <2>1. [op |-> op, employee |-> e, login |-> login] \in HrState
    BY DEF HrState
  <2>2. /\ hr' = [hr EXCEPT ![q] = [op |-> op, employee |-> e, login |-> login]]
        /\ employee' = employee
    BY <1>2 DEF Hold
  <2>3. QED
    BY <1>2, <2>1, <2>2 DEF HrInv, Employed
<1>3. ASSUME NEW q \in HrRequests, NEW e \in Staff,
             \/ BeginHire(q, e) \/ BeginUnlink(q, e) \/ BeginRetire(q, e)
             \/ \E login \in Logins : BeginLink(q, e, login)
      PROVE  HrInv'
  BY <1>2, <1>3 DEF BeginHire, BeginLink, BeginUnlink, BeginRetire
<1>4. ASSUME NEW q \in HrRequests, WriteEmployee(q) PROVE HrInv'
  <2>1. PICK e \in Staff :
            /\ \A f \in Staff \ {e} : employee'[f] = employee[f]
            /\ employee' \in [Staff -> EmployeeRow \cup {Null}]
            /\ employee' = employee \/ employee'[e] \in EmployeeRow
    BY <1>4, EmployeeWritten
  <2>2. \A f \in Staff : Employed(f) => Employed(f)'
    BY <2>1, NullAssumption DEF Employed, EmployeeRow
  <2>3. hr' = [hr EXCEPT ![q] = HrFree] /\ HrFree \in HrState /\ HrFree.op = "none"
    BY <1>4 DEF WriteEmployee, HrFree, HrState
  <2>4. QED
    BY <2>1, <2>2, <2>3 DEF HrInv
<1>5. QED
  BY <1>1, <1>3, <1>4 DEF HrNext

\* Two requests that both found a user free never link two employees to it
\* (UserLinkedOnce, in IdentitiesUnique): the index decides at the write.
THEOREM UsersLinkedOnce == HrSpec => []UserLinkedOnce
<1>1. HrInit => HrInv /\ UserLinkedOnce
  BY DEF HrInit, HrInv, UserLinkedOnce, Employed, HrFree, HrState
<1>2. HrInv /\ UserLinkedOnce /\ [HrNext]_hrVars => UserLinkedOnce'
  <2> SUFFICES ASSUME HrInv, UserLinkedOnce, [HrNext]_hrVars PROVE UserLinkedOnce'
    OBVIOUS
  <2>1. CASE UNCHANGED employee
    BY <2>1 DEF UserLinkedOnce, Employed
  <2>2. ASSUME NEW q \in HrRequests, WriteEmployee(q) PROVE UserLinkedOnce'
    <3>1. PICK e \in Staff :
              /\ \A f \in Staff \ {e} : employee'[f] = employee[f]
              /\ \/ employee' = employee
                 \/ employee'[e].login = Null
                 \/ Employed(e) /\ employee'[e].login = employee[e].login
                 \/ LinkedTo(employee'[e].login) \subseteq {e}
      BY <2>2, EmployeeWritten
    <3>2. CASE employee' = employee
      BY <3>2 DEF UserLinkedOnce, Employed
    <3>3. CASE employee'[e].login = Null
      BY <3>1, <3>3 DEF UserLinkedOnce, Employed
    <3>4. CASE Employed(e) /\ employee'[e].login = employee[e].login
      BY <3>1, <3>4 DEF UserLinkedOnce, Employed
    <3>5. CASE LinkedTo(employee'[e].login) \subseteq {e}
      BY <3>1, <3>5 DEF UserLinkedOnce, Employed, LinkedTo
    <3>6. QED
      BY <3>1, <3>2, <3>3, <3>4, <3>5
  <2>3. QED
    BY <2>1, <2>2 DEF HrNext, hrVars, BeginHire, BeginLink, BeginUnlink, BeginRetire, Hold
<1>3. QED
  BY <1>1, <1>2, HrInvKept, PTL DEF HrSpec

-----------------------------------------------------------------------------
(* Salary structures *)

VersionRow == [version : Nat \ {0}, from : Nat, to : Nat]

SalaryTypes ==
    /\ versions \in [Salaried -> SUBSET VersionRow]
    /\ salary \in [SalaryRequests ->
          [at : {"idle", "write"}, employee : {{}} \cup {{e} : e \in Salaried},
           day : Nat, previous : [version : Nat, from : Nat, to : Nat]]]

\* The version a request is about to close is still there, with the days it had.
PreviousStands ==
    \A q \in SalaryRequests : salary[q].at = "write" =>
        /\ salary[q].day # 0
        /\ \A e \in salary[q].employee :
              salary[q].previous.version # 0 =>
                  \E r \in versions[e] : /\ r.version = salary[q].previous.version
                                         /\ r.from = salary[q].previous.from

\* VersionsChain says that no version before one is missing; that there is a
\* first one would take an induction to conclude from it.
FirstVersion ==
    \A e \in Salaried : versions[e] # {} => \E r \in versions[e] : r.version = 1

SalaryInv == SalaryTypes /\ PreviousStands /\ FirstVersion /\ VersionsChain

\* A chain with room for the next version ends with the previous one, open.
LEMMA PreviousIsLast ==
    ASSUME SalaryInv, NEW e \in Salaried, NEW r \in versions[e],
           \A s \in versions[e] : s.version # r.version + 1
    PROVE  r.to = 0 /\ \A s \in versions[e] : s # r => s.version < r.version /\ s.to # 0
<1>1. r.to = 0 /\ \A s \in versions[e] : s.version <= r.version
  BY DEF SalaryInv, VersionsChain
<1>2. \A s \in versions[e] : s.version \in Nat /\ (s.version = r.version => s = r)
  BY DEF SalaryInv, VersionsChain, SalaryTypes, VersionRow
<1>3. \A s \in versions[e] : s # r => s.version < r.version
  BY <1>1, <1>2
<1>4. \A s \in versions[e] : s.to = 0 => r.version <= s.version
  BY DEF SalaryInv, VersionsChain
<1>5. QED
  BY <1>1, <1>2, <1>3, <1>4

\* The rows of one employee, as VersionsChain wants them, with a first one.
Chain(rows) ==
    /\ rows \in SUBSET VersionRow
    /\ rows # {} => \E r \in rows : r.version = 1
    /\ \A r \in rows :
          /\ r.version > 1 => \E p \in rows : p.version = r.version - 1
          /\ \A s \in rows : s.version = r.version => s = r
          /\ IF r.to = 0 THEN \A s \in rows : s.version <= r.version
             ELSE \E s \in rows : s.version = r.version + 1 /\ s.from = r.to

\* The very first version makes a chain.
LEMMA FirstWritten ==
    ASSUME NEW day \in Nat
    PROVE  Chain({[version |-> 1, from |-> day, to |-> 0]})
BY DEF Chain, VersionRow

\* Closing the last version p on the day the next one, n, takes effect keeps the
\* chain.
LEMMA NextWritten ==
    ASSUME NEW rows, Chain(rows), NEW p \in rows, NEW day \in Nat \ {0},
           p.to = 0, \A s \in rows : s # p => s.version < p.version /\ s.to # 0,
           NEW n, n = [version |-> p.version + 1, from |-> day, to |-> 0],
           NEW c, c = [p EXCEPT !.to = day]
    PROVE  Chain((rows \ {p}) \cup {c, n})
<1> DEFINE new == (rows \ {p}) \cup {c, n}
<1>1. /\ p \in VersionRow /\ rows \in SUBSET VersionRow
      /\ \A s \in rows : s.version \in Nat \ {0} /\ s.from \in Nat /\ s.to \in Nat
  BY DEF Chain, VersionRow
<1>2. /\ c \in VersionRow /\ n \in VersionRow
      /\ c.version = p.version /\ c.from = p.from /\ c.to = day
      /\ n.version = p.version + 1 /\ n.from = day /\ n.to = 0
  BY <1>1 DEF VersionRow
<1>3. new \in SUBSET VersionRow
  BY <1>1, <1>2
<1>4. \E r \in new : r.version = 1
  <2>1. PICK r \in rows : r.version = 1
    BY DEF Chain
  <2>2. QED
    BY <1>2, <2>1
<1>5. ASSUME NEW r \in new
      PROVE  /\ r.version > 1 => \E q \in new : q.version = r.version - 1
             /\ \A s \in new : s.version = r.version => s = r
             /\ r.to = 0 => \A s \in new : s.version <= r.version
             /\ r.to # 0 => \E s \in new : s.version = r.version + 1 /\ s.from = r.to
  <2>1. \A s \in rows \ {p} : s.version < p.version /\ s.to # 0 /\ s.version \in Nat
    BY <1>1
  <2>a. /\ c \in new /\ n \in new /\ p.version \in Nat
        /\ \A s \in new : s = c \/ s = n \/ s \in rows \ {p}
        /\ \A s \in rows \ {p} : s \in new
    BY <1>1
  <2> HIDE DEF new
  <2>b. ASSUME NEW s \in new, s # n PROVE s.version \in Nat /\ s.version <= p.version
    <3>1. c.version \in Nat /\ c.version <= p.version
      BY <1>2, <2>a
    <3>2. CASE s \in rows \ {p}
      BY <2>1, <2>a, <3>2
    <3>3. QED
      BY <2>a, <2>b, <3>1, <3>2
  <2>c. n.version = p.version + 1 /\ n.version \in Nat
    BY <1>2, <2>a
  <2>d. \A s \in new : s.version = n.version => s = n
    BY <2>a, <2>b, <2>c
  <2>e. \A s \in new : s.version = c.version => s = c
    BY <1>2, <2>1, <2>a
  <2>2. CASE r = n
    <3>1. \A s \in new : s.version <= n.version
      BY <2>a, <2>b, <2>c
    <3>2. c.version = n.version - 1
      BY <1>2, <2>a
    <3>3. QED
      BY <1>2, <2>2, <2>a, <2>d, <3>1, <3>2
  <2>3. CASE r = c
    <3>1. p.version > 1 => \E q \in rows : q.version = p.version - 1
      BY DEF Chain
    <3>2. p.version > 1 => \E q \in rows \ {p} : q.version = p.version - 1
      BY <1>1, <3>1
    <3>3. QED
      BY <1>1, <1>2, <2>1, <2>3, <2>a, <2>e, <3>2
  <2>4. CASE r \in rows \ {p}
    <3>1. /\ r.version > 1 => \E q \in rows : q.version = r.version - 1
          /\ \A s \in rows : s.version = r.version => s = r
          /\ \E s \in rows : s.version = r.version + 1 /\ s.from = r.to
      BY <2>1, <2>4 DEF Chain
    <3>2. r.version > 1 => \E q \in new : q.version = r.version - 1
      BY <1>2, <2>a, <3>1
    <3>3. \E s \in new : s.version = r.version + 1 /\ s.from = r.to
      BY <1>2, <2>a, <3>1
    <3>4. \A s \in new : s.version = r.version => s = r
      <4>1. r.version # n.version /\ r.version # c.version
        BY <1>2, <2>1, <2>4, <2>a
      <4>2. QED
        BY <2>a, <3>1, <4>1
    <3>5. QED
      BY <2>1, <2>4, <3>2, <3>3, <3>4
  <2>5. QED
    BY <2>2, <2>3, <2>4, <2>a
<1>6. QED
  BY <1>3, <1>4, <1>5 DEF Chain

\* A write is refused by the index, or makes a chain of a chain; and it leaves
\* each version there, with the day it took effect.
LEMMA WriteKeepsChain ==
    ASSUME SalaryInv, NEW q \in SalaryRequests, WriteVersion(q)
    PROVE  /\ \A e \in Salaried : Chain(versions'[e])
           /\ \A e \in Salaried : \A r \in versions[e] :
                 \E s \in versions'[e] : s.version = r.version /\ s.from = r.from
           /\ versions' \in [Salaried -> SUBSET VersionRow]
<1> DEFINE t == salary[q]
<1>1. /\ \A e \in Salaried : Chain(versions[e])
      /\ versions \in [Salaried -> SUBSET VersionRow]
  BY DEF SalaryInv, SalaryTypes, FirstVersion, VersionsChain, Chain
<1>2. PICK e \in Salaried :
          /\ e \in t.employee
          /\ versions' = IF VersionIndexAllows(versions[e], t)
                THEN [versions EXCEPT ![e] = PreviousClosed(versions[e], t) \cup {NextVersion(t)}]
                ELSE versions
  <2>1. t.employee \subseteq Salaried
    BY DEF SalaryInv, SalaryTypes
  <2>2. QED
    BY <2>1 DEF WriteVersion
<1>3. CASE ~VersionIndexAllows(versions[e], t)
  BY <1>1, <1>2, <1>3
<1>4. CASE VersionIndexAllows(versions[e], t)
  <2> DEFINE rows == versions[e]
             new == PreviousClosed(rows, t) \cup {NextVersion(t)}
  <2>1. /\ t.day \in Nat \ {0} /\ t.previous.version \in Nat /\ t.previous.from \in Nat
        /\ Chain(rows) /\ rows \in SUBSET VersionRow
        /\ t.previous.version # 0 =>
              \E r \in rows : r.version = t.previous.version /\ r.from = t.previous.from
    BY <1>1, <1>2 DEF WriteVersion, SalaryInv, SalaryTypes, PreviousStands
  <2>2. \A s \in rows : s.version # t.previous.version + 1
    BY <1>4 DEF VersionIndexAllows
  <2>3. NextVersion(t) = [version |-> t.previous.version + 1, from |-> t.day, to |-> 0]
    BY DEF NextVersion
  <2>4. Chain(new) /\ \A r \in rows : \E s \in new : s.version = r.version /\ s.from = r.from
    <3>1. CASE t.previous.version = 0
      <4>1. rows = {}
        BY <2>1, <2>2, <3>1 DEF Chain
      <4>2. new = {[version |-> 1, from |-> t.day, to |-> 0]}
        BY <2>3, <3>1, <4>1 DEF PreviousClosed
      <4>3. QED
        BY <2>1, <4>1, <4>2, FirstWritten
    <3>2. CASE t.previous.version # 0
      <4>1. PICK p \in rows : p.version = t.previous.version /\ p.from = t.previous.from
        BY <2>1, <3>2
      <4>2. p.to = 0 /\ \A s \in rows : s # p => s.version < p.version /\ s.to # 0
        BY <2>2, <4>1, PreviousIsLast
      <4>3. PreviousClosed(rows, t) = (rows \ {p}) \cup {[p EXCEPT !.to = t.day]}
        <5>1. \A r \in rows :
                  (r.version = t.previous.version /\ r.from = t.previous.from) <=> r = p
          BY <2>1, <4>1 DEF Chain
        <5>2. QED
          BY <5>1 DEF PreviousClosed
      <4>4. new = (rows \ {p}) \cup {[p EXCEPT !.to = t.day], NextVersion(t)}
        BY <4>3
      <4>5. Chain(new)
        <5> HIDE DEF new, t, rows
        <5>1. QED
          BY <2>1, <2>3, <4>1, <4>2, <4>4, NextWritten
      <4>6. /\ [p EXCEPT !.to = t.day].version = p.version
            /\ [p EXCEPT !.to = t.day].from = p.from
        BY <2>1 DEF VersionRow
      <4>7. QED
        BY <4>4, <4>5, <4>6
    <3>3. QED
      BY <3>1, <3>2
  <2>5. versions' = [versions EXCEPT ![e] = new]
    BY <1>2, <1>4
  <2>6. new \in SUBSET VersionRow
    BY <2>4 DEF Chain
  <2> HIDE DEF new
  <2>7. QED
    BY <1>1, <2>4, <2>5, <2>6
<1>5. QED
  BY <1>3, <1>4

\* The versions of an employee are 1, 2, ... without a gap or a double, each but
\* the last closed on the day its successor takes effect and the last one open
\* (VersionsChain), however many requests began from the same version.
THEOREM SalaryVersionsChain == SalarySpec => []VersionsChain
<1>1. SalaryInit => SalaryInv
  BY DEF SalaryInit, SalaryInv, SalaryTypes, PreviousStands, FirstVersion, VersionsChain,
         SalaryFree, Unwritten
<1>2. SalaryInv /\ [SalaryNext]_salaryVars => SalaryInv'
  <2> SUFFICES ASSUME SalaryInv, [SalaryNext]_salaryVars PROVE SalaryInv'
    OBVIOUS
  <2>1. CASE UNCHANGED <<versions, salary>>
    BY <2>1 DEF SalaryInv, SalaryTypes, PreviousStands, FirstVersion, VersionsChain
  <2>2. ASSUME NEW q \in SalaryRequests, NEW e \in Salaried, NEW day \in Days,
               BeginFirst(q, e, day) \/ BeginNext(q, e, day)
        PROVE  SalaryInv'
    <3>1. PICK previous :
              /\ Prepare(q, e, day, previous)
              /\ previous \in versions[e] \/ previous = Unwritten
      BY <2>2 DEF BeginFirst, BeginNext
    <3>2. /\ previous \in [version : Nat, from : Nat, to : Nat]
          /\ previous.version # 0 => previous \in versions[e]
      BY <3>1 DEF SalaryInv, SalaryTypes, VersionRow, Unwritten
    <3> DEFINE t == [at |-> "write", employee |-> {e}, day |-> day, previous |-> previous]
    <3>3. salary' = [salary EXCEPT ![q] = t] /\ UNCHANGED versions
      BY <3>1 DEF Prepare
    <3>4. day \in Nat /\ day # 0
      BY DaysAssumption
    <3>5. SalaryTypes'
      BY <3>2, <3>3, <3>4 DEF SalaryInv, SalaryTypes
    <3>6. salary'[q] = t /\ \A o \in SalaryRequests \ {q} : salary'[o] = salary[o]
      BY <3>3 DEF SalaryInv, SalaryTypes
    <3>7. PreviousStands'
      BY <3>2, <3>3, <3>4, <3>6 DEF SalaryInv, PreviousStands
    <3>8. QED
      BY <3>3, <3>5, <3>7 DEF SalaryInv, FirstVersion, VersionsChain
  <2>3. ASSUME NEW q \in SalaryRequests, WriteVersion(q) PROVE SalaryInv'
    <3>1. /\ \A e \in Salaried : Chain(versions'[e])
          /\ \A e \in Salaried : \A r \in versions[e] :
                \E s \in versions'[e] : s.version = r.version /\ s.from = r.from
          /\ versions' \in [Salaried -> SUBSET VersionRow]
      BY <2>3, WriteKeepsChain
    <3>2. FirstVersion' /\ VersionsChain'
      BY <3>1 DEF Chain, FirstVersion, VersionsChain
    <3>3. salary' = [salary EXCEPT ![q] = SalaryFree]
      BY <2>3 DEF WriteVersion
    <3>4. SalaryTypes'
      BY <3>1, <3>3 DEF SalaryInv, SalaryTypes, SalaryFree, Unwritten
    <3>5. /\ \A o \in SalaryRequests \ {q} : salary'[o] = salary[o]
          /\ salary'[q].at = "idle"
      BY <3>3 DEF SalaryInv, SalaryTypes, SalaryFree
    <3>6. PreviousStands'
      <4> SUFFICES ASSUME NEW o \in SalaryRequests, salary'[o].at = "write"
                   PROVE  /\ salary'[o].day # 0
                          /\ \A e \in salary'[o].employee :
                                salary'[o].previous.version # 0 =>
                                    \E s \in versions'[e] :
                                        /\ s.version = salary'[o].previous.version
                                        /\ s.from = salary'[o].previous.from
        BY DEF PreviousStands
      <4>1. salary'[o] = salary[o]
        BY <3>5
      <4>2. salary[o].employee \subseteq Salaried
        BY DEF SalaryInv, SalaryTypes
      <4>3. /\ salary[o].day # 0
            /\ \A e \in salary[o].employee :
                  salary[o].previous.version # 0 =>
                      \E r \in versions[e] : /\ r.version = salary[o].previous.version
                                             /\ r.from = salary[o].previous.from
        BY <4>1 DEF SalaryInv, PreviousStands
      <4>4. QED
        BY <3>1, <4>1, <4>2, <4>3
    <3>7. QED
      BY <3>2, <3>4, <3>6 DEF SalaryInv
  <2>4. ASSUME NEW e \in Salaried, NEW month \in Days, AddPayslip(e, month)
        PROVE  SalaryInv'
    BY <2>1, <2>4 DEF AddPayslip
  <2>5. QED
    BY <2>1, <2>2, <2>3, <2>4 DEF SalaryNext, salaryVars
<1>3. SalaryInv => VersionsChain
  BY DEF SalaryInv
<1>4. QED
  BY <1>1, <1>2, <1>3, PTL DEF SalarySpec

-----------------------------------------------------------------------------
(* Column mappings *)

\* What an upload asked for, if it named a mapping, has the right shape.
Mappable(mapping) == mapping = NoMapping \/ ~ShapeProblems(mapping)

ImportState ==
    [at : {"new"}] \cup
    [at : {"resolved", "refused", "created"}, file : CsvFiles,
     resolved : Mappings \cup {NoMapping}]

\* The import keeps what the mapping said at the upload, and each read follows it.
MappingInv ==
    /\ csvImport \in [Imports -> ImportState]
    /\ DOMAIN asked = Imports /\ asked = [i \in Imports |-> asked[i]]
    /\ DOMAIN outcomes = Imports /\ outcomes = [i \in Imports |-> outcomes[i]]
    /\ saved \in Nat
    /\ mappings \in SUBSET [id : Nat, name : MappingNames, mapping : Mappings]
    /\ \A r \in mappings : ~ShapeProblems(r.mapping)
    /\ \A i \in Imports :
          IF csvImport[i].at = "new" THEN outcomes[i][2] = {}
          ELSE /\ csvImport[i].resolved = asked[i]
               /\ Mappable(asked[i])
               /\ \A o \in outcomes[i][2] : o = Outcome(csvImport[i].file, asked[i])

\* A mapping of the right shape fails no import by itself, and a row that passes
\* has each required field.
Fits(o, file, mapping) ==
    /\ o.why # "bad mapping"
    /\ o.why = "none" =>
          \A f \in Required : /\ f \in DOMAIN o.row
                              /\ o.row[f] \in file.usable
                              /\ mapping # NoMapping => o.row[f] = mapping[f]

LEMMA OutcomeFits ==
    ASSUME NEW file, NEW mapping, Mappable(mapping)
    PROVE  Fits(Outcome(file, mapping), file, mapping)
<1> DEFINE o == Outcome(file, mapping)
<1> SUFFICES Fits(o, file, mapping)
  OBVIOUS
<1> USE DEF Fits
<1> DEFINE parsed == Parse(file, mapping)
<1>1. /\ parsed.why \in {"none", "unparseable", "columns missing", "column not found"}
      /\ parsed.why = "none" =>
            \A f \in Required : /\ f \in DOMAIN parsed.row
                                /\ mapping # NoMapping => parsed.row[f] = mapping[f]
  BY DEF Parse, Row, Failure, Mappable, ShapeProblems, Fields
<1>2. o = IF parsed.why = "none" THEN Normalize(file, parsed.row) ELSE parsed
  BY DEF Outcome
<1> HIDE DEF parsed, o
<1>3. CASE parsed.why = "none"
  <2>1. CASE \E f \in Required : parsed.row[f] \notin file.usable
    <3>1. o = Failure("row refused")
      BY <1>2, <1>3, <2>1 DEF Normalize
    <3>2. Failure("row refused").why = "row refused"
      BY DEF Failure
    <3>3. QED
      BY <3>1, <3>2
  <2>2. CASE \A f \in Required : parsed.row[f] \in file.usable
    <3>1. o = [why |-> "none", row |-> [f \in {g \in DOMAIN parsed.row :
                                                  parsed.row[g] \in file.usable} |->
                                           parsed.row[f]]]
      BY <1>2, <1>3, <2>2 DEF Normalize, Row
    <3>2. QED
      BY <1>1, <1>3, <2>2, <3>1
  <2>3. QED
    BY <2>1, <2>2
<1>4. CASE parsed.why # "none"
  BY <1>1, <1>2, <1>4
<1>5. QED
  BY <1>3, <1>4

\* Whatever happens to a mapping after the upload that named it, each read of the
\* file gives what the mapping said then (ReadAsMapped).
THEOREM ImportsReadAsMapped == MappingSpec => []ReadAsMapped
<1>1. MappingInit => MappingInv
  BY DEF MappingInit, MappingInv, ImportState
<1>2. MappingInv /\ [MappingNext]_mappingVars => MappingInv'
  <2> SUFFICES ASSUME MappingInv, [MappingNext]_mappingVars PROVE MappingInv'
    OBVIOUS
  <2>1. CASE UNCHANGED mappingVars
    BY <2>1 DEF mappingVars, MappingInv
  <2>2. ASSUME NEW name \in MappingNames, NEW mapping \in Mappings, SaveMapping(name, mapping)
        PROVE  MappingInv'
    <3>1. UNCHANGED <<csvImport, asked, outcomes>> /\ ~ShapeProblems(mapping)
      BY <2>2 DEF SaveMapping
    <3>2. /\ saved' \in Nat
          /\ mappings' \in SUBSET [id : Nat, name : MappingNames, mapping : Mappings]
          /\ \A r \in mappings' : ~ShapeProblems(r.mapping)
      <4> DEFINE same == {r \in mappings : r.name = name}
      <4>1. CASE same = {}
        <5>1. /\ mappings' = mappings \cup {[id |-> saved + 1, name |-> name, mapping |-> mapping]}
              /\ saved' = saved + 1
          BY <2>2, <4>1 DEF SaveMapping
        <5>2. QED
          BY <3>1, <5>1 DEF MappingInv
      <4>2. CASE same # {}
        <5>1. /\ mappings' = (mappings \ same) \cup {[r EXCEPT !.mapping = mapping] : r \in same}
              /\ saved' = saved
          BY <2>2, <4>2 DEF SaveMapping
        <5>2. \A r \in mappings :
                  /\ [r EXCEPT !.mapping = mapping]
                        \in [id : Nat, name : MappingNames, mapping : Mappings]
                  /\ [r EXCEPT !.mapping = mapping].mapping = mapping
          BY DEF MappingInv
        <5> HIDE DEF same
        <5>3. same \subseteq mappings
          BY DEF same
        <5>4. QED
          BY <3>1, <5>1, <5>2, <5>3 DEF MappingInv
      <4>3. QED
        BY <4>1, <4>2
    <3>3. QED
      BY <3>1, <3>2 DEF MappingInv
  <2>3. ASSUME NEW row \in mappings, DeleteMapping(row) PROVE MappingInv'
    BY <2>3 DEF DeleteMapping, MappingInv
  <2>4. ASSUME NEW i \in Imports, NEW file \in CsvFiles, NEW row \in mappings \cup {NoMapping},
               Resolve(i, file, row)
        PROVE  MappingInv'
    <3> DEFINE mapping == IF row = NoMapping THEN NoMapping ELSE row.mapping
               t == [at |-> "resolved", file |-> file, resolved |-> mapping]
    <3>1. /\ csvImport[i].at = "new"
          /\ csvImport' = [csvImport EXCEPT ![i] = t]
          /\ asked' = [asked EXCEPT ![i] = mapping]
          /\ UNCHANGED <<mappings, saved, outcomes>>
      BY <2>4 DEF Resolve
    <3>2. mapping \in Mappings \cup {NoMapping} /\ Mappable(mapping)
      BY <2>4 DEF MappingInv, Mappable
    <3> HIDE DEF mapping
    <3>3. t \in ImportState
      BY <3>2 DEF ImportState
    <3>4. /\ csvImport'[i] = t /\ asked'[i] = mapping
          /\ \A j \in Imports \ {i} : csvImport'[j] = csvImport[j] /\ asked'[j] = asked[j]
          /\ csvImport' \in [Imports -> ImportState]
          /\ DOMAIN asked' = Imports /\ asked' = [j \in Imports |-> asked'[j]]
      BY <3>1, <3>3 DEF MappingInv
    <3>5. outcomes[i][2] = {}
      BY <3>1 DEF MappingInv
    <3>6. t.at = "resolved" /\ t.resolved = mapping
      OBVIOUS
    <3> HIDE DEF t
    <3>7. \A j \in Imports :
             IF csvImport'[j].at = "new" THEN outcomes'[j][2] = {}
             ELSE /\ csvImport'[j].resolved = asked'[j]
                  /\ Mappable(asked'[j])
                  /\ \A o \in outcomes'[j][2] : o = Outcome(csvImport'[j].file, asked'[j])
      BY <3>1, <3>2, <3>4, <3>5, <3>6 DEF MappingInv
    <3>8. QED
      BY <3>1, <3>4, <3>7 DEF MappingInv, Mappable
  <2>5. ASSUME NEW i \in Imports, CreateImport(i) PROVE MappingInv'
    <3>1. PICK at \in {"refused", "created"} :
              /\ csvImport[i].at = "resolved"
              /\ csvImport' = [csvImport EXCEPT ![i].at = at]
              /\ UNCHANGED <<mappings, saved, asked, outcomes>>
      BY <2>5 DEF CreateImport
    <3> DEFINE q == csvImport[i]
               t == [q EXCEPT !.at = at]
    <3>2. q \in [at : {"resolved", "refused", "created"}, file : CsvFiles,
                 resolved : Mappings \cup {NoMapping}]
      BY <3>1 DEF MappingInv, ImportState
    <3>3. csvImport' = [csvImport EXCEPT ![i] = t]
      BY <3>1
    <3> HIDE DEF q
    <3>4. t \in ImportState /\ t.at = at /\ t.file = q.file /\ t.resolved = q.resolved
      BY <3>2 DEF ImportState
    <3> HIDE DEF t
    <3>5. /\ csvImport'[i] = t
          /\ \A j \in Imports \ {i} : csvImport'[j] = csvImport[j]
          /\ csvImport' \in [Imports -> ImportState]
      BY <3>3, <3>4 DEF MappingInv
    <3>6. \A j \in Imports :
             IF csvImport'[j].at = "new" THEN outcomes[j][2] = {}
             ELSE /\ csvImport'[j].resolved = asked[j]
                  /\ Mappable(asked[j])
                  /\ \A o \in outcomes[j][2] : o = Outcome(csvImport'[j].file, asked[j])
      BY <3>1, <3>4, <3>5 DEF MappingInv, q
    <3>7. QED
      BY <3>1, <3>5, <3>6 DEF MappingInv
  <2>6. ASSUME NEW i \in Imports, ReadFile(i) PROVE MappingInv'
    <3> DEFINE o == Outcome(csvImport[i].file, csvImport[i].resolved)
    <3>1. /\ csvImport[i].at = "created"
          /\ outcomes' = [outcomes EXCEPT ![i] =
                <<outcomes[i][1] + 1, outcomes[i][2] \cup {o}>>]
          /\ UNCHANGED <<mappings, saved, csvImport, asked>>
      BY <2>6 DEF ReadFile, MappingOf
    <3> HIDE DEF o
    <3>2. /\ outcomes'[i][2] = outcomes[i][2] \cup {o}
          /\ \A j \in Imports \ {i} : outcomes'[j] = outcomes[j]
          /\ DOMAIN outcomes' = Imports /\ outcomes' = [j \in Imports |-> outcomes'[j]]
      BY <3>1 DEF MappingInv
    <3>3. o = Outcome(csvImport[i].file, asked[i])
      BY <3>1 DEF MappingInv, o
    <3>4. \A j \in Imports :
             IF csvImport[j].at = "new" THEN outcomes'[j][2] = {}
             ELSE /\ csvImport[j].resolved = asked[j]
                  /\ Mappable(asked[j])
                  /\ \A x \in outcomes'[j][2] : x = Outcome(csvImport[j].file, asked[j])
      BY <3>1, <3>2, <3>3 DEF MappingInv
    <3>5. QED
      BY <3>1, <3>2, <3>4 DEF MappingInv
  <2>7. QED
    BY <2>1, <2>2, <2>3, <2>4, <2>5, <2>6 DEF MappingNext
<1>3. MappingInv => ReadAsMapped
  <2>1. ASSUME MappingInv, NEW i \in Imports, NEW o \in outcomes[i][2]
        PROVE  /\ o = Outcome(csvImport[i].file, asked[i])
               /\ Fits(o, csvImport[i].file, asked[i])
    BY <2>1, OutcomeFits DEF MappingInv
  <2>2. QED
    BY <2>1 DEF ReadAsMapped, Fits
<1>4. QED
  BY <1>1, <1>2, <1>3, PTL DEF MappingSpec

-----------------------------------------------------------------------------
(* Sessions: types *)

CallState ==
    [at : {"revoke", "issue", "roles", "sign"}, op : {"login", "refresh", "stepUp"},
     token : Nat, roles : SUBSET Assignments, began : Nat]

RefreshRow == [session : Nat, revoked : BOOLEAN, expiresAt : Nat]

SessionTypes ==
    /\ time \in Nat
    /\ assigned \in SUBSET Assignments
    /\ heldUntil \in [Assignments -> Nat \cup {Absent}]
    /\ typedAt \in Nat \cup {Absent}
    /\ call \in [Callers -> CallState \cup {Idle}]
    /\ refreshTokens \in Seq(RefreshRow)
    /\ allowance \in Seq(Int)
    /\ returned \subseteq DOMAIN refreshTokens

\* A row belongs to a session, and an exchange to a row.
RowsFit ==
    /\ \A t \in DOMAIN refreshTokens : refreshTokens[t].session \in DOMAIN allowance
    /\ \A q \in Callers : call[q] # Idle =>
          /\ call[q].at \in {"revoke", "issue"} => call[q].op = "refresh"
          /\ call[q].op = "refresh" => call[q].token \in DOMAIN refreshTokens

SessionOK == SessionTypes /\ RowsFit

\* A row is revoked, and nothing else of the rows changes.
LEMMA RevokedRows ==
    ASSUME SessionOK, NEW t \in DOMAIN refreshTokens, refreshTokens' = Revoked(t)
    PROVE  /\ refreshTokens' \in Seq(RefreshRow)
           /\ DOMAIN refreshTokens' = DOMAIN refreshTokens
           /\ \A u \in DOMAIN refreshTokens :
                 /\ refreshTokens'[u].session = refreshTokens[u].session
                 /\ refreshTokens'[u].revoked <=> (u = t \/ refreshTokens[u].revoked)
<1> DEFINE row == [refreshTokens[t] EXCEPT !.revoked = TRUE]
<1>1. refreshTokens[t] \in RefreshRow
  BY DEF SessionOK, SessionTypes
<1>2. /\ row \in RefreshRow
      /\ row.session = refreshTokens[t].session
      /\ row.revoked
  BY <1>1 DEF RefreshRow
<1>3. refreshTokens' = [refreshTokens EXCEPT ![t] = row]
  BY DEF Revoked, SessionOK, SessionTypes
<1> HIDE DEF row
<1>4. refreshTokens' \in Seq(RefreshRow) /\ DOMAIN refreshTokens' = DOMAIN refreshTokens
  BY <1>2, <1>3 DEF SessionOK, SessionTypes
<1>5. \A u \in DOMAIN refreshTokens :
         refreshTokens'[u] = IF u = t THEN row ELSE refreshTokens[u]
  BY <1>3 DEF SessionOK, SessionTypes
<1>6. QED
  BY <1>2, <1>4, <1>5

\* A row is added for a session.
LEMMA AddedRow ==
    ASSUME SessionOK, NEW s \in Nat, refreshTokens' = Append(refreshTokens, NewRow(s))
    PROVE  /\ refreshTokens' \in Seq(RefreshRow)
           /\ Len(refreshTokens) + 1 \in Nat
           /\ Len(refreshTokens) + 1 \notin DOMAIN refreshTokens
           /\ DOMAIN refreshTokens' = DOMAIN refreshTokens \cup {Len(refreshTokens) + 1}
           /\ \A u \in DOMAIN refreshTokens : refreshTokens'[u] = refreshTokens[u]
           /\ refreshTokens'[Len(refreshTokens) + 1] = NewRow(s)
<1>1. NewRow(s) \in RefreshRow
  BY SessionAssumption DEF SessionOK, SessionTypes, RefreshRow, NewRow
<1>2. QED
  BY <1>1 DEF SessionOK, SessionTypes

LEMMA TypesInit == SessionInit => SessionOK
  BY DEF SessionInit, SessionOK, SessionTypes, RowsFit, Idle

LEMMA TypesNext ==
    ASSUME SessionOK, [SessionNext]_sessionVars
    PROVE  SessionOK'
<1> USE DEF SessionOK
<1>1. ASSUME NEW q \in Callers, NEW stage \in {"revoke", "roles"},
             NEW op \in {"login", "refresh", "stepUp"}, NEW t \in Nat, BeginCall(q, stage, op, t),
             stage = "revoke" => op = "refresh",
             op = "refresh" => t \in DOMAIN refreshTokens,
             typedAt' = typedAt \/ typedAt' = time,
             allowance' \in Seq(Int), DOMAIN allowance' = DOMAIN allowance,
             UNCHANGED <<time, assigned, refreshTokens, returned, heldUntil>>
      PROVE  SessionOK'
  <2> DEFINE begun == [at |-> stage, op |-> op, token |-> t, roles |-> {}, began |-> time]
  <2>1. begun \in CallState /\ call' = [call EXCEPT ![q] = begun]
    BY <1>1 DEF SessionTypes, CallState, BeginCall
  <2>2. SessionTypes'
    BY <1>1, <2>1 DEF SessionTypes
  <2>3. RowsFit'
    BY <1>1, <2>1 DEF SessionTypes, RowsFit, Idle
  <2>4. QED
    BY <2>2, <2>3
<1>2. ASSUME NEW q \in Callers, Login(q)
      PROVE  SessionOK'
  BY <1>1, <1>2 DEF Login, SessionTypes
<1>3. ASSUME NEW q \in Callers, StepUp(q)
      PROVE  SessionOK'
  BY <1>1, <1>3 DEF StepUp, SessionTypes
<1>4. ASSUME NEW q \in Callers, NEW t \in returned, Refresh(q, t)
      PROVE  SessionOK'
  <2>1. t \in DOMAIN refreshTokens /\ t \in Nat
    BY DEF SessionTypes
  <2>2. allowance' \in Seq(Int) /\ DOMAIN allowance' = DOMAIN allowance
    BY <1>4, <2>1 DEF Refresh, SessionTypes, RowsFit
  <2>3. QED
    BY <1>1, <1>4, <2>1, <2>2 DEF Refresh
<1>5. ASSUME NEW q \in Callers, RevokeExchanged(q)
      PROVE  SessionOK'
  <2>1. call[q] \in CallState /\ call[q].token \in DOMAIN refreshTokens
    BY <1>5 DEF RevokeExchanged, SessionTypes, RowsFit, Idle
  <2>2. /\ refreshTokens' \in Seq(RefreshRow)
        /\ DOMAIN refreshTokens' = DOMAIN refreshTokens
        /\ \A u \in DOMAIN refreshTokens : refreshTokens'[u].session = refreshTokens[u].session
    BY <1>5, <2>1, RevokedRows DEF RevokeExchanged
  <2>3. SessionTypes'
    BY <1>5, <2>1, <2>2 DEF RevokeExchanged, history, SessionTypes, CallState
  <2>4. RowsFit'
    BY <1>5, <2>1, <2>2 DEF RevokeExchanged, history, SessionTypes, RowsFit, CallState, Idle
  <2>5. QED
    BY <2>3, <2>4
<1>6. ASSUME NEW q \in Callers, IssueNext(q)
      PROVE  SessionOK'
  <2> DEFINE s == refreshTokens[call[q].token].session
             next == [call[q] EXCEPT !.at = "roles", !.token = Len(refreshTokens) + 1]
  <2>1. call[q] \in CallState /\ call[q].token \in DOMAIN refreshTokens
    BY <1>6 DEF IssueNext, SessionTypes, RowsFit, Idle
  <2>2. s \in Nat /\ s \in DOMAIN allowance
    BY <2>1 DEF SessionTypes, RefreshRow, RowsFit
  <2>3. refreshTokens' = Append(refreshTokens, NewRow(s))
    BY <1>6 DEF IssueNext
  <2> HIDE DEF s
  <2>4. /\ refreshTokens' \in Seq(RefreshRow)
        /\ Len(refreshTokens) + 1 \in Nat
        /\ DOMAIN refreshTokens' = DOMAIN refreshTokens \cup {Len(refreshTokens) + 1}
        /\ \A u \in DOMAIN refreshTokens : refreshTokens'[u] = refreshTokens[u]
        /\ refreshTokens'[Len(refreshTokens) + 1] = NewRow(s)
    BY <2>2, <2>3, AddedRow
  <2>5. next \in CallState /\ next.op = call[q].op /\ next.at = "roles"
        /\ next.token = Len(refreshTokens) + 1
    BY <2>1, <2>4 DEF CallState
  <2>6. call' = [call EXCEPT ![q] = next]
    BY <1>6, <2>1 DEF IssueNext, SessionTypes
  <2> HIDE DEF next
  <2>7. SessionTypes'
    BY <1>6, <2>4, <2>5, <2>6 DEF IssueNext, history, SessionTypes
  <2>8. \A t \in DOMAIN refreshTokens' : refreshTokens'[t].session \in DOMAIN allowance
    BY <2>2, <2>4 DEF RowsFit, NewRow
  <2>9. \A p \in Callers : call'[p] # Idle =>
          /\ call'[p].at \in {"revoke", "issue"} => call'[p].op = "refresh"
          /\ call'[p].op = "refresh" => call'[p].token \in DOMAIN refreshTokens'
    BY <2>4, <2>5, <2>6 DEF RowsFit, SessionTypes
  <2>10. QED
    BY <1>6, <2>7, <2>8, <2>9 DEF RowsFit, IssueNext, history
<1>7. ASSUME NEW q \in Callers, ReadRoles(q)
      PROVE  SessionOK'
  <2>1. call[q] \in CallState
    BY <1>7 DEF ReadRoles, SessionTypes, Idle
  <2>2. PICK c \in CallState \cup {Idle} :
          /\ call' = [call EXCEPT ![q] = c]
          /\ c # Idle => c.at = "sign" /\ c.op = call[q].op /\ c.token = call[q].token
    <3>1. CASE assigned = {}
      BY <1>7, <3>1 DEF ReadRoles
    <3>2. CASE assigned # {}
      <4> DEFINE c == [call[q] EXCEPT !.at = "sign", !.roles = assigned]
      <4>1. /\ c \in CallState
            /\ c.at = "sign" /\ c.op = call[q].op /\ c.token = call[q].token
        BY <2>1 DEF SessionTypes, CallState
      <4>2. call' = [call EXCEPT ![q] = c]
        BY <1>7, <3>2 DEF ReadRoles, SessionTypes
      <4>3. QED
        BY <4>1, <4>2
    <3>3. QED
      BY <3>1, <3>2
  <2>3. SessionTypes'
    BY <1>7, <2>2 DEF ReadRoles, history, SessionTypes
  <2>4. RowsFit'
    BY <1>7, <2>1, <2>2 DEF ReadRoles, history, SessionTypes, RowsFit, CallState, Idle
  <2>5. QED
    BY <2>3, <2>4
<1>8. ASSUME NEW q \in Callers, Sign(q)
      PROVE  SessionOK'
  <2>1. call[q] \in CallState /\ call[q] # Idle
    BY <1>8 DEF Sign, SessionTypes, Idle
  <2>2. CASE call[q].op = "login"
    <3>1. /\ refreshTokens' = Append(refreshTokens, NewRow(Len(allowance) + 1))
          /\ returned' = returned \cup {Len(refreshTokens) + 1}
          /\ allowance' = Append(allowance, 1)
          /\ call' = [call EXCEPT ![q] = Idle]
          /\ UNCHANGED <<time, assigned, heldUntil, typedAt>>
      BY <1>8, <2>2 DEF Sign
    <3>2. /\ Len(allowance) + 1 \in Nat
          /\ allowance' \in Seq(Int)
          /\ DOMAIN allowance' = DOMAIN allowance \cup {Len(allowance) + 1}
      BY <3>1 DEF SessionTypes
    <3>3. /\ refreshTokens' \in Seq(RefreshRow)
          /\ DOMAIN refreshTokens' = DOMAIN refreshTokens \cup {Len(refreshTokens) + 1}
          /\ \A u \in DOMAIN refreshTokens : refreshTokens'[u] = refreshTokens[u]
          /\ refreshTokens'[Len(refreshTokens) + 1] = NewRow(Len(allowance) + 1)
      BY <3>1, <3>2, AddedRow
    <3>4. SessionTypes'
      BY <3>1, <3>2, <3>3 DEF SessionTypes
    <3>5. RowsFit'
      BY <3>1, <3>2, <3>3 DEF SessionTypes, RowsFit, NewRow
    <3>6. QED
      BY <3>4, <3>5
  <2>3. CASE call[q].op # "login"
    <3>1. /\ UNCHANGED <<time, assigned, heldUntil, typedAt, refreshTokens, allowance>>
          /\ returned' = returned \/ (returned' = returned \cup {call[q].token} /\ call[q].op = "refresh")
          /\ call' = [call EXCEPT ![q] = Idle]
      BY <1>8, <2>1, <2>3 DEF Sign, CallState
    <3>2. QED
      BY <2>1, <3>1 DEF SessionTypes, RowsFit
  <2>4. QED
    BY <2>2, <2>3
<1>9. ASSUME NEW t \in returned, Logout(t)
      PROVE  SessionOK'
  <2>1. t \in DOMAIN refreshTokens
    BY DEF SessionTypes
  <2>2. /\ refreshTokens' \in Seq(RefreshRow)
        /\ DOMAIN refreshTokens' = DOMAIN refreshTokens
        /\ \A u \in DOMAIN refreshTokens : refreshTokens'[u].session = refreshTokens[u].session
    BY <1>9, <2>1, RevokedRows DEF Logout
  <2>3. allowance' \in Seq(Int) /\ DOMAIN allowance' = DOMAIN allowance
    BY <1>9, <2>1 DEF Logout, SessionTypes, RowsFit
  <2>4. QED
    BY <1>9, <2>2, <2>3 DEF Logout, SessionTypes, RowsFit
<1>10. ASSUME NEW r \in Assignments, ChangeRole(r)
      PROVE  SessionOK'
  BY <1>10 DEF ChangeRole, SessionTypes, RowsFit
<1>11. CASE PassTime
  BY <1>11 DEF PassTime, history, SessionTypes, RowsFit
<1>12. CASE UNCHANGED sessionVars
  BY <1>12 DEF sessionVars, history, SessionTypes, RowsFit
<1>13. QED
  BY <1>2, <1>3, <1>4, <1>5, <1>6, <1>7, <1>8, <1>9, <1>10, <1>11, <1>12 DEF SessionNext

-----------------------------------------------------------------------------
(* Sessions: what a token is good for *)

\* An assignment was held at the given time or later.
HeldSince(r, since) ==
    r \in assigned \/ (heldUntil[r] \in Nat /\ heldUntil[r] >= since)

TypedSince(since) == typedAt \in Nat /\ typedAt >= since

\* What is left of the roles that a call has read, and of the password it was
\* begun with.
CallFits(c) ==
    /\ c.began <= time
    /\ \A r \in c.roles : HeldSince(r, c.began)
    /\ c.op = "stepUp" => TypedSince(c.began)

TokenFits(k) ==
    /\ k.roles \in SUBSET Assignments
    /\ k.began \in Nat /\ k.issuedAt \in Nat
    /\ k.began <= k.issuedAt /\ k.issuedAt <= time
    /\ \A r \in k.roles : HeldSince(r, k.began)
    /\ k.stepUpAt # Absent => k.stepUpAt = k.issuedAt /\ TypedSince(k.began)

RightsInv ==
    /\ SessionOK
    /\ typedAt \in Nat => typedAt <= time
    /\ \A q \in Callers : call[q] # Idle => CallFits(call[q])
    /\ \A k \in accessTokens : TokenFits(k)

\* Time passes, roles come and go, and passwords are entered again: what was held
\* or typed since some time still was.
LEMMA StillFits ==
    ASSUME RightsInv, time' \in Nat, time' >= time,
           \A r \in Assignments :
              \/ heldUntil'[r] = heldUntil[r] /\ (r \in assigned => r \in assigned')
              \/ heldUntil'[r] = time,
           typedAt' = typedAt \/ typedAt' = time
    PROVE  /\ \A c \in CallState : CallFits(c) => CallFits(c)'
           /\ \A k : TokenFits(k) => TokenFits(k)'
<1>1. ASSUME NEW r \in Assignments, NEW since \in Nat, since <= time, HeldSince(r, since)
      PROVE  HeldSince(r, since)'
  BY <1>1 DEF HeldSince, RightsInv, SessionOK, SessionTypes
<1>2. ASSUME NEW since \in Nat, since <= time, TypedSince(since)
      PROVE  TypedSince(since)'
  BY <1>2 DEF TypedSince, RightsInv, SessionOK, SessionTypes
<1>3. ASSUME NEW c \in CallState, CallFits(c)
      PROVE  CallFits(c)'
  <2>1. /\ c.began \in Nat /\ c.began <= time
        /\ c.roles \subseteq Assignments
    BY <1>3 DEF CallFits, CallState
  <2>2. \A r \in c.roles : HeldSince(r, c.began)'
    BY <1>1, <1>3, <2>1 DEF CallFits
  <2>3. c.op = "stepUp" => TypedSince(c.began)'
    BY <1>2, <1>3, <2>1 DEF CallFits
  <2>4. c.began <= time'
    BY <2>1 DEF RightsInv, SessionOK, SessionTypes
  <2>5. QED
    BY <2>2, <2>3, <2>4 DEF CallFits
<1>4. ASSUME NEW k, TokenFits(k)
      PROVE  TokenFits(k)'
  <2>1. /\ k.began \in Nat /\ k.issuedAt \in Nat
        /\ k.began <= k.issuedAt /\ k.issuedAt <= time
        /\ k.roles \in SUBSET Assignments
    BY <1>4 DEF TokenFits
  <2>2. k.began <= time /\ k.issuedAt <= time'
    BY <2>1 DEF RightsInv, SessionOK, SessionTypes
  <2>3. \A r \in k.roles : HeldSince(r, k.began)'
    BY <1>1, <1>4, <2>1, <2>2 DEF TokenFits
  <2>4. k.stepUpAt # Absent => k.stepUpAt = k.issuedAt /\ TypedSince(k.began)'
    BY <1>2, <1>4, <2>1, <2>2 DEF TokenFits
  <2>5. QED
    BY <2>1, <2>2, <2>3, <2>4 DEF TokenFits
<1>5. QED
  BY <1>3, <1>4

\* The call that a password begins, or an exchange without one.
LEMMA BegunFits ==
    ASSUME RightsInv, SessionOK', NEW q \in Callers,
           NEW stage \in {"revoke", "roles"}, NEW op \in {"login", "refresh", "stepUp"},
           NEW t \in Nat, BeginCall(q, stage, op, t),
           op = "stepUp" => typedAt' = time,
           typedAt' = typedAt \/ typedAt' = time,
           UNCHANGED <<time, assigned, accessTokens, heldUntil>>
    PROVE  RightsInv'
<1> DEFINE begun == [at |-> stage, op |-> op, token |-> t, roles |-> {}, began |-> time]
<1>1. /\ time \in Nat
      /\ begun.began = time /\ begun.roles = {} /\ begun.op = op
      /\ call' = [call EXCEPT ![q] = begun]
  BY DEF RightsInv, SessionOK, SessionTypes, BeginCall
<1>2. /\ \A c \in CallState : CallFits(c) => CallFits(c)'
      /\ \A k : TokenFits(k) => TokenFits(k)'
  BY <1>1, StillFits DEF RightsInv, SessionOK, SessionTypes
<1> HIDE DEF begun
<1>3. ASSUME NEW p \in Callers, call'[p] # Idle
      PROVE  CallFits(call[p])'
  <2>1. CASE p = q
    <3>1. call'[p] = begun
      BY <1>1, <2>1 DEF RightsInv, SessionOK, SessionTypes
    <3>2. QED
      BY <1>1, <3>1 DEF CallFits, TypedSince
  <2>2. CASE p # q
    <3>1. call'[p] = call[p] /\ call[p] \in CallState /\ CallFits(call[p])
      BY <1>1, <1>3, <2>2 DEF RightsInv, SessionOK, SessionTypes
    <3>2. PICK c \in CallState : c = call[p] /\ c = call'[p] /\ CallFits(c)
      BY <3>1
    <3>3. CallFits(c)'
      BY <1>2, <3>2
    <3>4. QED
      BY <3>2, <3>3 DEF CallFits, TypedSince, HeldSince
  <2>3. QED
    BY <2>1, <2>2
<1>4. \A k \in accessTokens' : TokenFits(k)'
  BY <1>2 DEF RightsInv
<1>5. (typedAt \in Nat => typedAt <= time)'
  BY <1>1 DEF RightsInv
<1>6. QED
  BY <1>3, <1>4, <1>5 DEF RightsInv

\* A call that goes on, with no more roles than it had or are held now.
LEMMA ContinuedFits ==
    ASSUME RightsInv, SessionOK', NEW q \in Callers, call[q] # Idle,
           NEW c \in CallState \cup {Idle}, call' = [call EXCEPT ![q] = c],
           c # Idle => /\ c.began = call[q].began /\ c.op = call[q].op
                       /\ c.roles \subseteq call[q].roles \cup assigned,
           UNCHANGED <<time, assigned, heldUntil, typedAt>>,
           \A k \in accessTokens' : k \in accessTokens \/ TokenFits(k)
    PROVE  RightsInv'
<1>1. CallFits(call[q])
  BY DEF RightsInv
<1>2. c # Idle => CallFits(c)
  BY <1>1 DEF CallFits, HeldSince
<1>3. \A p \in Callers : call'[p] # Idle => CallFits(call'[p])
  BY <1>2 DEF RightsInv, SessionOK, SessionTypes
<1>4. \A p \in Callers : call'[p] # Idle => CallFits(call[p])'
  BY <1>3 DEF CallFits, HeldSince, TypedSince
<1>5. \A k \in accessTokens' : TokenFits(k)
  BY DEF RightsInv
<1>6. \A k \in accessTokens' : TokenFits(k)'
  BY <1>5 DEF TokenFits, HeldSince, TypedSince
<1>7. QED
  BY <1>4, <1>6 DEF RightsInv

LEMMA RightsNext ==
    ASSUME RightsInv, [SessionNext]_sessionVars
    PROVE  RightsInv'
<1> SessionOK /\ SessionOK'
  BY TypesNext DEF RightsInv
<1>1. ASSUME NEW q \in Callers, Login(q)
      PROVE  RightsInv'
  BY <1>1, BegunFits DEF Login
<1>2. ASSUME NEW q \in Callers, StepUp(q)
      PROVE  RightsInv'
  BY <1>2, BegunFits DEF StepUp
<1>3. ASSUME NEW q \in Callers, NEW t \in returned, Refresh(q, t)
      PROVE  RightsInv'
  <2>1. t \in Nat
    BY DEF SessionOK, SessionTypes
  <2>2. QED
    BY <1>3, <2>1, BegunFits DEF Refresh
<1>4. ASSUME NEW q \in Callers, RevokeExchanged(q)
      PROVE  RightsInv'
  <2> DEFINE c == [call[q] EXCEPT !.at = "issue"]
  <2>1. call[q] # Idle /\ call[q] \in CallState
    BY <1>4 DEF RevokeExchanged, SessionOK, SessionTypes, Idle
  <2>2. /\ c \in CallState /\ c.began = call[q].began
        /\ c.op = call[q].op /\ c.roles = call[q].roles
    BY <2>1 DEF CallState
  <2>3. call' = [call EXCEPT ![q] = c] /\ UNCHANGED <<time, assigned, heldUntil, typedAt, accessTokens>>
    BY <1>4 DEF RevokeExchanged, history, SessionOK, SessionTypes
  <2> HIDE DEF c
  <2>4. QED
    BY <2>1, <2>2, <2>3, ContinuedFits
<1>5. ASSUME NEW q \in Callers, IssueNext(q)
      PROVE  RightsInv'
  <2> DEFINE c == [call[q] EXCEPT !.at = "roles", !.token = Len(refreshTokens) + 1]
  <2>1. call[q] # Idle /\ call[q] \in CallState /\ Len(refreshTokens) + 1 \in Nat
    BY <1>5 DEF IssueNext, SessionOK, SessionTypes, Idle
  <2>2. /\ c \in CallState /\ c.began = call[q].began
        /\ c.op = call[q].op /\ c.roles = call[q].roles
    <3> DEFINE row == Len(refreshTokens) + 1
    <3>1. row \in Nat /\ c = [call[q] EXCEPT !.at = "roles", !.token = row]
      BY <2>1
    <3> HIDE DEF row, c
    <3>2. QED
      BY <2>1, <3>1 DEF CallState
  <2>3. call' = [call EXCEPT ![q] = c] /\ UNCHANGED <<time, assigned, heldUntil, typedAt, accessTokens>>
    BY <1>5 DEF IssueNext, history, SessionOK, SessionTypes
  <2> HIDE DEF c
  <2>4. QED
    BY <2>1, <2>2, <2>3, ContinuedFits
<1>6. ASSUME NEW q \in Callers, ReadRoles(q)
      PROVE  RightsInv'
  <2> DEFINE c == IF assigned = {} THEN Idle
                  ELSE [call[q] EXCEPT !.at = "sign", !.roles = assigned]
  <2>1. call[q] # Idle /\ call[q] \in CallState
    BY <1>6 DEF ReadRoles, SessionOK, SessionTypes, Idle
  <2>2. /\ c \in CallState \cup {Idle}
        /\ c # Idle => /\ c.began = call[q].began /\ c.op = call[q].op
                       /\ c.roles = assigned
    BY <2>1 DEF CallState, SessionOK, SessionTypes
  <2>3. call' = [call EXCEPT ![q] = c] /\ UNCHANGED <<time, assigned, heldUntil, typedAt, accessTokens>>
    BY <1>6 DEF ReadRoles, history, SessionOK, SessionTypes
  <2> HIDE DEF c
  <2>4. QED
    BY <2>1, <2>2, <2>3, ContinuedFits
<1>7. ASSUME NEW q \in Callers, Sign(q)
      PROVE  RightsInv'
  <2> DEFINE k == AccessToken(call[q])
  <2>1. call[q] # Idle /\ call[q] \in CallState /\ CallFits(call[q])
    BY <1>7 DEF Sign, RightsInv, SessionOK, SessionTypes, Idle
  <2>2. TokenFits(k)
    <3>1. /\ k.roles = call[q].roles /\ k.began = call[q].began /\ k.issuedAt = time
          /\ k.stepUpAt = IF call[q].op = "stepUp" THEN time ELSE Absent
      BY DEF AccessToken
    <3>2. QED
      BY <2>1, <3>1 DEF TokenFits, CallFits, CallState, SessionOK, SessionTypes
  <2>3. /\ call' = [call EXCEPT ![q] = Idle]
        /\ UNCHANGED <<time, assigned, heldUntil, typedAt>>
        /\ accessTokens' = accessTokens \cup {k}
    BY <1>7 DEF Sign
  <2> HIDE DEF k
  <2>4. QED
    BY <2>1, <2>2, <2>3, ContinuedFits
<1>8. ASSUME time' \in Nat, time' >= time,
             \A r \in Assignments :
                \/ heldUntil'[r] = heldUntil[r] /\ (r \in assigned => r \in assigned')
                \/ heldUntil'[r] = time,
             UNCHANGED <<call, accessTokens, typedAt>>
      PROVE  RightsInv'
  <2>1. /\ \A c \in CallState : CallFits(c) => CallFits(c)'
        /\ \A k : TokenFits(k) => TokenFits(k)'
    BY <1>8, StillFits
  <2>2. \A k \in accessTokens' : TokenFits(k)'
    BY <1>8, <2>1 DEF RightsInv
  <2>3. (typedAt \in Nat => typedAt <= time)'
    BY <1>8 DEF RightsInv, SessionOK, SessionTypes
  <2>4. ASSUME NEW p \in Callers, call'[p] # Idle
        PROVE  CallFits(call[p])'
    <3>1. call[p] \in CallState /\ CallFits(call[p]) /\ call'[p] = call[p]
      BY <1>8, <2>4 DEF RightsInv, SessionOK, SessionTypes
    <3>2. PICK c \in CallState : c = call[p] /\ c = call'[p] /\ CallFits(c)
      BY <3>1
    <3>3. CallFits(c)'
      BY <2>1, <3>2
    <3>4. QED
      BY <3>2, <3>3 DEF CallFits, TypedSince, HeldSince
  <2>5. QED
    BY <2>2, <2>3, <2>4 DEF RightsInv
<1>9. ASSUME NEW t \in returned, Logout(t)
      PROVE  RightsInv'
  BY <1>8, <1>9 DEF Logout, SessionOK, SessionTypes
<1>10. ASSUME NEW r \in Assignments, ChangeRole(r)
      PROVE  RightsInv'
  <2>1. \A x \in Assignments :
           \/ heldUntil'[x] = heldUntil[x] /\ (x \in assigned => x \in assigned')
           \/ heldUntil'[x] = time
    BY <1>10 DEF ChangeRole, SessionOK, SessionTypes
  <2>2. QED
    BY <1>8, <1>10, <2>1 DEF ChangeRole, SessionOK, SessionTypes
<1>11. CASE PassTime
  BY <1>8, <1>11 DEF PassTime, history, SessionOK, SessionTypes
<1>12. CASE UNCHANGED sessionVars
  BY <1>8, <1>12 DEF sessionVars, history, SessionOK, SessionTypes
<1>13. QED
  BY <1>1, <1>2, <1>3, <1>4, <1>5, <1>6, <1>7, <1>9, <1>10, <1>11, <1>12 DEF SessionNext

\* More roles permit no less.
LEMMA MorePermits ==
    ASSUME NEW roles, NEW more, roles \subseteq more, NEW n, NEW x, Permitted(roles, n, x)
    PROVE  Permitted(more, n, x)
<1>1. Grants(roles, n.permission) \subseteq Grants(more, n.permission)
  BY DEF Grants
<1>2. QED
  BY <1>1 DEF Permitted, Covers

\* What a token is good for, its user had the roles and entered the password for,
\* within its lifetime, for any roles, routes, callers and times.
THEOREM RightsDoFade == SessionSpec => []RightsFade
<1>1. SessionInit => RightsInv
  <2>1. SUFFICES ASSUME SessionInit PROVE RightsInv
    OBVIOUS
  <2>2. SessionOK /\ time \in Nat /\ typedAt \notin Nat
    BY <2>1, TypesInit, SessionAssumption DEF SessionInit
  <2>3. /\ \A q \in Callers : call[q] = Idle
        /\ accessTokens = {}
    BY <2>1 DEF SessionInit
  <2>4. QED
    BY <2>2, <2>3 DEF RightsInv
<1>2. RightsInv /\ [SessionNext]_sessionVars => RightsInv'
  BY RightsNext
<1>3. RightsInv => RightsFade
  <2>1. SUFFICES ASSUME RightsInv, NEW k \in accessTokens, Usable(k), NEW n, NEW x,
                        CanActivate(k, n, x)
                 PROVE  /\ Permitted(HeldWithin(AccessTtl + (k.issuedAt - k.began)), n, x)
                        /\ n.requiresStepUp => time - typedAt <= StepUpWindow + (k.issuedAt - k.began)
    BY DEF RightsFade
  <2>2. /\ TokenFits(k) /\ time \in Nat
        /\ k.began \in Nat /\ k.issuedAt \in Nat
        /\ heldUntil \in [Assignments -> Nat \cup {Absent}]
    <3>1. TokenFits(k)
      BY <2>1 DEF RightsInv
    <3>2. QED
      BY <2>1, <3>1 DEF RightsInv, SessionOK, SessionTypes, TokenFits
  <2>3. k.roles \subseteq HeldWithin(AccessTtl + (k.issuedAt - k.began))
    <3>1. SUFFICES ASSUME NEW r \in k.roles, r \notin assigned
                   PROVE  /\ r \in Assignments /\ heldUntil[r] # Absent
                          /\ time - heldUntil[r] < AccessTtl + (k.issuedAt - k.began)
      BY DEF HeldWithin
    <3>2. r \in Assignments /\ heldUntil[r] \in Nat /\ heldUntil[r] >= k.began
      BY <2>2, <3>1 DEF TokenFits, HeldSince
    <3>3. QED
      BY <2>1, <2>2, <3>2, SessionAssumption DEF Usable
  <2>4. Permitted(HeldWithin(AccessTtl + (k.issuedAt - k.began)), n, x)
    BY <2>1, <2>3, MorePermits DEF CanActivate
  <2>5. ASSUME n.requiresStepUp
        PROVE  time - typedAt <= StepUpWindow + (k.issuedAt - k.began)
    <3>1. k.stepUpAt # Absent /\ time - k.stepUpAt <= StepUpWindow
      BY <2>1, <2>5 DEF CanActivate, IsStepUpFresh
    <3>2. k.stepUpAt = k.issuedAt /\ typedAt \in Nat /\ typedAt >= k.began
      BY <2>2, <3>1 DEF TokenFits, TypedSince
    <3>3. QED
      BY <2>2, <3>1, <3>2, SessionAssumption
  <2>6. QED
    BY <2>4, <2>5
<1>4. QED
  BY <1>1, <1>2, <1>3, PTL DEF SessionSpec


-----------------------------------------------------------------------------
(* Sessions: the tokens of a session *)

\* The rows of a session that no exchange has read, and its exchanges.
Loose(s) ==
    {t \in DOMAIN refreshTokens :
        refreshTokens[t].session = s /\ ~refreshTokens[t].revoked /\ Exchanging(t) = {}}

Exchanges(s, stages) ==
    {q \in Callers : call[q].at \in stages /\ refreshTokens[call[q].token].session = s}

Busy(s) == Exchanges(s, {"revoke", "issue"})

TokensInv ==
    /\ SessionOK
    /\ \A s \in DOMAIN allowance : Cardinality(Loose(s)) + Cardinality(Busy(s)) <= allowance[s]

LEMMA FiniteSessions ==
    ASSUME SessionOK, NEW s
    PROVE  /\ IsFiniteSet(Loose(s)) /\ IsFiniteSet(Busy(s))
           /\ Cardinality(Loose(s)) \in Nat /\ Cardinality(Busy(s)) \in Nat
<1>1. IsFiniteSet(1..Len(refreshTokens)) /\ DOMAIN refreshTokens = 1..Len(refreshTokens)
  BY FS_Interval DEF SessionOK, SessionTypes
<1>2. Loose(s) \subseteq 1..Len(refreshTokens) /\ Busy(s) \subseteq Callers
  BY <1>1 DEF Loose, Busy, Exchanges
<1>3. IsFiniteSet(Loose(s)) /\ IsFiniteSet(Busy(s))
  BY <1>1, <1>2, FS_Subset, SessionAssumption DEF SessionAssumption
<1>4. QED
  BY <1>3, FS_CardinalityType

\* What a step may do to a session s, with a row t and an exchange q.
StepOfSession(s, t, q) ==
    \/ Loose(s)' \subseteq Loose(s) /\ Busy(s)' \subseteq Busy(s) /\ allowance'[s] = allowance[s]
    \/ /\ t \in Loose(s) /\ Loose(s)' \subseteq Loose(s) \ {t}
       /\ Busy(s)' \subseteq Busy(s) \cup {q} /\ allowance'[s] = allowance[s]
    \/ /\ Loose(s)' \subseteq Loose(s) /\ Busy(s)' \subseteq Busy(s) \cup {q}
       /\ allowance'[s] = allowance[s] + 1
    \/ /\ q \in Busy(s) /\ Busy(s)' \subseteq Busy(s) \ {q}
       /\ Loose(s)' \subseteq Loose(s) \cup {t} /\ allowance'[s] = allowance[s]
    \/ /\ t \in Loose(s) /\ Loose(s)' \subseteq Loose(s) \ {t}
       /\ Busy(s)' \subseteq Busy(s) /\ allowance'[s] = allowance[s] - 1

LEMMA StaysAccounted ==
    ASSUME TokensInv, NEW s \in DOMAIN allowance, NEW t, NEW q, StepOfSession(s, t, q)
    PROVE  Cardinality(Loose(s)') + Cardinality(Busy(s)') <= allowance'[s]
<1>1. /\ IsFiniteSet(Loose(s)) /\ IsFiniteSet(Busy(s)) /\ allowance[s] \in Int
      /\ Cardinality(Loose(s)) + Cardinality(Busy(s)) <= allowance[s]
  BY FiniteSessions DEF TokensInv, SessionOK, SessionTypes
<1> DEFINE rows == Loose(s)  busy == Busy(s)  nextRows == Loose(s)'  nextBusy == Busy(s)'
           limit == allowance[s]  nextLimit == allowance'[s]
<1>2. \/ nextRows \subseteq rows /\ nextBusy \subseteq busy /\ nextLimit = limit
      \/ /\ t \in rows /\ nextRows \subseteq rows \ {t}
         /\ nextBusy \subseteq busy \cup {q} /\ nextLimit = limit
      \/ nextRows \subseteq rows /\ nextBusy \subseteq busy \cup {q} /\ nextLimit = limit + 1
      \/ /\ q \in busy /\ nextBusy \subseteq busy \ {q}
         /\ nextRows \subseteq rows \cup {t} /\ nextLimit = limit
      \/ /\ t \in rows /\ nextRows \subseteq rows \ {t}
         /\ nextBusy \subseteq busy /\ nextLimit = limit - 1
  BY DEF StepOfSession
<1>3. /\ IsFiniteSet(rows) /\ IsFiniteSet(busy) /\ limit \in Int
      /\ Cardinality(rows) + Cardinality(busy) <= limit
  BY <1>1
<1> SUFFICES Cardinality(nextRows) + Cardinality(nextBusy) <= nextLimit
  OBVIOUS
<1> HIDE DEF rows, busy, nextRows, nextBusy, limit, nextLimit
<1>4. /\ IsFiniteSet(rows \cup {t}) /\ IsFiniteSet(rows \ {t})
      /\ IsFiniteSet(busy \cup {q}) /\ IsFiniteSet(busy \ {q})
  BY <1>3, FS_AddElement, FS_RemoveElement
<1>5. /\ Cardinality(rows) \in Nat /\ Cardinality(busy) \in Nat
      /\ Cardinality(rows \cup {t}) <= Cardinality(rows) + 1
      /\ Cardinality(busy \cup {q}) <= Cardinality(busy) + 1
      /\ t \in rows => Cardinality(rows \ {t}) = Cardinality(rows) - 1
      /\ q \in busy => Cardinality(busy \ {q}) = Cardinality(busy) - 1
  <2>1. Cardinality(rows) \in Nat /\ Cardinality(busy) \in Nat
    BY <1>3, FS_CardinalityType
  <2>2. Cardinality(rows \cup {t}) <= Cardinality(rows) + 1
    <3>1. Cardinality(rows \cup {t}) =
             IF t \in rows THEN Cardinality(rows) ELSE Cardinality(rows) + 1
      BY <1>3, FS_AddElement
    <3>2. QED
      BY <2>1, <3>1
  <2>3. Cardinality(busy \cup {q}) <= Cardinality(busy) + 1
    <3>1. Cardinality(busy \cup {q}) =
             IF q \in busy THEN Cardinality(busy) ELSE Cardinality(busy) + 1
      BY <1>3, FS_AddElement
    <3>2. QED
      BY <2>1, <3>1
  <2>4. QED
    BY <1>3, <2>1, <2>2, <2>3, FS_RemoveElement
<1>6. /\ Cardinality(rows \cup {t}) \in Nat /\ Cardinality(busy \cup {q}) \in Nat
      /\ Cardinality(rows \ {t}) \in Nat /\ Cardinality(busy \ {q}) \in Nat
  BY <1>4, FS_CardinalityType
<1>7. ASSUME NEW S, NEW T, IsFiniteSet(S), T \subseteq S
      PROVE  Cardinality(T) \in Nat /\ Cardinality(T) <= Cardinality(S)
  <2>1. IsFiniteSet(T) /\ Cardinality(T) <= Cardinality(S)
    BY <1>7, FS_Subset
  <2>2. QED
    BY <2>1, FS_CardinalityType
<1>8. CASE nextRows \subseteq rows /\ nextBusy \subseteq busy /\ nextLimit = limit
  <2>1. /\ Cardinality(nextRows) \in Nat /\ Cardinality(nextRows) <= Cardinality(rows)
        /\ Cardinality(nextBusy) \in Nat /\ Cardinality(nextBusy) <= Cardinality(busy)
    BY <1>3, <1>7, <1>8
  <2>2. QED
    BY <1>3, <1>5, <1>8, <2>1
<1>9. CASE /\ t \in rows /\ nextRows \subseteq rows \ {t}
           /\ nextBusy \subseteq busy \cup {q} /\ nextLimit = limit
  <2>1. /\ Cardinality(nextRows) \in Nat /\ Cardinality(nextRows) <= Cardinality(rows \ {t})
        /\ Cardinality(nextBusy) \in Nat /\ Cardinality(nextBusy) <= Cardinality(busy \cup {q})
    BY <1>3, <1>4, <1>7, <1>9
  <2>2. QED
    BY <1>3, <1>5, <1>6, <1>9, <2>1
<1>10. CASE nextRows \subseteq rows /\ nextBusy \subseteq busy \cup {q} /\ nextLimit = limit + 1
  <2>1. /\ Cardinality(nextRows) \in Nat /\ Cardinality(nextRows) <= Cardinality(rows)
        /\ Cardinality(nextBusy) \in Nat /\ Cardinality(nextBusy) <= Cardinality(busy \cup {q})
    BY <1>3, <1>4, <1>7, <1>10
  <2>2. QED
    BY <1>3, <1>5, <1>6, <1>10, <2>1
<1>11. CASE /\ q \in busy /\ nextBusy \subseteq busy \ {q}
           /\ nextRows \subseteq rows \cup {t} /\ nextLimit = limit
  <2>1. /\ Cardinality(nextRows) \in Nat /\ Cardinality(nextRows) <= Cardinality(rows \cup {t})
        /\ Cardinality(nextBusy) \in Nat /\ Cardinality(nextBusy) <= Cardinality(busy \ {q})
    BY <1>3, <1>4, <1>7, <1>11
  <2>2. QED
    BY <1>3, <1>5, <1>6, <1>11, <2>1
<1>12. CASE /\ t \in rows /\ nextRows \subseteq rows \ {t}
           /\ nextBusy \subseteq busy /\ nextLimit = limit - 1
  <2>1. /\ Cardinality(nextRows) \in Nat /\ Cardinality(nextRows) <= Cardinality(rows \ {t})
        /\ Cardinality(nextBusy) \in Nat /\ Cardinality(nextBusy) <= Cardinality(busy)
    BY <1>3, <1>4, <1>7, <1>12
  <2>2. QED
    BY <1>3, <1>5, <1>6, <1>12, <2>1
<1>13. QED
  BY <1>2, <1>8, <1>9, <1>10, <1>11, <1>12

\* Neither the rows nor an exchange of them.
Elsewhere ==
    /\ UNCHANGED <<refreshTokens, allowance>>
    /\ \A q \in Callers :
          \/ call'[q] = call[q]
          \/ call[q].at \notin {"revoke", "issue"} /\ call'[q].at \notin {"revoke", "issue"}

LEMMA TokensElsewhere ==
    ASSUME TokensInv, SessionOK', Elsewhere
    PROVE  TokensInv'
<1>1. ASSUME NEW s \in DOMAIN allowance
      PROVE  Loose(s)' = Loose(s) /\ Busy(s)' = Busy(s)
  BY DEF Elsewhere, Loose, Busy, Exchanges, Exchanging
<1>2. QED
  BY <1>1 DEF Elsewhere, TokensInv

LEMMA TokensNext ==
    ASSUME TokensInv, [SessionNext]_sessionVars
    PROVE  TokensInv'
<1> SessionOK /\ SessionOK'
  BY TypesNext DEF TokensInv
<1>1. ASSUME DOMAIN allowance' = DOMAIN allowance,
             \A s \in DOMAIN allowance : \E t, q : StepOfSession(s, t, q)
      PROVE  TokensInv'
  BY <1>1, StaysAccounted DEF TokensInv
<1>2. ASSUME NEW q \in Callers, Login(q)
      PROVE  TokensInv'
  <2>1. Elsewhere
    BY <1>2 DEF Login, BeginCall, Idle, Elsewhere, SessionOK, SessionTypes
  <2>2. QED
    BY <2>1, TokensElsewhere
<1>3. ASSUME NEW q \in Callers, StepUp(q)
      PROVE  TokensInv'
  <2>1. Elsewhere
    BY <1>3 DEF StepUp, BeginCall, Idle, Elsewhere, SessionOK, SessionTypes
  <2>2. QED
    BY <2>1, TokensElsewhere
<1>4. ASSUME NEW q \in Callers, NEW t \in returned, Refresh(q, t)
      PROVE  TokensInv'
  <2> DEFINE home == refreshTokens[t].session
             begun == [at |-> "revoke", op |-> "refresh", token |-> t, roles |-> {}, began |-> time]
  <2>1. /\ t \in DOMAIN refreshTokens /\ ~refreshTokens[t].revoked
        /\ call[q].at = "idle" /\ refreshTokens' = refreshTokens
        /\ call' = [call EXCEPT ![q] = begun]
        /\ begun.at = "revoke" /\ begun.token = t
        /\ home \in DOMAIN allowance
    BY <1>4 DEF Refresh, BeginCall, Exchangeable, Idle, SessionOK, SessionTypes, RowsFit
  <2>2. allowance' = IF Exchanging(t) = {} THEN allowance
                     ELSE [allowance EXCEPT ![home] = allowance[home] + 1]
    BY <1>4 DEF Refresh
  <2> HIDE DEF home, begun
  <2>3. DOMAIN allowance' = DOMAIN allowance
        /\ \A s \in DOMAIN allowance :
              allowance'[s] = IF s = home /\ Exchanging(t) # {} THEN allowance[s] + 1 ELSE allowance[s]
    BY <2>1, <2>2 DEF SessionOK, SessionTypes
  <2>4. \A p \in Callers : call'[p] = IF p = q THEN begun ELSE call[p]
    BY <2>1 DEF SessionOK, SessionTypes
  <2>5. \A u : Exchanging(u)' = IF u = t THEN Exchanging(u) \cup {q} ELSE Exchanging(u)
    BY <2>1, <2>4 DEF Exchanging
  <2>6. ASSUME NEW s \in DOMAIN allowance
        PROVE  StepOfSession(s, t, q)
    <3>1. Busy(s)' \subseteq Busy(s) \cup {q} /\ (s # home => Busy(s)' = Busy(s))
      BY <2>1, <2>4 DEF Busy, Exchanges, home
    <3>2. Loose(s)' = Loose(s) \ {t}
      BY <2>1, <2>5 DEF Loose
    <3>3. s = home /\ Exchanging(t) = {} => t \in Loose(s)
      BY <2>1 DEF Loose, home
    <3>4. CASE s # home
      BY <2>3, <3>1, <3>2, <3>4 DEF StepOfSession
    <3>5. CASE s = home /\ Exchanging(t) = {}
      BY <2>3, <3>1, <3>2, <3>3, <3>5 DEF StepOfSession
    <3>6. CASE s = home /\ Exchanging(t) # {}
      BY <2>3, <3>1, <3>2, <3>6 DEF StepOfSession
    <3>7. QED
      BY <3>4, <3>5, <3>6
  <2>7. QED
    BY <1>1, <2>3, <2>6
<1>5. ASSUME NEW q \in Callers, RevokeExchanged(q)
      PROVE  TokensInv'
  <2> DEFINE t == call[q].token
             next == [call[q] EXCEPT !.at = "issue"]
  <2>1. call[q] \in CallState /\ t \in DOMAIN refreshTokens /\ call[q].at = "revoke"
    BY <1>5 DEF RevokeExchanged, SessionOK, SessionTypes, RowsFit, Idle
  <2>2. /\ DOMAIN refreshTokens' = DOMAIN refreshTokens
        /\ \A u \in DOMAIN refreshTokens :
              /\ refreshTokens'[u].session = refreshTokens[u].session
              /\ refreshTokens'[u].revoked <=> (u = t \/ refreshTokens[u].revoked)
    BY <1>3, <1>5, <2>1, RevokedRows DEF RevokeExchanged
  <2>3. next.at = "issue" /\ next.token = t
    BY <2>1 DEF CallState
  <2>4. call' = [call EXCEPT ![q] = next] /\ allowance' = allowance
    BY <1>3, <1>5, <2>1 DEF RevokeExchanged, history, SessionOK, SessionTypes
  <2> HIDE DEF next
  <2>5. \A p \in Callers : call'[p] = IF p = q THEN next ELSE call[p]
    BY <2>4 DEF SessionOK, SessionTypes
  <2>6. \A u : u # t => Exchanging(u)' = Exchanging(u)
    BY <2>1, <2>3, <2>5 DEF Exchanging
  <2>7. ASSUME NEW s \in DOMAIN allowance
        PROVE  StepOfSession(s, t, q)
    <3>1. Loose(s)' \subseteq Loose(s)
      BY <2>2, <2>6 DEF Loose
    <3>2. Busy(s)' \subseteq Busy(s)
      <4>1. ASSUME NEW p \in Callers, call'[p].at \in {"revoke", "issue"},
                   refreshTokens'[call'[p].token].session = s
            PROVE  p \in Busy(s)
        <5>1. call'[p].token = call[p].token /\ call[p].at \in {"revoke", "issue"}
          BY <2>1, <2>3, <2>5, <4>1
        <5>2. call[p].token \in DOMAIN refreshTokens
          BY <5>1 DEF SessionOK, RowsFit, Idle
        <5>3. QED
          BY <2>2, <4>1, <5>1, <5>2 DEF Busy, Exchanges
      <4>2. QED
        BY <4>1 DEF Busy, Exchanges
    <3>3. QED
      BY <2>4, <3>1, <3>2 DEF StepOfSession
  <2>8. QED
    BY <1>1, <2>4, <2>7
<1>6. ASSUME NEW q \in Callers, IssueNext(q)
      PROVE  TokensInv'
  <2> DEFINE home == refreshTokens[call[q].token].session
             t == Len(refreshTokens) + 1
             next == [call[q] EXCEPT !.at = "roles", !.token = t]
  <2>1. call[q] \in CallState /\ call[q].token \in DOMAIN refreshTokens /\ call[q].at = "issue"
    BY <1>6 DEF IssueNext, SessionOK, SessionTypes, RowsFit, Idle
  <2>2. home \in DOMAIN allowance /\ home \in Nat
    BY <2>1 DEF SessionOK, SessionTypes, RowsFit
  <2>3. refreshTokens' = Append(refreshTokens, NewRow(home))
    BY <1>6 DEF IssueNext
  <2>4. next.at = "roles"
    BY <2>1 DEF CallState
  <2>5. call' = [call EXCEPT ![q] = next] /\ allowance' = allowance
    BY <1>6, <2>1 DEF IssueNext, history, SessionOK, SessionTypes
  <2>6. q \in Busy(home)
    BY <2>1 DEF Busy, Exchanges
  <2> HIDE DEF home, next
  <2>7. /\ DOMAIN refreshTokens' = DOMAIN refreshTokens \cup {t}
        /\ \A u \in DOMAIN refreshTokens : refreshTokens'[u] = refreshTokens[u]
        /\ refreshTokens'[t].session = home
    BY <2>2, <2>3, AddedRow DEF NewRow
  <2> HIDE DEF t
  <2>8. \A p \in Callers : call'[p] = IF p = q THEN next ELSE call[p]
    BY <2>5 DEF SessionOK, SessionTypes
  <2>9. \A u : Exchanging(u)' = Exchanging(u)
    BY <2>1, <2>4, <2>8 DEF Exchanging
  <2>10. ASSUME NEW s \in DOMAIN allowance
         PROVE  StepOfSession(s, t, q)
    <3>1. /\ Loose(s)' \subseteq Loose(s) \cup {t}
          /\ s # home => Loose(s)' \subseteq Loose(s)
      BY <2>7, <2>9 DEF Loose
    <3>2. Busy(s)' \subseteq Busy(s) \ {q}
      <4>1. ASSUME NEW p \in Callers, call'[p].at \in {"revoke", "issue"},
                   refreshTokens'[call'[p].token].session = s
            PROVE  p \in Busy(s) /\ p # q
        <5>1. p # q /\ call'[p] = call[p]
          BY <2>4, <2>8, <4>1
        <5>2. call[p].token \in DOMAIN refreshTokens
          BY <4>1, <5>1 DEF SessionOK, RowsFit, Idle
        <5>3. QED
          BY <2>7, <4>1, <5>1, <5>2 DEF Busy, Exchanges
      <4>2. QED
        BY <4>1 DEF Busy, Exchanges
    <3>3. CASE s = home
      BY <2>5, <2>6, <3>1, <3>2, <3>3 DEF StepOfSession
    <3>4. CASE s # home
      BY <2>5, <3>1, <3>2, <3>4 DEF StepOfSession
    <3>5. QED
      BY <3>3, <3>4
  <2>11. QED
    BY <1>1, <2>5, <2>10
<1>7. ASSUME NEW q \in Callers, ReadRoles(q)
      PROVE  TokensInv'
  <2>1. call[q] \in CallState /\ call[q].at = "roles"
    BY <1>7 DEF ReadRoles, SessionOK, SessionTypes, Idle
  <2>2. PICK c \in CallState \cup {Idle} : call' = [call EXCEPT ![q] = c] /\ c.at \in {"idle", "sign"}
    <3>1. CASE assigned = {}
      <4>1. call' = [call EXCEPT ![q] = Idle]
        BY <1>7, <3>1 DEF ReadRoles
      <4>2. Idle.at = "idle"
        BY DEF Idle
      <4>3. QED
        BY <4>1, <4>2
    <3>2. CASE assigned # {}
      <4> DEFINE c == [call[q] EXCEPT !.at = "sign", !.roles = assigned]
      <4>1. c \in CallState /\ c.at = "sign"
        BY <2>1 DEF SessionOK, SessionTypes, CallState
      <4>2. call' = [call EXCEPT ![q] = c]
        BY <1>7, <3>2 DEF ReadRoles, SessionOK, SessionTypes
      <4>3. QED
        BY <4>1, <4>2
    <3>3. QED
      BY <3>1, <3>2
  <2>3. Elsewhere
    BY <1>7, <2>1, <2>2 DEF ReadRoles, history, Elsewhere, SessionOK, SessionTypes
  <2>4. QED
    BY <2>3, TokensElsewhere
<1>8. ASSUME NEW q \in Callers, Sign(q)
      PROVE  TokensInv'
  <2>1. call[q] \in CallState /\ call[q].at = "sign" /\ call' = [call EXCEPT ![q] = Idle]
    BY <1>8 DEF Sign, SessionOK, SessionTypes, Idle
  <2>2. \A p \in Callers : call'[p] = IF p = q THEN Idle ELSE call[p]
    BY <2>1 DEF SessionOK, SessionTypes
  <2>3. CASE call[q].op # "login"
    <3>1. UNCHANGED <<refreshTokens, allowance>>
      BY <1>8, <2>1, <2>3 DEF Sign, CallState
    <3>2. Elsewhere
      BY <2>1, <2>2, <3>1 DEF Elsewhere, Idle
    <3>3. QED
      BY <3>2, TokensElsewhere
  <2>4. CASE call[q].op = "login"
    <3>a. PICK home, t : home = Len(allowance) + 1 /\ t = Len(refreshTokens) + 1
      OBVIOUS
    <3>1. /\ refreshTokens' = Append(refreshTokens, NewRow(home))
          /\ allowance' = Append(allowance, 1)
      BY <1>8, <2>4, <3>a DEF Sign
    <3>2. /\ home \in Nat /\ home \notin DOMAIN allowance
          /\ DOMAIN allowance' = DOMAIN allowance \cup {home}
          /\ \A s \in DOMAIN allowance : allowance'[s] = allowance[s]
          /\ allowance'[home] = 1
      BY <3>a, <3>1 DEF SessionOK, SessionTypes
    <3>3. /\ DOMAIN refreshTokens' = DOMAIN refreshTokens \cup {t}
          /\ \A u \in DOMAIN refreshTokens : refreshTokens'[u] = refreshTokens[u]
          /\ refreshTokens'[t].session = home
      BY <3>a, <3>1, <3>2, AddedRow DEF NewRow
    <3>4. \A u : Exchanging(u)' = Exchanging(u)
      BY <2>1, <2>2 DEF Exchanging, Idle
    <3>5. ASSUME NEW s, NEW p \in Callers, call'[p].at \in {"revoke", "issue"},
                 refreshTokens'[call'[p].token].session = s
          PROVE  p \in Busy(s) /\ s \in DOMAIN allowance
      <4>1. p # q /\ call'[p] = call[p]
        BY <2>2, <3>5 DEF Idle
      <4>2. call[p].token \in DOMAIN refreshTokens
        BY <3>5, <4>1 DEF SessionOK, RowsFit, Idle
      <4>3. QED
        BY <3>3, <3>5, <4>1, <4>2 DEF Busy, Exchanges, SessionOK, RowsFit
    <3>6. ASSUME NEW s \in DOMAIN allowance
          PROVE  StepOfSession(s, t, q)
      <4>1. Loose(s)' \subseteq Loose(s)
        BY <3>2, <3>3, <3>4 DEF Loose
      <4>2. Busy(s)' \subseteq Busy(s)
        BY <3>5 DEF Busy, Exchanges
      <4>3. QED
        BY <3>2, <4>1, <4>2 DEF StepOfSession
    <3>7. Cardinality(Loose(home)') + Cardinality(Busy(home)') <= allowance'[home]
      <4>1. Busy(home)' = {}
        <5>1. SUFFICES ASSUME NEW p \in Busy(home)' PROVE FALSE
          OBVIOUS
        <5>2. /\ p \in Callers /\ call'[p].at \in {"revoke", "issue"}
              /\ refreshTokens'[call'[p].token].session = home
          BY <5>1 DEF Busy, Exchanges
        <5>3. QED
          BY <3>2, <3>5, <5>2
      <4>2. Loose(home)' \subseteq {t}
        <5>1. ASSUME NEW u \in DOMAIN refreshTokens
              PROVE  refreshTokens'[u].session # home
          BY <3>2, <3>3 DEF SessionOK, RowsFit
        <5>2. QED
          BY <3>3, <5>1 DEF Loose
      <4>3. IsFiniteSet({t}) /\ Cardinality({t}) = 1
        BY FS_Singleton
      <4>4. IsFiniteSet(Loose(home)') /\ Cardinality(Loose(home)') <= 1
        BY <4>2, <4>3, FS_Subset
      <4>5. Cardinality(Loose(home)') \in Nat
        BY <4>4, FS_CardinalityType
      <4>6. Cardinality(Busy(home)') = 0
        BY <4>1, FS_EmptySet
      <4>7. QED
        BY <3>2, <4>4, <4>5, <4>6
    <3>8. \A s \in DOMAIN allowance :
             Cardinality(Loose(s)') + Cardinality(Busy(s)') <= allowance'[s]
      BY <3>6, StaysAccounted
    <3>9. QED
      <4>1. ASSUME NEW s \in DOMAIN allowance'
            PROVE  Cardinality(Loose(s)') + Cardinality(Busy(s)') <= allowance'[s]
        BY <3>2, <3>7, <3>8
      <4>2. QED
        BY <4>1 DEF TokensInv
  <2>5. QED
    BY <2>3, <2>4
<1>9. ASSUME NEW t \in returned, Logout(t)
      PROVE  TokensInv'
  <2> DEFINE home == refreshTokens[t].session
  <2>1. t \in DOMAIN refreshTokens /\ home \in DOMAIN allowance /\ call' = call
    BY <1>9 DEF Logout, SessionOK, SessionTypes, RowsFit
  <2>2. /\ DOMAIN refreshTokens' = DOMAIN refreshTokens
        /\ \A u \in DOMAIN refreshTokens :
              /\ refreshTokens'[u].session = refreshTokens[u].session
              /\ refreshTokens'[u].revoked <=> (u = t \/ refreshTokens[u].revoked)
    BY <1>9, <2>1, RevokedRows DEF Logout
  <2>3. allowance' = IF t \in Loose(home) THEN [allowance EXCEPT ![home] = allowance[home] - 1]
                     ELSE allowance
    BY <1>9, <2>1 DEF Logout, Loose
  <2>4. \A u : Exchanging(u)' = Exchanging(u)
    BY <2>1 DEF Exchanging
  <2> HIDE DEF home
  <2>5. DOMAIN allowance' = DOMAIN allowance
        /\ \A s \in DOMAIN allowance :
              allowance'[s] = IF s = home /\ t \in Loose(home) THEN allowance[s] - 1 ELSE allowance[s]
    BY <2>1, <2>3 DEF SessionOK, SessionTypes
  <2>6. ASSUME NEW s \in DOMAIN allowance
        PROVE  StepOfSession(s, t, t)
    <3>1. Loose(s)' \subseteq Loose(s) \ {t}
      BY <2>2, <2>4 DEF Loose
    <3>2. Busy(s)' \subseteq Busy(s)
      <4>1. ASSUME NEW p \in Callers, call[p].at \in {"revoke", "issue"},
                   refreshTokens'[call[p].token].session = s
            PROVE  p \in Busy(s)
        <5>1. call[p].token \in DOMAIN refreshTokens
          BY <4>1 DEF SessionOK, RowsFit, Idle
        <5>2. QED
          BY <2>2, <4>1, <5>1 DEF Busy, Exchanges
      <4>2. QED
        BY <2>1, <4>1 DEF Busy, Exchanges
    <3>3. CASE s = home /\ t \in Loose(home)
      BY <2>5, <3>1, <3>2, <3>3 DEF StepOfSession
    <3>4. CASE ~(s = home /\ t \in Loose(home))
      BY <2>5, <3>1, <3>2, <3>4 DEF StepOfSession
    <3>5. QED
      BY <3>3, <3>4
  <2>7. QED
    BY <1>1, <2>5, <2>6
<1>10. ASSUME NEW r \in Assignments, ChangeRole(r)
       PROVE  TokensInv'
  BY <1>10, TokensElsewhere DEF ChangeRole, Elsewhere
<1>11. CASE PassTime
  BY <1>11, TokensElsewhere DEF PassTime, history, Elsewhere
<1>12. CASE UNCHANGED sessionVars
  BY <1>12, TokensElsewhere DEF sessionVars, history, Elsewhere
<1>13. QED
  BY <1>2, <1>3, <1>4, <1>5, <1>6, <1>7, <1>8, <1>9, <1>10, <1>11, <1>12 DEF SessionNext

\* The rows that an exchange has read and not revoked are no more than the calls
\* that have read them.
LEMMA ReadRowsHaveReaders ==
    ASSUME SessionOK, NEW s
    PROVE  Cardinality({t \in DOMAIN refreshTokens :
                           refreshTokens[t].session = s /\ ~refreshTokens[t].revoked})
             + Cardinality(Exchanges(s, {"issue"}))
           <= Cardinality(Loose(s)) + Cardinality(Busy(s))
<1> DEFINE open == {t \in DOMAIN refreshTokens :
                       refreshTokens[t].session = s /\ ~refreshTokens[t].revoked}
           readers == Exchanges(s, {"revoke"})
           issuers == Exchanges(s, {"issue"})
           tokens == {call[q].token : q \in readers}
           f == [q \in readers |-> call[q].token]
           pending == open \ Loose(s)
<1>1. /\ IsFiniteSet(Loose(s)) /\ IsFiniteSet(Busy(s))
      /\ Cardinality(Loose(s)) \in Nat /\ Cardinality(Busy(s)) \in Nat
  BY FiniteSessions
<1>2. Busy(s) = readers \cup issuers /\ readers \cap issuers = {}
  BY DEF Busy, Exchanges
<1>3. pending \subseteq tokens
  BY DEF Loose, Exchanging, Exchanges
<1>4. f \in Surjection(readers, tokens)
  BY DEF Surjection
<1>5. open = Loose(s) \cup pending /\ Loose(s) \cap pending = {}
  BY DEF Loose
<1> HIDE DEF open, readers, issuers, tokens, f, pending
<1>6. /\ IsFiniteSet(readers) /\ Cardinality(readers) \in Nat
      /\ IsFiniteSet(issuers) /\ Cardinality(issuers) \in Nat
  BY <1>1, <1>2, FS_Subset, FS_CardinalityType
<1>7. IsFiniteSet(tokens) /\ Cardinality(tokens) <= Cardinality(readers)
  BY <1>4, <1>6, FS_Surjection
<1>8. IsFiniteSet(pending) /\ Cardinality(pending) <= Cardinality(tokens)
  BY <1>3, <1>7, FS_Subset
<1>9. Cardinality(tokens) \in Nat /\ Cardinality(pending) \in Nat
  BY <1>7, <1>8, FS_CardinalityType
<1>10. Cardinality({}) = 0
  BY FS_EmptySet
<1>11. Cardinality(open) = Cardinality(Loose(s)) + Cardinality(pending)
  <2>1. Cardinality(Loose(s) \cup pending) =
           Cardinality(Loose(s)) + Cardinality(pending) - Cardinality(Loose(s) \cap pending)
    BY <1>1, <1>8, FS_Union
  <2>2. Cardinality(open) = Cardinality(Loose(s) \cup pending)
        /\ Cardinality(Loose(s) \cap pending) = 0
    BY <1>5, <1>10
  <2>3. QED
    BY <1>1, <1>9, <2>1, <2>2
<1>12. Cardinality(Busy(s)) = Cardinality(readers) + Cardinality(issuers)
  <2>1. Cardinality(readers \cup issuers) =
           Cardinality(readers) + Cardinality(issuers) - Cardinality(readers \cap issuers)
    BY <1>6, FS_Union
  <2>2. Cardinality(Busy(s)) = Cardinality(readers \cup issuers)
        /\ Cardinality(readers \cap issuers) = 0
    BY <1>2, <1>10
  <2>3. QED
    BY <1>6, <2>1, <2>2
<1>13. Cardinality(open) + Cardinality(issuers) <= Cardinality(Loose(s)) + Cardinality(Busy(s))
  BY <1>1, <1>6, <1>7, <1>8, <1>9, <1>11, <1>12
<1>14. QED
  BY <1>13 DEF open, issuers

\* A session has no refresh tokens but the one of its login, one more for every
\* exchange that overlapped another of the same token, and less those logged out,
\* for any number of callers and sessions.
THEOREM TokensAreAccountedFor == SessionSpec => []TokensAccountedFor
<1>1. SessionInit => TokensInv
  BY TypesInit DEF SessionInit, TokensInv
<1>2. TokensInv /\ [SessionNext]_sessionVars => TokensInv'
  BY TokensNext
<1>3. TokensInv => TokensAccountedFor
  <2>1. SUFFICES ASSUME TokensInv, NEW s \in DOMAIN allowance
                 PROVE  Cardinality({t \in DOMAIN refreshTokens :
                                        refreshTokens[t].session = s /\ ~refreshTokens[t].revoked})
                          + Cardinality({q \in Callers : call[q].at = "issue"
                                           /\ refreshTokens[call[q].token].session = s})
                        <= allowance[s]
    BY DEF TokensAccountedFor
  <2> DEFINE open == {t \in DOMAIN refreshTokens :
                         refreshTokens[t].session = s /\ ~refreshTokens[t].revoked}
             issuers == {q \in Callers : call[q].at = "issue"
                                           /\ refreshTokens[call[q].token].session = s}
  <2>2. /\ Cardinality(Loose(s)) + Cardinality(Busy(s)) <= allowance[s]
        /\ Cardinality(Loose(s)) \in Nat /\ Cardinality(Busy(s)) \in Nat
        /\ allowance[s] \in Int
    BY <2>1, FiniteSessions DEF TokensInv, SessionOK, SessionTypes
  <2>3. Cardinality(open) + Cardinality(issuers) <= Cardinality(Loose(s)) + Cardinality(Busy(s))
    <3>1. issuers = Exchanges(s, {"issue"})
      BY DEF Exchanges
    <3>2. SessionOK
      BY <2>1 DEF TokensInv
    <3> HIDE DEF issuers
    <3>3. QED
      BY <3>1, <3>2, ReadRowsHaveReaders
  <2>4. Cardinality(open) \in Nat /\ Cardinality(issuers) \in Nat
    <3>1. IsFiniteSet(1..Len(refreshTokens)) /\ DOMAIN refreshTokens = 1..Len(refreshTokens)
      BY <2>1, FS_Interval DEF TokensInv, SessionOK, SessionTypes
    <3>2. IsFiniteSet(open) /\ IsFiniteSet(issuers)
      BY <3>1, FS_Subset, SessionAssumption
    <3>3. QED
      BY <3>2, FS_CardinalityType
  <2> HIDE DEF open, issuers
  <2>5. Cardinality(open) + Cardinality(issuers) <= allowance[s]
    BY <2>2, <2>3, <2>4
  <2>6. QED
    BY <2>5 DEF open, issuers
<1>4. QED
  BY <1>1, <1>2, <1>3, PTL DEF SessionSpec

-----------------------------------------------------------------------------
(* All of them *)

\* The names of references and the users of employees are unique, deactivations
\* and the chains of salary versions stay, imports read as they were mapped, and
\* sessions have the tokens and the rights they should, in every behaviour of
\* the composition.
THEOREM IdentitiesAndTheRest ==
    MasterDataSpec => [](/\ IdentitiesUnique
                         /\ DeactivationSticks
                         /\ VersionsChain
                         /\ ReadAsMapped
                         /\ TokensAccountedFor
                         /\ RightsFade)
<1>1. MasterDataInit => RefInit /\ HrInit /\ SalaryInit /\ MappingInit /\ SessionInit
  BY DEF MasterDataInit
<1>2. [MasterDataNext]_<<refVars, hrVars, salaryVars, mappingVars, sessionVars, side>>
         => /\ [RefNext]_refVars /\ [HrNext]_hrVars /\ [SalaryNext]_salaryVars
            /\ [MappingNext]_mappingVars /\ [SessionNext]_sessionVars
  BY DEF MasterDataNext
<1>3. NamesUnique /\ UserLinkedOnce => IdentitiesUnique
  BY DEF IdentitiesUnique
<1>4. QED
  BY <1>1, <1>2, <1>3, ReferenceNamesUnique, DeactivationsStick, UsersLinkedOnce,
     SalaryVersionsChain, ImportsReadAsMapped, TokensAreAccountedFor, RightsDoFade, PTL
     DEF MasterDataSpec, RefSpec, HrSpec, SalarySpec, MappingSpec, SessionSpec
=============================================================================
