------------------------------ MODULE AuditChain ------------------------------
(***************************************************************************)
(* The audit log: each organization's entries form a hash chain, appended  *)
(* under an advisory lock by AuditLogService.record and checked by         *)
(* ChainVerifierService.verify.                                            *)
(*                                                                         *)
(* The hash is abstract and injective: the hash of an entry is the list of *)
(* what was hashed into it, so two hashes are equal when everything hashed *)
(* is.  createdAt has the resolution of the column, one millisecond, which *)
(* is one tick of the clock here.                                          *)
(***************************************************************************)
EXTENDS Naturals, Sequences, FiniteSets, SequencesExt

CONSTANTS
    Writers,         \* concurrent calls of record
    Organizations,
    Events,          \* what an entry says: its action and its payload
    Legacy,          \* the entries written before hash version 2 existed
    MaxEntries,      \* bound on the entries
    MaxClock,        \* bound on the clock
    OnePerTick       \* are two entries of an organization always a tick apart?

ASSUME OnePerTickType == OnePerTick \in BOOLEAN

VARIABLES
    log,       \* audit_log_entries in the order of insertion; an id is an index
    clock,     \* what new Date() returns, in milliseconds
    lock,      \* lock[o]: the writers that hold o's advisory lock
    writer,    \* writer[w]: what call w is doing
    altered    \* history: the entries whose content changed after they were written

chainVars == <<log, clock, lock, writer, altered>>

Ids(o) == {i \in DOMAIN log : log[i].organization = o}

-----------------------------------------------------------------------------
(* Hashes. *)

Genesis == <<>>

\* Version 1 covers who, what and when; version 2 the payload too.
Metadata(e) == <<e.organization, e.action, e.createdAt>>
EntryHashV1(prevHash, e) == Append(prevHash, <<1, Metadata(e)>>)

\* Mutation: the payload is still left out.
EntryHashOfMetadata(prevHash, e) == Append(prevHash, <<2, Metadata(e)>>)

EntryHashV2(prevHash, e) == Append(prevHash, <<2, Metadata(e), e.payload>>)

\* What the verifier recomputes from a stored row.
Recomputed(e) == IF e.version = 1 THEN EntryHashV1(e.prevHash, e) ELSE EntryHashV2(e.prevHash, e)

-----------------------------------------------------------------------------
(* Writing. *)

\* findFirst ordered by createdAt, descending: of the entries that tie, any.
Latest(o) == {i \in Ids(o) : \A j \in Ids(o) : log[j].createdAt <= log[i].createdAt}

NotWriting == [at |-> "idle"]

ChainInit ==
    /\ log = Legacy
    /\ clock = Len(Legacy) + 1
    /\ lock = [o \in Organizations |-> {}]
    /\ writer = [w \in Writers |-> NotWriting]
    /\ altered = {}

\* AuditSubscriber.handle: an event is recorded, perhaps not for the first time.
BeginRecord(w, o, e) ==
    /\ writer[w].at = "idle"
    /\ Len(log) + Cardinality({v \in Writers : writer[v].at # "idle"}) < MaxEntries
    /\ writer' = [writer EXCEPT ![w] = [at |-> "lock", organization |-> o, event |-> e]]
    /\ UNCHANGED <<log, clock, lock, altered>>

\* Mutation: the chain is read without waiting for the lock.
AnyTime(o) == TRUE

LockFree(o) == lock[o] = {}

\* pg_advisory_xact_lock, on the key of the organization.
TakeLock(w) ==
    /\ writer[w].at = "lock"
    /\ LockFree(writer[w].organization)
    /\ lock' = [lock EXCEPT ![writer[w].organization] = @ \cup {w}]
    /\ writer' = [writer EXCEPT ![w].at = "last"]
    /\ UNCHANGED <<log, clock, altered>>

\* The row that record creates: its hash covers what else it holds.
Entry(o, event, prevHash) ==
    LET Row(hash) == [organization |-> o, action |-> event.action, payload |-> event.payload,
                      createdAt |-> clock, version |-> 2, prevHash |-> prevHash,
                      entryHash |-> hash]
    IN  Row(EntryHashV2(prevHash, Row(Genesis)))

\* The latest entry is looked up and the new one built on it, hash and time.
Build(w) ==
    LET o == writer[w].organization
        prevHashes == IF Latest(o) = {} THEN {Genesis} ELSE {log[i].entryHash : i \in Latest(o)}
    IN  /\ writer[w].at = "last"
        /\ OnePerTick => \A i \in Ids(o) : log[i].createdAt < clock
        /\ \E prevHash \in prevHashes :
              writer' = [writer EXCEPT ![w] =
                            [at |-> "create", organization |-> o,
                             entry |-> Entry(o, writer[w].event, prevHash)]]
        /\ UNCHANGED <<log, clock, lock, altered>>

\* The row is inserted and the transaction commits, which frees the lock.
Insert(w) ==
    /\ writer[w].at = "create"
    /\ log' = Append(log, writer[w].entry)
    /\ lock' = [lock EXCEPT ![writer[w].organization] = @ \ {w}]
    /\ writer' = [writer EXCEPT ![w] = NotWriting]
    /\ UNCHANGED <<clock, altered>>

\* A timeout, a lost connection or a crash rolls the transaction back.
Rollback(w) ==
    /\ writer[w].at # "idle"
    /\ lock' = [lock EXCEPT ![writer[w].organization] = @ \ {w}]
    /\ writer' = [writer EXCEPT ![w] = NotWriting]
    /\ UNCHANGED <<log, clock, altered>>

Tick ==
    /\ clock < MaxClock
    /\ clock' = clock + 1
    /\ UNCHANGED <<log, lock, writer, altered>>

\* A stored row changes behind the service's back: its payload, or its version.
\* (The payload of a version 1 row was never hashed: its action stands for it.)
Alter(i) ==
    /\ \/ log' = [log EXCEPT ![i].action = "altered"]
       \/ log[i].version = 2 /\ log' = [log EXCEPT ![i].payload = "altered"]
       \/ log' = [log EXCEPT ![i].version = 3]
    /\ altered' = altered \cup {i}
    /\ UNCHANGED <<clock, lock, writer>>

ChainNext ==
    \/ \E w \in Writers :
          \/ \E o \in Organizations, e \in Events : BeginRecord(w, o, e)
          \/ TakeLock(w)
          \/ Build(w)
          \/ Insert(w)
          \/ Rollback(w)
    \/ Tick
    \/ \E i \in DOMAIN log : Alter(i)

ChainSpec == ChainInit /\ [][ChainNext]_chainVars

-----------------------------------------------------------------------------
(* Verifying. *)

\* The orders in which findMany may return an organization's rows: createdAt
\* ascending, rows that tie either way.
Readings(o) ==
    {s \in SetToSeqs(Ids(o)) :
        \A p, q \in DOMAIN s : p < q => log[s[p]].createdAt <= log[s[q]].createdAt}

\* What the loop says of the row at place p of reading s.
RowVerdict(s, p) ==
    LET e == log[s[p]]
        expectedPrevHash == IF p = 1 THEN Genesis ELSE log[s[p - 1]].entryHash
    IN  IF e.prevHash # expectedPrevHash THEN "linkage"
        ELSE IF e.version \notin {1, 2} THEN "unrecognized-version"
        ELSE IF Recomputed(e) # e.entryHash THEN "content"
        ELSE "none"

\* The place of firstMismatchId, or 0 when the chain is valid.
FirstMismatch(s) ==
    LET wrong == {p \in DOMAIN s : RowVerdict(s, p) # "none"}
    IN  IF wrong = {} THEN 0 ELSE CHOOSE p \in wrong : \A q \in wrong : p <= q

-----------------------------------------------------------------------------
(* Properties *)

\* The writers of an organization never build two entries on the same one: the
\* chain does not fork, in whatever order calls of record overlap or fail.
ChainDoesNotFork ==
    \A o \in Organizations : \A i, j \in Ids(o) : log[i].prevHash = log[j].prevHash => i = j

\* The verifier is right whichever way it reads rows written together: it accepts
\* a chain whose rows nobody altered, and of one with altered rows it names the
\* first of them, for what that row holds and not for its place in the chain.
VerificationIsRight ==
    \A o \in Organizations : \A s \in Readings(o) :
        LET p == FirstMismatch(s)
        IN  IF Ids(o) \cap altered = {}
            THEN p = 0
            ELSE /\ p # 0
                 /\ s[p] \in altered
                 /\ \A q \in 1 .. (p - 1) : s[q] \notin altered
                 /\ RowVerdict(s, p) # "linkage"
=============================================================================
