--------------------------- MODULE SalaryStructures ---------------------------
(***************************************************************************)
(* The versions of an employee's salary structure, and the payslips that   *)
(* copy them.  A request is a transaction at READ COMMITTED: it reads the  *)
(* open version, decides in memory, and writes at its end, when the unique *)
(* index on employee and version may refuse the whole of it.  Of a version *)
(* only the days it is in effect are kept: the line items follow it.       *)
(***************************************************************************)
EXTENDS Naturals, FiniteSets

CONSTANTS
    Salaried,        \* employees
    Days,            \* the days a version may take effect
    SalaryRequests,  \* how many requests may be in flight together
    MaxVersion,      \* bound: the versions of an employee
    MaxSlips         \* bound: the payslips

ASSUME DaysAssumption == Days \subseteq Nat \ {0}

VARIABLES
    versions,        \* versions[e]: the rows of e, [version, from, to], to = 0 if open
    slips,           \* the payslips generated: [employee, month, version, from]
    salary           \* salary[q]: what a request has read and is about to write

salaryVars == <<versions, slips, salary>>

Unwritten == [version |-> 0, from |-> 0, to |-> 0]

SalaryFree == [at |-> "idle", employee |-> {}, day |-> 0, previous |-> Unwritten]

SalaryInit ==
    /\ versions = [e \in Salaried |-> {}]
    /\ slips = {}
    /\ salary = [q \in SalaryRequests |-> SalaryFree]

-----------------------------------------------------------------------------
(* What is read. *)

OpenVersions(e) == {r \in versions[e] : r.to = 0}

\* findActiveForEmployee: the open version, the latest if there were several.
FindActive(e, r) == r \in OpenVersions(e) /\ \A s \in OpenVersions(e) : s.version <= r.version

Prepare(q, e, day, previous) ==
    /\ salary[q].at = "idle"
    /\ salary' = [salary EXCEPT ![q] =
          [at |-> "write", employee |-> {e}, day |-> day, previous |-> previous]]
    /\ UNCHANGED <<versions, slips>>

\* CreateSalaryStructure: there must be no open version yet.
BeginFirst(q, e, day) == OpenVersions(e) = {} /\ Prepare(q, e, day, Unwritten)

\* CreateSalaryStructureVersion: the open version is the previous one.  It does
\* not ask whether the day is later than the previous version's.
BeginNext(q, e, day) ==
    \E r \in versions[e] :
        FindActive(e, r) /\ r.version < MaxVersion /\ Prepare(q, e, day, r)

-----------------------------------------------------------------------------
(* What is written. *)

\* createInitialVersion and createNextVersion.
NextVersion(t) == [version |-> t.previous.version + 1, from |-> t.day, to |-> 0]

\* The unique index on the employee and the version.
VersionIndexAllows(rows, t) == \A r \in rows : r.version # t.previous.version + 1

\* Mutation: the previous version is left open.
NoneClosed(rows, t) == rows

\* previous.close on the day the next one takes effect, written by the row's id.
PreviousClosed(rows, t) ==
    {IF r.version = t.previous.version /\ r.from = t.previous.from
     THEN [r EXCEPT !.to = t.day] ELSE r : r \in rows}

\* save and saveNextVersion; if the index refuses the row, the transaction rolls
\* back and the previous version stays as it was.
WriteVersion(q) ==
    LET t == salary[q]
    IN  /\ t.at = "write"
        /\ \E e \in t.employee :
              versions' =
                IF VersionIndexAllows(versions[e], t)
                THEN [versions EXCEPT ![e] = PreviousClosed(@, t) \cup {NextVersion(t)}]
                ELSE versions
        /\ salary' = [salary EXCEPT ![q] = SalaryFree]
        /\ UNCHANGED slips

\* AddPayslipHandler takes the open version, whatever the month of the run, and
\* Payslip.generate keeps a copy of it.
AddPayslip(e, month) ==
    \E r \in versions[e] :
        /\ FindActive(e, r)
        /\ Cardinality(slips) < MaxSlips
        /\ slips' = slips \cup
             {[employee |-> e, month |-> month, version |-> r.version, from |-> r.from]}
        /\ UNCHANGED <<versions, salary>>

SalaryNext ==
    \/ \E q \in SalaryRequests :
          \/ \E e \in Salaried, day \in Days : BeginFirst(q, e, day) \/ BeginNext(q, e, day)
          \/ WriteVersion(q)
    \/ \E e \in Salaried, month \in Days : AddPayslip(e, month)

SalarySpec == SalaryInit /\ [][SalaryNext]_salaryVars

-----------------------------------------------------------------------------
(* Properties *)

\* The versions of an employee are 1, 2, ... without a gap or a double, each
\* but the last is closed on the day its successor takes effect, and the last
\* one is open, whatever requests began from the same version: the open version
\* a payslip copies is always the newest.
VersionsChain ==
    \A e \in Salaried : \A r \in versions[e] :
        /\ r.version > 1 => \E p \in versions[e] : p.version = r.version - 1
        /\ \A s \in versions[e] : s.version = r.version => s = r
        /\ IF r.to = 0 THEN \A s \in versions[e] : s.version <= r.version
           ELSE \E s \in versions[e] : s.version = r.version + 1 /\ s.from = r.to

-----------------------------------------------------------------------------
(* What a comment says, and the code does not do. *)

\* SalaryStructure: "the structure a payslip captured months ago is provably the
\* one that was actually in effect then".
SlipInEffect == \A p \in slips : p.from <= p.month
=============================================================================
