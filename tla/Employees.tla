------------------------------- MODULE Employees -------------------------------
(***************************************************************************)
(* The employees and the users they are linked to.  Each handler is a      *)
(* transaction at READ COMMITTED: it reads, and writes at its end one      *)
(* column and an outbox event, which only the audit log takes.             *)
(***************************************************************************)
EXTENDS Naturals, FiniteSets

CONSTANTS
    Staff,         \* the employees that may be created
    Logins,        \* the users they may be linked to
    HrRequests,    \* how many requests may be in flight together
    Null

ASSUME NullAssumption ==
    Null \notin Staff \cup Logins /\ Null \notin [login : Logins \cup {Null}, active : BOOLEAN]

VARIABLES
    employee,      \* employee[e]: its row, [login, active], or Null
    hr             \* hr[q]: what a request is about to write

hrVars == <<employee, hr>>

HrFree == [op |-> "none", employee |-> Null, login |-> Null]

HrInit ==
    /\ employee = [e \in Staff |-> Null]
    /\ hr = [q \in HrRequests |-> HrFree]

-----------------------------------------------------------------------------
(* What the handlers read. *)

Hold(q, op, e, login) ==
    /\ hr[q] = HrFree
    /\ hr' = [hr EXCEPT ![q] = [op |-> op, employee |-> e, login |-> login]]
    /\ UNCHANGED employee

Employed(e) == employee[e] # Null

LinkedTo(login) == {e \in Staff : Employed(e) /\ employee[e].login = login}

\* Nothing is read, the id is new.
BeginHire(q, e) ==
    /\ ~Employed(e)
    /\ \A p \in HrRequests : hr[p].employee # e
    /\ Hold(q, "create", e, Null)

\* The employee, that no other one is linked to the user, and the user.
BeginLink(q, e, login) ==
    Employed(e) /\ LinkedTo(login) \subseteq {e} /\ Hold(q, "link", e, login)

BeginUnlink(q, e) == Employed(e) /\ Hold(q, "unlink", e, Null)

BeginRetire(q, e) == Employed(e) /\ Hold(q, "deactivate", e, Null)

-----------------------------------------------------------------------------
(* What they write. *)

\* The unique index on the user.
LoginIndexAllows(t) == LinkedTo(t.login) \subseteq {t.employee}

Hire(t) ==
    /\ t.op = "create"
    /\ employee' = [employee EXCEPT ![t.employee] = [login |-> Null, active |-> TRUE]]

Link(t) ==
    /\ t.op = "link"
    /\ employee' = IF LoginIndexAllows(t) THEN [employee EXCEPT ![t.employee].login = t.login]
                   ELSE employee

Unlink(t) ==
    /\ t.op = "unlink"
    /\ employee' = [employee EXCEPT ![t.employee].login = Null]

\* The salary structures and payslips stay as they are.
Retire(t) ==
    /\ t.op = "deactivate"
    /\ employee' = [employee EXCEPT ![t.employee].active = FALSE]

WriteEmployee(q) ==
    /\ Hire(hr[q]) \/ Link(hr[q]) \/ Unlink(hr[q]) \/ Retire(hr[q])
    /\ hr' = [hr EXCEPT ![q] = HrFree]

HrNext ==
    \E q \in HrRequests :
        \/ \E e \in Staff :
              \/ BeginHire(q, e)
              \/ \E login \in Logins : BeginLink(q, e, login)
              \/ BeginUnlink(q, e)
              \/ BeginRetire(q, e)
        \/ WriteEmployee(q)

HrSpec == HrInit /\ [][HrNext]_hrVars

-----------------------------------------------------------------------------
(* Properties *)

\* Two requests that both found a user free never link two employees to it: the
\* mail about a payslip goes to the user of its employee.
UserLinkedOnce ==
    \A e, f \in Staff :
        (e # f /\ Employed(e) /\ Employed(f) /\ employee[e].login # Null)
            => employee[e].login # employee[f].login
=============================================================================
