------------------------------ MODULE MCAuditChain ------------------------------
(***************************************************************************)
(* The audit log for TLC: the chain of its entries, beginning with a row   *)
(* of version 1 from an older release, with two organizations and two      *)
(* writers; and what the entries of a payroll run say of it.  They share   *)
(* no state, so a behaviour is about one of them.                          *)
(***************************************************************************)
EXTENDS AuditChain, AuditTrail, TLC

VARIABLE side    \* which of the two the behaviour is about

AuditInit ==
    /\ ChainInit
    /\ TrailInit
    /\ side \in {"chain", "trail"}

AuditNext ==
    /\ UNCHANGED side
    /\ \/ side = "chain" /\ ChainNext /\ UNCHANGED trailVars
       \/ side = "trail" /\ TrailNext /\ UNCHANGED chainVars

AuditSpec == AuditInit /\ [][AuditNext]_<<chainVars, trailVars, side>>

-----------------------------------------------------------------------------

CONSTANTS org, other

MCOrganizations == {org, other}
MCEvents == {[action |-> "ExpenseApproved", payload |-> "payload"]}

LegacyRow == [organization |-> org, action |-> "ExpenseDrafted", payload |-> "payload",
              createdAt |-> 1, version |-> 1, prevHash |-> Genesis]
MCLegacy ==
    <<[organization |-> org, action |-> LegacyRow.action, payload |-> LegacyRow.payload,
       createdAt |-> 1, version |-> 1, prevHash |-> Genesis,
       entryHash |-> EntryHashV1(Genesis, LegacyRow)]>>

Symmetry == Permutations(Writers) \cup Permutations(TrailRequests) \cup Permutations(Payees)
=============================================================================
