----------------------------- MODULE PeriodStatus -----------------------------
(***************************************************************************)
(* The statuses of a financial period and the transitions its aggregate    *)
(* allows.  Stateless: the modules that hold a period share it.            *)
(***************************************************************************)

PeriodStatuses == {"open", "closing", "closed", "reopened"}

\* FinancialPeriod.isOpen, which PeriodStatusAdapter.isOpen answers with.
IsOpenStatus(p) == p \in {"open", "reopened"}

\* FinancialPeriod.close and reopen: assertTransition's sources.  startClosing,
\* which alone leads to "closing", is called by no handler.
MayClose(p)  == p \in {"open", "closing"}
MayReopen(p) == p = "closed"

=============================================================================
