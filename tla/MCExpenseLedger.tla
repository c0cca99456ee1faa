--------------------------- MODULE MCExpenseLedger ---------------------------
(* Instance of ExpenseLedger for TLC: the requests are interchangeable.       *)
EXTENDS ExpenseLedger, TLC

Symmetry == Permutations(Requests)
=============================================================================
