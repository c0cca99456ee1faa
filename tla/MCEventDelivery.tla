--------------------------- MODULE MCEventDelivery ---------------------------
(* Instance of EventDelivery for TLC: subscribers and pollers are model     *)
(* values, interchangeable in the run without a liveness property.          *)
EXTENDS EventDelivery, TLC

Symmetry == Permutations(Subscribers) \cup Permutations(Pollers)
=============================================================================
