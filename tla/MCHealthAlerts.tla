--------------------------- MODULE MCHealthAlerts ---------------------------
(* HealthAlerts for TLC: writers are interchangeable. *)
EXTENDS HealthAlerts, TLC

Interchangeable == Permutations(Writers)
=============================================================================
