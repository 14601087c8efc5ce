--------------------------- MODULE MCAlertOutbox ---------------------------
(* Instances of AlertOutbox for TLC. *)
EXTENDS AlertOutbox, TLC

Interchangeable == Permutations(Processes)
=============================================================================
