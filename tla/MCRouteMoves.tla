---------------------------- MODULE MCRouteMoves ----------------------------
(* Instances of RouteMoves for TLC. *)
EXTENDS RouteMoves, TLC

Interchangeable == Permutations(Sinks)
=============================================================================
