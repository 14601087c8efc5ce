--------------------------- MODULE MCSummaryCache ---------------------------
(* Instances of SummaryCache for TLC. *)
EXTENDS SummaryCache, TLC

Interchangeable == Permutations(Readers) \cup Permutations(Writers)
=============================================================================
