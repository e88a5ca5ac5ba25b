--------------------------- MODULE MCRunCatalogue ---------------------------
(* Small instances of RunCatalogue for TLC. *)
EXTENDS RunCatalogue, TLC

Interchangeable == Permutations(Target) \cup Permutations(Web)
=============================================================================
