----------------------------- MODULE MCVectorSync -----------------------------
(* VectorSync on small instances. *)
EXTENDS VectorSync, TLC

\* Contents and workers are interchangeable
Symmetry == Permutations(Hashes) \cup Permutations(Workers)
=============================================================================
