---------------------------- MODULE MCContextCache ----------------------------
(* ContextCache on small instances. *)
EXTENDS ContextCache, TLC

\* Workers and sections are interchangeable
Symmetry == Permutations(Workers) \cup Permutations(Sections)
=============================================================================
