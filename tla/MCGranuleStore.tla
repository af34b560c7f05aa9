---------------------------- MODULE MCGranuleStore ----------------------------
(* GranuleStore on small instances. *)
EXTENDS GranuleStore, TLC

\* Contents, users and worker slots are interchangeable
Symmetry == Permutations(Hashes) \cup Permutations(Users) \cup Permutations(Clients)
=============================================================================
