-------------------------- MODULE MCRuntimeSettings --------------------------
(* RuntimeSettings on small instances. *)
EXTENDS RuntimeSettings, TLC

\* synonym < verdict <= dedup, with room between synonym and verdict
Defaults == [k \in Keys |-> IF k = "synonym" THEN 1 ELSE 3]
AllButVerdict == [k \in {"synonym", "dedup"} |-> Defaults[k]]

\* Each is a legal change of the defaults, both together are not
Moves == {<<"synonym", 2>>, <<"verdict", 2>>}
Tuned == {[Defaults EXCEPT !["verdict"] = 2]}
=============================================================================
