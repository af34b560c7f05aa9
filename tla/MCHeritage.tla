------------------------------ MODULE MCHeritage ------------------------------
(* Heritage on small instances. *)
EXTENDS Heritage, MCEdgeGraph

CONSTANTS k1, h1, h2, h3

Does(kind, gives) == [kind |-> kind, gives |-> gives, freeze |-> TRUE]
Acts == <<Does("edit", {k1}), Does("edit", {"importance"}), Does("edit", {"frozen"}),
          Does("retract", {}), Does("decay", {}), Does("confirm", {}), Does("confirm", {k1}),
          Does("version", {}), Does("version", {k1})>>

\* Any three of them at once, the order of the hands left open
AllPlans == {[w \in Hands |-> Acts[IF w = h1 THEN i[1] ELSE IF w = h2 THEN i[2] ELSE i[3]]] :
               i \in {j \in (1..9) \X (1..9) \X (1..9) : j[1] <= j[2] /\ j[2] <= j[3]}}
=============================================================================
