----------------------------- MODULE MCEdgeGraph -----------------------------
(* EdgeGraph on small instances. *)
EXTENDS EdgeGraph, TLC

CONSTANT n1

\* The even granules bear one name
EvenNames == [g \in Ids |-> IF g % 2 = 0 THEN n1 ELSE None]

\* People and campaigns with one new version at a time; two versions at a time
\* with the operations that meet them
People == {"version", "link", "retract", "delete", "gc", "orphans",
           "hand", "name", "unlink", "sync", "batch", "reconcile", "l1"}
Campaigns == {"version", "link", "delete", "gc", "hand", "batch", "l1", "l1c", "l2",
              "fade", "touch", "prune", "restore"}
AllMenus == {[ops |-> People, ids |-> MaxId - 1], [ops |-> Campaigns, ids |-> MaxId - 1],
             [ops |-> {"version", "link", "hand", "name", "l1c", "reconcile"}, ids |-> MaxId]}

Symmetry == Permutations(Workers)
=============================================================================
