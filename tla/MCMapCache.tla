----------------------------- MODULE MCMapCache -----------------------------
(* MapCache on small instances. *)
EXTENDS MapCache, TLC

None0 == [node |-> 0, edge |-> 0, cluster |-> 0, hand |-> 0, kill |-> 0, run |-> 0, get |-> 0]

\* A browser, a second request and the marks that expire between them
Caches == [ops |-> {"client", "expire"}, may |-> [None0 EXCEPT !.node = 1, !.get = 3]]
\* Two builders, one of them slow, and an announced change
Bumps == [ops |-> {"client", "slow", "kill"}, may |-> [None0 EXCEPT !.cluster = 1, !.kill = 1, !.get = 2]]
Edges == [ops |-> {"client"}, may |-> [None0 EXCEPT !.edge = 1, !.cluster = 1, !.get = 2]]
\* Both kinds of layout_map, with what can go wrong with them
Nights == [ops |-> {"hourly", "nightly", "drl_fails"}, may |-> [None0 EXCEPT !.node = 1, !.kill = 1, !.run = 1]]
\* galactic_layout beside them, and the hand
Stars == [ops |-> {"nightly", "galaxy", "force", "drl_fails"}, may |-> [None0 EXCEPT !.node = 1, !.hand = 1, !.run = 2]]
\* A request and an announced change beside a layout
Mixed == [ops |-> {"nightly"}, may |-> [None0 EXCEPT !.cluster = 1, !.get = 2, !.run = 1]]

AllMenus == {Caches, Bumps, Edges, Nights, Stars, Mixed}
=============================================================================
