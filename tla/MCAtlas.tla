------------------------------- MODULE MCAtlas -------------------------------
(* Atlas on small instances. *)
EXTENDS Atlas, MCMapCache, MCSeating

\* Four granules of one namespace and one of another
HomeOf == [m \in 1..5 |-> IF m = 5 THEN "y" ELSE "x"]
NoWalks == [r \in Runs |-> {}]
None1 == [retire |-> 0, assert |-> 0, sync |-> 0, qdrant |-> 0, abort |-> 0, edge |-> 0]
Edge(a, s) == [age |-> a, ends |-> s]

\* A chain whose least key is in its middle, still without labels
Chain == [near |-> {{1, 3}, {3, 4}, {2, 4}}, alike |-> {}, asserted |-> 1..5, shown |-> 1..5, vectors |-> 1..5,
          label |-> [m \in 1..5 |-> 0], known |-> {}, walks |-> NoWalks, edges |-> <<>>, frozen |-> {},
          campaign |-> FALSE, gate |-> TRUE, dry |-> FALSE, may |-> None1]

\* Two refreshes of one namespace, one granule that goes
Twice == [Chain EXCEPT !.near = {{1, 2}, {2, 3}}, !.label = [m \in 1..5 |-> IF m \in {1, 4} THEN 1 ELSE 0],
                       !.walks = [r \in Runs |-> {"x"}],
                       !.may = [None1 EXCEPT !.retire = 1]]
\* Two pairs, one labelled, that are found by one refresh and not by the other
Apart == [Chain EXCEPT !.near = {{1, 2}, {3, 4}}, !.label = [m \in 1..5 |-> IF m > 2 /\ m < 5 THEN 3 ELSE 0],
                       !.asserted = 1..3, !.shown = 1..3,
                       !.walks = [r \in Runs |-> {"x"}],
                       !.may = [None1 EXCEPT !.assert = 1, !.sync = 1]]
\* One walk over all namespaces, whatever fails
Walk == [Chain EXCEPT !.walks = [r \in Runs |-> IF r = CHOOSE x \in Runs : TRUE THEN {"all"} ELSE {}],
                      !.label = [m \in 1..5 |-> IF m = 5 THEN 5 ELSE 0],
                      !.may = [None1 EXCEPT !.retire = 1, !.sync = 1, !.qdrant = 1, !.abort = 1]]
\* A granule that has gone and is still shown
Lagging == [Chain EXCEPT !.walks = [r \in Runs |-> {"x"}], !.asserted = 2..5, !.known = {"x"},
                         !.may = [None1 EXCEPT !.sync = 1]]
\* More neighbours than a search returns
Dense == [Chain EXCEPT !.near = {{a, b} : a, b \in 1..4} \ {{a} : a \in 1..4},
                       !.walks = [r \in Runs |-> {"x"}], !.vectors = {1, 2, 3, 5}]

\* The campaign over edges of one age, one of which cannot be judged, beside a
\* refresh that makes bridges
Bridges == [Chain EXCEPT !.near = {{1, 3}, {2, 4}}, !.alike = {{1, 3}}, !.vectors = 1..4,
                         !.walks = [r \in Runs |-> IF r = CHOOSE x \in Runs : TRUE THEN {"x"} ELSE {}],
                         !.edges = <<Edge(1, {1, 2}), Edge(1, {1, 5}), Edge(1, {3, 4}), Edge(2, {1, 3})>>,
                         !.campaign = TRUE, !.may = [None1 EXCEPT !.edge = 1, !.qdrant = 1]]
Old == [Bridges EXCEPT !.label = <<1, 2, 1, 2, 0>>, !.may = None1]
Dry == [Bridges EXCEPT !.dry = TRUE, !.walks = NoWalks]
Open == [Bridges EXCEPT !.gate = FALSE, !.frozen = {2}, !.walks = NoWalks]

AllWorlds == {Twice, Apart, Walk, Lagging, Dense, Bridges, Old, Dry, Open}
=============================================================================
