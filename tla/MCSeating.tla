------------------------------ MODULE MCSeating ------------------------------
(* Seating on small instances. *)
EXTENDS Seating

NoHope == [run |-> 0, force |-> 0, status |-> 0, kin |-> 0, tie |-> 0, hand |-> 0, drl |-> 0, kill |-> 0]
Tie(a, b, w) == [from |-> a, to |-> b, weight |-> w]
Plenty == [nodes |-> 9, edges |-> 9, clusters |-> 9]

\* Two clusters with an edge between them, a granule tied to both with unlike
\* weights, a free pair and one that is to come; the restless ones change
Field == [status |-> <<"live", "live", "live", "live", "unborn">>, kin |-> <<1, 2, 0, 0, 0>>,
          ties |-> <<Tie(3, 1, 1), Tie(2, 3, 2), Tie(3, 4, 1), Tie(1, 2, 1), Tie(5, 2, 1)>>,
          there |-> {1, 2}, laid |-> {}, most |-> Plenty, restless |-> {}, may |-> NoHope]
\* A granule comes and is clustered, before, between and during two runs
Growth == [Field EXCEPT !.there = {1, 4}, !.restless = {5},
                        !.may = [NoHope EXCEPT !.run = 2, !.status = 1, !.kin = 2]]
Reborn == [Growth EXCEPT !.may = [NoHope EXCEPT !.run = 1, !.force = 1, !.status = 1, !.kin = 1, !.tie = 1]]
\* Labels and edges change beside forced runs and increments
Anew == [Field EXCEPT !.restless = {1, 3, 4}, !.may = [NoHope EXCEPT !.run = 2, !.force = 1, !.kin = 1]]
Woven == [Field EXCEPT !.may = [NoHope EXCEPT !.run = 1, !.force = 1, !.tie = 2]]
\* A person, layout_map and lost workers
Moved == [Field EXCEPT !.kin = <<1, 1, 0, 0, 0>>, !.restless = {1, 3},
                       !.may = [NoHope EXCEPT !.run = 1, !.force = 1, !.hand = 1, !.drl = 1, !.kill = 1]]
\* Granules that are closed, come back, are deleted
Fading == [Field EXCEPT !.kin = <<1, 1, 0, 0, 0>>, !.restless = {1},
                        !.may = [NoHope EXCEPT !.run = 1, !.force = 1, !.status = 3]]
Huge == [Field EXCEPT !.most.nodes = 4, !.restless = {5}, !.may = [NoHope EXCEPT !.run = 2, !.status = 1]]
\* A granule wavers between two clusters beside two runs, while another comes
Wavering == [Field EXCEPT !.status = <<"live", "live", "gone", "gone", "unborn">>, !.kin = <<1, 2, 0, 0, 1>>, !.there = {}, !.laid = {1},
                          !.restless = {2, 5}, !.may = [NoHope EXCEPT !.run = 2, !.status = 1, !.kin = 2]]
AllSkies == {Wavering, Growth, Reborn, Anew, Woven, Moved, Fading, Huge}
=============================================================================
