-------------------------------- MODULE Atlas --------------------------------
(***************************************************************************)
(* What is computed over the whole graph: the map (MapCache), the clusters *)
(* with the campaign that spares their bridges (Clusters), and the places  *)
(* of the granules (Seating).  The clusters reach the map as changes that  *)
(* bump_dirty announces (Regroup) and the places as labels (Relabels), so  *)
(* one of the three is watched at a time.                                  *)
(***************************************************************************)
EXTENDS MapCache, Clusters, Seating

CONSTANT Views
VARIABLE view

ASSUME ViewAssumption == Views \subseteq {"map", "clusters", "seats"}

atlasVars == <<view, vars, clustersVars, seatingVars>>

AtlasInit == /\ view \in Views
             /\ Init /\ ClustersInit /\ SeatingInit
             /\ view = "map" \/ menu = CHOOSE m \in Menus : TRUE
             /\ view = "clusters" \/ world = CHOOSE w \in Worlds : TRUE
             /\ view = "seats" \/ sky = CHOOSE k \in Skies : TRUE

AtlasNext == \/ view = "map" /\ Next /\ UNCHANGED <<view, clustersVars, seatingVars>>
             \/ view = "clusters" /\ ClustersNext /\ UNCHANGED <<view, vars, seatingVars>>
             \/ view = "seats" /\ SeatingNext /\ UNCHANGED <<view, vars, clustersVars>>

AtlasSpec == AtlasInit /\ [][AtlasNext]_atlasVars /\ Fairness /\ ClustersFairness
=============================================================================
