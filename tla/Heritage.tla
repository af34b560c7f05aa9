------------------------------- MODULE Heritage -------------------------------
(***************************************************************************)
(* What a version takes over from the granule it replaces: its edges       *)
(* (EdgeGraph) and what was told about it beside its content (Upkeep).     *)
(* The two touch different tables of one transaction, so one of them is    *)
(* watched at a time; part says which.                                     *)
(***************************************************************************)
EXTENDS EdgeGraph, Upkeep

CONSTANT Parts
VARIABLE part

ASSUME PartAssumption == Parts \subseteq {"edges", "upkeep"}

heritageVars == <<part, vars, upkeepVars>>

HeritageInit == /\ part \in Parts
                /\ Init /\ UpkeepInit
                /\ part = "edges" \/ menu = CHOOSE m \in Menus : TRUE
                /\ part = "upkeep" \/ /\ plan = CHOOSE p \in Plans : TRUE
                                      /\ due = Stored(Keys \ {Reason})

HeritageNext == \/ part = "edges" /\ Next /\ UNCHANGED <<part, upkeepVars>>
                \/ part = "upkeep" /\ UpkeepNext /\ UNCHANGED <<part, vars>>

HeritageSpec == HeritageInit /\ [][HeritageNext]_heritageVars
=============================================================================
