-------------------------------- MODULE Serving --------------------------------
(***************************************************************************)
(* Around the services: the parts a process makes for itself               *)
(* (ProcessState), the way of a call to a worker and the batch it runs     *)
(* there (TaskBridge, IngestTask), the process that sends the periodic     *)
(* tasks (BeatSchedule), and the registries (Registry).  They share no     *)
(* state, so one of them is watched at a time; scene says which, and the   *)
(* others rest.                                                            *)
(***************************************************************************)
EXTENDS ProcessState, IngestTask, BeatSchedule, Registry

CONSTANT Scenes   \* the parts that are watched
VARIABLE scene

ASSUME SceneAssumption == Scenes \subseteq {"process", "batch", "beat", "registry"}

servingVars == <<scene, processVars, bridgeVars, ingestVars, beatVars, registryVars>>

ServingInit == /\ scene \in Scenes
               /\ ProcessInit /\ BridgeInit /\ IngestInit /\ BeatInit /\ RegistryInit
               /\ scene = "batch" \/ LET m == CHOOSE m \in Batches : TRUE
                                     IN  batch = m.of /\ dedup = m.dedup /\ patient = m.waited
               /\ scene = "registry" \/ /\ errand = CHOOSE e \in Errands : TRUE
                                        /\ cards = CHOOSE r \in Registers : TRUE

ServingNext ==
  \/ /\ scene = "process" /\ ProcessNext
     /\ UNCHANGED <<scene, bridgeVars, ingestVars, beatVars, registryVars>>
  \/ scene = "batch" /\ BatchNext /\ UNCHANGED <<scene, processVars, beatVars, registryVars>>
  \/ /\ scene = "beat" /\ BeatNext
     /\ UNCHANGED <<scene, processVars, bridgeVars, ingestVars, registryVars>>
  \/ /\ scene = "registry" /\ RegistryNext
     /\ UNCHANGED <<scene, processVars, bridgeVars, ingestVars, beatVars>>

ServingSpec == ServingInit /\ [][ServingNext]_servingVars

\* Getters go on, clients see time pass, the clock runs and beat ticks; workers may
\* stand still
ServingFairness ==
  /\ \A c \in Callers : SF_servingVars(scene = "process" /\ Proceed(c)
                                       /\ UNCHANGED <<scene, bridgeVars, ingestVars, beatVars, registryVars>>)
  /\ \A t \in Tasks : WF_servingVars(scene = "batch" /\ Client(t)
                                     /\ UNCHANGED <<scene, ingestVars, processVars, beatVars, registryVars>>)
  /\ \A a \in {"time", "tick"} :
       WF_servingVars(/\ scene = "beat"
                      /\ IF a = "time" THEN TimePasses ELSE BeatTick
                      /\ UNCHANGED <<scene, processVars, bridgeVars, ingestVars, registryVars>>)

FairSpec == ServingSpec /\ ServingFairness

\* Each property where its part is watched
ServingTypeOK == ProcessTypeOK /\ BridgeTypeOK /\ BeatTypeOK
BeatKeepsGoing == scene = "beat" => EntriesKeepComing
=============================================================================
