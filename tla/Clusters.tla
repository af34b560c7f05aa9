------------------------------- MODULE Clusters -------------------------------
(***************************************************************************)
(* The clusters of a namespace and what stands on them: the refresh, which *)
(* finds near granules in Qdrant and groups them in PostgreSQL, the task   *)
(* that walks the namespaces, and the campaign that prunes the old         *)
(* co-occurrence edges, bridges between clusters excepted.                 *)
(*                                                                         *)
(* assign_clusters_from_pairs runs in one READ COMMITTED transaction: each *)
(* statement sees what is committed when it begins, waits for rows another *)
(* transaction has changed, and its own changes stay hidden until the end. *)
(* A granule stands for its key, a cluster for the least key of its        *)
(* component (its id is the hash of namespace and key).  Searches are      *)
(* taken to be exact; how near two granules are is given.                  *)
(***************************************************************************)
EXTENDS Integers, Sequences, FiniteSetsExt

CONSTANTS Members,    \* granules
          Home,       \* Members -> their namespaces
          Runs,       \* refresh_clusters tasks
          TopK, Chunk, MinMembers, \* cluster_top_k, RETRIEVE_BATCH_SIZE, cluster_min_members
          Page,       \* linker_l1c_prune_batch
          Worlds      \* what there is at the start, and what may happen

VARIABLES world, spare,   \* the element of Worlds, and what is left of its counts
          asserted,       \* PostgreSQL: granules with status asserted
          shown,          \* Qdrant: points whose payload says active
          label,          \* PostgreSQL: memories.cluster_id, 0 for NULL
          clusters,       \* PostgreSQL: rows of clusters
          edges,          \* PostgreSQL: l1c edges with pruned_at NULL
          job,            \* the refreshes
          camp,           \* the campaign
          due             \* history: edges that were candidates since the campaign began and are not judged

granules == <<asserted, shown>>
clustersVars == <<world, spare, granules, label, clusters, edges, job, camp, due>>

Spaces == {Home[m] : m \in Members}
Everywhere == "all"
Labels == Members \cup {0}
Untouched == -1
Spare == [retire : Nat, assert : Nat, sync : Nat, qdrant : Nat, abort : Nat, edge : Nat]

\* near: the similarity reaches cluster_tau; alike: that of the campaign's gate;
\* vectors: granules with a point; known: the cached namespaces, none without a
\* cache; walks: what the refreshes are told; edges: in the order of their ids
World == [near : SUBSET SUBSET Members, alike : SUBSET SUBSET Members, asserted : SUBSET Members,
          shown : SUBSET Members, vectors : SUBSET Members, frozen : SUBSET Members,
          label : [Members -> Labels], known : SUBSET Spaces,
          walks : [Runs -> SUBSET (Spaces \cup {Everywhere})], edges : Seq([age : Nat, ends : SUBSET Members]),
          campaign : BOOLEAN, gate : BOOLEAN, dry : BOOLEAN, may : Spare]

ASSUME ClustersAssumption == /\ Members \subseteq Nat \ {0} /\ IsFiniteSet(Members)
                             /\ {TopK, Chunk, MinMembers, Page} \subseteq Nat \ {0}
                             /\ DOMAIN Home = Members /\ Everywhere \notin Spaces
                             /\ Worlds \subseteq World

Idle == [pc |-> "idle", task |-> {}, walk |-> {}, at |-> Everywhere, ids |-> {}, pairs |-> {}, group |-> [m \in Members |-> 0],
         tag |-> [m \in Members |-> Untouched], keys |-> {}, cand |-> {},
         steady |-> {}, gone |-> {}, alone |-> TRUE]
NoCampaign == [pc |-> "idle", last |-> <<0, 0>>, page |-> {}, doomed |-> {}, crossed |-> {}, out |-> "none"]

RunPoints == {"idle", "next", "search", "clear", "cleared", "norm", "rows", "mark", "sweep", "commit", "bump"}
JobRuns == [pc : RunPoints, task : SUBSET Spaces, walk : SUBSET Spaces, at : Spaces \cup {Everywhere},
            ids : SUBSET Members, pairs : SUBSET SUBSET Members, group : [Members -> Labels],
            tag : [Members -> Labels \cup {Untouched}], keys : SUBSET Members, cand : SUBSET Members,
            steady : SUBSET Members, gone : SUBSET Members, alone : BOOLEAN]
CampStates == [pc : {"idle", "page", "judge", "write"}, last : Nat \X Nat, page : SUBSET Nat, doomed : SUBSET Nat,
               crossed : SUBSET Nat, out : {"none", "ok", "failed"}]

ClustersInit ==
  /\ world \in Worlds /\ spare = world.may
  /\ asserted = world.asserted /\ shown = world.shown
  /\ label = world.label /\ clusters = {world.label[m] : m \in Members} \ {0}
  /\ edges = DOMAIN world.edges
  /\ job = [r \in Runs |-> Idle] /\ camp = NoCampaign
  /\ due = {}

ClustersTypeOK ==
  /\ world \in World /\ spare \in Spare
  /\ asserted \subseteq Members /\ shown \subseteq Members
  /\ label \in [Members -> Labels] /\ clusters \subseteq Members
  /\ edges \subseteq DOMAIN world.edges /\ due \subseteq edges
  /\ job \in [Runs -> JobRuns] /\ camp \in CampStates

Uses(what) == spare[what] > 0 /\ spare' = [spare EXCEPT ![what] = @ - 1]
Job(r, j) == job' = [job EXCEPT ![r] = j]
Runs_at(s) == {r \in Runs : job[r].pc # "idle" /\ job[r].at = s}
Written(r) == {m \in Members : job[r].tag[m] # Untouched}
HeldByOthers(r) == UNION {Written(x) : x \in Runs \ {r}}
\* What transaction r sees of the labels
View(r) == [m \in Members |-> IF m \in Written(r) THEN job[r].tag[m] ELSE label[m]]

\* A bridge has both ends in clusters, and not in the same one
BridgeIn(lab, e) == LET ls == {lab[m] : m \in world.edges[e].ends} IN 0 \notin ls /\ Cardinality(ls) = 2
CandidateIn(lab, live, e) == e \in live /\ world.edges[e].ends \cap world.frozen = {} /\ ~BridgeIn(lab, e)
\* The history of the campaign follows labels and edges
Follow(lab, live) == /\ due' = {e \in due : CandidateIn(lab, live, e)}
                     /\ camp' = [camp EXCEPT !.crossed = @ \cup {e \in camp.page : BridgeIn(lab, e)}]

-----------------------------------------------------------------------------
(* Granules come and go; the payload of a point follows later.  A row that *)
(* a refresh has changed waits for its end.                                *)

Unheld(m) == \A r \in Runs : m \notin Written(r)
\* Runs lose m from what stood still; a granule that is back was not gone throughout
Stirred(m) == [r \in Runs |-> [job[r] EXCEPT !.steady = @ \ {m}, !.gone = @ \ {m}]]

Retire(m) == /\ m \in asserted /\ Unheld(m) /\ Uses("retire")
             /\ asserted' = asserted \ {m} /\ job' = Stirred(m)
             /\ UNCHANGED <<world, shown, label, clusters, edges, camp, due>>
Revive(m) == /\ m \notin asserted /\ Unheld(m) /\ Uses("assert")
             /\ asserted' = asserted \cup {m} /\ job' = Stirred(m)
             /\ UNCHANGED <<world, shown, label, clusters, edges, camp, due>>
Sync(m) == /\ (m \in shown) # (m \in asserted) /\ Uses("sync")
           /\ shown' = IF m \in asserted THEN shown \cup {m} ELSE shown \ {m}
           /\ job' = [r \in Runs |-> [job[r] EXCEPT !.steady = @ \ {m}]]
           /\ UNCHANGED <<world, asserted, label, clusters, edges, camp, due>>

-----------------------------------------------------------------------------
(* refresh_clusters: for one namespace, or for those list_all names.       *)

\* A cache that holds some namespaces is taken for the whole
Listed == IF world.known = {} THEN Spaces ELSE world.known
Begin(r) ==
  /\ job[r].pc = "idle" /\ world.walks[r] # {}
  /\ \E s \in world.walks[r] :
        LET to == IF s = Everywhere THEN Listed ELSE {s}
        IN  Job(r, [Idle EXCEPT !.pc = "next", !.task = to, !.walk = to])
  /\ world' = [world EXCEPT !.walks[r] = {}]
  /\ UNCHANGED <<spare, granules, label, clusters, edges, camp, due>>

IdsOf(s) == {m \in asserted : Home[m] = s}
\* Fewer than two granules need no search
Entered(r, s) ==
  [Idle EXCEPT !.pc = IF Cardinality(IdsOf(s)) < 2 THEN "clear" ELSE "search",
               !.task = job[r].task, !.walk = job[r].walk \ {s}, !.at = s, !.ids = IdsOf(s),
               !.steady = IdsOf(s) \cap shown \cap world.vectors, !.gone = {m \in Members : Home[m] = s} \ asserted,
               !.alone = Runs_at(s) = {}]
Enter(r) ==
  /\ job[r].pc = "next"
  /\ \E s \in job[r].walk :
       job' = [x \in Runs |-> IF x = r THEN Entered(r, s)
                              ELSE IF x \in Runs_at(s) THEN [job[x] EXCEPT !.alone = FALSE] ELSE job[x]]
  /\ UNCHANGED <<world, spare, granules, label, clusters, edges, camp, due>>

\* collect_cluster_pairs over one chunk: of each granule with a vector its
\* nearest active neighbours in the namespace; one place of top_k + 1 is its own
Near(m) == {n \in shown \ {m} : {m, n} \in world.near /\ Home[n] = Home[m]}
WithVector(chunk) == chunk \cap world.vectors
Places(m) == IF m \in shown THEN TopK ELSE TopK + 1
Crowded(m) == Cardinality(Near(m)) > Places(m)
Hits(part) == {a \in part \X Members : a[2] \in Near(a[1])}
Answers(part) == LET sure == {a \in Hits(part) : ~Crowded(a[1])}
                 IN  {sure \cup A : A \in {S \in SUBSET (Hits(part) \ sure) :
                        \A m \in part : Crowded(m) => Cardinality({a \in S : a[1] = m}) = Places(m)}}
Search(r) ==
  /\ job[r].pc = "search"
  /\ \E chunk \in kSubset(IF Cardinality(job[r].ids) < Chunk THEN Cardinality(job[r].ids) ELSE Chunk, job[r].ids) :
     \E answer \in Answers(WithVector(chunk)) :
       Job(r, [job[r] EXCEPT !.ids = @ \ chunk, !.pairs = @ \cup {{a[1], a[2]} : a \in answer},
                             !.pc = IF job[r].ids = chunk THEN "clear" ELSE "search"])
  /\ UNCHANGED <<world, spare, granules, label, clusters, edges, camp, due>>

\* Qdrant is away: ok=False, nothing is written, and the walk ends where it is
Shrugged(r) == [job[r] EXCEPT !.ids = {}, !.pc = "clear"]
OnOutage(r) == Idle
SearchFails(r) == /\ job[r].pc = "search" /\ Uses("qdrant")
                  /\ Job(r, OnOutage(r))
                  /\ UNCHANGED <<world, granules, label, clusters, edges, camp, due>>

-----------------------------------------------------------------------------
(* assign_clusters_from_pairs, one statement after the other.              *)

\* Step 0: the rows with a label when the statement begins ...
Clear(r) == /\ job[r].pc = "clear"
            /\ Job(r, [job[r] EXCEPT !.pc = "cleared", !.cand = {m \in Members : Home[m] = job[r].at /\ label[m] # 0}])
            /\ UNCHANGED <<world, spare, granules, label, clusters, edges, camp, due>>
\* ... are looked at again when their locks are there
NotCleared(r) == job[r].tag
Blank(r) == [m \in Members |-> IF m \in job[r].cand /\ label[m] # 0 THEN 0 ELSE job[r].tag[m]]
Cleared(r) == /\ job[r].pc = "cleared" /\ job[r].cand \cap HeldByOthers(r) = {}
              /\ Job(r, [job[r] EXCEPT !.pc = "norm", !.cand = {}, !.tag = Blank(r)])
              /\ UNCHANGED <<world, spare, granules, label, clusters, edges, camp, due>>

\* Steps 1 to 3: pairs whose granules are asserted now; the least key of its
\* component is spread until nothing changes; groups below p_min_members fall out
AnyPairs(r) == job[r].pairs
Normal(r) == {p \in job[r].pairs : \A m \in p : m \in asserted /\ Home[m] = job[r].at}
\* Variant: one round spreads a key to the neighbours only
OneRound(pairs, m) == {m} \cup UNION {p \in pairs : m \in p}
Closed(pairs, S) == \A p \in pairs : p \cap S # {} => p \subseteq S
Component(pairs, m) == {x \in Members : \A S \in SUBSET Members : m \in S /\ Closed(pairs, S) => x \in S}
Groups(pairs) == [m \in Members |-> LET c == Component(pairs, m)
                                    IN  IF c # {m} /\ Cardinality(c) >= MinMembers THEN Min(c) ELSE 0]
Norm(r) == /\ job[r].pc = "norm"
           /\ Job(r, [job[r] EXCEPT !.pc = IF Normal(r) = {} THEN "sweep" ELSE "rows", !.pairs = {},
                                    !.group = Groups(Normal(r))])
           /\ UNCHANGED <<world, spare, granules, label, clusters, edges, camp, due>>

\* Step 5: INSERT ... ON CONFLICT waits for whoever holds one of the keys
GroupKeys(r) == {job[r].group[m] : m \in Members} \ {0}
KeysOfOthers(r) == UNION {job[x].keys : x \in Runs \ {r}}
UpsertRows(r) == /\ job[r].pc = "rows" /\ GroupKeys(r) \cap KeysOfOthers(r) = {}
            /\ Job(r, [job[r] EXCEPT !.pc = "mark", !.keys = GroupKeys(r)])
            /\ UNCHANGED <<world, spare, granules, label, clusters, edges, camp, due>>

\* Step 6: the members get their label, whatever has become of them
Marked(r) == {m \in Members : job[r].group[m] # 0}
Label(r) == /\ job[r].pc = "mark" /\ Marked(r) \cap HeldByOthers(r) = {}
            /\ Job(r, [job[r] EXCEPT !.pc = "sweep", !.group = [m \in Members |-> 0],
                                     !.tag = [m \in Members |-> IF m \in Marked(r) THEN job[r].group[m] ELSE @[m]]])
            /\ UNCHANGED <<world, spare, granules, label, clusters, edges, camp, due>>

\* Step 7: clusters of the namespace without members when the statement begins;
\* one that another transaction fills meanwhile goes all the same
Empty(r) == {k \in clusters \cup job[r].keys : Home[k] = job[r].at /\ \A m \in Members : View(r)[m] # k}
SweepEmpty(r) == /\ job[r].pc = "sweep"
             /\ Job(r, [job[r] EXCEPT !.pc = "commit", !.cand = Empty(r)])
             /\ UNCHANGED <<world, spare, granules, label, clusters, edges, camp, due>>

\* ON DELETE SET NULL takes the label from whoever still has it
Orphans(r) == {m \in Members \ Written(r) : label[m] \in job[r].cand}
NewLabels(r) == [m \in Members |-> IF m \in Orphans(r) THEN 0 ELSE View(r)[m]]
Commit(r) == /\ job[r].pc = "commit"
             /\ job[r].cand \cap KeysOfOthers(r) = {} /\ Orphans(r) \cap HeldByOthers(r) = {}
             /\ label' = NewLabels(r) /\ clusters' = (clusters \cup job[r].keys) \ job[r].cand
             /\ Job(r, [Idle EXCEPT !.pc = IF job[r].walk = {} THEN "bump" ELSE "next",
                                  !.task = job[r].task, !.walk = job[r].walk])
             /\ Follow(NewLabels(r), edges)
             /\ UNCHANGED <<world, spare, granules, edges>>

\* bump_map_dirty, only when the walk has come to its end
Bump(r) == /\ job[r].pc = "bump" /\ Job(r, Idle)
           /\ UNCHANGED <<world, spare, granules, label, clusters, edges, camp, due>>

Waits(r) == \/ job[r].pc = "cleared" /\ job[r].cand \cap HeldByOthers(r) # {}
            \/ job[r].pc = "rows" /\ GroupKeys(r) \cap KeysOfOthers(r) # {}
            \/ job[r].pc = "mark" /\ Marked(r) \cap HeldByOthers(r) # {}
            \/ job[r].pc = "commit" /\ (job[r].cand \cap KeysOfOthers(r) # {} \/ Orphans(r) \cap HeldByOthers(r) # {})
\* PostgreSQL aborts one of two transactions that wait for each other; the
\* error ends the task
Victim(r) == /\ Waits(r) /\ \A x \in Runs : job[x].pc # "idle" => Waits(x)
             /\ Job(r, Idle)
             /\ UNCHANGED <<world, spare, granules, label, clusters, edges, camp, due>>
\* The connection is lost, which ends the task, or the worker, and its message
\* comes again
Lost(r) == /\ job[r].pc # "idle" /\ Uses("abort")
           /\ \/ Job(r, Idle)
              \/ Job(r, [Idle EXCEPT !.pc = "next", !.task = job[r].task, !.walk = job[r].task])
           /\ UNCHANGED <<world, granules, label, clusters, edges, camp, due>>

-----------------------------------------------------------------------------
(* run_prune_cooccurrence_history: page after page in the order of         *)
(* (created_at, id), each judged by the vectors of its ends.               *)

Candidate(e) == CandidateIn(label, edges, e)
Later(a, b) == a[1] > b[1] \/ (a[1] = b[1] /\ a[2] > b[2])
Place(e) == <<world.edges[e].age, e>>
Camp(c) == camp' = c

Launch == /\ camp.pc = "idle" /\ world.campaign /\ world' = [world EXCEPT !.campaign = FALSE]
          /\ Camp([NoCampaign EXCEPT !.pc = "page"])
          /\ due' = {e \in edges : Candidate(e)}
          /\ UNCHANGED <<spare, granules, label, clusters, edges, job>>

\* The cursor moves when the page is read
AfterByAge(e, last) == Place(e)[1] > last[1]
FromTheStart(e, last) == TRUE
After(e, last) == Later(Place(e), last)
AnyLive(e) == e \in edges /\ world.edges[e].ends \cap world.frozen = {}
Selected(e) == Candidate(e)
NextPage == LET rest == {e \in edges : Selected(e) /\ After(e, camp.last)}
            IN  {e \in rest : Cardinality({x \in rest : Later(Place(e), Place(x))}) < Page}
ReadPage == /\ camp.pc = "page"
            /\ LET page == NextPage IN
               Camp(IF page = {} THEN [NoCampaign EXCEPT !.out = "ok"]
                    ELSE [camp EXCEPT !.pc = "judge", !.page = page, !.crossed = {},
                                      !.last = Place(CHOOSE e \in page : \A x \in page : ~Later(Place(x), Place(e)))])
            /\ UNCHANGED <<world, spare, granules, label, clusters, edges, job, due>>

\* An edge without a vector at one end cannot be judged and stays; a gate of 0
\* lets every edge pass; a dry run only counts
Fails(e) == world.gate /\ world.edges[e].ends \subseteq world.vectors /\ world.edges[e].ends \notin world.alike
Judge == /\ camp.pc = "judge"
         /\ Camp([camp EXCEPT !.pc = "write", !.doomed = IF world.dry THEN {} ELSE {e \in camp.page : Fails(e)}])
         /\ due' = due \ camp.page
         /\ UNCHANGED <<world, spare, granules, label, clusters, edges, job>>
JudgeFails == /\ camp.pc = "judge" /\ world.gate /\ Uses("qdrant")
              /\ Camp([NoCampaign EXCEPT !.out = "failed"])
              /\ UNCHANGED <<world, granules, label, clusters, edges, job, due>>

\* PRUNE_EDGES_APPLY looks at pruned_at only
Prune == /\ camp.pc = "write"
         /\ edges' = edges \ camp.doomed /\ due' = due \cap edges'
         /\ Camp([camp EXCEPT !.pc = "page", !.page = {}, !.doomed = {}, !.crossed = {}])
         /\ UNCHANGED <<world, spare, granules, label, clusters, job>>

\* Another campaign or a person prunes an edge, or brings one back
EdgeChanges(e) == /\ Uses("edge")
                  /\ edges' = IF e \in edges THEN edges \ {e} ELSE edges \cup {e}
                  /\ Follow(label, edges')
                  /\ UNCHANGED <<world, granules, label, clusters, job>>

-----------------------------------------------------------------------------
Refresh(r) == \/ Enter(r) \/ Search(r) \/ Clear(r) \/ Cleared(r) \/ Norm(r)
              \/ UpsertRows(r) \/ Label(r) \/ SweepEmpty(r) \/ Commit(r) \/ Bump(r) \/ Victim(r)
Campaign == ReadPage \/ Judge \/ Prune
Events == \/ \E m \in Members : Retire(m) \/ Revive(m) \/ Sync(m)
          \/ \E e \in DOMAIN world.edges : EdgeChanges(e)
          \/ (\E r \in Runs : Begin(r) \/ SearchFails(r) \/ Lost(r)) \/ Launch \/ JudgeFails
ClustersNext == Events \/ Campaign \/ \E r \in Runs : Refresh(r)

\* A campaign that has begun goes on
ClustersFairness == WF_clustersVars(Campaign)

-----------------------------------------------------------------------------
Commits(r) == job[r].pc = "commit" /\ label' = NewLabels(r) /\ job'[r].pc \in {"next", "bump"}

\* Pairs of near granules of S, one of them with so few neighbours that its
\* search cannot miss the other
Few(near, a) == Cardinality({n \in Members : {a, n} \in near}) <= TopK
SureIn(near, S) == {p \in near : \E a, b \in S : p = {a, b} /\ a # b /\ Few(near, a)}
Sure(r) == SureIn(world.near, job[r].steady)

\* Near granules that stood still during a refresh and that its searches cannot
\* miss are in one cluster when it commits, if together they are enough for one,
\* whatever other refreshes of the namespace have written, and however long the
\* chain between them is.
SteadyTogether ==
  [][\A r \in Runs : Commits(r) =>
       \A p \in Sure(r) : \A a, b \in p :
         Cardinality(Component(Sure(r), a)) >= MinMembers
           => label'[a] = label'[b] /\ label'[a] # 0]_clustersVars

\* A granule that is in no state to be clustered during a whole refresh has no
\* label after it, unless a second refresh of the namespace ran beside it: its
\* labels are written without a look at the granule and missed by the other's
\* first statement.
LeftoverHasCause ==
  [][\A r \in Runs : Commits(r) /\ job[r].alone => \A m \in job[r].gone : label'[m] = 0]_clustersVars

\* A campaign prunes no bridge between two clusters, except one that became a
\* bridge after its page was read; and one that ends well has judged every edge
\* that was a candidate from its beginning on, also those of one moment that
\* fall on two pages.
CampaignExact ==
  [][/\ camp.pc = "write" /\ camp'.pc = "page" =>
          \A e \in edges \ edges' : BridgeIn(label, e) => e \in camp.crossed
     /\ camp'.out = "ok" => due' = {}]_clustersVars

\* Every campaign ends, also over edges that cannot be judged and stay.
CampaignEnds == camp.pc # "idle" ~> camp.pc = "idle"

=============================================================================
