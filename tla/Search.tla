--------------------------------- MODULE Search ---------------------------------
(***************************************************************************)
(* One request that reads many granules: the hybrid search, the dense one  *)
(* (hybrid_search_enabled off), the search that spreads activation, and    *)
(* the two traversals.  A request reads the vector index, the full text,   *)
(* the rows and the graph one after the other, without a transaction;      *)
(* meanwhile granules are closed and deleted, edges pruned, and the index  *)
(* learns of it later or never.  Either channel may fail.                  *)
(*                                                                         *)
(* Scores other than the fused ranks are left out: what comes after the    *)
(* best candidate (MMR) and beside the start (PageRank) is any choice.     *)
(***************************************************************************)
EXTENDS Naturals, Sequences, FiniteSets, SequencesExt

CONSTANTS Granules,       \* numbers, which order them as ids do
          Corpora,        \* menu: what matches a query in each channel, best first; edges as
                          \* arcs, and which of them are of a symmetric type
          Limit,          \* of a request
          Prefetch,       \* hybrid_prefetch
          SeedLimit,      \* search_activation_seed_limit
          TopK,           \* traverse_activation_top_k
          Depth, Cap,     \* of the breadth first traversal; traverse_max_nodes
          RrfK,
          MaxEdits,       \* bound: changes beside the request
          MaxBreaks       \* bound: failing channels

ASSUME SearchAssumption ==
  /\ Granules \subseteq Nat /\ IsFiniteSet(Granules)
  /\ {Limit, Prefetch, SeedLimit, TopK, Depth, Cap, RrfK} \subseteq Nat \ {0}
  /\ {MaxEdits, MaxBreaks} \subseteq Nat

VARIABLES corpus,    \* the one of this run
          status,    \* of the rows: "asserted", "closed", "gone"
          payload,   \* of the points: "asserted", "closed", "gone"
          arcs,      \* edges that are not pruned
          call,      \* the request
          accessed,  \* granules whose access fields were set
          touched,   \* pairs sent to reinforce_relations
          edits, breaks

vars == <<corpus, status, payload, arcs, call, accessed, touched, edits, breaks>>

Current == {g \in Granules : status[g] = "asserted"}

Idle == [at |-> "idle", kind |-> "hybrid", filter |-> "current", offset |-> 0, start |-> 0,
         dense |-> << >>, fts |-> << >>, page |-> {}, ranked |-> {},
         old |-> {}, lost |-> {}, graph |-> {}]

Init ==
  /\ corpus \in Corpora
  /\ status = [g \in Granules |-> "asserted"] /\ payload = status
  /\ arcs = corpus.arcs
  /\ call = Idle
  /\ accessed = {} /\ touched = {} /\ edits = 0 /\ breaks = 0

-----------------------------------------------------------------------------
(* Requests.  old: what was already closed when they began.                *)

\* search: with activation there are no pages and no status filter
AskSearch(k, f, o) ==
  /\ call.at = "idle"
  /\ k = "activation" => o = 0 /\ f # "closed"
  /\ call' = [Idle EXCEPT !.at = "dense", !.kind = k, !.filter = f, !.offset = o,
                          !.old = Granules \ Current]
  /\ UNCHANGED <<corpus, status, payload, arcs, accessed, touched, edits, breaks>>

AskTraverse(k, g, o) ==
  /\ call.at = "idle"
  /\ k = "spread" => o = 0
  /\ call' = [Idle EXCEPT !.at = IF k = "walk" THEN "check" ELSE "graph", !.kind = k,
                          !.start = g, !.offset = o, !.old = Granules \ Current]
  /\ UNCHANGED <<corpus, status, payload, arcs, accessed, touched, edits, breaks>>

Least(m, n) == IF m < n THEN m ELSE n
Room == IF call.kind = "activation" THEN Least(SeedLimit, Limit) ELSE Limit
Pool == IF call.kind = "dense" THEN call.offset + Limit
        ELSE LET end == call.offset + Room IN IF end > Prefetch THEN end ELSE Prefetch

\* The rows a filter lets through, and the points: a point tells current from not
Lets(f, g) == CASE f = "current" -> status[g] = "asserted"
                [] f = "closed"  -> status[g] = "closed"
                [] OTHER         -> status[g] # "gone"
PointLets(f, g) == payload[g] \in IF f = "current" THEN {"asserted"} ELSE {"asserted", "closed"}

TopOf(s) == SubSeq(s, 1, Least(Pool, Len(s)))

\* Qdrant is away, or its circuit breaker answers for it
DenseFails ==
  /\ call.at = "dense" /\ breaks < MaxBreaks /\ breaks' = breaks + 1
  /\ call' = [call EXCEPT !.lost = @ \cup {"dense"},
                          !.at = IF call.kind = "dense" THEN "fetch" ELSE "fts"]
  /\ UNCHANGED <<corpus, status, payload, arcs, accessed, touched, edits>>

DenseChannel ==
  /\ call.at = "dense"
  /\ LET Test(g) == PointLets(call.filter, g)
     IN  call' = [call EXCEPT !.dense = TopOf(SelectSeq(corpus.dense, Test)),
                              !.at = IF call.kind = "dense" THEN "fetch" ELSE "fts"]
  /\ UNCHANGED <<corpus, status, payload, arcs, accessed, touched, edits, breaks>>

FtsFails ==
  /\ call.at = "fts" /\ breaks < MaxBreaks /\ breaks' = breaks + 1
  /\ call' = [call EXCEPT !.lost = @ \cup {"fts"}, !.at = "fetch"]
  /\ UNCHANGED <<corpus, status, payload, arcs, accessed, touched, edits>>

FtsChannel ==
  /\ call.at = "fts"
  /\ LET Test(g) == Lets(call.filter, g)
     IN  call' = [call EXCEPT !.fts = TopOf(SelectSeq(corpus.fts, Test)), !.at = "fetch"]
  /\ UNCHANGED <<corpus, status, payload, arcs, accessed, touched, edits, breaks>>

-----------------------------------------------------------------------------
(* The rows and their fusion.                                              *)

\* Variant: include_historical is passed on inverted
CandidatesInverted ==
  {g \in ToSet(call.dense) \cup ToSet(call.fts) :
     Lets(CASE call.filter = "current" -> "all" [] call.filter = "all" -> "current"
            [] OTHER -> "closed", g)}

\* fetch_by_ids: the filter comes before the limit
Candidates == {g \in ToSet(call.dense) \cup ToSet(call.fts) : Lets(call.filter, g)}

\* rrf_fuse over rows in the order the statement returned them; Unit makes the
\* fractions whole
Unit == LET up[n \in 0..Cardinality(Granules)] == IF n = 0 THEN 1 ELSE up[n - 1] * (RrfK + n - 1)
        IN  up[Cardinality(Granules)]
Share(ranking, g) == IF Contains(ranking, g)
                     THEN Unit \div (RrfK + SelectInSeq(ranking, LAMBDA h : h = g) - 1) ELSE 0
Fused(rows, g) ==
  LET ByDense(h) == Contains(call.dense, h)
      ByFts(h) == Contains(call.fts, h)
  IN  Share(SelectSeq(rows, ByDense), g) + Share(SelectSeq(rows, ByFts), g)

\* The first pick of mmr_rerank (mmr_lambda above 0)
Leader(rows) ==
  LET best == {g \in ToSet(rows) : \A h \in ToSet(rows) : Fused(rows, g) >= Fused(rows, h)}
  IN  CHOOSE g \in best : \A h \in best : g <= h

SizeOf(n) == IF n <= call.offset THEN 0 ELSE Least(Room, n - call.offset)

\* One page of the hybrid order.  FETCH_MEMORIES_BY_IDS has no ORDER BY: its rows come
\* in any order
Fuse ==
  /\ call.at = "fetch" /\ call.kind # "dense"
  /\ \E page \in SUBSET Candidates :
       /\ Cardinality(page) = SizeOf(Cardinality(Candidates))
       /\ Candidates # {} =>
            \E rows \in SetToSeqs(Candidates) : (Leader(rows) \in page) <=> (call.offset = 0)
       /\ call' = [call EXCEPT !.page = page, !.at = IF page = {} THEN "done" ELSE "bump"]
  /\ UNCHANGED <<corpus, status, payload, arcs, accessed, touched, edits, breaks>>

\* MemoryRepository.search keeps the order of the index
Place(g) == SelectInSeq(call.dense, LAMBDA h : h = g)
Pick ==
  /\ call.at = "fetch" /\ call.kind = "dense"
  /\ LET page == {g \in Candidates :
                     Cardinality({h \in Candidates : Place(h) < Place(g)}) >= call.offset}
     IN  /\ call' = [call EXCEPT !.page = page, !.at = "done"]
         /\ touched' = touched \cup {p \in SUBSET page : Cardinality(p) = 2}
  /\ UNCHANGED <<corpus, status, payload, arcs, accessed, edits, breaks>>

\* bump_access, of which a failure is only logged
Bump ==
  /\ call.at = "bump"
  /\ accessed' \in {accessed, accessed \cup call.page}
  /\ IF call.kind = "activation" /\ Cardinality(call.page) < Limit
     THEN call' = [call EXCEPT !.at = "graph"] /\ UNCHANGED touched
     ELSE /\ call' = [call EXCEPT !.at = "done"]
          /\ touched' = touched \cup {p \in SUBSET call.page : Cardinality(p) = 2}
  /\ UNCHANGED <<corpus, status, payload, arcs, edits, breaks>>

-----------------------------------------------------------------------------
(* The graph.                                                              *)

LiveArcs == {a \in arcs : {a[1], a[2]} \subseteq Current}
\* fetch_activation_edges, which alone mirrors the symmetric types
MirroredArcs == LiveArcs \cup {<<a[2], a[1]>> : a \in LiveArcs \cap corpus.symmetric}
Nodes(as) == UNION {{a[1], a[2]} : a \in as}
ReachedIn(n, from, as) ==
  {g \in Granules : \E k \in 0..n : \E path \in [0..k -> Granules] :
     path[0] \in from /\ path[k] = g /\ \A i \in 1..k : <<path[i - 1], path[i]>> \in as}
Reached(from, as) == ReachedIn(Cardinality(Granules), from, as)

\* A choice of n nodes by rank: what activation did not reach has rank 0 and comes last
Ranked(n, from, nodes, as) ==
  {top \in SUBSET nodes :
     /\ Cardinality(top) = Least(n, Cardinality(nodes))
     /\ (top \subseteq Reached(from, as)) \/ (Reached(from, as) \cap nodes \subseteq top)}

\* _search_activation: as many nodes that are no seeds as the page has room for
SpreadSeeds ==
  /\ call.at = "graph" /\ call.kind = "activation"
  /\ LET seeds == call.page \cap Nodes(MirroredArcs)
         choices == IF seeds = {} THEN {{}}
                    ELSE Ranked(Limit - Cardinality(call.page), seeds,
                                Nodes(MirroredArcs) \ call.page, MirroredArcs)
     IN  \E top \in choices :
           call' = [call EXCEPT !.ranked = top, !.graph = MirroredArcs, !.at = "cards"]
  /\ UNCHANGED <<corpus, status, payload, arcs, accessed, touched, edits, breaks>>

\* spread, ensure_ids: the start takes the place of the last one
Ensured(top, start) == IF start \in top THEN top ELSE (top \ {CHOOSE g \in top : TRUE}) \cup {start}

\* _traverse_activation
SpreadStart ==
  /\ call.at = "graph" /\ call.kind = "spread"
  /\ IF call.start \notin Nodes(MirroredArcs)
     THEN call' = [call EXCEPT !.at = "done"]
     ELSE \E top \in Ranked(TopK, {call.start}, Nodes(MirroredArcs), MirroredArcs) :
            call' = [call EXCEPT !.ranked = Ensured(top, call.start), !.graph = MirroredArcs, !.at = "cards"]
  /\ UNCHANGED <<corpus, status, payload, arcs, accessed, touched, edits, breaks>>

\* The cards of what was ranked: what was closed meanwhile is left out.  A search touches
\* all pairs it serves, a traversal those whose arc carried enough
Serve ==
  /\ call.at = "cards"
  /\ LET found == call.ranked \cap Current
         page == IF call.kind = "activation" THEN call.page \cup found ELSE found
         pairs == {p \in SUBSET page : Cardinality(p) = 2}
     IN  /\ call' = [call EXCEPT !.page = page, !.at = "done"]
         /\ IF call.kind = "activation" THEN touched' = touched \cup pairs
            ELSE \E carried \in SUBSET {p \in pairs : \E a \in call.graph : p = {a[1], a[2]}} :
                   touched' = touched \cup carried
  /\ UNCHANGED <<corpus, status, payload, arcs, accessed, edits, breaks>>

\* traverse: the start must exist, closed or not
CheckStart ==
  /\ call.at = "check"
  /\ call' = IF status[call.start] = "gone" THEN Idle ELSE [call EXCEPT !.at = "walk"]
  /\ UNCHANGED <<corpus, status, payload, arcs, accessed, touched, edits, breaks>>

\* graph_traverse_full, then the cap and the page, in the order of the ids
Walk ==
  /\ call.at = "walk"
  /\ LET nodes == ReachedIn(Depth, {call.start} \cap Current, LiveArcs)
         page == {g \in nodes : LET place == Cardinality({h \in nodes : h < g})
                                IN  call.offset <= place /\ place < Least(call.offset + Limit, Cap)}
     IN  /\ call' = [call EXCEPT !.page = page, !.at = "done"]
         /\ touched' = touched \cup {{a[1], a[2]} : a \in {b \in LiveArcs : {b[1], b[2]} \subseteq page}}
  /\ UNCHANGED <<corpus, status, payload, arcs, accessed, edits, breaks>>

-----------------------------------------------------------------------------
(* What happens beside the request (GranuleStore, VectorSync, EdgeGraph).  *)

Edit == edits < MaxEdits /\ edits' = edits + 1

Closes(g) == /\ status[g] = "asserted" /\ Edit
             /\ status' = [status EXCEPT ![g] = "closed"]
             /\ UNCHANGED <<corpus, payload, arcs, call, accessed, touched, breaks>>

Delete(g) == /\ status[g] # "gone" /\ Edit
             /\ status' = [status EXCEPT ![g] = "gone"]
             /\ arcs' = {a \in arcs : g \notin {a[1], a[2]}}
             /\ UNCHANGED <<corpus, payload, call, accessed, touched, breaks>>

Sync(g) == /\ payload[g] # status[g]
           /\ payload' = [payload EXCEPT ![g] = status[g]]
           /\ UNCHANGED <<corpus, status, arcs, call, accessed, touched, edits, breaks>>

Prune(a) == /\ Edit /\ arcs' = arcs \ {a}
            /\ UNCHANGED <<corpus, status, payload, call, accessed, touched, breaks>>

Next ==
  \/ \E o \in {0, Limit} :
       \/ \E k \in {"hybrid", "dense", "activation"}, f \in {"current", "closed", "all"} : AskSearch(k, f, o)
       \/ \E k \in {"spread", "walk"}, g \in Granules : AskTraverse(k, g, o)
  \/ DenseFails \/ DenseChannel \/ FtsFails \/ FtsChannel \/ Fuse \/ Pick \/ Bump
  \/ SpreadSeeds \/ SpreadStart \/ Serve \/ CheckStart \/ Walk
  \/ \E g \in Granules : Closes(g) \/ Delete(g) \/ Sync(g)
  \/ \E a \in arcs : Prune(a)

Spec == Init /\ [][Next]_vars

-----------------------------------------------------------------------------
(* Properties.                                                             *)

Statuses == {"asserted", "closed", "gone"}
TypeOK ==
  /\ corpus \in Corpora
  /\ status \in [Granules -> Statuses] /\ payload \in [Granules -> Statuses]
  /\ DOMAIN call = DOMAIN Idle
  /\ call.page \cup call.ranked \cup call.old \subseteq Granules
  /\ accessed \subseteq Granules /\ touched \subseteq SUBSET Granules

Served == call.at = "done"

\* Nothing is served that was closed before the request began, although the points lag,
\* the graph is read before the rows and a hit of the vector index may be gone: the
\* heading of memory_search, "only currently asserted memories are returned".
NothingOutdated == Served /\ call.filter = "current" => call.page \cap call.old = {}

\* The start of an activation traversal is part of what it serves, unless it was closed
\* meanwhile or has no edges (spread, ensure_ids).
StartIsServed ==
  Served /\ call.kind = "spread" /\ call.page # {} => call.start \in call.page \/ call.start \notin Current

\* What makes the two inductive: what was closed stays closed, each kind
\* of request goes its own way, and the start is among what was ranked
IInv ==
  /\ call = [f \in DOMAIN Idle |-> call[f]]
  /\ status \in [Granules -> Statuses] /\ call.old \subseteq Granules \ Current
  /\ call.filter = "current" => call.page \cap call.old = {}
  /\ call.at \in {"dense", "fts", "fetch", "bump"} => call.kind # "spread"
  /\ call.at \in {"check", "walk"} => call.kind = "walk"
  /\ call.at = "graph" /\ call.kind = "spread" => call.page = {}
  /\ call.at = "cards" /\ call.kind = "spread" => call.start \in call.ranked
  /\ StartIsServed
=============================================================================
