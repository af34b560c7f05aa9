------------------------------ MODULE EdgeGraph ------------------------------
(***************************************************************************)
(* The relations of the knowledge graph: who creates, moves, prunes,       *)
(* revives and deletes the rows of table relations while granules get new  *)
(* versions, are closed or are deleted.                                    *)
(*                                                                         *)
(* A granule is its state and its heir (GranuleStore has the rest).  The   *)
(* weight of an edge and the days it went unused are one bit, faint: the   *)
(* lazily computed weight is at or under the pruning floor.                *)
(***************************************************************************)
EXTENDS Naturals, FiniteSets

CONSTANTS MaxId, MaxEdges,     \* bounds: granules and relations ever made
          Born,                \* granules that live at the start
          None, Names, NameOf, \* entity names, and the one of each granule
          Types,               \* link types
          Frozen,              \* granules under the freeze flag
          Batch,               \* linker_reconciler_batch
          Workers,             \* those that run create_version
          Menus                \* operations in play, and granules made, in one behaviour

VARIABLES menu,          \* the element of Menus
          state, heir,   \* PostgreSQL: memories
          edge,          \* PostgreSQL: relations
          pc, job,       \* transactions of create_version
          selected,      \* edges the running pruning campaign has chosen
          stray          \* history: edges that came to a granule its version had left behind

Ids == 1..MaxId
Edges == 1..MaxEdges
txn == <<pc, job>>
vars == <<menu, state, heir, edge, txn, selected, stray>>

OpNames == {"version", "link", "retract", "delete", "gc", "sync", "batch", "hand", "name", "unlink",
            "l1", "l1c", "l2", "fade", "touch", "prune", "restore", "reconcile", "orphans"}

ASSUME EdgeAssumption == /\ MaxId \in Nat /\ MaxEdges \in Nat /\ Born \in 0..MaxId
                         /\ "related_to" \in Types
                         /\ Batch \in Nat \ {0}
                         /\ None \notin Names
                         /\ NameOf \in [Ids -> Names \cup {None}]
                         /\ Frozen \subseteq Ids
                         /\ Menus \subseteq [ops : SUBSET OpNames, ids : 0..MaxId]

\* owner is metadata.source and metadata.layer (l1: l1a and l1c) or synced_from;
\* inh is inherited_from
Owners == {"hand", "sync", "l1", "l2"}
Rows == [st : {"live", "pruned"}, src : Ids, tgt : 0..MaxId, name : Names \cup {None},
         type : Types, owner : Owners, inh : 0..MaxId, faint : BOOLEAN]
Absent == [st : {"unmade", "deleted"}]

\* alive: the granules that lived when the statement began; cand: the rows it
\* chose; held: the rows the transaction has updated
Jobs == [old : 0..MaxId, new : 0..MaxId, alive : SUBSET Ids,
         cand : SUBSET Edges, held : SUBSET Edges]
Blank == [old |-> 0, new |-> 0, alive |-> {}, cand |-> {}, held |-> {}]

TypeOK == /\ menu \in Menus
          /\ state \in [Ids -> {"unborn", "asserted", "superseded", "retracted", "gone"}]
          /\ heir \in [Ids -> 0..MaxId]
          /\ edge \in [Edges -> Rows \cup Absent]
          /\ pc \in [Workers -> {"idle", "source", "target"}]
          /\ job \in [Workers -> Jobs]
          /\ selected \subseteq Edges /\ stray \subseteq Edges

Init == /\ menu \in Menus
        /\ state = [g \in Ids |-> IF g <= Born THEN "asserted" ELSE "unborn"]
        /\ heir = [g \in Ids |-> 0]
        /\ edge = [e \in Edges |-> [st |-> "unmade"]]
        /\ pc = [w \in Workers |-> "idle"]
        /\ job = [w \in Workers |-> Blank]
        /\ selected = {} /\ stray = {}

Has(op) == op \in menu.ops

Live == {g \in Ids : state[g] = "asserted"}
Exists == {g \in Ids : state[g] \in {"asserted", "superseded", "retracted"}}
There(e) == edge[e].st \in {"live", "pruned"}
Present == {e \in Edges : There(e)}
Deleted == [st |-> "deleted"]
Without(D) == [e \in Edges |-> IF e \in D THEN Deleted ELSE edge[e]]

\* the partial unique index on (source_id, target_id, link_type), pruned rows included
Same(s, t, k) == {e \in Present : edge[e].src = s /\ edge[e].tgt = t /\ edge[e].type = k /\ t # 0}
Between(a, b) == {e \in Present : <<edge[e].src, edge[e].tgt>> \in {<<a, b>>, <<b, a>>}}

\* Rows another transaction has updated and not committed make a statement wait
Held == UNION {job[w].held : w \in Workers}
Free(S) == S \cap Held = {}
Versioned == {job[w].old : w \in Workers} \ {0}

At(w, p) == pc[w] = p
Goto(w, p, j) == pc' = [pc EXCEPT ![w] = p] /\ job' = [job EXCEPT ![w] = j]
Done(w) == Goto(w, "idle", Blank)

\* An edge is a stray while an end of it is a granule whose version was made without it
Closing == {g \in Ids : state[g] = "superseded"} \cup Versioned
Place(e, rows) == IF e \in DOMAIN rows /\ rows[e].st \in {"live", "pruned"}
                  THEN [st |-> rows[e].st, ends |-> {rows[e].src, rows[e].tgt}]
                  ELSE [st |-> "none", ends |-> {}]
Noted == stray' = {e \in Edges : /\ Place(e, edge').ends \cap Closing' # {}
                                 /\ e \in stray \/ Place(e, edge') # Place(e, edge)}

NewRow(s, t, n, k, o) == [st |-> "live", src |-> s, tgt |-> t, name |-> n, type |-> k,
                          owner |-> o, inh |-> 0, faint |-> FALSE]

\* The next row of a table that never uses an id twice
NextRow(e) == edge[e].st = "unmade" /\ \A f \in Edges : f < e => edge[f].st # "unmade"
Insert(row) == \E e \in Edges : NextRow(e) /\ edge' = [edge EXCEPT ![e] = row]

\* ON CONFLICT: what becomes of the row that has the triple
Upsert(row, Kept(_)) ==
  LET there == Same(row.src, row.tgt, row.type)
  IN IF there = {} THEN Insert(row)
     ELSE /\ Free(there)
          /\ edge' = [e \in Edges |-> IF e \in there THEN Kept(edge[e]) ELSE edge[e]]

-----------------------------------------------------------------------------
(* create_version: one transaction, its statements one by one.             *)

\* What the transaction of w takes for a live granule
Seen(old, new) == (Live \ {old}) \cup {new}

Movable(e) == edge[e].st = "live" /\ edge[e].type # "supersedes"
SourceRows(old, alive) == {e \in Present : /\ Movable(e) /\ edge[e].src = old
                                           /\ edge[e].tgt \in alive \cup {0}}
NoRows(old, alive) == {}
TargetRows(old, alive) == {e \in Present : /\ Movable(e) /\ edge[e].tgt = old
                                           /\ edge[e].src \in alive}

\* INSERT and SUPERSEDE; the first REWIRE takes its snapshot.  The row lock on
\* the old version keeps a second version of it away
VersionBegin(w) ==
  \E old \in Live \ Versioned, new \in Ids :
    /\ Has("version")
    /\ state[new] = "unborn" /\ \A g \in Ids : g < new => state[g] # "unborn"
    /\ new <= menu.ids /\ new \notin {job[v].new : v \in Workers}
    /\ LET alive == Seen(old, new)
       IN At(w, "idle") /\ Goto(w, "source", [Blank EXCEPT !.old = old, !.new = new, !.alive = alive,
                                                          !.cand = SourceRows(old, alive)])
    /\ UNCHANGED <<state, heir, edge, selected>> /\ Noted

\* Rows that changed while the statement waited are looked at again, against
\* the granules that were alive when it began
RewireSource(w) ==
  /\ At(w, "source") /\ Free(job[w].cand)
  /\ LET j == job[w]
         alive == Seen(j.old, j.new)
     IN Goto(w, "target", [j EXCEPT !.held = j.cand \cap SourceRows(j.old, j.alive),
                                    !.alive = alive, !.cand = TargetRows(j.old, alive)])
  /\ UNCHANGED <<state, heir, edge, selected>> /\ Noted

InheritColumns(row, old, new) == [row EXCEPT !.src = new, !.inh = old, !.faint = FALSE]

Inherit(row, old, new) == [row EXCEPT !.src = IF @ = old THEN new ELSE @,
                                      !.tgt = IF @ = old THEN new ELSE @,
                                      !.inh = old, !.faint = FALSE]

RewireTarget(w) ==
  /\ At(w, "target") /\ job[w].cand \cap (Held \ job[w].held) = {}
  /\ LET j == job[w]
         moved == j.held \cup (j.cand \cap TargetRows(j.old, j.alive))
     IN /\ edge' = [e \in Edges |-> IF e \in moved THEN Inherit(edge[e], j.old, j.new)
                                    ELSE edge[e]]
        /\ state' = [state EXCEPT ![j.old] = "superseded", ![j.new] = "asserted"]
        /\ heir' = [heir EXCEPT ![j.old] = j.new]
  /\ Done(w) /\ UNCHANGED selected /\ Noted

\* Two transactions that wait for each other's rows: PostgreSQL kills one
Victim(w) ==
  /\ \E v \in Workers \ {w} : /\ At(w, "target") /\ At(v, "target")
                              /\ job[w].cand \cap job[v].held # {}
                              /\ job[v].cand \cap job[w].held # {}
  /\ Done(w) /\ UNCHANGED <<state, heir, edge, selected>> /\ Noted

\* A worker lost, a session ended: PostgreSQL rolls the transaction back
Lose(w) == ~At(w, "idle") /\ Done(w) /\ UNCHANGED <<state, heir, edge, selected>> /\ Noted

-----------------------------------------------------------------------------
(* What else happens to granules.                                          *)

\* update(supersedes): the old version is closed, its edges stay where they are
Link == \E old \in Live \ Versioned, new \in Exists :
          /\ Has("link") /\ old # new
          /\ state' = [state EXCEPT ![old] = "superseded"]
          /\ heir' = [heir EXCEPT ![old] = new]
          /\ stray' = stray \cup {e \in Present : old \in {edge[e].src, edge[e].tgt}}
          /\ UNCHANGED <<edge, txn, selected>>

Retract == \E g \in Live \ Versioned :
             /\ Has("retract")
             /\ state' = [state EXCEPT ![g] = "retracted"]
             /\ UNCHANGED <<heir, edge, txn, selected>> /\ Noted

\* ON DELETE: CASCADE for source_id, SET NULL for target_id and inherited_from
Cascade(S, rows) ==
  [e \in Edges |->
     IF rows[e].st \notin {"live", "pruned"} THEN rows[e]
     ELSE IF rows[e].src \in S THEN Deleted
     ELSE [rows[e] EXCEPT !.tgt = IF @ \in S THEN 0 ELSE @, !.inh = IF @ \in S THEN 0 ELSE @]]
Touching(S) == {e \in Present : {edge[e].src, edge[e].tgt, edge[e].inh} \cap S # {}}
Erase(S, rows) == /\ state' = [g \in Ids |-> IF g \in S THEN "gone" ELSE state[g]]
                  /\ heir' = [g \in Ids |-> IF heir[g] \in S \/ g \in S THEN 0 ELSE heir[g]]
                  /\ edge' = Cascade(S, rows)

Delete == \E g \in Exists \ Versioned : /\ Has("delete")
                                        /\ Free(Touching({g})) /\ Erase({g}, edge)
                                        /\ UNCHANGED <<txn, selected>> /\ Noted

Purgeable == {g \in Ids : state[g] = "superseded" /\ heir[g] # 0 /\ g \notin Frozen}

\* What was selected some time ago is still superseded, but may have lost its
\* heir; the edges go for all of it, the granules only if still purgeable
GcPurge ==
  /\ Has("gc")
  /\ \E S \in SUBSET {g \in Ids : state[g] = "superseded" /\ g \notin Frozen} \ {{}} :
       LET nameless == {e \in Present : edge[e].tgt \in S /\ edge[e].name = None}
       IN /\ Free(nameless \cup Touching(S \cap Purgeable))
          /\ Erase(S \cap Purgeable, Without(nameless))
  /\ UNCHANGED <<txn, selected>> /\ Noted

OrphansCleanup == /\ Has("orphans")
                  /\ LET lost == {e \in Present : edge[e].tgt = 0 /\ edge[e].name = None}
                     IN lost # {} /\ Free(lost) /\ edge' = Without(lost)
                  /\ UNCHANGED <<state, heir, txn, selected>> /\ Noted

-----------------------------------------------------------------------------
(* Edges of people: add_relation, delete_relation and metadata.links.      *)

Bearers(n) == {g \in Live : NameOf[g] = n}
Resolved(n) == IF Bearers(n) = {} THEN 0 ELSE CHOOSE g \in Bearers(n) : \A h \in Bearers(n) : h <= g

\* DO UPDATE of description, weight and metadata: the row has a new owner, and
\* whatever else it was it stays
Overwritten(row, o) == [row EXCEPT !.owner = o, !.faint = FALSE]
ByHand(row) == Overwritten(row, "hand")
BySync(row) == Overwritten(row, "sync")
Reweighed(row) == [row EXCEPT !.faint = FALSE]

AddRelation ==
  /\ \E s \in Exists, k \in Types :
       \/ \E t \in Exists \ {s} : /\ Has("hand")
                                  /\ Upsert(NewRow(s, t, None, k, "hand"), ByHand)
       \/ \E n \in Names : Has("name") /\ Insert(NewRow(s, 0, n, k, "hand"))
  /\ UNCHANGED <<state, heir, txn, selected>> /\ Noted

DeleteRelation == /\ Has("unlink")
                  /\ \E e \in Present : /\ edge[e].tgt # 0 /\ Free({e})
                                        /\ edge' = Without({e})
                  /\ UNCHANGED <<state, heir, txn, selected>> /\ Noted

Synced(g) == {e \in Present : edge[e].src = g /\ edge[e].owner = "sync"}

\* sync_links_to_relations: two statements, each a transaction of its own, so
\* that the syncs of a granule may mix and a lost one may stop between them
SyncDelete == /\ Has("sync")
              /\ \E g \in Exists : /\ Synced(g) # {} /\ Free(Synced(g))
                                   /\ edge' = Without(Synced(g))
              /\ UNCHANGED <<state, heir, txn, selected>> /\ Noted

\* A link of the metadata names a granule by its id or by its entity name
SyncRow(g, t, n, k) == NewRow(g, IF n = None THEN t ELSE Resolved(n), n, k, "sync")
Links(g) == {SyncRow(g, t, None, k) : t \in Exists \ {g}, k \in Types}
              \cup {SyncRow(g, 0, n, k) : n \in Names, k \in Types}
Fits(row) == row.tgt # row.src

Backfill == /\ Has("sync")
            /\ \E g \in Exists : \E row \in Links(g) : Fits(row) /\ Upsert(row, Reweighed)
            /\ UNCHANGED <<state, heir, txn, selected>> /\ Noted

\* SYNC_LINKS_BATCH: one statement, that takes over a row with the same triple
SyncBatch ==
  /\ Has("batch")
  /\ \E g \in Exists : \E row \in Links(g) :
       LET taken == Same(row.src, row.tgt, row.type)
           old == Synced(g) \ taken
       IN /\ Fits(row) /\ Free(Synced(g) \cup taken)
          /\ IF taken # {}
             THEN edge' = [e \in Edges |-> IF e \in old THEN Deleted
                                           ELSE IF e \in taken THEN BySync(edge[e]) ELSE edge[e]]
             ELSE \E e \in Edges : /\ NextRow(e)
                                   /\ edge' = [Without(old) EXCEPT ![e] = row]
  /\ UNCHANGED <<state, heir, txn, selected>> /\ Noted

-----------------------------------------------------------------------------
(* Edges of the linker.                                                    *)

Ignored(row) == row
Firm(S) == [e \in Edges |-> IF e \in S THEN [edge[e] EXCEPT !.faint = FALSE] ELSE edge[e]]

\* link_new_granule (L1a), the co-occurrence campaign (L1c) and the verdicts (L2)
\* read two live granules, ask Qdrant or the model, and write when the answer is
\* there: by then each of them may have any state but deleted (foreign keys)
LinkRow(s, t, k, o) == NewRow(s, t, None, k, o)

\* ON CONFLICT DO NOTHING
LinkInsert == \E s, t \in Exists, k \in Types, o \in {"l1", "l2"} \cap menu.ops :
                /\ s # t /\ (o = "l1" => k = "related_to")
                /\ Upsert(LinkRow(s, t, k, o), Ignored)

\* L1c: a pair related in either direction is touched, pruned or not
LinkMeet == /\ Has("l1c")
            /\ \E s, t \in Exists :
                 LET met == {e \in Between(s, t) : edge[e].type = "related_to"}
                 IN /\ s # t
                    /\ IF met = {} THEN Insert(LinkRow(s, t, "related_to", "l1"))
                       ELSE Free(met) /\ edge' = Firm(met)

Linker == (LinkInsert \/ LinkMeet) /\ UNCHANGED <<state, heir, txn, selected>> /\ Noted

\* name_reconciler: the oldest dangling names that some live granule bears;
\* a target that would double an edge is skipped, and the statement fails as a
\* whole when two rows get the same triple
Dangling == {e \in Present : edge[e].tgt = 0 /\ edge[e].name # None}
Resolvable == {e \in Dangling : Resolved(edge[e].name) # 0}
Oldest == {e \in Resolvable : Cardinality({f \in Resolvable : f < e}) < Batch}
Picked == {e \in Oldest : Same(edge[e].src, Resolved(edge[e].name), edge[e].type) = {}}
Clash == \E e, f \in Picked : /\ e # f
                              /\ <<edge[e].src, edge[e].type, Resolved(edge[e].name)>>
                                   = <<edge[f].src, edge[f].type, Resolved(edge[f].name)>>

Reconcile == /\ Has("reconcile")
             /\ Picked # {} /\ ~Clash /\ Free(Picked)
             /\ edge' = [e \in Edges |-> IF e \in Picked
                                         THEN [edge[e] EXCEPT !.tgt = Resolved(edge[e].name)]
                                         ELSE edge[e]]
             /\ UNCHANGED <<state, heir, txn, selected>> /\ Noted

-----------------------------------------------------------------------------
(* The life of edges: decay, use, pruning, restoring.                      *)

Immune(e) == \/ edge[e].owner \in {"hand", "sync", "l2"} \/ edge[e].inh # 0
             \/ {edge[e].src, edge[e].tgt} \cap Frozen # {}
Prunable == {e \in Present : edge[e].st = "live" /\ edge[e].tgt # 0 /\ ~Immune(e)}

\* Only what is not immune decays
Fade == /\ Has("fade")
        /\ \E e \in Prunable : ~edge[e].faint /\ edge' = [edge EXCEPT ![e].faint = TRUE]
        /\ UNCHANGED <<state, heir, txn, selected, stray>>

\* reinforce_relations: a late task names any pair of granules
Reinforce == /\ Has("touch")
             /\ \E a \in Ids, b \in Ids :
                  LET used == {e \in Between(a, b) : edge[e].st = "live"}
                  IN used # {} /\ Free(used) /\ edge' = Firm(used)
             /\ UNCHANGED <<state, heir, txn, selected, stray>>

\* Age and bridges between clusters spare some of those that could go.  The
\* history campaign of L1c asks for a low cosine instead of a faint weight
PruneSelect ==
  /\ Has("prune") /\ selected = {}
  /\ \/ selected' \in SUBSET {e \in Prunable : edge[e].faint} \ {{}}
     \/ selected' \in SUBSET {e \in Prunable : edge[e].owner = "l1"} \ {{}}
  /\ UNCHANGED <<state, heir, edge, txn, stray>>

\* Only the rows' being unpruned is looked at again
PruneApply ==
  /\ selected # {} /\ selected' = {}
  /\ LET S == {e \in selected : edge[e].st = "live"}
     IN /\ Free(S)
        /\ edge' = [e \in Edges |-> IF e \in S THEN [edge[e] EXCEPT !.st = "pruned"] ELSE edge[e]]
  /\ UNCHANGED <<state, heir, txn>> /\ Noted

RestoreEdge == /\ Has("restore")
               /\ \E e \in Present :
                    /\ edge[e].st = "pruned" /\ Free({e})
                    /\ edge' = [edge EXCEPT ![e].st = "live", ![e].faint = FALSE]
               /\ UNCHANGED <<state, heir, txn, selected>> /\ Noted

Version(w) == VersionBegin(w) \/ RewireSource(w) \/ RewireTarget(w) \/ Victim(w) \/ Lose(w)

Granule == Link \/ Retract \/ Delete \/ GcPurge \/ OrphansCleanup
Person == AddRelation \/ DeleteRelation \/ SyncDelete \/ Backfill \/ SyncBatch
Campaign == Linker \/ Reconcile \/ PruneSelect \/ PruneApply
Life == Fade \/ Reinforce \/ RestoreEdge

Next == /\ menu' = menu
        /\ (\E w \in Workers : Version(w)) \/ Granule \/ Person \/ Campaign \/ Life

Spec == Init /\ [][Next]_vars

-----------------------------------------------------------------------------
(* Properties.                                                             *)

\* A superseded granule keeps a living edge to a live one only if the edge came
\* there while or after the version was made, or nothing moved edges at all
LeftBehind(e) == /\ edge[e].st = "live" /\ edge[e].type # "supersedes" /\ edge[e].tgt # 0
                 /\ \E g, h \in {edge[e].src, edge[e].tgt} : g # h /\ state[g] = "superseded" /\ h \in Live
LeftBehindHasCause == \A e \in Present : LeftBehind(e) => e \in stray

\* An edge changes an end only for the heir of a granule that is being closed,
\* for the bearer of its name, or to none when the granule at the end is deleted
Follows(g, h) == g = h \/ (state'[g] = "superseded" /\ heir'[g] = h /\ state[g] = "asserted")
MovesFollowHeirs ==
  [][\A e \in Present : edge'[e].st \in {"live", "pruned"} =>
        /\ Follows(edge[e].src, edge'[e].src)
        /\ \/ edge[e].tgt = edge'[e].tgt
           \/ edge[e].tgt # 0 /\ edge'[e].tgt = 0 /\ state'[edge[e].tgt] = "gone"
           \/ edge[e].tgt = 0 /\ edge'[e].tgt \in Bearers(edge[e].name)
           \/ edge[e].tgt # 0 /\ edge'[e].tgt # 0 /\ Follows(edge[e].tgt, edge'[e].tgt)]_vars

=============================================================================
