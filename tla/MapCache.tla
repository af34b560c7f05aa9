------------------------------ MODULE MapCache ------------------------------
(***************************************************************************)
(* The map of the whole graph: its layout in map_layout, its snapshots and *)
(* marks in Redis, and the browsers that keep a snapshot under its ETag.   *)
(*                                                                         *)
(* The graph is two counters: seen counts the changes that the version     *)
(* hash shows (granules, new edges), unseen those it does not show         *)
(* (clusters, weights of edges).  A position is the run that set it; a     *)
(* position set by hand is named Hand.  One suffix of snapshot keys stands *)
(* for all of them.                                                        *)
(***************************************************************************)
EXTENDS Integers, FiniteSets

CONSTANTS Nodes,     \* granules that may come to be
          Hourly, Nightly, Galaxy, \* layout_map, layout_map(force), galactic_layout
          Requests,  \* tasks and web requests that want a snapshot
          Born,      \* granules that are there at the start
          Menus      \* what may happen in one behaviour

VARIABLES menu, left,  \* the element of Menus, and what is left of its counts
          seen, unseen, \* PostgreSQL: memories, relations, clusters
          nodes,        \* PostgreSQL: the live granules
          row,          \* PostgreSQL: map_layout
          meta,         \* Redis: map:meta
          snaps,        \* Redis: map:snap:<version>
          lock,         \* Redis: map:lock, with its owner
          dirty,        \* Redis: map:dirty
          marker,       \* Redis: map:layout:graph
          relock,       \* Redis: map:layout:lock, with its owner
          lay,          \* the tasks that lay the map out
          req,          \* the tasks that make a snapshot
          bump,         \* bump_dirty
          client,       \* what a browser holds
          promised, late \* history: changes a finished bump_dirty has announced; snapshots that raced with it

graph == <<seen, unseen, nodes>>
redis == <<meta, snaps, lock, dirty, marker, relock>>
tasks == <<lay, req, bump, client>>
history == <<promised, late>>
vars == <<menu, left, graph, row, redis, tasks, history>>

Layouts == {Hourly, Nightly, Galaxy}
NoOne == "no one"
Hand == "hand"
None == [g |-> -1, rev |-> -1]
Ops == {"hourly", "nightly", "galaxy", "force", "client", "drl_fails", "expire", "slow", "kill"}
Counts == [node : Nat, edge : Nat, cluster : Nat, hand : Nat, kill : Nat, run : Nat, get : Nat]

ASSUME MapAssumption == /\ NoOne \notin Layouts \cup Requests /\ Hand \notin Layouts
                        /\ Born \subseteq Nodes /\ Nodes # {} /\ IsFiniteSet(Nodes)
                        /\ Hourly # Nightly /\ Galaxy \notin {Hourly, Nightly}
                        /\ Menus \subseteq [ops : SUBSET Ops, may : Counts]

\* rows of map_layout: by is source and the run that gave the coordinates,
\* manual says that source is manual
Rows == [by : Layouts \cup {Hand}, manual : BOOLEAN, rev : Nat]
NoRow == [by |-> NoOne, manual |-> FALSE, rev |-> 0]
Versions == [g : Nat, rev : Nat]
Bodies == [g : Nat, h : Nat]
LayPoints == {"idle", "meta", "gate", "lock", "read", "drl", "write", "gread", "gwrite",
              "tail", "nometa", "sweep", "post", "mark", "free"}
LayRuns == [pc : LayPoints, ver : Versions \cup {None}, force : BOOLEAN, nodes : SUBSET Nodes, fresh : BOOLEAN,
            rev : Nat, out : {"none", "noop", "locked", "busy", "kept", "ok", "failed"}]
AskPoints == {"idle", "meta", "put", "tag", "look", "wait", "read", "store", "unlock", "serve"}
Askings == [pc : AskPoints, ver : Versions \cup {None}, next : {"idle", "tag", "look"},
            serve : BOOLEAN, body : Bodies, crossed : BOOLEAN]

Resting == [pc |-> "idle", ver |-> None, force |-> FALSE, nodes |-> {}, fresh |-> FALSE, rev |-> 0, out |-> "none"]
Asking == [pc |-> "idle", ver |-> None, next |-> "idle", serve |-> FALSE,
           body |-> [g |-> 0, h |-> 0], crossed |-> FALSE]

TypeOK == /\ menu \in Menus /\ left \in Counts
          /\ {seen, unseen, promised} \subseteq Nat
          /\ nodes \subseteq Nodes
          /\ row \in [Nodes -> Rows \cup {NoRow}]
          /\ meta \in Versions \cup {None} /\ marker \in Versions \cup {None}
          /\ DOMAIN snaps \subseteq Versions /\ \A v \in DOMAIN snaps : snaps[v] \in Bodies
          /\ lock \in Requests \cup {NoOne} /\ relock \in Layouts \cup {NoOne}
          /\ dirty \in BOOLEAN
          /\ bump \in {"idle", "dirty", "meta", "scan"}
          /\ client \in [v : Versions \cup {None}, body : Bodies]
          /\ late \subseteq Versions
          /\ lay \in [Layouts -> LayRuns] /\ req \in [Requests -> Askings]

Init == /\ menu \in Menus /\ left = menu.may
        /\ seen = 0 /\ unseen = 0 /\ nodes = Born /\ row = [n \in Nodes |-> NoRow]
        /\ meta = None /\ snaps = <<>> /\ lock = NoOne /\ dirty = FALSE
        /\ marker = None /\ relock = NoOne
        /\ lay = [p \in Layouts |-> Resting] /\ req = [b \in Requests |-> Asking]
        /\ bump = "idle" /\ client = [v |-> None, body |-> [g |-> 0, h |-> 0]]
        /\ promised = 0 /\ late = {}

Spend(what) == left[what] > 0 /\ left' = [left EXCEPT ![what] = @ - 1]
Has(op) == op \in menu.ops

\* max(rev) of map_layout, 0 when it is empty
MaxRev == LET revs == {row[n].rev : n \in Nodes} IN CHOOSE r \in revs : \A s \in revs : s <= r
\* _compute_meta
Version == [g |-> seen, rev |-> MaxRev]
Without(v) == [x \in DOMAIN snaps \ {v} |-> snaps[x]]

-----------------------------------------------------------------------------
(* The graph changes.  A campaign that has changed edges or clusters       *)
(* announces it with bump_dirty; a stored granule does not.                *)

NewNode(n) == /\ n \notin nodes /\ Spend("node")
              /\ nodes' = nodes \cup {n} /\ seen' = seen + 1
              /\ UNCHANGED <<menu, unseen, row, redis, tasks, history>>

NewEdges == /\ bump = "idle" /\ Spend("edge") /\ seen' = seen + 1 /\ bump' = "dirty"
            /\ UNCHANGED <<menu, unseen, nodes, row, redis, lay, req, client, history>>

\* refresh_clusters, reinforced edges: nothing the version hash shows
Regroup == /\ bump = "idle" /\ Spend("cluster") /\ unseen' = unseen + 1 /\ bump' = "dirty"
           /\ UNCHANGED <<menu, seen, nodes, row, redis, lay, req, client, history>>

\* memory_store with a position: a new row is outside the generations, the
\* generation of an old one stays
PlaceByHand(n) == /\ n \in nodes /\ Spend("hand")
                  /\ row' = [row EXCEPT ![n] = [by |-> Hand, manual |-> TRUE, rev |-> @.rev]]
                  /\ UNCHANGED <<menu, graph, redis, tasks, history>>

\* bump_dirty, one Redis command after the other; a scan meets every key that
\* was there when it began
BumpDirty == /\ bump = "dirty" /\ dirty' = TRUE /\ bump' = "meta"
             /\ UNCHANGED <<menu, left, graph, row, meta, snaps, lock, marker, relock, lay, req, client, history>>
BumpMeta == /\ bump = "meta" /\ meta' = None /\ bump' = "scan"
            /\ UNCHANGED <<menu, left, graph, row, snaps, lock, dirty, marker, relock, lay, req, client, history>>

KeepsSnaps(S) == S
Swept(S) == <<>>
\* Whoever has read its rows and has not stored them yet crosses the bump
BumpScan == /\ bump = "scan" /\ snaps' = Swept(snaps) /\ bump' = "idle"
            /\ promised' = unseen
            /\ late' = {}
            /\ req' = [b \in Requests |-> IF req[b].pc = "store" THEN [req[b] EXCEPT !.crossed = TRUE] ELSE req[b]]
            /\ UNCHANGED <<menu, left, graph, row, meta, lock, dirty, marker, relock, lay, client>>

\* The announcement is best-effort
BumpFails == /\ bump # "idle" /\ Spend("kill") /\ bump' = "idle"
             /\ UNCHANGED <<menu, graph, row, redis, lay, req, client, history>>

-----------------------------------------------------------------------------
(* A snapshot: the tag of the browser first, then ensure_snapshot.         *)

Step(b, r) == req' = [req EXCEPT ![b] = r]
At(b, pc) == req[b].pc = pc

\* map_full asks for the meta; layout_map and build_map_snapshot begin with
\* ensure_snapshot
Get(b) == /\ Has("client") /\ At(b, "idle") /\ Spend("get")
          /\ Step(b, [Asking EXCEPT !.pc = "meta", !.next = "tag", !.serve = TRUE])
          /\ UNCHANGED <<menu, graph, row, redis, lay, bump, client, history>>
Warm(b) == /\ At(b, "idle") /\ Spend("get")
           /\ Step(b, [Asking EXCEPT !.pc = "meta", !.next = "look"])
           /\ UNCHANGED <<menu, graph, row, redis, lay, bump, client, history>>

\* meta(): from the cache, or computed and then written to it
Meta(b) == /\ At(b, "meta")
           /\ Step(b, IF meta # None THEN [req[b] EXCEPT !.pc = req[b].next, !.ver = meta]
                                     ELSE [req[b] EXCEPT !.pc = "put", !.ver = Version])
           /\ UNCHANGED <<menu, left, graph, row, redis, lay, bump, client, history>>
MetaPut(b) == /\ At(b, "put") /\ meta' = req[b].ver
              /\ Step(b, [req[b] EXCEPT !.pc = req[b].next])
              /\ UNCHANGED <<menu, left, graph, row, snaps, lock, dirty, marker, relock, lay, bump, client, history>>

\* 304 when the browser holds this version, otherwise the build with a meta of its own
Tag(b) == /\ At(b, "tag")
          /\ Step(b, IF client.v = req[b].ver THEN Asking
                     ELSE [req[b] EXCEPT !.pc = "meta", !.next = "look"])
          /\ UNCHANGED <<menu, left, graph, row, redis, lay, bump, client, history>>

Look(b) == /\ At(b, "look")
           /\ IF req[b].ver \in DOMAIN snaps
              THEN Step(b, [req[b] EXCEPT !.pc = "serve"]) /\ UNCHANGED lock
              ELSE IF lock = NoOne
              THEN Step(b, [req[b] EXCEPT !.pc = "read"]) /\ lock' = b
              ELSE Step(b, [req[b] EXCEPT !.pc = "wait"]) /\ UNCHANGED lock
           /\ UNCHANGED <<menu, left, graph, row, meta, snaps, dirty, marker, relock, lay, bump, client, history>>

\* _await_snapshot: the key comes, or the wait ends in 503
Wait(b) == /\ At(b, "wait")
           /\ Step(b, IF req[b].ver \in DOMAIN snaps THEN [req[b] EXCEPT !.pc = "serve"] ELSE Asking)
           /\ UNCHANGED <<menu, left, graph, row, redis, lay, bump, client, history>>

Read(b) == /\ At(b, "read")
           /\ Step(b, [req[b] EXCEPT !.pc = "store", !.body = [g |-> seen, h |-> unseen]])
           /\ UNCHANGED <<menu, left, graph, row, redis, lay, bump, client, history>>

KeyNow(b) == Version
KeyOf(b) == req[b].ver
Store(b) == /\ At(b, "store")
            /\ LET key == KeyOf(b)
               IN /\ snaps' = [v \in DOMAIN snaps \cup {key} |-> IF v = key THEN req[b].body ELSE snaps[v]]
                  /\ late' = IF req[b].crossed THEN late \cup {key} ELSE late \ {key}
                  /\ Step(b, [req[b] EXCEPT !.pc = "unlock", !.ver = key])
            /\ UNCHANGED <<menu, left, graph, row, meta, lock, dirty, marker, relock, lay, bump, client, promised>>

\* The lock is deleted whoever holds it by now
Unlock(b) == /\ At(b, "unlock") /\ lock' = NoOne
             /\ Step(b, [req[b] EXCEPT !.pc = "serve"])
             /\ UNCHANGED <<menu, left, graph, row, meta, snaps, dirty, marker, relock, lay, bump, client, history>>

\* The bytes are read again by key; they go out under the version of the build
TagOf(b) == req[b].ver
Serve(b) == /\ At(b, "serve")
            /\ client' = IF req[b].serve /\ req[b].ver \in DOMAIN snaps
                         THEN [v |-> TagOf(b), body |-> snaps[req[b].ver]] ELSE client
            /\ Step(b, Asking)
            /\ UNCHANGED <<menu, left, graph, row, redis, lay, bump, history>>

RequestKilled(b) == /\ Has("kill") /\ req[b].pc # "idle" /\ Spend("kill") /\ Step(b, Asking)
                    /\ UNCHANGED <<menu, graph, row, redis, lay, bump, client, history>>

\* map_meta_ttl, map_snapshot_ttl and map_stale_ttl, and the 120 s of the lock,
\* which a slow build outlives
Expire == /\ \/ Has("expire") /\ meta # None /\ meta' = None /\ UNCHANGED <<snaps, lock>>
             \/ Has("expire") /\ \E v \in DOMAIN snaps : snaps' = Without(v) /\ UNCHANGED <<meta, lock>>
             \/ Has("slow") /\ lock # NoOne /\ lock' = NoOne /\ UNCHANGED <<meta, snaps>>
          /\ UNCHANGED <<menu, left, graph, row, dirty, marker, relock, tasks, history>>

-----------------------------------------------------------------------------
(* The layout.  layout_map holds map:layout:lock from LayLock to Free;     *)
(* galactic_layout takes no lock.  The coordinates come from a child       *)
(* process, which may die, hang, write half a file or report an error.     *)

Lay(p, r) == lay' = [lay EXCEPT ![p] = r]
Bare(p) == [Resting EXCEPT !.force = lay[p].force]
Goes(p, pc) == Lay(p, [lay[p] EXCEPT !.pc = pc])
Stops(p, out) == Lay(p, [Resting EXCEPT !.out = out])
Is(p, pc) == lay[p].pc = pc
Drl == {Hourly, Nightly}
Laying == {"read", "drl", "write", "gread", "gwrite", "tail", "nometa", "sweep", "post", "mark", "free"}

Tick(p, op) == /\ Has(op) /\ Is(p, "idle")
HourlyTick == /\ Tick(Hourly, "hourly")
              /\ Lay(Hourly, [Resting EXCEPT !.pc = "meta"])
              /\ UNCHANGED <<menu, left, graph, row, redis, req, bump, client, history>>
NightlyTick == /\ Tick(Nightly, "nightly") /\ Spend("run")
               /\ Lay(Nightly, [Resting EXCEPT !.pc = "meta", !.force = TRUE])
               /\ UNCHANGED <<menu, graph, row, redis, req, bump, client, history>>
GalaxyRun(force) == /\ Tick(Galaxy, "galaxy") /\ Spend("run") /\ (force => Has("force"))
                    /\ Lay(Galaxy, [Resting EXCEPT !.pc = "gread", !.force = force])
                    /\ UNCHANGED <<menu, graph, row, redis, req, bump, client, history>>

\* rebuild_layout begins with _compute_meta
LayMeta(p) == /\ Is(p, "meta")
              /\ Lay(p, [lay[p] EXCEPT !.pc = "gate", !.ver = Version])
              /\ UNCHANGED <<menu, left, graph, row, redis, req, bump, client, history>>

\* A run that is not forced has nothing to do when the mark of the last
\* layout is the version of the graph
NothingMarked(p) == ~dirty /\ marker = lay[p].ver
NothingToDo(p) == ~lay[p].force /\ ~dirty /\ marker = lay[p].ver
LayGate(p) == /\ Is(p, "gate")
              /\ IF NothingToDo(p) THEN Stops(p, "noop") ELSE Goes(p, "lock")
              /\ UNCHANGED <<menu, left, graph, row, redis, req, bump, client, history>>

\* SET NX.  The hourly run gives way; the nightly one asks again until its
\* 180 seconds are over
LayLock(p) == /\ Is(p, "lock") /\ relock = NoOne
              /\ relock' = p /\ Goes(p, "read")
              /\ UNCHANGED <<menu, left, graph, row, meta, snaps, lock, dirty, marker, req, bump, client, history>>
Released(p) == NoOne
Kept(p) == relock
LayGivesUp(p) == /\ Is(p, "lock") /\ relock # NoOne
                 /\ relock' = Kept(p) /\ Stops(p, IF lay[p].force THEN "busy" ELSE "locked")
                 /\ UNCHANGED <<menu, left, graph, row, meta, snaps, lock, dirty, marker, req, bump, client, history>>

\* The nodes, the old rows, the next rev and the edges
LayRead(p) == /\ Is(p, "read")
              /\ Lay(p, [lay[p] EXCEPT !.pc = "drl", !.ver = None, !.nodes = nodes, !.rev = MaxRev + 1,
                                       !.fresh = \A n \in Nodes : row[n] = NoRow])
              /\ UNCHANGED <<menu, left, graph, row, redis, req, bump, client, history>>

\* What the child comes to: its file is whole or short, or it answers
\* that there is no igraph or an error, or nothing (dead, late, garbled)
Children == {"whole", "short", "no_igraph", "error", "nothing"}
DrlStatus(child) == CASE child = "whole" -> "drl" [] child = "no_igraph" -> "sphere" [] OTHER -> "failed"

\* A failed run leaves a map that is laid out as it is and only places what is new
LayDrl(p) == /\ Is(p, "drl")
             /\ \E child \in Children :
                   /\ child # "whole" => Has("drl_fails")
                   /\ Goes(p, IF DrlStatus(child) = "failed" /\ ~lay[p].fresh THEN "gread" ELSE "write")
             /\ UNCHANGED <<menu, left, graph, row, redis, req, bump, client, history>>

\* MAP_LAYOUT_UPSERT_SQL: source is not looked at and stays
LayWrite(p) == /\ Is(p, "write")
               /\ row' = [n \in Nodes |-> IF n \in lay[p].nodes
                                          THEN [by |-> p, manual |-> row[n].manual, rev |-> lay[p].rev] ELSE row[n]]
               /\ Lay(p, [Bare(p) EXCEPT !.pc = "tail"])
               /\ UNCHANGED <<menu, left, graph, redis, req, bump, client, history>>

\* layout_galaxy: forced it places every node, otherwise those without a row
Free(p) == IF p \in Drl THEN "free" ELSE "idle"
GalaxyRead(p) == /\ Is(p, "gread")
                 /\ LET force == lay[p].force /\ p = Galaxy
                        todo == IF force THEN nodes ELSE {n \in nodes : row[n] = NoRow}
                    IN Lay(p, [lay[p] EXCEPT !.pc = IF todo = {} THEN Free(p) ELSE "gwrite", !.nodes = todo, !.out = "kept"])
                 /\ UNCHANGED <<menu, left, graph, row, redis, req, bump, client, history>>

\* One transaction: the next rev, the rows that go, the rows that come
Spared(p, n) == row[n] # NoRow /\ (row[n].manual \/ ~(lay[p].force /\ p = Galaxy))
GalaxyWrite(p) == /\ Is(p, "gwrite")
                  /\ row' = [n \in Nodes |-> IF Spared(p, n) THEN row[n]
                                             ELSE IF n \in lay[p].nodes
                                             THEN [by |-> Galaxy, manual |-> FALSE, rev |-> MaxRev + 1] ELSE NoRow]
                  /\ Lay(p, [Bare(p) EXCEPT !.pc = "tail"])
                  /\ UNCHANGED <<menu, left, graph, redis, req, bump, client, history>>

\* Both end alike: the dirty mark, the meta and the snapshots go, then the
\* mark of this layout is computed and written
ClearDirty(p) == /\ Is(p, "tail") /\ dirty' = FALSE /\ Goes(p, "nometa")
                 /\ UNCHANGED <<menu, left, graph, row, meta, snaps, lock, marker, relock, req, bump, client, history>>
ClearMeta(p) == /\ Is(p, "nometa") /\ meta' = None /\ Goes(p, "sweep")
                /\ UNCHANGED <<menu, left, graph, row, snaps, lock, dirty, marker, relock, req, bump, client, history>>
Sweep(p) == /\ Is(p, "sweep") /\ snaps' = Swept(snaps) /\ Goes(p, "post")
            /\ UNCHANGED <<menu, left, graph, row, meta, lock, dirty, marker, relock, req, bump, client, history>>
PostMeta(p) == /\ Is(p, "post") /\ Lay(p, [lay[p] EXCEPT !.pc = "mark", !.ver = Version])
               /\ UNCHANGED <<menu, left, graph, row, redis, req, bump, client, history>>
Mark(p) == /\ Is(p, "mark") /\ marker' = lay[p].ver
           /\ Lay(p, [Bare(p) EXCEPT !.pc = Free(p), !.out = "ok"])
           /\ UNCHANGED <<menu, left, graph, row, meta, snaps, lock, dirty, relock, req, bump, client, history>>
Release(p) == /\ Is(p, "free") /\ relock' = NoOne /\ Stops(p, lay[p].out)
              /\ UNCHANGED <<menu, left, graph, row, meta, snaps, lock, dirty, marker, req, bump, client, history>>

\* An exception goes through finally; a lost worker does not, and its task is
\* delivered again
LayFails(p) == /\ Spend("kill") /\ lay[p].pc \in Laying \ {"free"}
               /\ IF p \in Drl THEN Lay(p, [Bare(p) EXCEPT !.pc = "free", !.out = "failed"]) ELSE Stops(p, "failed")
               /\ UNCHANGED <<menu, graph, row, redis, req, bump, client, history>>
LayKilled(p) == /\ Spend("kill") /\ ~Is(p, "idle")
                /\ Lay(p, [Bare(p) EXCEPT !.pc = IF p = Galaxy THEN "gread" ELSE "meta"])
                /\ UNCHANGED <<menu, graph, row, redis, req, bump, client, history>>
\* 360 seconds are more than a run of layout_map may take
Outlived == relock \in Drl /\ lay[relock].pc \notin Laying
RelockExpires == /\ Outlived /\ relock' = NoOne
                 /\ UNCHANGED <<menu, left, graph, row, meta, snaps, lock, dirty, marker, tasks, history>>

-----------------------------------------------------------------------------
Changes == NewEdges \/ Regroup \/ \E n \in Nodes : NewNode(n) \/ PlaceByHand(n)
Bumping == BumpDirty \/ BumpMeta \/ BumpScan
Asks(b) == Meta(b) \/ MetaPut(b) \/ Tag(b) \/ Look(b) \/ Wait(b) \/ Read(b) \/ Store(b) \/ Unlock(b) \/ Serve(b)
Locked(p) == LayMeta(p) \/ LayGate(p) \/ LayLock(p) \/ LayGivesUp(p) \/ LayRead(p) \/ LayDrl(p) \/ LayWrite(p)
Galactic(p) == GalaxyRead(p) \/ GalaxyWrite(p) \/ ClearDirty(p) \/ ClearMeta(p) \/ Sweep(p) \/ PostMeta(p) \/ Mark(p)
Lays(p) == Locked(p) \/ Galactic(p) \/ Release(p)
Faults == BumpFails \/ Expire \/ RelockExpires
          \/ (\E b \in Requests : RequestKilled(b)) \/ \E p \in Layouts : LayFails(p) \/ LayKilled(p)

Next == \/ Changes \/ Bumping \/ Faults
        \/ HourlyTick \/ NightlyTick \/ (\E force \in BOOLEAN : GalaxyRun(force))
        \/ \E b \in Requests : Get(b) \/ Warm(b) \/ Asks(b)
        \/ \E p \in Layouts : Lays(p)

Spec == Init /\ [][Next]_vars

\* A task that has begun goes on; Redis drops a key whose time is over
Fairness == /\ \A p \in Layouts : WF_vars(Lays(p))
            /\ WF_vars(RelockExpires)
FairSpec == Spec /\ Fairness

-----------------------------------------------------------------------------
\* The rows of a snapshot are never older than its version says, and one that
\* lacks a change bump_dirty has announced was read before the sweep and stored
\* after it: no cached meta, expired build lock, second builder, layout or meta
\* written late can bring old rows back in another way.
StaleHasCause == \A v \in DOMAIN snaps : snaps[v].g >= v.g /\ (snaps[v].h < promised => v \in late)

\* Two runs of layout_map never compute at once: two DrL children in one
\* container starve each other of memory.
LayoutAlone == Cardinality({p \in Drl : lay[p].pc \in Laying}) <= 1

\* A granule that is there when the nightly run begins gets its place, also when
\* an earlier layout has cleared the mark of its edges; the run may only be
\* kept out by another run or fail.
NightPlaces == \A n \in Nodes : (n \in nodes /\ lay[Nightly].pc = "meta")
                                 ~> (row[n] # NoRow \/ lay[Nightly].out \in {"busy", "failed"})

=============================================================================
