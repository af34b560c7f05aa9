----------------------------- MODULE AtlasProofs -----------------------------
(***************************************************************************)
(* What is proved of Atlas.  Of the map (MapCache): no two layouts at      *)
(* once, and why a stored snapshot can be stale.  Of the clusters: what    *)
(* belongs together stays together, where leftover labels come from, and   *)
(* that the campaign spares bridges and skips no candidate.  Of the places *)
(* (Seating): a cluster sits together, and only what nothing holds goes    *)
(* into the halo.                                                          *)
(***************************************************************************)
EXTENDS Atlas, FiniteSetTheorems, WellFoundedInduction, TLAPS

-----------------------------------------------------------------------------
\* A finite set has an element with none after it: one with the fewest
LEMMA LastOf ==
  ASSUME NEW S, IsFiniteSet(S), S # {}, NEW Rel,
         \A x \in S : <<x, x>> \notin Rel,
         \A x, y, z \in S : <<x, y>> \in Rel /\ <<y, z>> \in Rel => <<x, z>> \in Rel
  PROVE  \E m \in S : \A x \in S : <<m, x>> \notin Rel
<1> DEFINE Beyond(x) == {y \in S : <<x, y>> \in Rel}
           size == [x \in S |-> Cardinality(Beyond(x))]
           T == {size[x] : x \in S}
           Less == {p \in Nat \X Nat : p[1] < p[2]}
<1>1. \A x \in S : IsFiniteSet(Beyond(x)) /\ size[x] = Cardinality(Beyond(x)) /\ size[x] \in Nat
  <2> TAKE x \in S
  <2>1. Beyond(x) \in SUBSET S
    OBVIOUS
  <2>2. IsFiniteSet(Beyond(x))
    BY <2>1, FS_Subset
  <2> QED
    BY <2>2, FS_CardinalityType
<1>2. ASSUME NEW m \in S, NEW x \in S, <<m, x>> \in Rel PROVE size[x] < size[m]
  <2>1. Beyond(x) \in SUBSET Beyond(m) /\ x \in Beyond(m) /\ x \notin Beyond(x)
    BY <1>2
  <2> HIDE DEF Beyond, size
  <2>2. /\ Cardinality(Beyond(x)) <= Cardinality(Beyond(m))
        /\ Cardinality(Beyond(m)) = Cardinality(Beyond(x)) => Beyond(m) = Beyond(x)
    BY <1>1, <2>1, FS_Subset
  <2> QED
    BY <1>1, <2>1, <2>2
<1> HIDE DEF Beyond, size
<1>3. T \subseteq Nat /\ T # {}
  BY <1>1
<1>4. IsWellFoundedOn(Less, Nat)
  BY NatLessThanWellFounded DEF OpToRel
<1>5. PICK c \in T : \A d \in T : ~(<<d, c>> \in Less)
  <2> HIDE DEF Less, T
  <2> QED
    BY <1>3, <1>4, WFMin
<1>6. PICK m \in S : c = size[m]
  BY <1>5
<1>7. ASSUME NEW x \in S, <<m, x>> \in Rel PROVE FALSE
  <2>1. size[x] < c /\ size[x] \in Nat /\ c \in Nat
    BY <1>1, <1>2, <1>6, <1>7
  <2>2. <<size[x], c>> \in Nat \X Nat /\ <<size[x], c>>[1] < <<size[x], c>>[2]
    BY <2>1
  <2> QED
    BY <1>5, <2>2
<1> QED
  BY <1>7

-----------------------------------------------------------------------------
(* The map.                                                                *)

LEMMA RevOf == ASSUME row \in [Nodes -> Rows \cup {NoRow}] PROVE MaxRev \in Nat
<1> DEFINE Rel == {p \in Nodes \X Nodes : row[p[1]].rev < row[p[2]].rev}
<1>1. \A n \in Nodes : row[n].rev \in Nat
  BY DEF Rows, NoRow
<1>2. \A x, y \in Nodes : <<x, y>> \in Rel <=> row[x].rev < row[y].rev
  OBVIOUS
<1> HIDE DEF Rel
<1>3. PICK m \in Nodes : \A x \in Nodes : <<m, x>> \notin Rel
  <2>1. \A x \in Nodes : <<x, x>> \notin Rel
    BY <1>1, <1>2
  <2>2. \A x, y, z \in Nodes : <<x, y>> \in Rel /\ <<y, z>> \in Rel => <<x, z>> \in Rel
    BY <1>1, <1>2
  <2>3. IsFiniteSet(Nodes) /\ Nodes # {}
    BY MapAssumption
  <2> QED
    BY <2>1, <2>2, <2>3, LastOf, Zenon
<1>4. \A x \in Nodes : row[x].rev <= row[m].rev
  <2> TAKE x \in Nodes
  <2>1. ~(row[m].rev < row[x].rev)
    BY <1>2, <1>3, Zenon
  <2>2. row[m].rev \in Nat /\ row[x].rev \in Nat
    BY <1>1
  <2> QED
    BY <2>1, <2>2
<1> DEFINE revs == {row[n].rev : n \in Nodes}
<1>5. row[m].rev \in revs /\ \A s \in revs : s <= row[m].rev
  BY <1>4
<1>6. revs \subseteq Nat
  BY <1>1
<1>7. (CHOOSE r \in revs : \A s \in revs : s <= r) \in Nat
  <2> HIDE DEF revs
  <2> QED
    BY <1>5, <1>6
<1> QED
  BY <1>7 DEF MaxRev

-----------------------------------------------------------------------------
(* The map.                                                                *)

\* Nothing is stamped with a version the graph has not reached, and what is
\* about to be stored has been read since its version was taken
Stamped == /\ promised <= unseen /\ meta.g <= seen
           /\ \A b \in Requests :
                /\ req[b].ver.g <= seen
                /\ req[b].pc \in {"look", "wait", "read", "store", "unlock", "serve", "put", "tag"} => req[b].ver # None
                /\ req[b].pc = "store" => /\ req[b].body.g >= req[b].ver.g
                                          /\ req[b].crossed \/ req[b].body.h >= promised

\* Who computes a layout with DrL has the lock of the layouts, galactic_layout never
Owned == /\ \A p \in Drl : lay[p].pc \in Laying => relock = p
         /\ lay[Galaxy].pc \notin {"meta", "gate", "lock", "read", "drl", "write", "free"}

MapInv == TypeOK /\ Stamped /\ Owned /\ StaleHasCause

USE DEF graph, redis, tasks, history

LEMMA Spends ==
  ASSUME left \in Counts, NEW what \in {"node", "edge", "cluster", "hand", "kill", "run", "get"}, Spend(what)
  PROVE  left' \in Counts
BY DEF Counts, Spend

LEMMA VersionIs ==
  ASSUME TypeOK
  PROVE  Version \in Versions /\ Version.g = seen /\ MaxRev \in Nat /\ Version # None
BY RevOf DEF Version, Versions, TypeOK, None

LEMMA VersionsHave ==
  ASSUME NEW v \in Versions \cup {None}
  PROVE  v.g \in Int /\ (v # None => v \in Versions /\ v.g \in Nat)
BY DEF Versions, None

LEMMA Beginnings == Resting \in LayRuns /\ Asking \in Askings
BY DEF Resting, Asking, LayRuns, Askings, LayPoints, AskPoints, Bodies, None

LEMMA InitMap == Init => MapInv
<1> SUFFICES ASSUME Init PROVE MapInv
  OBVIOUS
<1>1. menu \in Menus /\ left \in Counts
  BY MapAssumption DEF Init
<1>2. TypeOK
  <2>1. /\ menu \in Menus /\ left \in Counts /\ {seen, unseen, promised} \subseteq Nat
        /\ nodes \subseteq Nodes /\ row \in [Nodes -> Rows \cup {NoRow}]
    BY <1>1, MapAssumption DEF Init
  <2>2. lay \in [Layouts -> LayRuns] /\ req \in [Requests -> Askings]
    BY Beginnings DEF Init
  <2>3. DOMAIN snaps = {}
    BY DEF Init
  <2>4. client \in [v : Versions \cup {None}, body : Bodies]
    BY DEF Init, Bodies
  <2> QED
    BY <2>1, <2>2, <2>3, <2>4 DEF Init, TypeOK
<1>3. Stamped
  BY DEF Init, Stamped, Asking, None
<1>4. Owned
  BY DEF Init, Owned, Resting, Laying, Layouts, Drl
<1>5. StaleHasCause
  BY DEF Init, StaleHasCause
<1> QED
  BY <1>2, <1>3, <1>4, <1>5 DEF MapInv

\* Steps that leave requests and graph alone
LEMMA RequestsRest ==
  ASSUME MapInv, UNCHANGED <<seen, unseen, req, history>>,
         meta' \in {meta, None}, snaps' \in {snaps, <<>>}
  PROVE  Stamped' /\ StaleHasCause'
<1>1. None.g <= seen
  BY DEF MapInv, TypeOK, None
<1> QED
  BY <1>1 DEF MapInv, Stamped, StaleHasCause

LEMMA LayoutsRest ==
  ASSUME MapInv, UNCHANGED <<lay, relock>>
  PROVE  Owned'
BY DEF MapInv, Owned

-----------------------------------------------------------------------------
LEMMA ChangesKeep == MapInv /\ (Changes \/ Bumping \/ BumpFails) => MapInv'
<1> SUFFICES ASSUME MapInv, Changes \/ Bumping \/ BumpFails PROVE MapInv'
  OBVIOUS
<1> USE DEF MapInv
<1>1. UNCHANGED <<lay, relock, menu, marker, lock, client>>
  BY DEF Changes, Bumping, NewNode, NewEdges, Regroup, PlaceByHand, BumpDirty, BumpMeta, BumpScan, BumpFails
<1>2. ASSUME NEW n \in Nodes, NewNode(n) PROVE MapInv'
  <2>1. TypeOK'
    BY <1>2, Spends DEF NewNode, TypeOK
  <2>2. Stamped' /\ StaleHasCause'
    BY <1>2, VersionsHave DEF NewNode, Stamped, StaleHasCause, TypeOK, Askings
  <2> QED
    BY <1>1, <2>1, <2>2, LayoutsRest
<1>3. CASE NewEdges
  <2>1. TypeOK'
    BY <1>1, <1>3, Spends DEF NewEdges, TypeOK
  <2>2. Stamped' /\ StaleHasCause'
    BY <1>3, VersionsHave DEF NewEdges, Stamped, StaleHasCause, TypeOK, Askings
  <2> QED
    BY <1>1, <2>1, <2>2, LayoutsRest
<1>4. CASE Regroup
  <2>1. TypeOK'
    BY <1>1, <1>4, Spends DEF Regroup, TypeOK
  <2>2. Stamped' /\ StaleHasCause'
    BY <1>4 DEF Regroup, Stamped, StaleHasCause, TypeOK
  <2> QED
    BY <1>1, <2>1, <2>2, LayoutsRest
<1>5. ASSUME NEW n \in Nodes, PlaceByHand(n) PROVE MapInv'
  <2>1. [by |-> Hand, manual |-> TRUE, rev |-> row[n].rev] \in Rows
    BY DEF TypeOK, Rows, NoRow
  <2>2. row' \in [Nodes -> Rows \cup {NoRow}]
    BY <1>5, <2>1 DEF PlaceByHand, TypeOK
  <2>3. TypeOK'
    BY <1>1, <1>5, <2>2, Spends DEF PlaceByHand, TypeOK
  <2> QED
    BY <1>1, <1>5, <2>3, LayoutsRest, RequestsRest DEF PlaceByHand
<1>6. CASE BumpDirty \/ BumpMeta \/ BumpFails
  <2>1. TypeOK'
    BY <1>1, <1>6, Spends DEF BumpDirty, BumpMeta, BumpFails, TypeOK
  <2>2. UNCHANGED <<seen, unseen, req, history>> /\ meta' \in {meta, None} /\ snaps' = snaps
    BY <1>6 DEF BumpDirty, BumpMeta, BumpFails
  <2> QED
    BY <1>1, <2>1, <2>2, LayoutsRest, RequestsRest
<1>7. CASE BumpScan
  <2>1. \A b \in Requests : /\ req'[b].pc = req[b].pc /\ req'[b].ver = req[b].ver /\ req'[b].body = req[b].body
                            /\ req'[b].pc = "store" => req'[b].crossed
                            /\ req'[b] \in Askings
    BY <1>7 DEF BumpScan, TypeOK, Askings
  <2>2. TypeOK'
    <3>1. req' \in [Requests -> Askings]
      BY <1>7, <2>1 DEF BumpScan
    <3> QED
      BY <1>1, <1>7, <3>1 DEF BumpScan, TypeOK, Swept
  <2>3. Stamped'
    BY <1>7, <2>1 DEF BumpScan, Stamped, TypeOK
  <2>4. StaleHasCause'
    BY <1>7 DEF BumpScan, StaleHasCause, Swept
  <2> QED
    BY <1>1, <2>2, <2>3, <2>4, LayoutsRest
<1> QED
  BY <1>2, <1>3, <1>4, <1>5, <1>6, <1>7 DEF Changes, Bumping

-----------------------------------------------------------------------------
\* The steps of a request keep the layouts, the graph and the announcements
LEMMA AsksRest ==
  ASSUME MapInv, NEW b \in Requests, Asks(b) \/ Get(b) \/ Warm(b) \/ RequestKilled(b)
  PROVE  /\ UNCHANGED <<menu, seen, unseen, nodes, row, dirty, marker, relock, lay, bump, promised>>
         /\ Owned' /\ left' \in Counts
<1>1. /\ UNCHANGED <<menu, seen, unseen, nodes, row, dirty, marker, relock, lay, bump, promised>>
      /\ left' = left \/ \E what \in {"kill", "get"} : Spend(what)
  BY DEF Asks, Get, Warm, RequestKilled, Meta, MetaPut, Tag, Look, Wait, Read, Store, Unlock, Serve
<1>2. left' \in Counts
  BY <1>1, Spends DEF MapInv, TypeOK
<1> QED
  BY <1>1, <1>2, LayoutsRest

\* What is known of a request between two of its steps
Sound(r) == /\ r \in Askings /\ r.ver.g <= seen
            /\ r.pc \in {"look", "wait", "read", "store", "unlock", "serve", "put", "tag"} => r.ver # None
            /\ r.pc = "store" => r.body.g >= r.ver.g /\ (r.crossed \/ r.body.h >= promised)

LEMMA Sounds == ASSUME MapInv PROVE \A b \in Requests : Sound(req[b])
BY DEF MapInv, TypeOK, Stamped, Sound

\* A request whose step leaves the snapshots alone and that is sound after it
LEMMA AsksKeep ==
  ASSUME MapInv, NEW b \in Requests, NEW r, Sound(r), Step(b, r),
         UNCHANGED <<menu, seen, unseen, nodes, row, snaps, dirty, marker, relock, lay, bump, history>>,
         left' \in Counts, meta' \in {meta, req[b].ver}, lock' \in Requests \cup {NoOne}, client' \in [v : Versions \cup {None}, body : Bodies]
  PROVE  MapInv'
<1> USE DEF MapInv
<1>1. meta' \in Versions \cup {None} /\ meta'.g <= seen
  BY Sounds DEF Sound, Askings, Stamped, TypeOK
<1>2. req' \in [Requests -> Askings] /\ \A c \in Requests : Sound(req'[c])
  BY Sounds DEF Step, TypeOK, Sound
<1>3. TypeOK'
  BY <1>1, <1>2 DEF TypeOK
<1>4. Stamped'
  BY <1>1, <1>2 DEF Stamped, Sound
<1>5. StaleHasCause'
  BY DEF StaleHasCause
<1> QED
  BY <1>3, <1>4, <1>5, LayoutsRest

LEMMA RequestsKeep ==
  ASSUME MapInv, NEW b \in Requests, Asks(b) \/ Get(b) \/ Warm(b) \/ RequestKilled(b)
  PROVE  MapInv'
<1>1. /\ UNCHANGED <<menu, seen, unseen, nodes, row, dirty, marker, relock, lay, bump, promised>>
      /\ Owned' /\ left' \in Counts
  BY AsksRest
<1>2. Sound(Asking)
  BY Beginnings DEF Sound, Asking, None, MapInv, TypeOK
<1>3. /\ Sound(req[b]) /\ req[b] \in Askings /\ meta \in Versions \cup {None} /\ meta.g <= seen
      /\ lock \in Requests \cup {NoOne} /\ client \in [v : Versions \cup {None}, body : Bodies]
      /\ seen \in Nat /\ unseen \in Nat /\ promised \in Nat /\ promised <= unseen
      /\ left \in Counts
  BY Sounds DEF MapInv, TypeOK, Stamped
<1>4. CASE Get(b) \/ Warm(b)
  <2>1. /\ Sound([Asking EXCEPT !.pc = "meta", !.next = "tag", !.serve = TRUE])
        /\ Sound([Asking EXCEPT !.pc = "meta", !.next = "look"])
    BY <1>2 DEF Sound, Askings, AskPoints, Asking
  <2> QED
    BY <1>1, <1>3, <1>4, <2>1, AsksKeep DEF Get, Warm
<1>5. CASE Meta(b)
  <2>1. meta # None => Sound([req[b] EXCEPT !.pc = req[b].next, !.ver = meta])
    BY <1>3 DEF Sound, Askings, AskPoints
  <2>2. Version \in Versions /\ Version.g = seen /\ Version # None
    BY VersionIs DEF MapInv
  <2>3. ASSUME NEW v \in Versions, v.g = seen, v # None PROVE Sound([req[b] EXCEPT !.pc = "put", !.ver = v])
    <3> DEFINE r == [req[b] EXCEPT !.pc = "put", !.ver = v]
    <3>1. r \in Askings
      BY <1>3, <2>3 DEF Askings, AskPoints
    <3>2. r.pc = "put" /\ r.ver = v
      BY <1>3 DEF Askings
    <3> HIDE DEF r
    <3>3. Sound(r)
      BY <1>3, <2>3, <3>1, <3>2 DEF Sound
    <3> QED
      BY <3>3 DEF r
  <2>4. Sound([req[b] EXCEPT !.pc = "put", !.ver = Version])
    BY <2>2, <2>3
  <2> QED
    BY <1>1, <1>3, <1>5, <2>1, <2>4, AsksKeep DEF Meta
<1>6. CASE MetaPut(b)
  <2>1. req[b].ver # None
    BY <1>3, <1>6 DEF Sound, MetaPut, At
  <2>2. Sound([req[b] EXCEPT !.pc = req[b].next])
    BY <1>3, <2>1 DEF Sound, Askings, AskPoints
  <2> QED
    BY <1>1, <1>3, <1>6, <2>2, AsksKeep DEF MetaPut
<1>7. CASE Tag(b)
  <2>1. Sound([req[b] EXCEPT !.pc = "meta", !.next = "look"])
    BY <1>3 DEF Sound, Askings, AskPoints
  <2> QED
    BY <1>1, <1>2, <1>3, <1>7, <2>1, AsksKeep DEF Tag
<1>8. CASE Look(b) \/ Wait(b) \/ Unlock(b)
  <2>1. req[b].ver # None
    BY <1>3, <1>8 DEF Sound, Look, Wait, Unlock, At
  <2>2. \A pc \in {"serve", "read", "wait"} : Sound([req[b] EXCEPT !.pc = pc])
    BY <1>3, <2>1 DEF Sound, Askings, AskPoints
  <2>3. PICK r \in {Asking} \cup {[req[b] EXCEPT !.pc = pc] : pc \in {"serve", "read", "wait"}} : Step(b, r)
    BY <1>8 DEF Look, Wait, Unlock
  <2>4. Sound(r)
    BY <1>2, <2>2
  <2>5. /\ UNCHANGED <<snaps, history, meta, client>> /\ lock' \in Requests \cup {NoOne}
    BY <1>3, <1>8 DEF Look, Wait, Unlock
  <2> QED
    BY <1>1, <1>3, <2>3, <2>4, <2>5, AsksKeep
<1>9. CASE Read(b)
  <2>1. req[b].ver # None /\ req[b].pc = "read"
    BY <1>3, <1>9 DEF Sound, Read, At
  <2>2. Sound([req[b] EXCEPT !.pc = "store", !.body = [g |-> seen, h |-> unseen]])
    BY <1>3, <2>1 DEF Sound, Askings, AskPoints, Bodies
  <2> QED
    BY <1>1, <1>3, <1>9, <2>2, AsksKeep DEF Read
<1>10. CASE Serve(b)
  <2>1. /\ req[b].ver \in DOMAIN snaps => snaps[req[b].ver] \in Bodies
        /\ req[b].ver \in Versions \cup {None}
    BY <1>3 DEF MapInv, TypeOK, Askings
  <2>2. client' \in [v : Versions \cup {None}, body : Bodies]
    BY <1>3, <1>10, <2>1 DEF Serve, TagOf
  <2> QED
    BY <1>1, <1>2, <1>3, <1>10, <2>2, AsksKeep DEF Serve
<1>11. CASE RequestKilled(b)
  BY <1>1, <1>2, <1>3, <1>11, AsksKeep DEF RequestKilled
<1>12. CASE Store(b)
  <2> DEFINE key == req[b].ver
             r == [req[b] EXCEPT !.pc = "unlock", !.ver = key]
  <2>1. key \in Versions /\ key # None /\ req[b].body \in Bodies /\ req[b].body.g >= key.g
        /\ (req[b].crossed \/ req[b].body.h >= promised)
    BY <1>3, <1>12 DEF Sound, Store, At, Askings
  <2>2. /\ Step(b, r) /\ UNCHANGED <<meta, lock, client>>
        /\ snaps' = [v \in DOMAIN snaps \cup {key} |-> IF v = key THEN req[b].body ELSE snaps[v]]
        /\ late' = IF req[b].crossed THEN late \cup {key} ELSE late \ {key}
    BY <1>12 DEF Store, KeyOf
  <2>3. Sound(r)
    BY <1>3, <2>1 DEF Sound, Askings, AskPoints
  <2>4. req' \in [Requests -> Askings] /\ \A c \in Requests : Sound(req'[c])
    <3> HIDE DEF r
    <3> QED
      BY <2>2, <2>3, Sounds DEF Step, MapInv, TypeOK, Sound
  <2>5. TypeOK'
    <3>1. DOMAIN snaps' \subseteq Versions /\ \A v \in DOMAIN snaps' : snaps'[v] \in Bodies
      BY <2>1, <2>2 DEF MapInv, TypeOK
    <3>2. late' \subseteq Versions
      BY <2>1, <2>2 DEF MapInv, TypeOK
    <3> HIDE DEF key, r
    <3> QED
      BY <1>1, <2>2, <2>4, <3>1, <3>2 DEF MapInv, TypeOK
  <2>6. Stamped'
    BY <1>1, <2>2, <2>4 DEF MapInv, Stamped, Sound
  <2>7. StaleHasCause'
    BY <1>1, <1>3, <2>1, <2>2 DEF MapInv, StaleHasCause, TypeOK, Bodies
  <2> QED
    BY <1>1, <2>5, <2>6, <2>7 DEF MapInv
<1> QED
  BY <1>4, <1>5, <1>6, <1>7, <1>8, <1>9, <1>10, <1>11, <1>12 DEF Asks

\* Redis drops a key whose time is over
LEMMA ExpiresKeep == MapInv /\ (Expire \/ RelockExpires) => MapInv'
<1> SUFFICES ASSUME MapInv, Expire \/ RelockExpires PROVE MapInv'
  OBVIOUS
<1>1. /\ UNCHANGED <<menu, left, graph, row, dirty, marker, tasks, history>>
      /\ meta' \in {meta, None} /\ lock' \in {lock, NoOne} /\ relock' \in {relock, NoOne}
      /\ snaps' = snaps \/ \E v \in DOMAIN snaps : snaps' = Without(v)
  BY DEF Expire, RelockExpires
<1>2. DOMAIN snaps' \subseteq DOMAIN snaps /\ \A v \in DOMAIN snaps' : snaps'[v] = snaps[v]
  BY <1>1 DEF Without
<1>3. TypeOK'
  BY <1>1, <1>2 DEF MapInv, TypeOK
<1>4. Stamped' /\ StaleHasCause'
  <2>1. None.g <= seen
    BY DEF MapInv, TypeOK, None
  <2>2. meta'.g <= seen
    BY <1>1, <2>1 DEF MapInv, Stamped
  <2>3. Stamped'
    BY <1>1, <2>2 DEF MapInv, Stamped
  <2> QED
    BY <1>1, <1>2, <2>3 DEF MapInv, StaleHasCause
<1>5. Owned'
  <2>1. CASE UNCHANGED relock
    BY <1>1, <2>1 DEF MapInv, Owned
  <2>2. CASE RelockExpires
    BY <2>2 DEF MapInv, Owned, RelockExpires, Outlived
  <2> QED
    BY <2>1, <2>2 DEF Expire
<1> QED
  BY <1>3, <1>4, <1>5 DEF MapInv

-----------------------------------------------------------------------------
\* A step of a layout: it goes on as r, and what it does to the lock of the
\* layouts keeps the lock with whoever computes
GoesOn(p, r) ==
  /\ r \in LayRuns /\ Lay(p, r)
  /\ UNCHANGED <<menu, seen, unseen, nodes, lock, req, bump, client, promised, late>> /\ left' \in Counts
  /\ meta' \in {meta, None} /\ snaps' \in {snaps, <<>>} /\ dirty' \in BOOLEAN
  /\ row' \in [Nodes -> Rows \cup {NoRow}] /\ marker' \in Versions \cup {None}
  /\ r.pc \in Laying /\ p \in Drl => relock' = p
  /\ \/ UNCHANGED relock
     \/ relock = NoOne /\ relock' = p
     \/ lay[p].pc = "free" /\ relock' = NoOne
  /\ p = Galaxy => UNCHANGED relock /\ r.pc \notin {"meta", "gate", "lock", "read", "drl", "write", "free"}

LEMMA LaysKeep == ASSUME MapInv, NEW p \in Layouts, NEW r, GoesOn(p, r) PROVE MapInv'
<1> USE DEF MapInv, GoesOn
<1>1. lay' \in [Layouts -> LayRuns] /\ lay' = [lay EXCEPT ![p] = r]
  BY DEF TypeOK, Lay
<1>2. relock' \in Layouts \cup {NoOne}
  BY DEF TypeOK
<1>3. meta' \in Versions \cup {None}
  BY DEF TypeOK
<1>4. DOMAIN snaps' \subseteq Versions /\ \A v \in DOMAIN snaps' : snaps'[v] \in Bodies
  BY DEF TypeOK
<1>5. TypeOK'
  BY <1>1, <1>2, <1>3, <1>4 DEF TypeOK
<1>6. Owned'
  <2>1. \A q \in Layouts : lay'[q] = IF q = p THEN r ELSE lay[q]
    BY <1>1 DEF TypeOK
  <2>2. ASSUME NEW q \in Drl, lay'[q].pc \in Laying PROVE relock' = q
    <3>1. CASE q = p
      BY <2>1, <2>2, <3>1 DEF Drl, Layouts
    <3>2. CASE q # p
      <4>1. relock = q
        BY <2>1, <2>2, <3>2 DEF Owned, Drl, Layouts
      <4>2. p # Galaxy /\ lay[p].pc = "free" => relock = p
        BY DEF Owned, Drl, Layouts, Laying
      <4>3. q # NoOne
        BY MapAssumption DEF Drl, Layouts
      <4> QED
        BY <3>2, <4>1, <4>2, <4>3
    <3> QED
      BY <3>1, <3>2
  <2>3. lay'[Galaxy].pc \notin {"meta", "gate", "lock", "read", "drl", "write", "free"}
    BY <2>1 DEF Owned, Layouts
  <2> QED
    BY <2>2, <2>3 DEF Owned
<1> QED
  BY <1>5, <1>6, RequestsRest

\* What a layout may go on as
LEMMA LayStates ==
  ASSUME MapInv, NEW p \in Layouts
  PROVE  /\ lay[p] \in LayRuns /\ Bare(p) \in LayRuns
         /\ \A pc \in LayPoints : [lay[p] EXCEPT !.pc = pc] \in LayRuns /\ [Bare(p) EXCEPT !.pc = pc] \in LayRuns
         /\ \A out \in {"none", "noop", "locked", "busy", "kept", "ok", "failed"} : [Resting EXCEPT !.out = out] \in LayRuns
<1>1. lay[p] \in LayRuns
  BY DEF MapInv, TypeOK
<1>2. Bare(p) \in LayRuns
  BY <1>1, Beginnings DEF Bare, LayRuns, Resting
<1>3. \A r \in LayRuns : \A pc \in LayPoints : [r EXCEPT !.pc = pc] \in LayRuns
  BY DEF LayRuns
<1>4. \A out \in {"none", "noop", "locked", "busy", "kept", "ok", "failed"} : [Resting EXCEPT !.out = out] \in LayRuns
  BY Beginnings DEF LayRuns, Resting
<1> QED
  BY <1>1, <1>2, <1>3, <1>4

LEMMA OneIsGalaxy == \A p \in Layouts : p # Galaxy <=> p \in Drl
BY MapAssumption DEF Layouts, Drl

\* What the steps of a layout leave as it is
LEMMA LaysRest ==
  ASSUME MapInv, NEW p \in Layouts,
         Lays(p) \/ LayFails(p) \/ LayKilled(p) \/ HourlyTick \/ NightlyTick \/ \E force \in BOOLEAN : GalaxyRun(force)
  PROVE  /\ UNCHANGED <<menu, seen, unseen, nodes, lock, req, bump, client, history>>
         /\ left' \in Counts /\ meta' \in {meta, None} /\ snaps' \in {snaps, <<>>} /\ dirty' \in BOOLEAN
<1>1. left' = left \/ \E what \in {"kill", "run"} : Spend(what)
  BY DEF Lays, Locked, Galactic, LayMeta, LayGate, LayLock, LayGivesUp, LayRead, LayDrl, LayWrite, GalaxyRead, GalaxyWrite,
         ClearDirty, ClearMeta, Sweep, PostMeta, Mark, Release, LayFails, LayKilled, HourlyTick, NightlyTick, GalaxyRun
<1>2. left' \in Counts
  BY <1>1, Spends DEF MapInv, TypeOK
<1>3. dirty \in BOOLEAN
  BY DEF MapInv, TypeOK
<1>4. /\ UNCHANGED <<menu, seen, unseen, nodes, lock, req, bump, client, history>>
      /\ meta' \in {meta, None} /\ snaps' \in {snaps, <<>>} /\ dirty' \in {dirty, FALSE}
  BY DEF Lays, Locked, Galactic, LayMeta, LayGate, LayLock, LayGivesUp, LayRead, LayDrl, LayWrite, GalaxyRead, GalaxyWrite,
         ClearDirty, ClearMeta, Sweep, Swept, PostMeta, Mark, Release, LayFails, LayKilled, HourlyTick, NightlyTick, GalaxyRun
<1> QED
  BY <1>2, <1>3, <1>4

LEMMA TicksKeep == MapInv /\ (HourlyTick \/ NightlyTick \/ \E force \in BOOLEAN : GalaxyRun(force)) => MapInv'
<1> SUFFICES ASSUME MapInv, HourlyTick \/ NightlyTick \/ \E force \in BOOLEAN : GalaxyRun(force) PROVE MapInv'
  OBVIOUS
<1>1. /\ [Resting EXCEPT !.pc = "meta"] \in LayRuns
      /\ [Resting EXCEPT !.pc = "meta", !.force = TRUE] \in LayRuns
      /\ \A force \in BOOLEAN : [Resting EXCEPT !.pc = "gread", !.force = force] \in LayRuns
  BY Beginnings DEF LayRuns, LayPoints, Resting
<1>2. PICK p \in Layouts, r \in LayRuns :
         /\ Lay(p, r) /\ UNCHANGED <<relock, row, marker>>
         /\ r.pc = (IF p = Galaxy THEN "gread" ELSE "meta")
  <2>1. CASE HourlyTick
    BY <1>1, <2>1, MapAssumption DEF HourlyTick, Layouts, Resting
  <2>2. CASE NightlyTick
    BY <1>1, <2>2, MapAssumption DEF NightlyTick, Layouts, Resting
  <2>3. CASE \E force \in BOOLEAN : GalaxyRun(force)
    <3>1. PICK force \in BOOLEAN : GalaxyRun(force)
      BY <2>3
    <3>2. /\ Lay(Galaxy, [Resting EXCEPT !.pc = "gread", !.force = force]) /\ UNCHANGED <<relock, row, marker>>
      BY <3>1 DEF GalaxyRun
    <3>3. [Resting EXCEPT !.pc = "gread", !.force = force].pc = "gread"
      BY DEF Resting
    <3> QED
      BY <1>1, <3>2, <3>3 DEF Layouts
  <2> QED
    BY <2>1, <2>2, <2>3
<1>3. /\ UNCHANGED <<menu, seen, unseen, nodes, lock, req, bump, client, history>>
      /\ left' \in Counts /\ meta' \in {meta, None} /\ snaps' \in {snaps, <<>>} /\ dirty' \in BOOLEAN
  BY LaysRest
<1>4. row' \in [Nodes -> Rows \cup {NoRow}] /\ marker' \in Versions \cup {None}
  BY <1>2 DEF MapInv, TypeOK
<1>5. r.pc \in Laying /\ p \in Drl => relock' = p
  BY <1>2, OneIsGalaxy DEF Laying
<1>6. p = Galaxy => UNCHANGED relock /\ r.pc \notin {"meta", "gate", "lock", "read", "drl", "write", "free"}
  BY <1>2
<1> QED
  <2>1. GoesOn(p, r)
    BY <1>2, <1>3, <1>4, <1>5, <1>6 DEF GoesOn
  <2> QED
    BY <2>1, LaysKeep

LEMMA FaultsKeep == ASSUME MapInv, NEW p \in Layouts, LayFails(p) \/ LayKilled(p) PROVE MapInv'
<1>1. PICK r \in LayRuns :
         /\ Lay(p, r) /\ UNCHANGED <<relock, row, marker>>
         /\ p # Galaxy => r.pc = "meta" \/ (r.pc = "free" /\ lay[p].pc \in Laying)
         /\ p = Galaxy => r.pc \in {"idle", "gread"}
  <2> DEFINE r1 == [Bare(p) EXCEPT !.pc = "free", !.out = "failed"]
             r2 == [Resting EXCEPT !.out = "failed"]
             r3 == [Bare(p) EXCEPT !.pc = IF p = Galaxy THEN "gread" ELSE "meta"]
  <2>1. r1 \in LayRuns /\ r2 \in LayRuns /\ r3 \in LayRuns
    <3>1. "free" \in LayPoints /\ "gread" \in LayPoints /\ "meta" \in LayPoints
      BY DEF LayPoints
    <3>2. r2 \in LayRuns /\ r3 \in LayRuns
      BY <3>1, LayStates
    <3>3. [Bare(p) EXCEPT !.pc = "free"] \in LayRuns
      BY <3>1, LayStates
    <3>4. \A r \in LayRuns : [r EXCEPT !.out = "failed"] \in LayRuns
      BY DEF LayRuns
    <3>5. r1 = [[Bare(p) EXCEPT !.pc = "free"] EXCEPT !.out = "failed"]
      BY LayStates DEF LayRuns
    <3> QED
      BY <3>2, <3>3, <3>4, <3>5
  <2>2. r1.pc = "free" /\ r2.pc = "idle" /\ r3.pc = IF p = Galaxy THEN "gread" ELSE "meta"
    <3>1. Bare(p) \in LayRuns
      BY LayStates
    <3> HIDE DEF MapInv
    <3> QED
      BY <3>1 DEF LayRuns, Resting
  <2>3. LayFails(p) => /\ IF p \in Drl THEN Lay(p, r1) ELSE Lay(p, r2)
                       /\ lay[p].pc \in Laying /\ UNCHANGED <<relock, row, marker>>
    BY DEF LayFails, Stops
  <2>4. LayKilled(p) => Lay(p, r3) /\ UNCHANGED <<relock, row, marker>>
    BY DEF LayKilled
  <2> HIDE DEF r1, r2, r3
  <2>5. p # Galaxy <=> p \in Drl
    BY OneIsGalaxy
  <2>6. CASE LayFails(p) /\ p \in Drl
    BY <2>1, <2>2, <2>3, <2>5, <2>6
  <2>7. CASE LayFails(p) /\ p \notin Drl
    BY <2>1, <2>2, <2>3, <2>5, <2>7
  <2>8. CASE LayKilled(p)
    <3>1. /\ r3 \in LayRuns /\ Lay(p, r3) /\ UNCHANGED <<relock, row, marker>>
          /\ p # Galaxy => r3.pc = "meta" \/ (r3.pc = "free" /\ lay[p].pc \in Laying)
          /\ p = Galaxy => r3.pc \in {"idle", "gread"}
      BY <2>1, <2>2, <2>4, <2>8
    <3> QED
      BY <3>1
  <2> QED
    BY <2>6, <2>7, <2>8
<1>2. /\ UNCHANGED <<menu, seen, unseen, nodes, lock, req, bump, client, history>>
      /\ left' \in Counts /\ meta' \in {meta, None} /\ snaps' \in {snaps, <<>>} /\ dirty' \in BOOLEAN
  BY LaysRest
<1>3. row' \in [Nodes -> Rows \cup {NoRow}] /\ marker' \in Versions \cup {None}
  BY <1>1 DEF MapInv, TypeOK
<1>4. r.pc \in Laying /\ p \in Drl => relock' = p
  BY <1>1, OneIsGalaxy DEF Laying, MapInv, Owned
<1>5. p = Galaxy => UNCHANGED relock /\ r.pc \notin {"meta", "gate", "lock", "read", "drl", "write", "free"}
  BY <1>1
<1> QED
  <2>1. GoesOn(p, r)
    BY <1>1, <1>2, <1>3, <1>4, <1>5 DEF GoesOn
  <2> QED
    BY <2>1, LaysKeep

LEMMA RunsKeep == ASSUME MapInv, NEW p \in Layouts, Lays(p) PROVE MapInv'
<1> DEFINE L == lay[p]
<1>1. /\ UNCHANGED <<menu, seen, unseen, nodes, lock, req, bump, client, history>>
      /\ left' \in Counts /\ meta' \in {meta, None} /\ snaps' \in {snaps, <<>>} /\ dirty' \in BOOLEAN
  BY LaysRest
<1>2. /\ L \in LayRuns /\ row \in [Nodes -> Rows \cup {NoRow}] /\ marker \in Versions \cup {None}
      /\ nodes \subseteq Nodes
  BY DEF MapInv, TypeOK
<1>3. /\ p \in Drl /\ L.pc \in Laying => relock = p
      /\ p = Galaxy => L.pc \notin {"meta", "gate", "lock", "read", "drl", "write", "free"}
      /\ p # Galaxy <=> p \in Drl
  BY OneIsGalaxy DEF MapInv, Owned
<1>4. Version \in Versions /\ MaxRev \in Nat
  BY VersionIs DEF MapInv
\* A step that only moves the run on
<1>5. ASSUME NEW r \in LayRuns, Lay(p, r), UNCHANGED <<relock, row>>, marker' \in Versions \cup {None},
             r.pc \in Laying => L.pc \in Laying,
             p = Galaxy => r.pc \notin {"meta", "gate", "lock", "read", "drl", "write", "free"}
      PROVE  MapInv'
  <2>1. GoesOn(p, r)
    BY <1>1, <1>2, <1>3, <1>5 DEF GoesOn
  <2> QED
    BY <2>1, LaysKeep
<1>6. CASE LayMeta(p)
  <2>1. [L EXCEPT !.pc = "gate", !.ver = Version] \in LayRuns /\ [L EXCEPT !.pc = "gate", !.ver = Version].pc = "gate"
    BY <1>2, <1>4 DEF LayRuns, LayPoints
  <2> QED
    BY <1>2, <1>3, <1>5, <1>6, <2>1 DEF LayMeta, Laying, Is
<1>7. CASE LayGate(p)
  <2>1. [Resting EXCEPT !.out = "noop"] \in LayRuns /\ [L EXCEPT !.pc = "lock"] \in LayRuns
    BY <1>2, Beginnings DEF LayRuns, LayPoints
  <2>2. [Resting EXCEPT !.out = "noop"].pc = "idle" /\ [L EXCEPT !.pc = "lock"].pc = "lock"
    BY <1>2 DEF LayRuns, Resting
  <2> QED
    BY <1>2, <1>3, <1>5, <1>7, <2>1, <2>2 DEF LayGate, Laying, Is, Stops, Goes
<1>8. CASE LayLock(p)
  <2>1. [L EXCEPT !.pc = "read"] \in LayRuns
    BY <1>2 DEF LayRuns, LayPoints
  <2>2. p # Galaxy
    BY <1>3, <1>8 DEF LayLock, Is
  <2>3. GoesOn(p, [L EXCEPT !.pc = "read"])
    BY <1>1, <1>2, <1>8, <2>1, <2>2 DEF GoesOn, LayLock, Goes
  <2> QED
    BY <2>3, LaysKeep
<1>9. CASE LayGivesUp(p)
  <2>1. \A out \in {"busy", "locked"} : [Resting EXCEPT !.out = out] \in LayRuns /\ [Resting EXCEPT !.out = out].pc = "idle"
    BY Beginnings DEF LayRuns, Resting
  <2> QED
    BY <1>2, <1>5, <1>9, <2>1 DEF LayGivesUp, Laying, Kept, Stops
<1>10. CASE LayRead(p)
  <2> DEFINE r == [L EXCEPT !.pc = "drl", !.ver = None, !.nodes = nodes, !.rev = MaxRev + 1,
                            !.fresh = \A n \in Nodes : row[n] = NoRow]
  <2>1. ASSUME NEW rev \in Nat, NEW fresh \in BOOLEAN, NEW s,
               s = [L EXCEPT !.pc = "drl", !.ver = None, !.nodes = nodes, !.rev = rev, !.fresh = fresh]
        PROVE  s \in LayRuns /\ s.pc = "drl"
    BY <1>2, <2>1 DEF LayRuns, LayPoints
  <2>3. r \in LayRuns /\ r.pc = "drl"
    <3> DEFINE fresh == \A n \in Nodes : row[n] = NoRow
    <3>1. fresh \in BOOLEAN /\ MaxRev + 1 \in Nat
      BY <1>4
    <3> HIDE DEF fresh
    <3>2. ASSUME NEW s, s = [L EXCEPT !.pc = "drl", !.ver = None, !.nodes = nodes, !.rev = MaxRev + 1, !.fresh = fresh]
          PROVE  s \in LayRuns /\ s.pc = "drl"
      BY <2>1, <3>1, <3>2
    <3> QED
      BY <3>2 DEF fresh
  <2>2. Lay(p, r) /\ UNCHANGED <<relock, row, marker>> /\ L.pc = "read"
    BY <1>10 DEF LayRead, Is
  <2> HIDE DEF r
  <2> QED
    BY <1>2, <1>3, <1>5, <2>2, <2>3 DEF Laying
<1>11. CASE LayDrl(p)
  <2>1. \A pc \in {"gread", "write"} : [L EXCEPT !.pc = pc] \in LayRuns /\ [L EXCEPT !.pc = pc].pc = pc
    BY <1>2 DEF LayRuns, LayPoints
  <2>2. L.pc = "drl" /\ UNCHANGED <<relock, row, marker>> /\ \E pc \in {"gread", "write"} : Goes(p, pc)
    BY <1>11 DEF LayDrl, Is
  <2> QED
    BY <1>2, <1>3, <1>5, <2>1, <2>2 DEF Laying, Goes
<1>12. /\ Bare(p) \in LayRuns
       /\ \A r \in LayRuns : \A pc \in LayPoints :
             [r EXCEPT !.pc = pc] \in LayRuns /\ [r EXCEPT !.pc = pc].pc = pc
  <2>1. Bare(p) \in LayRuns
    BY LayStates
  <2>2. \A r \in LayRuns : \A pc \in LayPoints : [r EXCEPT !.pc = pc] \in LayRuns /\ [r EXCEPT !.pc = pc].pc = pc
    BY DEF LayRuns
  <2> QED
    BY <2>1, <2>2
<1>13. {"tail", "nometa", "sweep", "post", "free", "idle", "gwrite", "mark"} \subseteq LayPoints
  BY DEF LayPoints
\* A step that writes rows and comes to its tail
<1>14. ASSUME row' \in [Nodes -> Rows \cup {NoRow}], UNCHANGED <<relock, marker>>, L.pc \in Laying,
              Lay(p, [Bare(p) EXCEPT !.pc = "tail"])
       PROVE  MapInv'
  <2>1. [Bare(p) EXCEPT !.pc = "tail"] \in LayRuns /\ [Bare(p) EXCEPT !.pc = "tail"].pc = "tail"
    BY <1>12, <1>13
  <2>2. GoesOn(p, [Bare(p) EXCEPT !.pc = "tail"])
    BY <1>1, <1>2, <1>3, <1>14, <2>1 DEF GoesOn
  <2> QED
    BY <2>2, LaysKeep
<1>15. CASE LayWrite(p)
  <2>1. \A n \in Nodes : [by |-> p, manual |-> row[n].manual, rev |-> L.rev] \in Rows
    <3>1. L.rev \in Nat
      BY <1>2 DEF LayRuns
    <3>2. \A n \in Nodes : row[n].manual \in BOOLEAN
      <4>1. NoRow.manual \in BOOLEAN
        BY DEF NoRow
      <4>2. \A r \in Rows : r.manual \in BOOLEAN
        BY DEF Rows
      <4>3. \A n \in Nodes : row[n] \in Rows \/ row[n] = NoRow
        BY <1>2
      <4> QED
        BY <4>1, <4>2, <4>3, Zenon
    <3>3. \A m \in BOOLEAN : \A v \in Nat : [by |-> p, manual |-> m, rev |-> v] \in Rows
      BY DEF Rows
    <3> QED
      BY <3>1, <3>2, <3>3
  <2>2. row' \in [Nodes -> Rows \cup {NoRow}]
    BY <1>2, <1>15, <2>1 DEF LayWrite
  <2> QED
    BY <1>14, <1>15, <2>2 DEF LayWrite, Is, Laying
<1>16. CASE GalaxyRead(p)
  <2>1. PICK todo \in SUBSET Nodes :
           Lay(p, [L EXCEPT !.pc = IF todo = {} THEN Free(p) ELSE "gwrite", !.nodes = todo, !.out = "kept"])
    <3> DEFINE todo == IF L.force /\ p = Galaxy THEN nodes ELSE {n \in nodes : row[n] = NoRow}
    <3>1. todo \in SUBSET Nodes
      BY <1>2
    <3>2. Lay(p, [L EXCEPT !.pc = IF todo = {} THEN Free(p) ELSE "gwrite", !.nodes = todo, !.out = "kept"])
      BY <1>16 DEF GalaxyRead
    <3> HIDE DEF todo
    <3> QED
      BY <3>1, <3>2
  <2> DEFINE pc == IF todo = {} THEN Free(p) ELSE "gwrite"
             r == [L EXCEPT !.pc = pc, !.nodes = todo, !.out = "kept"]
  <2>2. pc \in {"gwrite", "free", "idle"} /\ (p = Galaxy => pc # "free")
    BY <1>3 DEF Free
  <2> HIDE DEF pc
  <2>3. r \in LayRuns /\ r.pc = pc
    BY <1>2, <2>2 DEF LayRuns, LayPoints
  <2>4. L.pc = "gread" /\ Lay(p, r) /\ UNCHANGED <<relock, row, marker>>
    BY <1>16, <2>1 DEF GalaxyRead, Is, pc
  <2> HIDE DEF r
  <2> QED
    BY <1>2, <1>5, <2>2, <2>3, <2>4 DEF Laying
<1>17. CASE GalaxyWrite(p)
  <2>1. [by |-> Galaxy, manual |-> FALSE, rev |-> MaxRev + 1] \in Rows
    BY <1>4 DEF Rows, Layouts
  <2>2. row' \in [Nodes -> Rows \cup {NoRow}]
    BY <1>2, <1>17, <2>1 DEF GalaxyWrite
  <2> QED
    BY <1>14, <1>17, <2>2 DEF GalaxyWrite, Is, Laying
<1>18. CASE ClearDirty(p) \/ ClearMeta(p) \/ Sweep(p)
  <2>1. /\ L.pc \in Laying /\ UNCHANGED <<relock, row, marker>>
        /\ \E pc \in {"nometa", "sweep", "post"} : Goes(p, pc)
    BY <1>18 DEF ClearDirty, ClearMeta, Sweep, Is, Laying
  <2> QED
    BY <1>2, <1>5, <1>12, <1>13, <2>1 DEF Goes
<1>19. CASE PostMeta(p)
  <2>1. [L EXCEPT !.pc = "mark", !.ver = Version] \in LayRuns /\ [L EXCEPT !.pc = "mark", !.ver = Version].pc = "mark"
    BY <1>2, <1>4 DEF LayRuns, LayPoints
  <2> QED
    BY <1>2, <1>5, <1>19, <2>1 DEF PostMeta, Laying, Is
<1>20. CASE Mark(p)
  <2> DEFINE r == [Bare(p) EXCEPT !.pc = Free(p), !.out = "ok"]
  <2>1. Free(p) \in {"free", "idle"} /\ (p = Galaxy => Free(p) # "free")
    BY <1>3 DEF Free
  <2>2. r \in LayRuns /\ r.pc = Free(p)
    BY <1>12, <2>1 DEF LayRuns, LayPoints
  <2>3. Lay(p, r) /\ UNCHANGED <<relock, row>> /\ L.pc \in Laying /\ marker' = L.ver
    BY <1>20 DEF Mark, Is, Laying
  <2>4. marker' \in Versions \cup {None}
    BY <1>2, <2>3 DEF LayRuns
  <2> HIDE DEF r
  <2> QED
    BY <1>5, <2>1, <2>2, <2>3, <2>4
<1>21. CASE Release(p)
  <2>1. [Resting EXCEPT !.out = L.out] \in LayRuns /\ [Resting EXCEPT !.out = L.out].pc = "idle"
    BY <1>2, Beginnings DEF LayRuns, Resting
  <2>2. L.pc = "free" /\ relock' = NoOne /\ UNCHANGED <<row, marker>> /\ Lay(p, [Resting EXCEPT !.out = L.out])
    BY <1>21 DEF Release, Is, Stops
  <2>3. GoesOn(p, [Resting EXCEPT !.out = L.out])
    BY <1>1, <1>2, <1>3, <2>1, <2>2 DEF GoesOn, Laying
  <2> QED
    BY <2>3, LaysKeep
<1> QED
  BY <1>6, <1>7, <1>8, <1>9, <1>10, <1>11, <1>15, <1>16, <1>17, <1>18, <1>19, <1>20, <1>21
     DEF Lays, Locked, Galactic

LEMMA MapKept == MapInv /\ [Next]_vars => MapInv'
<1> SUFFICES ASSUME MapInv, [Next]_vars PROVE MapInv'
  OBVIOUS
<1>1. CASE Changes \/ Bumping
  BY <1>1, ChangesKeep
<1>2. CASE Faults
  <2>1. CASE BumpFails
    BY <2>1, ChangesKeep
  <2>2. CASE Expire \/ RelockExpires
    BY <2>2, ExpiresKeep
  <2>3. ASSUME NEW b \in Requests, RequestKilled(b) PROVE MapInv'
    BY <2>3, RequestsKeep
  <2>4. ASSUME NEW p \in Layouts, LayFails(p) \/ LayKilled(p) PROVE MapInv'
    BY <2>4, FaultsKeep
  <2> QED
    BY <1>2, <2>1, <2>2, <2>3, <2>4 DEF Faults
<1>3. CASE HourlyTick \/ NightlyTick \/ \E force \in BOOLEAN : GalaxyRun(force)
  BY <1>3, TicksKeep
<1>4. ASSUME NEW b \in Requests, Get(b) \/ Warm(b) \/ Asks(b) PROVE MapInv'
  BY <1>4, RequestsKeep
<1>5. ASSUME NEW p \in Layouts, Lays(p) PROVE MapInv'
  BY <1>5, RunsKeep
<1>6. CASE UNCHANGED vars
  <2>1. TypeOK'
    BY <1>6 DEF MapInv, TypeOK, vars
  <2>2. Stamped' /\ StaleHasCause' /\ Owned'
    BY <1>6, RequestsRest, LayoutsRest DEF vars
  <2> QED
    BY <2>1, <2>2 DEF MapInv
<1> QED
  BY <1>1, <1>2, <1>3, <1>4, <1>5, <1>6 DEF Next

\* The invariant of the map holds throughout
LEMMA MapHolds == Spec => []MapInv
BY InitMap, MapKept, PTL DEF Spec

\* No two runs of layout_map compute at once, however they are started, killed
\* and repeated and whenever the lock expires (map_service.py, the lock of rebuild_layout)
THEOREM LayoutsAlone == Spec => []LayoutAlone
<1>1. MapInv => LayoutAlone
  <2> SUFFICES ASSUME MapInv PROVE LayoutAlone
    OBVIOUS
  <2> DEFINE S == {p \in Drl : lay[p].pc \in Laying}
  <2>1. S \in SUBSET {relock}
    BY DEF MapInv, Owned
  <2>2. IsFiniteSet({relock}) /\ Cardinality({relock}) = 1
    BY FS_Singleton
  <2>3. IsFiniteSet(S) /\ Cardinality(S) <= 1
    <3> HIDE DEF S
    <3> QED
      BY <2>1, <2>2, FS_Subset
  <2> QED
    BY <2>3 DEF LayoutAlone
<1> QED
  BY <1>1, MapHolds, PTL

\* A stored snapshot is never older than its version, and lacks an announced
\* change only if it was read before the sweep of that bump_dirty and stored
\* after it (map_service.py, ensure_snapshot and bump_dirty)
THEOREM StaleExplained == Spec => []StaleHasCause
<1>1. MapInv => StaleHasCause
  BY DEF MapInv
<1> QED
  BY <1>1, MapHolds, PTL

\* The variables keep their types
THEOREM MapTyped == Spec => []TypeOK
<1>1. MapInv => TypeOK
  BY DEF MapInv
<1> QED
  BY <1>1, MapHolds, PTL

-----------------------------------------------------------------------------
(* The campaign.                                                           *)

\* Who is on the page and is a bridge became one after the page was read; a
\* campaign still has every candidate it has not judged before it
CampInv == /\ world \in World /\ edges \subseteq DOMAIN world.edges /\ due \subseteq edges
           /\ camp \in CampStates /\ camp.doomed \subseteq camp.page
           /\ camp.pc # "write" => camp.doomed = {}
           /\ \A e \in camp.page : BridgeIn(label, e) => e \in camp.crossed
           /\ camp.out = "ok" => camp.pc = "idle" /\ due = {}
           /\ camp.pc # "idle" => \A e \in due : /\ CandidateIn(label, edges, e)
                                                 /\ After(e, camp.last) \/ (camp.pc = "judge" /\ e \in camp.page)
Ended == {"idle", "next", "bump"}

\* A refresh touches its namespace only
Placed(j) == /\ j \in JobRuns /\ (j.at = Everywhere <=> j.pc \in Ended)
             /\ j.at = Everywhere => j.steady = {} /\ j.gone = {}
             /\ \A m \in Members : j.tag[m] # Untouched \/ j.group[m] # 0 => Home[m] = j.at
             /\ j.pc = "cleared" => \A m \in j.cand : Home[m] = j.at

\* A granule of A's complement that a refresh has met as such gets no label from it, and
\* has none when the refresh, alone in its namespace, has cleared
GoneFrom(j, A, lab) ==
  \A m \in j.gone :
    /\ Home[m] = j.at /\ m \notin A /\ j.group[m] = 0 /\ j.tag[m] \in {0, Untouched}
    /\ j.alone => /\ j.pc = "cleared" => m \in j.cand \/ lab[m] = 0
                  /\ j.pc \in {"norm", "rows", "mark", "sweep", "commit"} => j.tag[m] = 0 \/ lab[m] = 0

Big(near, S, a) == Cardinality(Component(SureIn(near, S), a)) >= MinMembers
\* What stands still is found, then grouped, then labelled
SteadyIn(j, w, A, sh) ==
  /\ \A m \in j.steady : Home[m] = j.at /\ m \in A /\ m \in sh /\ m \in w.vectors
  /\ j.pc \in {"search", "clear", "cleared", "norm"} =>
        \A a, b \in j.steady : a # b /\ {a, b} \in w.near /\ Few(w.near, a)
                               => {a, b} \in j.pairs \/ (j.pc = "search" /\ a \in j.ids)
  /\ \A p \in SureIn(w.near, j.steady) : \A a, b \in p : Big(w.near, j.steady, a) =>
        /\ j.pc \in {"rows", "mark"} => j.group[a] = j.group[b] /\ j.group[a] # 0
        /\ j.pc \in {"sweep", "commit"} => j.tag[a] = j.tag[b] /\ j.tag[a] \notin {0, Untouched}

JobInv(j, w, A, sh, lab) == Placed(j) /\ GoneFrom(j, A, lab) /\ SteadyIn(j, w, A, sh)
\* Who takes itself to be alone is
AloneIs == \A r \in Runs : job[r].alone /\ job[r].at # Everywhere => \A x \in Runs \ {r} : job[x].at # job[r].at

RefreshInv == /\ ClustersTypeOK /\ AloneIs
              /\ \A r \in Runs : JobInv(job[r], world, asserted, shown, label)

ClustersSpec == ClustersInit /\ [][ClustersNext]_clustersVars

USE DEF granules

LEMMA EdgesAre ==
  ASSUME world \in World
  PROVE  /\ IsFiniteSet(DOMAIN world.edges) /\ DOMAIN world.edges \subseteq Nat \ {0}
         /\ \A e \in DOMAIN world.edges : world.edges[e].age \in Nat
<1>1. world.edges \in Seq([age : Nat, ends : SUBSET Members])
  BY DEF World
<1>2. DOMAIN world.edges = 1..Len(world.edges) /\ Len(world.edges) \in Nat
  BY <1>1
<1>3. IsFiniteSet(1..Len(world.edges))
  BY <1>2, FS_Interval
<1>4. \A e \in DOMAIN world.edges : world.edges[e] \in [age : Nat, ends : SUBSET Members]
  <2>1. ASSUME NEW T, NEW q \in Seq(T) PROVE \A i \in DOMAIN q : q[i] \in T
    OBVIOUS
  <2> QED
    BY <1>1, <2>1, Zenon
<1> QED
  BY <1>2, <1>3, <1>4

\* Nothing that happens changes what there was at the start
LEMMA WorldStays ==
  ASSUME world \in World, ClustersNext
  PROVE  /\ world' \in World /\ world'.edges = world.edges /\ world'.frozen = world.frozen
         /\ world'.near = world.near /\ world'.vectors = world.vectors
<1>1. CASE \E r \in Runs : Begin(r)
  <2>1. PICK r \in Runs : world' = [world EXCEPT !.walks[r] = {}]
    BY <1>1 DEF Begin
  <2>2. world.walks \in [Runs -> SUBSET (Spaces \cup {Everywhere})]
    BY DEF World
  <2>3. [world.walks EXCEPT ![r] = {}] \in [Runs -> SUBSET (Spaces \cup {Everywhere})]
    BY <2>2
  <2>4. world' = [world EXCEPT !.walks = [world.walks EXCEPT ![r] = {}]]
    BY <2>1 DEF World
  <2> QED
    BY <2>3, <2>4 DEF World
<1>2. CASE Launch
  BY <1>2 DEF Launch, World
<1>3. CASE UNCHANGED world
  BY <1>3
<1> QED
  BY <1>1, <1>2, <1>3 DEF ClustersNext, Events, Campaign, Refresh, Retire, Revive, Sync, EdgeChanges, SearchFails, Lost, JudgeFails,
     ReadPage, Judge, Prune, Enter, Search, Clear, Cleared, Norm, UpsertRows, Label, SweepEmpty, Commit, Bump, Victim

\* What the edges are does not change, so a primed question is one about the
\* next labels and edges
LEMMA NextQuestions ==
  ASSUME world'.edges = world.edges, world'.frozen = world.frozen
  PROVE  \A e : /\ BridgeIn(label, e)' = BridgeIn(label', e)
                /\ CandidateIn(label, edges, e)' = CandidateIn(label', edges', e)
                /\ After(e, camp.last)' = After(e, camp'.last)
                /\ Place(e)' = Place(e)
BY DEF BridgeIn, CandidateIn, After, Place

LEMMA CampInit == ClustersInit => CampInv
<1> SUFFICES ASSUME ClustersInit PROVE CampInv
  OBVIOUS
<1>1. world \in World
  BY ClustersAssumption DEF ClustersInit
<1>2. camp \in CampStates /\ camp.doomed = {} /\ camp.page = {} /\ camp.out = "none" /\ camp.pc = "idle"
  BY DEF ClustersInit, NoCampaign, CampStates
<1> QED
  BY <1>1, <1>2 DEF ClustersInit, CampInv

\* Steps the campaign does not see
LEMMA CampRests ==
  ASSUME CampInv, world' \in World, world'.edges = world.edges, world'.frozen = world.frozen,
         UNCHANGED <<label, edges, camp, due>>
  PROVE  CampInv'
<1>1. \A e : /\ BridgeIn(label, e)' = BridgeIn(label, e)
             /\ CandidateIn(label, edges, e)' = CandidateIn(label, edges, e)
             /\ After(e, camp.last)' = After(e, camp.last)
  BY NextQuestions
<1> QED
  BY <1>1 DEF CampInv

\* Steps of others that the history of the campaign follows
LEMMA CampFollows ==
  ASSUME CampInv, world' = world, Follow(label', edges'), edges' \subseteq DOMAIN world.edges
  PROVE  CampInv'
<1> USE DEF CampInv
<1>1. \A e : /\ BridgeIn(label, e)' = BridgeIn(label', e)
             /\ CandidateIn(label, edges, e)' = CandidateIn(label', edges', e)
             /\ After(e, camp.last)' = After(e, camp'.last)
  BY NextQuestions
<1>2. /\ camp'.pc = camp.pc /\ camp'.last = camp.last /\ camp'.page = camp.page /\ camp'.doomed = camp.doomed
      /\ camp'.out = camp.out /\ camp'.crossed = camp.crossed \cup {e \in camp.page : BridgeIn(label', e)}
  BY DEF Follow, CampStates
<1>3. camp' \in CampStates
  BY <1>2 DEF Follow, CampStates
<1>4. due' = {e \in due : CandidateIn(label', edges', e)}
  BY DEF Follow
<1>5. due' \subseteq edges'
  BY <1>4 DEF CandidateIn
<1>6. \A e \in camp'.page : BridgeIn(label, e)' => e \in camp'.crossed
  BY <1>1, <1>2
<1>7. camp'.pc # "idle" => \A e \in due' : /\ CandidateIn(label, edges, e)'
                                           /\ After(e, camp.last)' \/ (camp'.pc = "judge" /\ e \in camp'.page)
  BY <1>1, <1>2, <1>4
<1> QED
  BY <1>2, <1>3, <1>4, <1>5, <1>6, <1>7

-----------------------------------------------------------------------------
\* What comes after the cursor, and its first page
Rest == {e \in edges : Selected(e) /\ After(e, camp.last)}
Before(e) == {x \in Rest : Later(Place(e), Place(x))}

LEMMA PlacesAre ==
  ASSUME CampInv, NEW e \in edges
  PROVE  Place(e) \in Nat \X Nat /\ Place(e)[2] = e /\ e \in Nat \ {0}
BY EdgesAre DEF CampInv, Place

LEMMA RestIs ==
  ASSUME CampInv
  PROVE  /\ Rest \subseteq edges /\ IsFiniteSet(Rest) /\ NextPage \subseteq Rest /\ IsFiniteSet(NextPage)
         /\ NextPage = {e \in Rest : Cardinality(Before(e)) < Page}
<1>1. Rest \in SUBSET (DOMAIN world.edges) /\ Rest \subseteq edges
  BY DEF Rest, CampInv
<1>2. IsFiniteSet(Rest)
  BY <1>1, EdgesAre, FS_Subset DEF CampInv
<1>3. NextPage = {e \in Rest : Cardinality(Before(e)) < Page}
  BY DEF NextPage, Rest, Before
<1>4. NextPage \in SUBSET Rest
  BY <1>3
<1> QED
  BY <1>1, <1>2, <1>3, <1>4, FS_Subset

\* Pages cut what is left in order: whoever is not on the page comes after
\* everybody on it
LEMMA PageIsFirst ==
  ASSUME CampInv, NEW e \in Rest, e \notin NextPage, NEW m \in NextPage
  PROVE  Later(Place(e), Place(m))
<1>1. m \in Rest /\ e \in edges /\ m \in edges /\ e # m
  BY RestIs
<1>2. /\ Place(e) \in Nat \X Nat /\ Place(m) \in Nat \X Nat /\ Place(e)[2] # Place(m)[2]
  BY <1>1, PlacesAre
<1>3. SUFFICES ASSUME Later(Place(m), Place(e)) PROVE FALSE
  BY <1>2 DEF Later
<1>4. Before(e) \in SUBSET Before(m)
  <2> SUFFICES ASSUME NEW x \in Before(e) PROVE x \in Before(m)
    OBVIOUS
  <2>1. x \in Rest /\ Later(Place(e), Place(x)) /\ x \in edges
    BY RestIs DEF Before
  <2>2. Place(x) \in Nat \X Nat
    BY <2>1, PlacesAre
  <2>3. Later(Place(m), Place(x))
    BY <1>2, <1>3, <2>1, <2>2 DEF Later
  <2> QED
    BY <2>1, <2>3 DEF Before
<1>5. Before(m) \in SUBSET Rest /\ IsFiniteSet(Before(m))
  <2>1. Before(m) \in SUBSET Rest
    BY DEF Before
  <2> QED
    BY <2>1, RestIs, FS_Subset
<1>6. Cardinality(Before(e)) <= Cardinality(Before(m)) /\ Cardinality(Before(e)) \in Nat /\ Cardinality(Before(m)) \in Nat
  BY <1>4, <1>5, FS_Subset, FS_CardinalityType
<1>7. Cardinality(Before(m)) < Page /\ Page \in Nat
  BY RestIs, ClustersAssumption
<1>8. Cardinality(Before(e)) < Page
  BY <1>6, <1>7
<1> QED
  BY <1>8, RestIs

\* There is a last one, and a first one, in what is not empty
LEMMA Extremes ==
  ASSUME CampInv, NEW S \in SUBSET edges, S # {}
  PROVE  /\ \E m \in S : \A x \in S : ~Later(Place(x), Place(m))
         /\ \E m \in S : \A x \in S : ~Later(Place(m), Place(x))
<1>1. IsFiniteSet(S)
  BY EdgesAre, FS_Subset DEF CampInv
<1>2. \A x \in S : Place(x) \in Nat \X Nat
  BY PlacesAre
<1> DEFINE Up == {p \in S \X S : Later(Place(p[2]), Place(p[1]))}
           Down == {p \in S \X S : Later(Place(p[1]), Place(p[2]))}
<1>3. /\ \A x, y \in S : <<x, y>> \in Up <=> Later(Place(y), Place(x))
      /\ \A x, y \in S : <<x, y>> \in Down <=> Later(Place(x), Place(y))
  OBVIOUS
<1> HIDE DEF Up, Down
<1>4. /\ \A x \in S : ~Later(Place(x), Place(x))
      /\ \A x, y, z \in S : Later(Place(x), Place(y)) /\ Later(Place(y), Place(z)) => Later(Place(x), Place(z))
  BY <1>2 DEF Later
<1>5. \E m \in S : \A x \in S : <<m, x>> \notin Up
  <2>1. \A x \in S : <<x, x>> \notin Up
    BY <1>3, <1>4
  <2>2. \A x, y, z \in S : <<x, y>> \in Up /\ <<y, z>> \in Up => <<x, z>> \in Up
    BY <1>3, <1>4
  <2> QED
    BY <1>1, <2>1, <2>2, LastOf, Zenon
<1>6. \E m \in S : \A x \in S : <<m, x>> \notin Down
  <2>1. \A x \in S : <<x, x>> \notin Down
    BY <1>3, <1>4
  <2>2. \A x, y, z \in S : <<x, y>> \in Down /\ <<y, z>> \in Down => <<x, z>> \in Down
    BY <1>3, <1>4
  <2> QED
    BY <1>1, <2>1, <2>2, LastOf, Zenon
<1> QED
  BY <1>3, <1>5, <1>6

\* An empty page ends the campaign only when nothing is left
LEMMA EmptyPage == ASSUME CampInv, NextPage = {} PROVE Rest = {}
<1> SUFFICES ASSUME Rest # {} PROVE FALSE
  OBVIOUS
<1>1. Rest \in SUBSET edges
  BY RestIs
<1>2. PICK m \in Rest : \A x \in Rest : ~Later(Place(m), Place(x))
  BY <1>1, Extremes
<1>3. Before(m) = {}
  BY <1>2 DEF Before
<1>4. Cardinality(Before(m)) = 0
  BY <1>3, FS_EmptySet
<1>5. m \in NextPage
  BY <1>4, RestIs, ClustersAssumption
<1> QED
  BY <1>5

-----------------------------------------------------------------------------
LEMMA ReadPageKeeps == ASSUME CampInv, ReadPage PROVE CampInv' /\ (camp'.out = "ok" => due' = {})
<1> USE DEF CampInv
<1>1. UNCHANGED <<world, label, edges, due>> /\ camp.pc = "page"
  BY DEF ReadPage
<1>2. \A e : /\ BridgeIn(label, e)' = BridgeIn(label, e)
             /\ CandidateIn(label, edges, e)' = CandidateIn(label, edges, e)
             /\ After(e, camp.last)' = After(e, camp'.last)
  BY <1>1, NextQuestions
<1>3. due \subseteq Rest
  BY <1>1 DEF Rest, Selected, Candidate
<1>4. CASE NextPage = {}
  <2>1. due = {}
    BY <1>3, <1>4, EmptyPage
  <2>2. camp' = [NoCampaign EXCEPT !.out = "ok"]
    BY <1>4 DEF ReadPage, Camp
  <2>3. camp' \in CampStates /\ camp'.pc = "idle" /\ camp'.doomed = {} /\ camp'.page = {}
    BY <2>2 DEF NoCampaign, CampStates
  <2> QED
    BY <1>1, <2>1, <2>3
<1>5. CASE NextPage # {}
  <2> DEFINE m == CHOOSE e \in NextPage : \A x \in NextPage : ~Later(Place(x), Place(e))
  <2>1. NextPage \in SUBSET edges
    BY RestIs
  <2>2. m \in NextPage
    <3>1. \E e \in NextPage : \A x \in NextPage : ~Later(Place(x), Place(e))
      BY <1>5, <2>1, Extremes
    <3> QED
      BY <3>1
  <2>3. camp' = [camp EXCEPT !.pc = "judge", !.page = NextPage, !.crossed = {}, !.last = Place(m)]
    BY <1>5 DEF ReadPage, Camp
  <2> HIDE DEF m
  <2>4. Place(m) \in Nat \X Nat /\ NextPage \subseteq Nat
    BY <2>1, <2>2, PlacesAre
  <2>5. /\ camp'.pc = "judge" /\ camp'.page = NextPage /\ camp'.last = Place(m) /\ camp'.out = camp.out
        /\ camp'.doomed = camp.doomed
    BY <2>3 DEF CampStates
  <2>6. camp' \in CampStates
    BY <2>3, <2>4 DEF CampStates
  <2>7. \A e \in NextPage : ~BridgeIn(label, e)
    BY RestIs DEF Rest, Selected, Candidate, CandidateIn
  <2>8. \A e \in due : e \in NextPage \/ After(e, Place(m))
    BY <1>3, <2>2, PageIsFirst DEF After
  <2> QED
    BY <1>1, <1>2, <2>5, <2>6, <2>7, <2>8
<1> QED
  BY <1>4, <1>5

LEMMA JudgeKeeps == ASSUME CampInv, Judge PROVE CampInv'
<1> USE DEF CampInv
<1>1. UNCHANGED <<world, label, edges>> /\ camp.pc = "judge" /\ due' = due \ camp.page
  BY DEF Judge
<1>2. \A e : /\ BridgeIn(label, e)' = BridgeIn(label, e)
             /\ CandidateIn(label, edges, e)' = CandidateIn(label, edges, e)
             /\ After(e, camp.last)' = After(e, camp'.last)
  BY <1>1, NextQuestions
<1>3. PICK D \in SUBSET camp.page : camp' = [camp EXCEPT !.pc = "write", !.doomed = D]
  <2>1. CASE world.dry
    BY <2>1 DEF Judge, Camp
  <2>2. CASE ~world.dry
    BY <2>2 DEF Judge, Camp
  <2> QED
    BY <2>1, <2>2
<1>4. /\ camp'.pc = "write" /\ camp'.doomed = D /\ camp'.page = camp.page /\ camp'.last = camp.last
      /\ camp'.crossed = camp.crossed /\ camp'.out = camp.out /\ camp' \in CampStates
  BY <1>3 DEF CampStates
<1> QED
  BY <1>1, <1>2, <1>4

LEMMA PruneKeeps == ASSUME CampInv, Prune PROVE CampInv'
<1> USE DEF CampInv
<1>1. UNCHANGED <<world, label>> /\ camp.pc = "write" /\ edges' = edges \ camp.doomed /\ due' = due \cap edges'
  BY DEF Prune
<1>2. \A e : /\ CandidateIn(label, edges, e)' = CandidateIn(label, edges', e)
             /\ After(e, camp.last)' = After(e, camp'.last)
  BY <1>1, NextQuestions
<1>3. camp' = [camp EXCEPT !.pc = "page", !.page = {}, !.doomed = {}, !.crossed = {}]
  BY DEF Prune, Camp
<1>4. /\ camp'.pc = "page" /\ camp'.doomed = {} /\ camp'.page = {} /\ camp'.last = camp.last
      /\ camp'.crossed = {} /\ camp'.out = camp.out /\ camp' \in CampStates
  BY <1>3 DEF CampStates
<1>5. \A e \in due' : CandidateIn(label, edges', e)
  BY <1>1 DEF CandidateIn
<1> QED
  BY <1>1, <1>2, <1>4, <1>5

LEMMA LaunchKeeps == ASSUME CampInv, ClustersNext, Launch PROVE CampInv'
<1> USE DEF CampInv
<1>1. UNCHANGED <<edges, label>> /\ due' = {e \in edges : Candidate(e)} /\ camp' = [NoCampaign EXCEPT !.pc = "page"]
  BY DEF Launch, Camp
<1>2. world' \in World /\ world'.edges = world.edges /\ world'.frozen = world.frozen
  BY WorldStays
<1>3. \A e : /\ CandidateIn(label, edges, e)' = CandidateIn(label, edges, e)
             /\ After(e, camp.last)' = After(e, camp'.last)
  BY <1>1, <1>2, NextQuestions
<1>4. /\ camp'.pc = "page" /\ camp'.doomed = {} /\ camp'.page = {} /\ camp'.last = <<0, 0>>
      /\ camp'.crossed = {} /\ camp'.out = "none" /\ camp' \in CampStates
  BY <1>1 DEF NoCampaign, CampStates
<1>5. \A e \in edges : After(e, <<0, 0>>)
  BY PlacesAre DEF After, Later
<1> QED
  BY <1>1, <1>2, <1>3, <1>4, <1>5 DEF Candidate

LEMMA JudgeFailsKeeps == ASSUME CampInv, JudgeFails PROVE CampInv'
<1> USE DEF CampInv
<1>1. UNCHANGED <<world, label, edges, due>> /\ camp' = [NoCampaign EXCEPT !.out = "failed"]
  BY DEF JudgeFails, Camp
<1>2. /\ camp'.pc = "idle" /\ camp'.doomed = {} /\ camp'.page = {} /\ camp'.out = "failed" /\ camp' \in CampStates
  BY <1>1 DEF NoCampaign, CampStates
<1> QED
  BY <1>1, <1>2

LEMMA CampKept ==
  ASSUME CampInv, [ClustersNext]_clustersVars
  PROVE  /\ CampInv'
         /\ camp'.out = "ok" => due' = {}
         /\ camp.pc = "write" /\ camp'.pc = "page" => \A e \in edges \ edges' : BridgeIn(label, e) => e \in camp.crossed
<1>1. CampInv'
  <2>1. CASE UNCHANGED clustersVars
    BY <2>1, CampRests DEF clustersVars, CampInv
  <2>2. CASE \E e \in DOMAIN world.edges : EdgeChanges(e)
    <3>1. PICK e \in DOMAIN world.edges : EdgeChanges(e)
      BY <2>2
    <3>2. edges' \subseteq DOMAIN world.edges /\ world' = world /\ Follow(label', edges')
      BY <3>1 DEF EdgeChanges, CampInv
    <3> QED
      BY <3>2, CampFollows
  <2>3. CASE \E r \in Runs : Commit(r)
    <3>1. PICK r \in Runs : Commit(r)
      BY <2>3
    <3>2. edges' \subseteq DOMAIN world.edges /\ world' = world /\ Follow(label', edges')
      BY <3>1 DEF Commit, CampInv
    <3> QED
      BY <3>2, CampFollows
  <2>4. CASE Campaign \/ Launch \/ JudgeFails
    BY <2>4, ReadPageKeeps, JudgeKeeps, PruneKeeps, LaunchKeeps, JudgeFailsKeeps DEF Campaign, ClustersNext, Events
  <2>5. CASE ClustersNext /\ UNCHANGED <<label, edges, camp, due>>
    BY <2>5, WorldStays, CampRests DEF CampInv
  <2> QED
    BY <2>1, <2>2, <2>3, <2>4, <2>5 DEF ClustersNext, Events, Refresh, Retire, Revive, Sync, Begin, SearchFails, Lost,
       Enter, Search, Clear, Cleared, Norm, UpsertRows, Label, SweepEmpty, Bump, Victim
<1>2. camp'.out = "ok" => due' = {}
  BY <1>1 DEF CampInv
<1>3. ASSUME camp.pc = "write", camp'.pc = "page" PROVE \A e \in edges \ edges' : BridgeIn(label, e) => e \in camp.crossed
  <2>1. edges \ edges' \subseteq camp.page \/ camp'.pc = camp.pc
    BY <1>3 DEF CampInv, CampStates, ClustersNext, Events, Campaign, Refresh, Retire, Revive, Sync, Begin, SearchFails, Lost,
       Enter, Search, Clear, Cleared, Norm, UpsertRows, Label, SweepEmpty, Bump, Victim, Commit, EdgeChanges, Follow,
       ReadPage, Judge, Prune, Launch, JudgeFails, clustersVars
  <2> QED
    BY <1>3, <2>1 DEF CampInv
<1> QED
  BY <1>1, <1>2, <1>3

-----------------------------------------------------------------------------
(* The refreshes.                                                          *)

\* A walk that is not in a namespace
LEMMA BlankJob ==
  ASSUME NEW j \in JobRuns, j.pc \in Ended, j.at = Everywhere, j.steady = {}, j.gone = {},
         j.group = [m \in Members |-> 0], j.tag = [m \in Members |-> Untouched], NEW w, NEW A, NEW sh, NEW lab
  PROVE  JobInv(j, w, A, sh, lab)
<1>1. Placed(j)
  BY DEF Placed, Ended
<1>2. GoneFrom(j, A, lab)
  BY DEF GoneFrom
<1>3. SureIn(w.near, j.steady) = {}
  BY DEF SureIn
<1>4. SteadyIn(j, w, A, sh)
  BY <1>3 DEF SteadyIn
<1> QED
  BY <1>1, <1>2, <1>4 DEF JobInv

LEMMA RestingJob ==
  ASSUME NEW pc \in Ended, NEW task \in SUBSET Spaces, NEW walk \in SUBSET Spaces, NEW w, NEW A, NEW sh, NEW lab
  PROVE  /\ JobInv([Idle EXCEPT !.pc = pc, !.task = task, !.walk = walk], w, A, sh, lab)
         /\ [Idle EXCEPT !.pc = pc, !.task = task, !.walk = walk].at = Everywhere
<1> DEFINE j == [Idle EXCEPT !.pc = pc, !.task = task, !.walk = walk]
<1>1. /\ j.pc = pc /\ j.at = Everywhere /\ j.group = [m \in Members |-> 0] /\ j.tag = [m \in Members |-> Untouched]
      /\ j.steady = {} /\ j.gone = {}
  BY DEF Idle
<1>2. j \in JobRuns
  BY DEF Idle, JobRuns, RunPoints, Ended, Labels
<1> HIDE DEF j
<1>3. JobInv(j, w, A, sh, lab) /\ j.at = Everywhere
  BY <1>1, <1>2, BlankJob
<1> QED
  BY <1>3 DEF j

LEMMA IdleJob ==
  ASSUME NEW w, NEW A, NEW sh, NEW lab
  PROVE  JobInv(Idle, w, A, sh, lab) /\ Idle.at = Everywhere /\ Idle.pc = "idle"
<1>1. /\ Idle.pc = "idle" /\ Idle.at = Everywhere /\ Idle.group = [m \in Members |-> 0]
      /\ Idle.tag = [m \in Members |-> Untouched] /\ Idle.steady = {} /\ Idle.gone = {}
  BY DEF Idle
<1>2. Idle \in JobRuns /\ Idle.pc \in Ended
  BY DEF Idle, JobRuns, RunPoints, Ended, Labels
<1> QED
  BY <1>1, <1>2, BlankJob

LEMMA RefreshInit == ClustersInit => RefreshInv
<1> SUFFICES ASSUME ClustersInit PROVE RefreshInv
  OBVIOUS
<1>1. world \in World
  BY ClustersAssumption DEF ClustersInit
<1>2. camp \in CampStates
  BY DEF ClustersInit, NoCampaign, CampStates
<1>3. \A r \in Runs : JobInv(job[r], world, asserted, shown, label) /\ job[r].at = Everywhere
  BY IdleJob DEF ClustersInit
<1>4. job \in [Runs -> JobRuns]
  BY IdleJob DEF ClustersInit, JobInv, Placed
<1>5. ClustersTypeOK
  BY <1>1, <1>2, <1>4 DEF ClustersInit, ClustersTypeOK, World, Labels
<1> QED
  BY <1>3, <1>5 DEF RefreshInv, AloneIs

\* One refresh goes on as j and nothing the others know changes
LEMMA OwnStep ==
  ASSUME RefreshInv, CampInv', NEW r \in Runs, NEW j, Job(r, j), JobInv(j, world, asserted, shown, label),
         j.at \in {job[r].at, Everywhere}, j.alone => job[r].alone \/ j.at = Everywhere,
         UNCHANGED <<asserted, shown, label, clusters>>, spare' \in Spare,
         world'.near = world.near, world'.vectors = world.vectors
  PROVE  RefreshInv'
<1> USE DEF RefreshInv
<1>1. \A x \in Runs : job'[x] = IF x = r THEN j ELSE job[x]
  BY DEF ClustersTypeOK, Job
<1>2. job' \in [Runs -> JobRuns]
  BY DEF ClustersTypeOK, Job, JobInv, Placed
<1>3. ClustersTypeOK'
  BY <1>2 DEF ClustersTypeOK, CampInv
<1>4. \A x \in Runs : JobInv(job'[x], world, asserted, shown, label)
  BY <1>1
<1>5. \A x \in Runs : JobInv(job'[x], world', asserted', shown', label')
  BY <1>4 DEF JobInv, SteadyIn
<1>6. AloneIs'
  BY <1>1 DEF AloneIs
<1> QED
  BY <1>3, <1>5, <1>6

\* The refreshes do not move
LEMMA JobsRest ==
  ASSUME RefreshInv, CampInv', UNCHANGED <<asserted, shown, label, clusters, job>>, spare' \in Spare,
         world'.near = world.near, world'.vectors = world.vectors
  PROVE  RefreshInv'
<1> USE DEF RefreshInv
<1>1. ClustersTypeOK'
  BY DEF ClustersTypeOK, CampInv
<1>2. \A x \in Runs : JobInv(job'[x], world', asserted', shown', label')
  BY DEF JobInv, SteadyIn
<1>3. AloneIs'
  BY DEF AloneIs
<1> QED
  BY <1>1, <1>2, <1>3

LEMMA UsesKeeps ==
  ASSUME spare \in Spare, NEW what \in {"retire", "assert", "sync", "qdrant", "abort", "edge"}, Uses(what)
  PROVE  spare' \in Spare
BY DEF Spare, Uses

\* What sure pairs are made of
LEMMA SureAre ==
  ASSUME world \in World, NEW S \in SUBSET Members
  PROVE  \A p \in SureIn(world.near, S) : p \subseteq S
BY DEF SureIn

\* Fewer granules that stand still make fewer sure pairs and smaller groups
LEMMA ComponentGrows ==
  ASSUME NEW P, NEW Q, P \subseteq Q, NEW a \in Members
  PROVE  /\ Component(P, a) \subseteq Component(Q, a)
         /\ IsFiniteSet(Component(P, a)) /\ IsFiniteSet(Component(Q, a))
         /\ Cardinality(Component(P, a)) <= Cardinality(Component(Q, a))
         /\ Cardinality(Component(P, a)) \in Nat /\ Cardinality(Component(Q, a)) \in Nat
<1>1. \A S : Closed(Q, S) => Closed(P, S)
  BY DEF Closed
<1>2. Component(P, a) \in SUBSET Component(Q, a)
  BY <1>1 DEF Component
<1>3. Component(Q, a) \in SUBSET Members
  BY DEF Component
<1>4. IsFiniteSet(Component(Q, a))
  BY <1>3, FS_Subset, ClustersAssumption
<1> QED
  BY <1>2, <1>4, FS_Subset, FS_CardinalityType

\* Both ends of a pair are in the same group
LEMMA SameComponent ==
  ASSUME NEW P, NEW p \in P, NEW a \in p, NEW b \in p
  PROVE  Component(P, a) = Component(P, b)
<1>1. \A S : Closed(P, S) => (a \in S <=> b \in S)
  BY DEF Closed
<1> QED
  BY <1>1 DEF Component

\* A granule in no pair is a group of its own
LEMMA LoneComponent ==
  ASSUME NEW P, NEW a \in Members, \A p \in P : a \notin p
  PROVE  Component(P, a) = {a}
<1>1. Closed(P, {a}) /\ {a} \in SUBSET Members
  BY DEF Closed
<1> QED
  BY <1>1 DEF Component


LEMMA LeastOf == ASSUME NEW S \in SUBSET Nat, S # {} PROVE Min(S) \in S
<1> DEFINE Less == {p \in Nat \X Nat : p[1] < p[2]}
<1>1. IsWellFoundedOn(Less, Nat)
  BY NatLessThanWellFounded DEF OpToRel
<1>2. PICK c \in S : \A d \in S : ~(<<d, c>> \in Less)
  <2> HIDE DEF Less
  <2> QED
    BY <1>1, WFMin
<1>3. \A d \in S : c =< d
  <2> TAKE d \in S
  <2>1. c \in Nat /\ d \in Nat /\ ~(d < c)
    BY <1>2
  <2> QED
    BY <2>1
<1>4. \E x \in S : \A y \in S : x =< y
  BY <1>3
<1> QED
  BY <1>4 DEF Min

\* A pair a refresh has found gives both ends the label of their group, if that is large enough
LEMMA GroupsAre ==
  ASSUME NEW P \in SUBSET (SUBSET Members)
  PROVE  /\ Groups(P) \in [Members -> Labels]
         /\ \A m \in Members : Groups(P)[m] # 0 => \E p \in P : m \in p
         /\ \A p \in P : \A a, b \in p : a # b /\ Cardinality(Component(P, a)) >= MinMembers
                                        => Groups(P)[a] = Groups(P)[b] /\ Groups(P)[a] # 0
<1>1. \A m \in Members : Component(P, m) \in SUBSET Members /\ m \in Component(P, m)
  BY DEF Component
<1>2. \A m \in Members : Min(Component(P, m)) \in Members
  BY <1>1, LeastOf, ClustersAssumption
<1>3. Groups(P) \in [Members -> Labels]
  BY <1>2 DEF Groups, Labels
<1>4. ASSUME NEW m \in Members, Groups(P)[m] # 0 PROVE \E p \in P : m \in p
  BY <1>4, LoneComponent DEF Groups
<1>5. ASSUME NEW p \in P, NEW a \in p, NEW b \in p, a # b, Cardinality(Component(P, a)) >= MinMembers
      PROVE  Groups(P)[a] = Groups(P)[b] /\ Groups(P)[a] # 0
  <2>1. a \in Members /\ b \in Members /\ Component(P, a) = Component(P, b)
    BY SameComponent
  <2>2. a \in Component(P, a) /\ b \in Component(P, a)
    BY <1>1, <2>1
  <2>3. Groups(P)[a] = Min(Component(P, a)) /\ Groups(P)[b] = Min(Component(P, a))
    BY <1>5, <2>1, <2>2 DEF Groups
  <2> QED
    BY <1>2, <2>1, <2>3, ClustersAssumption
<1> QED
  BY <1>3, <1>4, <1>5

-----------------------------------------------------------------------------
LEMMA JobIs ==
  ASSUME RefreshInv, NEW r \in Runs
  PROVE  /\ job[r] \in JobRuns /\ job[r].pc \in RunPoints /\ job[r].at \in Spaces \cup {Everywhere}
         /\ Placed(job[r]) /\ GoneFrom(job[r], asserted, label) /\ SteadyIn(job[r], world, asserted, shown)
         /\ JobInv(job[r], world, asserted, shown, label) /\ world \in World /\ spare \in Spare
BY DEF RefreshInv, ClustersTypeOK, JobInv, JobRuns

\* What a search cannot miss it finds
LEMMA SearchFinds ==
  ASSUME RefreshInv, NEW r \in Runs, NEW chunk \in SUBSET job[r].ids, NEW answer \in Answers(WithVector(chunk)),
         NEW a \in job[r].steady, NEW b \in job[r].steady, a # b, {a, b} \in world.near, Few(world.near, a), a \in chunk
  PROVE  <<a, b>> \in answer
<1>1. /\ Home[a] = Home[b] /\ a \in shown /\ b \in shown /\ a \in world.vectors /\ a \in Members /\ b \in Members
  BY JobIs DEF SteadyIn, JobRuns
<1>2. a \in WithVector(chunk) /\ b \in Near(a)
  BY <1>1 DEF WithVector, Near
<1>3. <<a, b>> \in Hits(WithVector(chunk))
  BY <1>1, <1>2 DEF Hits
<1>4. ~Crowded(a)
  <2> DEFINE N == {n \in Members : {a, n} \in world.near}
  <2>1. Near(a) \in SUBSET N /\ N \in SUBSET Members
    BY DEF Near, RefreshInv, ClustersTypeOK
  <2>2. IsFiniteSet(N) /\ Cardinality(N) <= TopK
    <3>1. Cardinality(N) <= TopK
      BY DEF Few
    <3> HIDE DEF N
    <3> QED
      BY <2>1, <3>1, FS_Subset, ClustersAssumption
  <2>3. Cardinality(Near(a)) <= Cardinality(N) /\ IsFiniteSet(Near(a))
    <3> HIDE DEF N
    <3> QED
      BY <2>1, <2>2, FS_Subset
  <2>4. Cardinality(Near(a)) \in Nat /\ Cardinality(N) \in Nat /\ TopK \in Nat
    <3> HIDE DEF N
    <3> QED
      BY <2>2, <2>3, FS_CardinalityType, ClustersAssumption
  <2>5. Places(a) = TopK
    BY <1>1 DEF Places
  <2> HIDE DEF N
  <2> QED
    BY <2>2, <2>3, <2>4, <2>5 DEF Crowded
<1>5. {x \in Hits(WithVector(chunk)) : ~Crowded(x[1])} \subseteq answer
  BY DEF Answers
<1>6. <<a, b>>[1] = a
  OBVIOUS
<1> QED
  BY <1>3, <1>4, <1>5, <1>6

LEMMA SearchKeeps == ASSUME RefreshInv, CampInv', NEW r \in Runs, Search(r) PROVE RefreshInv'
<1> DEFINE J == job[r]
<1>1. PICK chunk \in kSubset(IF Cardinality(J.ids) < Chunk THEN Cardinality(J.ids) ELSE Chunk, J.ids) :
      \E answer \in Answers(WithVector(chunk)) :
         Job(r, [J EXCEPT !.ids = @ \ chunk, !.pairs = @ \cup {{a[1], a[2]} : a \in answer},
                          !.pc = IF J.ids = chunk THEN "clear" ELSE "search"])
  BY DEF Search
<1>2. PICK answer \in Answers(WithVector(chunk)) :
         Job(r, [J EXCEPT !.ids = @ \ chunk, !.pairs = @ \cup {{a[1], a[2]} : a \in answer},
                          !.pc = IF J.ids = chunk THEN "clear" ELSE "search"])
  BY <1>1
<1>3. J.pc = "search" /\ UNCHANGED <<world, spare, granules, label, clusters, edges, camp, due>>
  BY DEF Search
<1>4. chunk \in SUBSET J.ids
  BY DEF kSubset
<1> DEFINE found == J.pairs \cup {{a[1], a[2]} : a \in answer}
           pc == IF J.ids = chunk THEN "clear" ELSE "search"
           j == [J EXCEPT !.ids = J.ids \ chunk, !.pairs = found, !.pc = pc]
<1>5. Job(r, j)
  BY <1>2
<1>6. found \in SUBSET SUBSET Members
  <2>1. answer \subseteq Hits(WithVector(chunk))
    BY DEF Answers
  <2>2. J.ids \subseteq Members /\ J.pairs \in SUBSET SUBSET Members
    BY JobIs DEF JobRuns
  <2>3. \A a \in answer : a[1] \in Members /\ a[2] \in Members
    BY <1>4, <2>1, <2>2 DEF Hits, WithVector
  <2> QED
    BY <2>2, <2>3
<1>7. \A a \in answer : {a[1], a[2]} \in found
  OBVIOUS
<1>8. J.pairs \subseteq found
  OBVIOUS
<1> HIDE DEF found
<1>13. pc \in RunPoints /\ pc \in {"clear", "search"}
  BY DEF RunPoints
<1> HIDE DEF pc
<1>9. /\ j \in JobRuns /\ j.pc = pc /\ j.at = J.at /\ j.ids = J.ids \ chunk /\ j.pairs = found /\ j.group = J.group
      /\ j.tag = J.tag /\ j.steady = J.steady /\ j.gone = J.gone /\ j.alone = J.alone /\ j.cand = J.cand
  <2>1. J \in JobRuns
    BY JobIs
  <2>2. J.ids \ chunk \in SUBSET Members
    BY <2>1 DEF JobRuns
  <2> DEFINE unsought == J.ids \ chunk
  <2>3. j = [J EXCEPT !.ids = unsought, !.pairs = found, !.pc = pc] /\ unsought \in SUBSET Members
    BY <2>2
  <2> HIDE DEF unsought, j
  <2>4. /\ j \in JobRuns /\ j.pc = pc /\ j.at = J.at /\ j.ids = unsought /\ j.pairs = found /\ j.group = J.group
        /\ j.tag = J.tag /\ j.steady = J.steady /\ j.gone = J.gone /\ j.alone = J.alone /\ j.cand = J.cand
    BY <1>6, <1>13, <2>1, <2>3 DEF JobRuns
  <2> QED
    BY <2>4 DEF unsought
<1> HIDE DEF j
<1>10. Placed(j)
  BY <1>3, <1>9, <1>13, JobIs DEF Placed, Ended
<1>11. GoneFrom(j, asserted, label)
  BY <1>9, <1>13, JobIs DEF GoneFrom
<1>12. SteadyIn(j, world, asserted, shown)
  <2>1. SteadyIn(J, world, asserted, shown)
    BY JobIs
  <2>2. ASSUME NEW a \in J.steady, NEW b \in J.steady, a # b, {a, b} \in world.near, Few(world.near, a)
        PROVE  {a, b} \in found \/ (pc = "search" /\ a \in J.ids \ chunk)
    <3>1. {a, b} \in J.pairs \/ a \in J.ids
      BY <1>3, <2>1, <2>2 DEF SteadyIn
    <3>2. CASE a \in chunk
      <4>1. <<a, b>> \in answer
        BY <1>4, <2>2, <3>2, SearchFinds
      <4>2. {<<a, b>>[1], <<a, b>>[2]} \in found
        BY <1>7, <4>1
      <4> QED
        BY <4>2
    <3> QED
      BY <1>4, <1>8, <3>1, <3>2 DEF pc
  <2> QED
    BY <1>9, <1>13, <2>1, <2>2 DEF SteadyIn
<1> QED
  <2>1. JobInv(j, world, asserted, shown, label)
    BY <1>10, <1>11, <1>12 DEF JobInv
  <2> QED
    BY <1>3, <1>5, <1>9, <2>1, JobIs, OwnStep

LEMMA ClearKeeps == ASSUME RefreshInv, CampInv', NEW r \in Runs, Clear(r) PROVE RefreshInv'
<1> DEFINE J == job[r]
           cand == {m \in Members : Home[m] = J.at /\ label[m] # 0}
           j == [J EXCEPT !.pc = "cleared", !.cand = cand]
<1>1. J.pc = "clear" /\ Job(r, j) /\ UNCHANGED <<world, spare, granules, label, clusters, edges, camp, due>>
  BY DEF Clear
<1>2. cand \in SUBSET Members
  OBVIOUS
<1>3. /\ j \in JobRuns /\ j.pc = "cleared" /\ j.at = J.at /\ j.ids = J.ids /\ j.pairs = J.pairs /\ j.group = J.group
      /\ j.tag = J.tag /\ j.steady = J.steady /\ j.gone = J.gone /\ j.alone = J.alone /\ j.cand = cand
  <2> HIDE DEF cand
  <2> QED
    BY <1>2, JobIs DEF JobRuns, RunPoints
<1> HIDE DEF j
<1>4. Placed(j)
  BY <1>1, <1>3, JobIs DEF Placed, Ended
<1>5. GoneFrom(j, asserted, label)
  BY <1>3, JobIs DEF GoneFrom, JobRuns
<1>6. SteadyIn(j, world, asserted, shown)
  <2>1. SteadyIn(J, world, asserted, shown)
    BY JobIs
  <2> HIDE DEF cand
  <2> QED
    BY <1>1, <1>3, <2>1 DEF SteadyIn
<1>7. JobInv(j, world, asserted, shown, label)
  BY <1>4, <1>5, <1>6 DEF JobInv
<1> QED
  BY <1>1, <1>3, <1>7, JobIs, OwnStep

LEMMA ClearedKeeps == ASSUME RefreshInv, CampInv', NEW r \in Runs, Cleared(r) PROVE RefreshInv'
<1> DEFINE J == job[r]
           j == [J EXCEPT !.pc = "norm", !.cand = {}, !.tag = Blank(r)]
<1>1. J.pc = "cleared" /\ Job(r, j) /\ UNCHANGED <<world, spare, granules, label, clusters, edges, camp, due>>
  BY DEF Cleared
<1>2. Blank(r) \in [Members -> Labels \cup {Untouched}]
  BY JobIs DEF Blank, JobRuns, Labels
<1>3. /\ j \in JobRuns /\ j.pc = "norm" /\ j.at = J.at /\ j.ids = J.ids /\ j.pairs = J.pairs /\ j.group = J.group
      /\ j.tag = Blank(r) /\ j.steady = J.steady /\ j.gone = J.gone /\ j.alone = J.alone /\ j.cand = {}
  BY <1>2, JobIs DEF JobRuns, RunPoints
<1> HIDE DEF j
<1>4. \A m \in Members : Blank(r)[m] = IF m \in J.cand /\ label[m] # 0 THEN 0 ELSE J.tag[m]
  BY DEF Blank
<1>5. Placed(j)
  BY <1>1, <1>3, <1>4, JobIs DEF Placed, Ended
<1>6. GoneFrom(j, asserted, label)
  <2>1. GoneFrom(J, asserted, label) /\ J.gone \subseteq Members
    BY JobIs DEF JobRuns
  <2> QED
    BY <1>1, <1>3, <1>4, <2>1 DEF GoneFrom
<1>7. SteadyIn(j, world, asserted, shown)
  <2>1. SteadyIn(J, world, asserted, shown)
    BY JobIs
  <2> QED
    BY <1>1, <1>3, <2>1 DEF SteadyIn
<1>8. JobInv(j, world, asserted, shown, label)
  BY <1>5, <1>6, <1>7 DEF JobInv
<1> QED
  BY <1>1, <1>3, <1>8, JobIs, OwnStep

\* What is grouped is what has been found and is still asserted
LEMMA NormKeeps == ASSUME RefreshInv, CampInv', NEW r \in Runs, Norm(r) PROVE RefreshInv'
<1> DEFINE J == job[r]
           G == Groups(Normal(r))
           pc == IF Normal(r) = {} THEN "sweep" ELSE "rows"
           j == [J EXCEPT !.pc = pc, !.pairs = {}, !.group = G]
<1>1. J.pc = "norm" /\ Job(r, j) /\ UNCHANGED <<world, spare, granules, label, clusters, edges, camp, due>>
  BY DEF Norm
<1>2. Normal(r) \in SUBSET SUBSET Members /\ \A p \in Normal(r) : p \in J.pairs /\ \A m \in p : m \in asserted /\ Home[m] = J.at
  BY JobIs DEF Normal, JobRuns
<1>3. /\ G \in [Members -> Labels]
      /\ \A m \in Members : G[m] # 0 => m \in asserted /\ Home[m] = J.at
      /\ \A p \in Normal(r) : \A a, b \in p : a # b /\ Cardinality(Component(Normal(r), a)) >= MinMembers
                                          => G[a] = G[b] /\ G[a] # 0
  BY <1>2, GroupsAre
<1> HIDE DEF G
<1>9. pc \in RunPoints /\ pc \in {"sweep", "rows"} /\ (pc = "sweep" => Normal(r) = {})
  BY DEF RunPoints
<1> HIDE DEF pc
<1>4. /\ j \in JobRuns /\ j.pc = pc /\ j.at = J.at /\ j.ids = J.ids /\ j.pairs = {} /\ j.group = G
      /\ j.tag = J.tag /\ j.steady = J.steady /\ j.gone = J.gone /\ j.alone = J.alone /\ j.cand = J.cand
  <2>1. J \in JobRuns
    BY JobIs
  <2> QED
    BY <1>3, <1>9, <2>1 DEF JobRuns
<1> HIDE DEF j
<1>5. Placed(j)
  BY <1>1, <1>3, <1>4, <1>9, JobIs DEF Placed, Ended
<1>6. GoneFrom(j, asserted, label)
  <2>1. GoneFrom(J, asserted, label) /\ J.gone \subseteq Members
    BY JobIs DEF JobRuns
  <2> QED
    BY <1>1, <1>3, <1>4, <1>9, <2>1 DEF GoneFrom
<1>7. SteadyIn(j, world, asserted, shown)
  <2>1. SteadyIn(J, world, asserted, shown) /\ J.steady \in SUBSET Members
    BY JobIs DEF JobRuns
  <2>2. \A a, b \in J.steady : a # b /\ {a, b} \in world.near /\ Few(world.near, a) => {a, b} \in J.pairs
    BY <1>1, <2>1 DEF SteadyIn
  <2>3. SureIn(world.near, J.steady) \subseteq Normal(r)
    BY <2>1, <2>2 DEF SureIn, Normal, SteadyIn
  <2>4. ASSUME NEW p \in SureIn(world.near, J.steady), NEW a \in p, NEW b \in p, Big(world.near, J.steady, a)
        PROVE  G[a] = G[b] /\ G[a] # 0 /\ pc # "sweep"
    <3>1. p \in Normal(r) /\ a \in Members
      BY <1>2, <2>3
    <3>2. Cardinality(Component(Normal(r), a)) >= MinMembers
      <4>1. /\ Cardinality(Component(SureIn(world.near, J.steady), a)) <= Cardinality(Component(Normal(r), a))
            /\ Cardinality(Component(SureIn(world.near, J.steady), a)) \in Nat /\ Cardinality(Component(Normal(r), a)) \in Nat
        BY <2>3, <3>1, ComponentGrows
      <4>2. Cardinality(Component(SureIn(world.near, J.steady), a)) >= MinMembers /\ MinMembers \in Nat
        BY <2>4, ClustersAssumption DEF Big
      <4> QED
        BY <4>1, <4>2
    <3>3. PICK c \in p : c # a
      BY DEF SureIn
    <3> QED
      BY <1>3, <1>9, <3>1, <3>2, <3>3
  <2>5. \A m \in J.steady : Home[m] = J.at /\ m \in asserted /\ m \in shown /\ m \in world.vectors
    BY <2>1 DEF SteadyIn
  <2> QED
    BY <1>4, <1>9, <2>4, <2>5 DEF SteadyIn
<1>8. JobInv(j, world, asserted, shown, label)
  BY <1>5, <1>6, <1>7 DEF JobInv
<1> QED
  BY <1>1, <1>4, <1>8, JobIs, OwnStep

LEMMA UpsertKeeps == ASSUME RefreshInv, CampInv', NEW r \in Runs, UpsertRows(r) PROVE RefreshInv'
<1> DEFINE J == job[r]
           keys == GroupKeys(r)
           j == [J EXCEPT !.pc = "mark", !.keys = keys]
<1>1. J.pc = "rows" /\ Job(r, j) /\ UNCHANGED <<world, spare, granules, label, clusters, edges, camp, due>>
  BY DEF UpsertRows
<1>2. keys \in SUBSET Members
  BY JobIs DEF GroupKeys, JobRuns, Labels
<1> HIDE DEF keys
<1>3. /\ j \in JobRuns /\ j.pc = "mark" /\ j.at = J.at /\ j.ids = J.ids /\ j.pairs = J.pairs /\ j.group = J.group
      /\ j.tag = J.tag /\ j.steady = J.steady /\ j.gone = J.gone /\ j.alone = J.alone /\ j.cand = J.cand
  <2>1. J \in JobRuns
    BY JobIs
  <2> QED
    BY <1>2, <2>1 DEF JobRuns, RunPoints
<1> HIDE DEF j
<1>4. Placed(j)
  BY <1>1, <1>3, JobIs DEF Placed, Ended
<1>5. GoneFrom(j, asserted, label)
  BY <1>1, <1>3, JobIs DEF GoneFrom
<1>6. SteadyIn(j, world, asserted, shown)
  <2>1. SteadyIn(J, world, asserted, shown)
    BY JobIs
  <2> QED
    BY <1>1, <1>3, <2>1 DEF SteadyIn
<1>7. JobInv(j, world, asserted, shown, label)
  BY <1>4, <1>5, <1>6 DEF JobInv
<1> QED
  BY <1>1, <1>3, <1>7, JobIs, OwnStep

LEMMA SweepKeeps == ASSUME RefreshInv, CampInv', NEW r \in Runs, SweepEmpty(r) PROVE RefreshInv'
<1> DEFINE J == job[r]
           cand == Empty(r)
           j == [J EXCEPT !.pc = "commit", !.cand = cand]
<1>1. J.pc = "sweep" /\ Job(r, j) /\ UNCHANGED <<world, spare, granules, label, clusters, edges, camp, due>>
  BY DEF SweepEmpty
<1>2. cand \in SUBSET Members
  BY JobIs DEF Empty, JobRuns, RefreshInv, ClustersTypeOK
<1> HIDE DEF cand
<1>3. /\ j \in JobRuns /\ j.pc = "commit" /\ j.at = J.at /\ j.ids = J.ids /\ j.pairs = J.pairs /\ j.group = J.group
      /\ j.tag = J.tag /\ j.steady = J.steady /\ j.gone = J.gone /\ j.alone = J.alone /\ j.cand = cand
  <2>1. J \in JobRuns
    BY JobIs
  <2> QED
    BY <1>2, <2>1 DEF JobRuns, RunPoints
<1> HIDE DEF j
<1>4. Placed(j)
  BY <1>1, <1>3, JobIs DEF Placed, Ended
<1>5. GoneFrom(j, asserted, label)
  BY <1>1, <1>3, JobIs DEF GoneFrom
<1>6. SteadyIn(j, world, asserted, shown)
  <2>1. SteadyIn(J, world, asserted, shown)
    BY JobIs
  <2> QED
    BY <1>1, <1>3, <2>1 DEF SteadyIn
<1>7. JobInv(j, world, asserted, shown, label)
  BY <1>4, <1>5, <1>6 DEF JobInv
<1> QED
  BY <1>1, <1>3, <1>7, JobIs, OwnStep

LEMMA LabelKeeps == ASSUME RefreshInv, CampInv', NEW r \in Runs, Label(r) PROVE RefreshInv'
<1> DEFINE J == job[r]
           G == [m \in Members |-> 0]
           tags == [m \in Members |-> IF m \in Marked(r) THEN J.group[m] ELSE J.tag[m]]
           j == [J EXCEPT !.pc = "sweep", !.group = G, !.tag = tags]
<1>1. J.pc = "mark" /\ Job(r, j) /\ UNCHANGED <<world, spare, granules, label, clusters, edges, camp, due>>
  BY DEF Label
<1>2. J \in JobRuns
  BY JobIs
<1>3. tags \in [Members -> Labels \cup {Untouched}] /\ G \in [Members -> Labels]
  BY <1>2 DEF Labels, JobRuns
<1>4. \A m \in Members : tags[m] = IF J.group[m] # 0 THEN J.group[m] ELSE J.tag[m]
  BY DEF Marked
<1>5. \A m \in Members : G[m] = 0
  OBVIOUS
<1> HIDE DEF tags, G
<1>6. /\ j \in JobRuns /\ j.pc = "sweep" /\ j.at = J.at /\ j.ids = J.ids /\ j.pairs = J.pairs /\ j.group = G
      /\ j.tag = tags /\ j.steady = J.steady /\ j.gone = J.gone /\ j.alone = J.alone /\ j.cand = J.cand
  BY <1>2, <1>3 DEF JobRuns, RunPoints
<1> HIDE DEF j
<1>7. Placed(j)
  <2>1. Placed(J)
    BY JobIs
  <2> QED
    BY <1>1, <1>4, <1>5, <1>6, <2>1 DEF Placed, Ended
<1>8. GoneFrom(j, asserted, label)
  <2>1. GoneFrom(J, asserted, label) /\ J.gone \subseteq Members
    BY <1>2, JobIs DEF JobRuns
  <2> QED
    BY <1>1, <1>4, <1>5, <1>6, <2>1 DEF GoneFrom
<1>9. SteadyIn(j, world, asserted, shown)
  <2>1. SteadyIn(J, world, asserted, shown) /\ J.steady \in SUBSET Members
    BY <1>2, JobIs DEF JobRuns
  <2>2. ASSUME NEW p \in SureIn(world.near, J.steady), NEW a \in p, NEW b \in p, Big(world.near, J.steady, a)
        PROVE  tags[a] = tags[b] /\ tags[a] \notin {0, Untouched}
    <3>1. p \subseteq Members
      BY <2>1, SureAre, JobIs
    <3>2. J.group[a] = J.group[b] /\ J.group[a] # 0
      BY <1>1, <2>1, <2>2 DEF SteadyIn
    <3>3. J.group[a] \in Labels
      BY <1>2, <3>1 DEF JobRuns
    <3> QED
      BY <1>4, <3>1, <3>2, <3>3, ClustersAssumption DEF Labels, Untouched
  <2>3. \A m \in J.steady : Home[m] = J.at /\ m \in asserted /\ m \in shown /\ m \in world.vectors
    BY <2>1 DEF SteadyIn
  <2> QED
    BY <1>6, <2>2, <2>3 DEF SteadyIn
<1>10. JobInv(j, world, asserted, shown, label)
  BY <1>7, <1>8, <1>9 DEF JobInv
<1> QED
  BY <1>1, <1>6, <1>10, JobIs, OwnStep

LEMMA EndsKeep ==
  ASSUME RefreshInv, CampInv', ClustersNext, NEW r \in Runs,
         Begin(r) \/ SearchFails(r) \/ Bump(r) \/ Victim(r) \/ Lost(r)
  PROVE  RefreshInv'
<1>1. /\ UNCHANGED <<asserted, shown, label, clusters>> /\ world'.near = world.near /\ world'.vectors = world.vectors
      /\ spare' \in Spare
  BY WorldStays, JobIs, UsesKeeps DEF Begin, SearchFails, Bump, Victim, Lost
<1>2. job[r] \in JobRuns /\ job[r].task \in SUBSET Spaces /\ world \in World
  BY JobIs DEF JobRuns
<1>3. CASE Job(r, Idle)
  BY <1>1, <1>3, IdleJob, OwnStep
<1>4. CASE \E T \in SUBSET Spaces : Job(r, [Idle EXCEPT !.pc = "next", !.task = T, !.walk = T])
  <2>1. PICK T \in SUBSET Spaces : Job(r, [Idle EXCEPT !.pc = "next", !.task = T, !.walk = T])
    BY <1>4
  <2>2. "next" \in Ended
    BY DEF Ended
  <2>3. JobInv([Idle EXCEPT !.pc = "next", !.task = T, !.walk = T], world, asserted, shown, label)
        /\ [Idle EXCEPT !.pc = "next", !.task = T, !.walk = T].at = Everywhere
    BY <2>2, RestingJob
  <2> QED
    BY <1>1, <2>1, <2>3, OwnStep
<1>5. CASE Begin(r)
  <2>1. PICK s \in world.walks[r] :
          LET to == IF s = Everywhere THEN Listed ELSE {s}
          IN  Job(r, [Idle EXCEPT !.pc = "next", !.task = to, !.walk = to])
    BY <1>5 DEF Begin
  <2>2. s \in Spaces \cup {Everywhere} /\ Listed \in SUBSET Spaces
    BY <1>2 DEF World, Listed
  <2> QED
    BY <1>4, <2>1, <2>2
<1> QED
  BY <1>2, <1>3, <1>4, <1>5 DEF SearchFails, OnOutage, Bump, Victim, Lost

-----------------------------------------------------------------------------
\* A refresh that only learns that less stands still, or that it is not alone
LEMMA LessKnown ==
  ASSUME NEW w \in World, NEW A, NEW sh, NEW lab, NEW J \in JobRuns, JobInv(J, w, A, sh, lab), NEW A1, NEW sh1,
         NEW j \in JobRuns, j.pc = J.pc, j.at = J.at, j.ids = J.ids, j.pairs = J.pairs, j.group = J.group,
         j.tag = J.tag, j.cand = J.cand, j.steady \subseteq J.steady, j.gone \subseteq J.gone, j.alone => J.alone,
         \A m \in j.steady : m \in A1 /\ m \in sh1, \A m \in j.gone : m \notin A1
  PROVE  JobInv(j, w, A1, sh1, lab)
<1>1. Placed(j)
  BY DEF JobInv, Placed
<1>2. GoneFrom(j, A1, lab)
  BY DEF JobInv, GoneFrom
<1>3. SteadyIn(j, w, A1, sh1)
  <2>1. SteadyIn(J, w, A, sh) /\ j.steady \in SUBSET Members /\ J.steady \in SUBSET Members
    BY DEF JobInv, JobRuns
  <2>2. SureIn(w.near, j.steady) \subseteq SureIn(w.near, J.steady) /\ \A p \in SureIn(w.near, j.steady) : p \subseteq Members
    BY <2>1 DEF SureIn
  <2>3. ASSUME NEW a \in Members, Big(w.near, j.steady, a) PROVE Big(w.near, J.steady, a)
    <3>1. /\ Cardinality(Component(SureIn(w.near, j.steady), a)) <= Cardinality(Component(SureIn(w.near, J.steady), a))
          /\ Cardinality(Component(SureIn(w.near, j.steady), a)) \in Nat
          /\ Cardinality(Component(SureIn(w.near, J.steady), a)) \in Nat
      BY <2>2, ComponentGrows
    <3>2. Cardinality(Component(SureIn(w.near, j.steady), a)) >= MinMembers /\ MinMembers \in Nat
      BY <2>3, ClustersAssumption DEF Big
    <3>3. Cardinality(Component(SureIn(w.near, J.steady), a)) >= MinMembers
      BY <3>1, <3>2
    <3> QED
      BY <3>3 DEF Big
  <2>4. \A m \in j.steady : Home[m] = j.at /\ m \in A1 /\ m \in sh1 /\ m \in w.vectors
    BY <2>1 DEF SteadyIn
  <2>5. j.pc \in {"search", "clear", "cleared", "norm"} =>
          \A a, b \in j.steady : a # b /\ {a, b} \in w.near /\ Few(w.near, a)
                                 => {a, b} \in j.pairs \/ (j.pc = "search" /\ a \in j.ids)
    BY <2>1 DEF SteadyIn
  <2>6. ASSUME NEW p \in SureIn(w.near, j.steady), NEW a \in p, NEW b \in p, Big(w.near, j.steady, a)
        PROVE  /\ j.pc \in {"rows", "mark"} => j.group[a] = j.group[b] /\ j.group[a] # 0
               /\ j.pc \in {"sweep", "commit"} => j.tag[a] = j.tag[b] /\ j.tag[a] \notin {0, Untouched}
    <3>1. p \in SureIn(w.near, J.steady) /\ Big(w.near, J.steady, a)
      BY <2>2, <2>3, <2>6
    <3> QED
      BY <2>1, <3>1 DEF SteadyIn
  <2> QED
    BY <2>4, <2>5, <2>6 DEF SteadyIn
<1> QED
  BY <1>1, <1>2, <1>3 DEF JobInv

LEMMA StirKeeps == ASSUME RefreshInv, CampInv', NEW m \in Members, Retire(m) \/ Revive(m) \/ Sync(m) PROVE RefreshInv'
<1>1. UNCHANGED <<world, label, clusters>> /\ spare' \in Spare
  BY JobIs, UsesKeeps DEF Retire, Revive, Sync, RefreshInv, ClustersTypeOK
<1>2. /\ asserted' \subseteq asserted \cup {m} /\ asserted \ {m} \subseteq asserted' /\ asserted' \subseteq Members
      /\ shown \ {m} \subseteq shown' /\ shown' \subseteq Members
      /\ Sync(m) => asserted' = asserted
  BY DEF Retire, Revive, Sync, RefreshInv, ClustersTypeOK
<1>3. \A r \in Runs : /\ job'[r] \in JobRuns
                      /\ job'[r].pc = job[r].pc /\ job'[r].at = job[r].at /\ job'[r].ids = job[r].ids
                      /\ job'[r].pairs = job[r].pairs /\ job'[r].group = job[r].group /\ job'[r].tag = job[r].tag
                      /\ job'[r].cand = job[r].cand /\ job'[r].alone = job[r].alone
                      /\ job'[r].steady = job[r].steady \ {m}
                      /\ job'[r].gone \subseteq job[r].gone /\ (~Sync(m) => m \notin job'[r].gone)
  <2> TAKE r \in Runs
  <2>1. job[r] \in JobRuns
    BY JobIs
  <2> DEFINE j1 == [job[r] EXCEPT !.steady = @ \ {m}, !.gone = @ \ {m}]
             j2 == [job[r] EXCEPT !.steady = @ \ {m}]
  <2>2. job'[r] = IF Sync(m) THEN j2 ELSE j1
    <3>1. CASE Sync(m)
      BY <3>1 DEF Sync
    <3>2. CASE ~Sync(m)
      BY <3>2 DEF Retire, Revive, Stirred
    <3> QED
      BY <3>1, <3>2
  <2>3. /\ j1 \in JobRuns
        /\ j1.pc = job[r].pc /\ j1.at = job[r].at /\ j1.ids = job[r].ids
        /\ j1.pairs = job[r].pairs /\ j1.group = job[r].group /\ j1.tag = job[r].tag
        /\ j1.cand = job[r].cand /\ j1.alone = job[r].alone
        /\ j1.steady = job[r].steady \ {m} /\ j1.gone = job[r].gone \ {m}
    BY <2>1 DEF JobRuns
  <2>4. /\ j2 \in JobRuns
        /\ j2.pc = job[r].pc /\ j2.at = job[r].at /\ j2.ids = job[r].ids
        /\ j2.pairs = job[r].pairs /\ j2.group = job[r].group /\ j2.tag = job[r].tag
        /\ j2.cand = job[r].cand /\ j2.alone = job[r].alone
        /\ j2.steady = job[r].steady \ {m} /\ j2.gone = job[r].gone
    BY <2>1 DEF JobRuns
  <2> HIDE DEF j1, j2
  <2> QED
    BY <2>2, <2>3, <2>4
<1>4. job' \in [Runs -> JobRuns]
  <2>1. DOMAIN job' = Runs /\ job' = [r \in Runs |-> job'[r]]
    BY DEF Retire, Revive, Sync, Stirred
  <2> QED
    BY <1>3, <2>1
<1>5. ClustersTypeOK'
  BY <1>1, <1>2, <1>4 DEF RefreshInv, ClustersTypeOK, CampInv
<1>6. AloneIs'
  BY <1>3 DEF RefreshInv, AloneIs
<1>7. ASSUME NEW r \in Runs PROVE JobInv(job'[r], world, asserted', shown', label)
  <2>1. JobInv(job[r], world, asserted, shown, label) /\ job[r] \in JobRuns /\ world \in World
    BY JobIs
  <2>2. \A n \in job'[r].steady : n \in asserted' /\ n \in shown'
    BY <1>2, <1>3, <2>1 DEF JobInv, SteadyIn
  <2>3. \A n \in job'[r].gone : n \notin asserted'
    BY <1>2, <1>3, <2>1 DEF JobInv, GoneFrom
  <2> QED
    BY <1>3, <2>1, <2>2, <2>3, LessKnown
<1> QED
  BY <1>1, <1>5, <1>6, <1>7 DEF RefreshInv

\* A namespace begins: with its granules, beside others or alone
LEMMA EnterJob ==
  ASSUME RefreshInv, NEW r \in Runs, NEW s \in job[r].walk
  PROVE  /\ JobInv(Entered(r, s), world, asserted, shown, label)
         /\ Entered(r, s).at = s /\ Entered(r, s).alone = (Runs_at(s) = {}) /\ s \in Spaces
<1> DEFINE pc == IF Cardinality(IdsOf(s)) < 2 THEN "clear" ELSE "search"
           I == IdsOf(s)
           T == job[r].task
           W == job[r].walk \ {s}
           St == I \cap shown \cap world.vectors
           Go == {m \in Members : Home[m] = s} \ asserted
           al == Runs_at(s) = {}
           j == Entered(r, s)
<1>1. /\ T \in SUBSET Spaces /\ W \in SUBSET Spaces /\ s \in Spaces /\ I \in SUBSET Members
      /\ St \in SUBSET Members /\ Go \in SUBSET Members /\ al \in BOOLEAN
  <2>1. job[r] \in JobRuns
    BY JobIs
  <2>2. al \in BOOLEAN
    OBVIOUS
  <2>3. T \in SUBSET Spaces /\ job[r].walk \in SUBSET Spaces
    BY <2>1 DEF JobRuns
  <2>4. W \in SUBSET Spaces /\ s \in Spaces
    BY <2>3
  <2>5. I \in SUBSET Members
    BY DEF IdsOf, RefreshInv, ClustersTypeOK
  <2>6. St \in SUBSET Members /\ Go \in SUBSET Members
    BY <2>5
  <2> HIDE DEF T, W, I, St, Go, al
  <2> QED
    BY <2>2, <2>3, <2>4, <2>5, <2>6 DEF T
<1>2. pc \in RunPoints /\ pc \in {"clear", "search"} /\ (pc = "clear" => Cardinality(I) < 2)
  BY DEF RunPoints
<1>3. /\ \A m \in I : m \in asserted /\ Home[m] = s
      /\ \A m \in St : m \in I /\ m \in shown /\ m \in world.vectors
      /\ \A m \in Go : m \notin asserted /\ Home[m] = s
  BY DEF IdsOf
<1>4. j = [Idle EXCEPT !.pc = pc, !.task = T, !.walk = W, !.at = s, !.ids = I, !.steady = St, !.gone = Go, !.alone = al]
  BY DEF Entered
<1>5. s # Everywhere
  BY <1>1, ClustersAssumption
<1> HIDE DEF pc, I, T, W, St, Go, al, j
<1>6. /\ j.pc = pc /\ j.at = s /\ j.ids = I /\ j.steady = St /\ j.gone = Go /\ j.alone = al /\ j.pairs = {}
      /\ j.group = [m \in Members |-> 0] /\ j.tag = [m \in Members |-> Untouched]
  BY <1>4 DEF Idle
<1>7. j \in JobRuns
  <2>1. Idle \in JobRuns
    BY DEF Idle, JobRuns, RunPoints, Labels
  <2> QED
    BY <1>1, <1>2, <1>4, <2>1 DEF JobRuns
<1>8. Placed(j)
  BY <1>2, <1>5, <1>6, <1>7 DEF Placed, Ended
<1>9. GoneFrom(j, asserted, label)
  BY <1>1, <1>2, <1>3, <1>6 DEF GoneFrom
<1>10. SteadyIn(j, world, asserted, shown)
  <2>1. ASSUME NEW a \in St, NEW b \in St, a # b PROVE pc = "search" /\ a \in I
    <3>1. {a, b} \in SUBSET I /\ a \in I
      BY <1>3
    <3>2. IsFiniteSet(I)
      BY <1>1, FS_Subset, ClustersAssumption
    <3>3. Cardinality({a, b}) = 2
      <4>1. IsFiniteSet({a}) /\ Cardinality({a}) = 1
        BY FS_Singleton
      <4>2. {a, b} = {a} \cup {b} /\ b \notin {a}
        BY <2>1
      <4>3. Cardinality({a} \cup {b}) = Cardinality({a}) + 1
        BY <2>1, <4>1, <4>2, FS_AddElement
      <4> QED
        BY <4>1, <4>2, <4>3
    <3>4. Cardinality({a, b}) <= Cardinality(I) /\ Cardinality(I) \in Nat
      BY <3>1, <3>2, FS_Subset, FS_CardinalityType
    <3> QED
      BY <1>2, <3>1, <3>3, <3>4
  <2> QED
    BY <1>2, <1>3, <1>6, <2>1 DEF SteadyIn
<1>11. JobInv(j, world, asserted, shown, label)
  BY <1>8, <1>9, <1>10 DEF JobInv
<1> QED
  BY <1>1, <1>6, <1>11 DEF al, j

LEMMA EnterKeeps == ASSUME RefreshInv, CampInv', NEW r \in Runs, Enter(r) PROVE RefreshInv'
<1>1. UNCHANGED <<world, spare, granules, label, clusters, edges, camp, due>> /\ job[r].pc = "next"
  BY DEF Enter
<1>2. PICK s \in job[r].walk :
        job' = [x \in Runs |-> IF x = r THEN Entered(r, s)
                               ELSE IF x \in Runs_at(s) THEN [job[x] EXCEPT !.alone = FALSE] ELSE job[x]]
  BY DEF Enter
<1> DEFINE j == Entered(r, s)
<1>3. JobInv(j, world, asserted, shown, label) /\ j.at = s /\ j.alone = (Runs_at(s) = {}) /\ s \in Spaces
  BY <1>2, EnterJob
<1> HIDE DEF j
<1>4. s # Everywhere
  BY <1>3, ClustersAssumption
<1>5. job[r].at = Everywhere
  BY <1>1, JobIs DEF Placed, Ended
<1>6. \A x \in Runs : x \in Runs_at(s) <=> job[x].at = s
  <2> TAKE x \in Runs
  <2>1. job[x].at = s => job[x].pc # "idle"
    BY <1>4, JobIs DEF Placed, Ended
  <2> QED
    BY <2>1 DEF Runs_at
<1>7. ASSUME NEW x \in Runs, x # r
      PROVE  /\ JobInv(job'[x], world, asserted, shown, label) /\ job'[x].at = job[x].at
             /\ job'[x].alone => job[x].alone /\ job[x].at # s
  <2>1. /\ job[x] \in JobRuns /\ JobInv(job[x], world, asserted, shown, label) /\ world \in World
        /\ SteadyIn(job[x], world, asserted, shown) /\ GoneFrom(job[x], asserted, label)
    BY JobIs
  <2>2. CASE job[x].at # s
    BY <1>2, <1>6, <1>7, <2>1, <2>2
  <2>3. CASE job[x].at = s
    <3> DEFINE k == [job[x] EXCEPT !.alone = FALSE]
    <3>1. job'[x] = k
      BY <1>2, <1>6, <1>7, <2>3
    <3>2. /\ k \in JobRuns /\ k.pc = job[x].pc /\ k.at = job[x].at /\ k.ids = job[x].ids /\ k.pairs = job[x].pairs
          /\ k.group = job[x].group /\ k.tag = job[x].tag /\ k.cand = job[x].cand
          /\ k.steady = job[x].steady /\ k.gone = job[x].gone /\ k.alone = FALSE
      BY <2>1 DEF JobRuns
    <3>3. /\ \A m \in job[x].steady : m \in asserted /\ m \in shown
          /\ \A m \in job[x].gone : m \notin asserted
      BY <2>1 DEF SteadyIn, GoneFrom
    <3> HIDE DEF k
    <3>4. JobInv(k, world, asserted, shown, label)
      BY <2>1, <3>2, <3>3, LessKnown
    <3> QED
      BY <3>1, <3>2, <3>4
  <2> QED
    BY <2>2, <2>3
<1>8. job'[r] = j
  BY <1>2 DEF j
<1>9. \A x \in Runs : JobInv(job'[x], world', asserted', shown', label')
  BY <1>1, <1>3, <1>7, <1>8
<1>10. job' \in [Runs -> JobRuns]
  BY <1>2, <1>9 DEF JobInv, Placed
<1>11. ClustersTypeOK'
  BY <1>1, <1>10 DEF RefreshInv, ClustersTypeOK
<1>12. AloneIs'
  <2>1. ASSUME NEW x \in Runs, job'[x].alone, job'[x].at # Everywhere, NEW y \in Runs, y # x PROVE job'[y].at # job'[x].at
    <3>1. CASE x = r
      BY <1>3, <1>6, <1>7, <1>8, <2>1, <3>1
    <3>2. CASE x # r /\ y = r
      BY <1>3, <1>7, <1>8, <2>1, <3>2
    <3>3. CASE x # r /\ y # r
      BY <1>7, <2>1, <3>3 DEF RefreshInv, AloneIs
    <3> QED
      BY <3>1, <3>2, <3>3
  <2> QED
    BY <2>1 DEF AloneIs
<1> QED
  BY <1>9, <1>11, <1>12 DEF RefreshInv

\* A transaction ends.  Its labels are those of its namespace, so a refresh that
\* is alone in another one keeps what it knows
LEMMA CommitKeeps == ASSUME RefreshInv, CampInv', NEW r \in Runs, Commit(r) PROVE RefreshInv'
<1> DEFINE J == job[r]
           j == [Idle EXCEPT !.pc = IF J.walk = {} THEN "bump" ELSE "next", !.task = J.task, !.walk = J.walk]
<1>1. /\ UNCHANGED <<world, spare, granules>> /\ Job(r, j) /\ label' = NewLabels(r)
      /\ clusters' = (clusters \cup J.keys) \ J.cand
  BY DEF Commit
<1>2. J \in JobRuns /\ J.task \in SUBSET Spaces /\ J.walk \in SUBSET Spaces /\ J.keys \subseteq Members
  BY JobIs DEF JobRuns
<1>3. JobInv(j, world, asserted, shown, label') /\ j.at = Everywhere
  <2> DEFINE pc == IF J.walk = {} THEN "bump" ELSE "next"
  <2>1. pc \in Ended
    BY DEF Ended
  <2> HIDE DEF pc
  <2>2. /\ JobInv([Idle EXCEPT !.pc = pc, !.task = J.task, !.walk = J.walk], world, asserted, shown, label')
        /\ [Idle EXCEPT !.pc = pc, !.task = J.task, !.walk = J.walk].at = Everywhere
    BY <1>2, <2>1, RestingJob
  <2> QED
    BY <2>2 DEF pc
<1> HIDE DEF j
<1>4. label \in [Members -> Labels] /\ clusters \subseteq Members /\ job \in [Runs -> JobRuns]
  BY DEF RefreshInv, ClustersTypeOK
<1>5. /\ \A m \in Members : J.tag[m] # Untouched => J.tag[m] \in Labels /\ Home[m] = J.at
      /\ \A m \in Members : label'[m] = IF m \in Orphans(r) THEN 0 ELSE IF J.tag[m] # Untouched THEN J.tag[m] ELSE label[m]
  <2>1. \A m \in Members : J.tag[m] # Untouched => J.tag[m] \in Labels /\ Home[m] = J.at
    BY <1>2, JobIs DEF Placed, JobRuns
  <2> QED
    BY <1>1, <2>1 DEF NewLabels, View, Written
<1>6. label' \in [Members -> Labels]
  <2>1. \A m \in Members : label'[m] \in Labels
    BY <1>4, <1>5 DEF Labels
  <2>2. label' = [m \in Members |-> label'[m]]
    BY <1>1 DEF NewLabels
  <2> QED
    BY <2>1, <2>2
<1>7. \A x \in Runs : job'[x] = IF x = r THEN j ELSE job[x]
  BY <1>1, <1>4 DEF Job
<1>8. ASSUME NEW x \in Runs, x # r PROVE JobInv(job[x], world, asserted, shown, label')
  <2>1. Placed(job[x]) /\ GoneFrom(job[x], asserted, label) /\ SteadyIn(job[x], world, asserted, shown) /\ job[x].gone \subseteq Members
    BY JobIs DEF JobRuns
  <2>2. ASSUME NEW m \in job[x].gone, job[x].alone, label[m] = 0 PROVE label'[m] = 0
    <3>1. m \in Members /\ Home[m] = job[x].at /\ job[x].at # Everywhere
      BY <2>1 DEF GoneFrom, Placed
    <3>2. J.at # job[x].at
      BY <1>8, <2>2, <3>1 DEF RefreshInv, AloneIs
    <3> QED
      BY <1>5, <2>2, <3>1, <3>2
  <2>3. GoneFrom(job[x], asserted, label')
    BY <2>1, <2>2 DEF GoneFrom
  <2> QED
    BY <2>1, <2>3 DEF JobInv
<1>9. \A x \in Runs : JobInv(job'[x], world', asserted', shown', label')
  BY <1>1, <1>3, <1>7, <1>8
<1>10. ClustersTypeOK'
  <2>1. job' \in [Runs -> JobRuns]
    BY <1>1, <1>3, <1>4 DEF Job, JobInv, Placed
  <2> QED
    BY <1>1, <1>2, <1>4, <1>6, <2>1 DEF RefreshInv, ClustersTypeOK, CampInv
<1>11. AloneIs'
  BY <1>3, <1>7 DEF RefreshInv, AloneIs
<1> QED
  BY <1>9, <1>10, <1>11 DEF RefreshInv

ClustersInv == CampInv /\ RefreshInv

LEMMA ClustersKept == ClustersInv /\ [ClustersNext]_clustersVars => ClustersInv'
<1> SUFFICES ASSUME CampInv, RefreshInv, [ClustersNext]_clustersVars PROVE RefreshInv'
  BY CampKept DEF ClustersInv
<1>1. CampInv' /\ world \in World /\ spare \in Spare
  BY CampKept DEF CampInv, RefreshInv, ClustersTypeOK
<1>2. CASE UNCHANGED clustersVars
  BY <1>1, <1>2, JobsRest DEF clustersVars
<1>3. CASE Campaign \/ Launch \/ JudgeFails \/ \E e \in DOMAIN world.edges : EdgeChanges(e)
  <2>1. ClustersNext
    BY <1>3 DEF ClustersNext, Events
  <2>2. spare' \in Spare /\ UNCHANGED <<asserted, shown, label, clusters, job>>
    BY <1>1, <1>3, UsesKeeps DEF Campaign, ReadPage, Judge, Prune, Launch, JudgeFails, EdgeChanges
  <2> QED
    BY <1>1, <2>1, <2>2, WorldStays, JobsRest
<1>4. ASSUME NEW m \in Members, Retire(m) \/ Revive(m) \/ Sync(m) PROVE RefreshInv'
  BY <1>1, <1>4, StirKeeps
<1>5. ASSUME NEW r \in Runs, Begin(r) \/ SearchFails(r) \/ Lost(r) \/ Bump(r) \/ Victim(r) PROVE RefreshInv'
  <2>1. ClustersNext
    BY <1>5 DEF ClustersNext, Events, Refresh
  <2> QED
    BY <1>1, <1>5, <2>1, EndsKeep
<1>6. ASSUME NEW r \in Runs, Enter(r) \/ Search(r) \/ Clear(r) \/ Cleared(r) \/ Norm(r)
                            \/ UpsertRows(r) \/ Label(r) \/ SweepEmpty(r) \/ Commit(r) PROVE RefreshInv'
  BY <1>1, <1>6, EnterKeeps, SearchKeeps, ClearKeeps, ClearedKeeps, NormKeeps, UpsertKeeps, LabelKeeps, SweepKeeps, CommitKeeps
<1> QED
  BY <1>2, <1>3, <1>4, <1>5, <1>6 DEF ClustersNext, Events, Refresh

\* What a refresh leaves behind when it commits
LEMMA CommitIs ==
  ASSUME ClustersInv, NEW r \in Runs, Commits(r)
  PROVE  /\ job[r].alone => \A m \in job[r].gone : label'[m] = 0
         /\ \A p \in Sure(r) : \A a, b \in p : Cardinality(Component(Sure(r), a)) >= MinMembers
                                              => label'[a] = label'[b] /\ label'[a] # 0
<1> DEFINE J == job[r]
<1>1. /\ J \in JobRuns /\ J.pc = "commit" /\ J.gone \subseteq Members /\ J.steady \in SUBSET Members
      /\ GoneFrom(J, asserted, label) /\ SteadyIn(J, world, asserted, shown)
  BY JobIs DEF ClustersInv, Commits, JobRuns
<1>2. \A m \in Members : label'[m] = IF m \in Orphans(r) THEN 0 ELSE IF J.tag[m] # Untouched THEN J.tag[m] ELSE label[m]
  BY DEF Commits, NewLabels, View, Written
<1>3. \A m \in Members : J.tag[m] # Untouched => m \notin Orphans(r)
  <2> SUFFICES ASSUME NEW m \in Members, job[r].tag[m] # Untouched PROVE m \notin Orphans(r)
    OBVIOUS
  <2>1. m \in Written(r)
    BY DEF Written
  <2> QED
    BY <2>1 DEF Orphans
<1>4. J.alone => \A m \in J.gone : label'[m] = 0
  BY <1>1, <1>2 DEF GoneFrom, Untouched
<1>5. ASSUME NEW p \in Sure(r), NEW a \in p, NEW b \in p, Cardinality(Component(Sure(r), a)) >= MinMembers
      PROVE  label'[a] = label'[b] /\ label'[a] # 0
  <2>1. a \in Members /\ b \in Members
    BY <1>1 DEF Sure, SureIn
  <2>2. J.tag[a] = J.tag[b] /\ J.tag[a] \notin {0, Untouched}
    BY <1>1, <1>5 DEF SteadyIn, Sure, Big
  <2> QED
    BY <1>2, <1>3, <2>1, <2>2
<1> QED
  BY <1>4, <1>5

\* What can be said of every step
LEMMA ClustersHold == ClustersSpec => []ClustersInv
<1>1. ClustersInit => ClustersInv
  BY CampInit, RefreshInit DEF ClustersInv
<1> QED
  BY <1>1, ClustersKept, PTL DEF ClustersSpec

\* The state of refreshes, clusters and campaign has its types.
THEOREM ClustersTyped == ClustersSpec => []ClustersTypeOK
<1>1. ClustersInv => ClustersTypeOK
  BY DEF ClustersInv, RefreshInv
<1> QED
  BY <1>1, ClustersHold, PTL

\* A campaign (run_prune_cooccurrence_history) prunes no bridge but one that
\* became a bridge after its page was read, and judges every edge that was a
\* candidate from its beginning to its good end.
THEOREM CampaignIsExact == ClustersSpec => CampaignExact
<1>1. ClustersInv /\ [ClustersNext]_clustersVars
      => [/\ camp.pc = "write" /\ camp'.pc = "page" =>
               \A e \in edges \ edges' : BridgeIn(label, e) => e \in camp.crossed
          /\ camp'.out = "ok" => due' = {}]_clustersVars
  BY CampKept DEF ClustersInv
<1> QED
  BY <1>1, ClustersHold, PTL DEF ClustersSpec, CampaignExact

\* A granule that a refresh (assign_clusters_from_pairs) finds and leaves in no
\* state to be clustered has no label when it commits, unless a second refresh of
\* the namespace ran beside it.
THEOREM LeftoverExplained == ClustersSpec => LeftoverHasCause
<1>1. ClustersInv /\ [ClustersNext]_clustersVars
      => [\A r \in Runs : Commits(r) /\ job[r].alone => \A m \in job[r].gone : label'[m] = 0]_clustersVars
  BY CommitIs
<1> QED
  BY <1>1, ClustersHold, PTL DEF ClustersSpec, LeftoverHasCause

\* Near granules that stand still during a refresh, and that its searches
\* (collect_cluster_pairs) cannot miss, get one label when they are enough for a
\* cluster, whatever other refreshes write.
THEOREM SteadyStayTogether == ClustersSpec => SteadyTogether
<1>1. ClustersInv /\ [ClustersNext]_clustersVars
      => [\A r \in Runs : Commits(r) =>
             \A p \in Sure(r) : \A a, b \in p :
               Cardinality(Component(Sure(r), a)) >= MinMembers
                 => label'[a] = label'[b] /\ label'[a] # 0]_clustersVars
  BY CommitIs
<1> QED
  BY <1>1, ClustersHold, PTL DEF ClustersSpec, SteadyTogether

-----------------------------------------------------------------------------
(* The places.                                                             *)

EndsOf(w, e) == {w.ties[e].from, w.ties[e].to}
Reading == {"edges", "rows", "delete", "insert"}
Computing == {"delete", "insert"}

Rowlike(s) == s \in [way : Ways \cup {"none"}, at : {s.at}, birth : {s.birth}, manual : BOOLEAN]
Sitlike(c) ==
  c \in [pc : SeatPoints, force : BOOLEAN, id : {c.id}, grains : SUBSET Grains, kin : [Grains -> Keys \cup {0}],
         ties : {c.ties}, seats : {c.seats}, group : {c.group}, doomed : SUBSET Grains,
         still : {c.still}, loose : SUBSET Grains, seated : SUBSET Grains, moved : SUBSET Keys, late : BOOLEAN]

\* A run knows the members of every cluster that none has joined or left since
\* it read the granules
Known(c, S, K) ==
  c.pc \in Reading =>
    \A n \in Grains : /\ S[n] = "live" /\ K[n] \notin c.moved \cup {0} => n \in c.grains /\ c.kin[n] = K[n]
                      /\ n \in c.grains /\ c.kin[n] \notin c.moved \cup {0} => K[n] = c.kin[n]

\* While one of them has no row, those with rows sit together, in the rows as
\* they are and then in those the run has read
Wanting(S, K, R, k) == \E a \in Grains : S[a] = "live" /\ K[a] = k /\ R[a] = NoSeat
OfKin(c, k) == {n \in c.grains : c.kin[n] = k}
OneSpot(c, k, R) == \A m, n \in OfKin(c, k) : R[m] # NoSeat /\ R[n] # NoSeat => R[m].at = R[n].at
Ahead(c, S, K, R, X) ==
  c.pc \in {"edges", "rows"} => \A k \in Keys \ (X \cup c.moved) : Wanting(S, K, R, k) => OneSpot(c, k, R)
Looked(c, S, K, R, X) ==
  c.pc \in Computing /\ ~c.force /\ ~c.late =>
    /\ \A n \in c.grains : c.seats[n] # NoSeat => R[n] # NoSeat \/ S[n] = "gone"
    /\ \A k \in Keys \ (X \cup c.moved) : Wanting(S, K, R, k) =>
         OneSpot(c, k, c.seats) /\ \A n \in OfKin(c, k) : R[n] # NoSeat => c.seats[n] = R[n]

\* A forced run deletes every row that is not manual, unless it is overtaken
Wiped(c, R) ==
  c.pc = "insert" => /\ ~c.force => c.doomed = {}
                     /\ c.force /\ ~c.late => \A n \in Grains : R[n] # NoSeat /\ ~R[n].manual
                                                => n \in c.doomed /\ R[n].birth = c.seats[n].birth

\* Clusters are groups; a granule without one has no free neighbour
Grouped(c, w) ==
  c.pc \in Computing =>
    \A n \in c.grains : /\ c.kin[n] # 0 => c.group[n] = c.kin[n]
                        /\ c.kin[n] = 0 => c.group[n] \notin Keys
                        /\ c.group[n] = 0 => /\ c.kin[n] = 0
                                             /\ \A e \in c.ties, m \in c.grains :
                                                  {m, n} \subseteq EndsOf(w, e) /\ c.kin[m] = 0 => m = n

\* What stands still has been read
Held(c, w, S, T, R) ==
  c.pc \in Reading =>
    /\ \A e \in c.still : e \in T /\ EndsOf(w, e) \subseteq c.grains /\ \A n \in EndsOf(w, e) : S[n] = "live"
    /\ c.pc # "edges" => c.still \subseteq c.ties /\ \A e \in c.ties : EndsOf(w, e) \subseteq c.grains
    /\ c.loose \subseteq c.grains /\ \A n \in c.loose : c.kin[n] = 0
    /\ c.seated \subseteq c.grains /\ \A n \in c.seated : R[n] # NoSeat
    /\ c.pc \in Computing /\ ~c.force => \A n \in c.seated : c.seats[n] # NoSeat

SitInv(c, w, S, K, T, R, X) ==
  /\ Sitlike(c) /\ Known(c, S, K) /\ Ahead(c, S, K, R, X) /\ Looked(c, S, K, R, X)
  /\ Wiped(c, R) /\ Grouped(c, w) /\ Held(c, w, S, T, R)
Sits(p) == SitInv(crew[p], sky, status, kin, ties, seat, mixed)

SeatTypes == /\ sky \in Sky /\ mixed \subseteq Keys
             /\ status \in [Grains -> Standings] /\ kin \in [Grains -> Keys \cup {0}]
             /\ seat = [n \in Grains |-> seat[n]] /\ \A n \in Grains : Rowlike(seat[n])
             /\ crew = [p \in Seaters |-> crew[p]]
SeatsInv == SeatTypes /\ KinSitTogether /\ \A p \in Seaters : Sits(p)

USE DEF heavens

LEMMA EndsAre == ASSUME NEW e PROVE Ends(e) = EndsOf(sky, e) /\ (sky' = sky => Ends(e)' = EndsOf(sky, e))
BY DEF Ends, EndsOf

LEMMA NoSeatIs == Rowlike(NoSeat) /\ NoSeat.way = "none"
BY DEF NoSeat, Rowlike, Ways

\* What is not at work is bound by nothing
LEMMA RestingSits ==
  ASSUME NEW c, Sitlike(c), c.pc \in {"idle", "scale", "nodes"}, NEW w, NEW S, NEW K, NEW T, NEW R, NEW X
  PROVE  SitInv(c, w, S, K, T, R, X)
BY DEF SitInv, Known, Ahead, Looked, Wiped, Grouped, Held, Reading, Computing

LEMMA Resting0Is == Sitlike(Resting0) /\ Resting0.pc = "idle"
BY DEF Resting0, Sitlike, SeatPoints

LEMMA SeatsInit == SeatingInit => SeatsInv
<1> SUFFICES ASSUME SeatingInit PROVE SeatsInv
  OBVIOUS
<1>1. sky \in Sky
  BY SeatingAssumption DEF SeatingInit
<1>2. status \in [Grains -> Standings] /\ kin \in [Grains -> Keys \cup {0}] /\ mixed = {}
  BY <1>1 DEF SeatingInit, Sky
<1>3. seat = [n \in Grains |-> seat[n]]
  BY DEF SeatingInit, Laid
<1>4. \A n \in Grains : Rowlike(seat[n])
  BY DEF SeatingInit, Laid, NoSeat, Seat, Rowlike, Ways
<1>5. KinSitTogether
  <2> SUFFICES ASSUME NEW a \in Grains, NEW b \in Grains, kin[a] = kin[b], kin[a] # 0, NoSeat \notin {seat[a], seat[b]}
               PROVE  seat[a].at = seat[b].at
    BY DEF KinSitTogether, Awake
  <2>1. \A n \in {a, b} : seat[n] = Seat("group", {Spot("centre", kin[n], 0)}, 0)
    BY DEF SeatingInit, Laid
  <2> QED
    BY <2>1
<1>6. \A p \in Seaters : crew[p] = Resting0
  BY DEF SeatingInit
<1>7. \A p \in Seaters : Sits(p)
  BY <1>6, Resting0Is, RestingSits DEF Sits
<1>8. crew = [p \in Seaters |-> crew[p]]
  BY DEF SeatingInit
<1> QED
  BY <1>1, <1>2, <1>3, <1>4, <1>5, <1>7, <1>8 DEF SeatsInv, SeatTypes

\* What a run that is watched keeps
LEMMA WatchedIs ==
  ASSUME NEW c, Sitlike(c), sky' = sky
  PROVE  /\ Sitlike(Watched(c))
         /\ Watched(c).pc = c.pc /\ Watched(c).force = c.force /\ Watched(c).id = c.id /\ Watched(c).grains = c.grains
         /\ Watched(c).kin = c.kin /\ Watched(c).ties = c.ties /\ Watched(c).seats = c.seats
         /\ Watched(c).group = c.group /\ Watched(c).doomed = c.doomed /\ Watched(c).moved = c.moved
         /\ Watched(c).late = c.late
         /\ Watched(c).still = {e \in c.still : e \in ties' /\ \A n \in EndsOf(sky, e) : status'[n] = "live"}
         /\ Watched(c).loose = {n \in c.loose : status'[n] = "live" /\ kin'[n] = 0}
         /\ Watched(c).seated = {n \in c.seated : status'[n] = "live" /\ seat'[n] # NoSeat}
<1> DEFINE still == {e \in c.still : Kept0(e)}
           loose == {n \in c.loose : status'[n] = "live" /\ kin'[n] = 0}
           seated == {n \in c.seated : status'[n] = "live" /\ seat'[n] # NoSeat}
<1>1. still = {e \in c.still : e \in ties' /\ \A n \in EndsOf(sky, e) : status'[n] = "live"}
  BY DEF Kept0, Ends, EndsOf
<1>2. Watched(c) = [c EXCEPT !.still = still, !.loose = loose, !.seated = seated]
  BY DEF Watched
<1>3. loose \in SUBSET Grains /\ seated \in SUBSET Grains
  BY DEF Sitlike
<1>4. loose = {n \in c.loose : status'[n] = "live" /\ kin'[n] = 0}
      /\ seated = {n \in c.seated : status'[n] = "live" /\ seat'[n] # NoSeat}
  OBVIOUS
<1> DEFINE W == Watched(c)
<1>5. W = [c EXCEPT !.still = still, !.loose = loose, !.seated = seated]
  BY <1>2
<1> HIDE DEF still, loose, seated, W
<1>6. /\ Sitlike(W)
      /\ W.pc = c.pc /\ W.force = c.force /\ W.id = c.id /\ W.grains = c.grains
      /\ W.kin = c.kin /\ W.ties = c.ties /\ W.seats = c.seats
      /\ W.group = c.group /\ W.doomed = c.doomed /\ W.moved = c.moved
      /\ W.late = c.late /\ W.still = still /\ W.loose = loose /\ W.seated = seated
  BY <1>3, <1>5 DEF Sitlike
<1> QED
  BY <1>1, <1>4, <1>6 DEF W

\* A run follows the graph: c2 is what has become of it
Followed(c, c2) ==
  /\ Sitlike(c2) /\ c2.pc = c.pc /\ c2.force = c.force /\ c2.grains = c.grains /\ c2.kin = c.kin
  /\ c2.ties = c.ties /\ c2.seats = c.seats /\ c2.group = c.group /\ c2.doomed = c.doomed
  /\ c.moved \subseteq c2.moved /\ (c.late => c2.late)
  /\ c2.still = {e \in c.still : e \in ties' /\ \A n \in EndsOf(sky, e) : status'[n] = "live"}
  /\ c2.loose \subseteq c.loose
  /\ c2.seated = {n \in c.seated : status'[n] = "live" /\ seat'[n] # NoSeat}

LEMMA HeldFollows ==
  ASSUME NEW c, NEW c2, Held(c, sky, status, ties, seat), Grouped(c, sky), Followed(c, c2)
  PROVE  Held(c2, sky, status', ties', seat') /\ Grouped(c2, sky)
<1>1. Grouped(c2, sky)
  BY DEF Followed, Grouped
<1>2. Held(c2, sky, status', ties', seat')
  BY DEF Followed, Held
<1> QED
  BY <1>1, <1>2

LEMMA KnownFollows ==
  ASSUME NEW c, NEW c2, Known(c, status, kin), Followed(c, c2),
         \A n \in Grains : status'[n] = "live" /\ kin'[n] # 0 /\ ~(status[n] = "live" /\ kin[n] = kin'[n])
                             => kin'[n] \in c2.moved,
         \A n \in Grains : kin'[n] # kin[n] /\ kin[n] # 0 => kin[n] \in c2.moved
  PROVE  Known(c2, status', kin')
BY DEF Followed, Known

\* Clusters that nobody joins or leaves, and whose rows nobody changes
Calmed(c2) ==
  \A k \in Keys \ (mixed' \cup c2.moved) :
    /\ k \notin mixed
    /\ \A n \in Grains : /\ status'[n] = "live" /\ kin'[n] = k => status[n] = "live" /\ kin[n] = k
                         /\ kin[n] = k => seat'[n] = seat[n] \/ (seat'[n] = NoSeat /\ status'[n] # "live")

LEMMA SpotsFollow ==
  ASSUME NEW c, NEW c2, Known(c, status, kin), Followed(c, c2), Calmed(c2),
         Ahead(c, status, kin, seat, mixed), Looked(c, status, kin, seat, mixed),
         c.moved \subseteq Keys, c.grains \subseteq Grains,
         ~c2.late => \A n \in Grains : seat[n] # NoSeat => seat'[n] # NoSeat \/ status'[n] = "gone",
         \A n \in Grains : status[n] = "gone" => status'[n] = "gone"
  PROVE  Ahead(c2, status', kin', seat', mixed') /\ Looked(c2, status', kin', seat', mixed')
<1>1. \A k \in Keys \ (mixed' \cup c2.moved) : k \in Keys \ (mixed \cup c.moved)
  BY DEF Calmed, Followed
<1>2. ASSUME NEW k \in Keys \ (mixed' \cup c2.moved), Wanting(status', kin', seat', k)
      PROVE  Wanting(status, kin, seat, k)
  <2>1. PICK a \in Grains : status'[a] = "live" /\ kin'[a] = k /\ seat'[a] = NoSeat
    BY <1>2 DEF Wanting
  <2>2. status[a] = "live" /\ kin[a] = k
    BY <2>1 DEF Calmed
  <2>3. seat[a] = NoSeat
    BY <2>1, <2>2 DEF Calmed
  <2> QED
    BY <2>2, <2>3 DEF Wanting
<1>3. ASSUME NEW k \in Keys \ (mixed' \cup c2.moved), c.pc \in Reading, NEW n \in OfKin(c, k), seat'[n] # NoSeat
      PROVE  seat'[n] = seat[n]
  <2>1. n \in Grains /\ kin[n] = k
    BY <1>1, <1>3, SeatingAssumption DEF OfKin, Known
  <2> QED
    BY <1>3, <2>1 DEF Calmed
<1>4. \A k : OfKin(c2, k) = OfKin(c, k)
  BY DEF OfKin, Followed
<1>5. Ahead(c2, status', kin', seat', mixed')
  <2> SUFFICES ASSUME c2.pc \in {"edges", "rows"}, NEW k \in Keys \ (mixed' \cup c2.moved), Wanting(status', kin', seat', k)
               PROVE  OneSpot(c2, k, seat')
    BY DEF Ahead
  <2>1. c.pc \in {"edges", "rows"} /\ c.pc \in Reading
    BY DEF Followed, Reading
  <2>2. OneSpot(c, k, seat)
    BY <1>1, <1>2, <2>1 DEF Ahead
  <2> QED
    BY <1>3, <1>4, <2>1, <2>2 DEF OneSpot
<1>6. Looked(c2, status', kin', seat', mixed')
  <2> SUFFICES ASSUME c2.pc \in Computing, ~c2.force, ~c2.late
               PROVE  /\ \A n \in c2.grains : c2.seats[n] # NoSeat => seat'[n] # NoSeat \/ status'[n] = "gone"
                      /\ \A k \in Keys \ (mixed' \cup c2.moved) : Wanting(status', kin', seat', k) =>
                           OneSpot(c2, k, c2.seats) /\ \A n \in OfKin(c2, k) : seat'[n] # NoSeat => c2.seats[n] = seat'[n]
    BY DEF Looked
  <2>1. c.pc \in Computing /\ ~c.force /\ ~c.late /\ c.pc \in Reading /\ c2.grains = c.grains /\ c2.seats = c.seats
    BY DEF Followed, Reading, Computing
  <2>2. /\ \A n \in c.grains : c.seats[n] # NoSeat => seat[n] # NoSeat \/ status[n] = "gone"
        /\ \A k \in Keys \ (mixed \cup c.moved) : Wanting(status, kin, seat, k) =>
             OneSpot(c, k, c.seats) /\ \A n \in OfKin(c, k) : seat[n] # NoSeat => c.seats[n] = seat[n]
    BY <2>1 DEF Looked
  <2>3. \A n \in c2.grains : c2.seats[n] # NoSeat => seat'[n] # NoSeat \/ status'[n] = "gone"
    BY <2>1, <2>2
  <2>4. ASSUME NEW k \in Keys \ (mixed' \cup c2.moved), Wanting(status', kin', seat', k)
        PROVE  OneSpot(c2, k, c2.seats) /\ \A n \in OfKin(c2, k) : seat'[n] # NoSeat => c2.seats[n] = seat'[n]
    <3>1. OneSpot(c, k, c.seats) /\ \A n \in OfKin(c, k) : seat[n] # NoSeat => c.seats[n] = seat[n]
      BY <1>1, <1>2, <2>2, <2>4
    <3> QED
      BY <1>3, <1>4, <2>1, <3>1 DEF OneSpot
  <2> QED
    BY <2>3, <2>4
<1> QED
  BY <1>5, <1>6

\* The rows of a cluster
LEMMA KinFollows ==
  ASSUME KinSitTogether, mixed \subseteq mixed', mixed' \subseteq Keys,
         \A n \in Grains : status'[n] = "live" /\ kin'[n] \notin mixed' \cup {0} /\ seat'[n] # NoSeat =>
           status[n] = "live" /\ kin[n] = kin'[n] /\ seat[n] = seat'[n]
  PROVE  KinSitTogether'
BY DEF KinSitTogether, Awake


\* Granules, labels, edges and rows change, and the runs follow: M are the
\* clusters a granule joins or leaves, L says whether rows are written
Turned(o, d, M, L) ==
  /\ Sitlike(d) /\ d.pc = o.pc /\ d.force = o.force /\ d.grains = o.grains /\ d.kin = o.kin
  /\ d.ties = o.ties /\ d.seats = o.seats /\ d.group = o.group /\ d.doomed = o.doomed /\ d.still = o.still
  /\ d.loose = o.loose /\ d.seated = o.seated /\ d.moved = o.moved \cup M /\ d.late = (o.late \/ L)
Stirs(c, M, L) == \A p \in Seaters : Turned(crew[p], c[p], M, L)

LEMMA HeavenTurns ==
  ASSUME SeatsInv, sky' = sky, mixed \subseteq mixed', mixed' \subseteq Keys,
         status' \in [Grains -> Standings], kin' \in [Grains -> Keys \cup {0}],
         seat' = [n \in Grains |-> seat'[n]], \A n \in Grains : Rowlike(seat'[n]),
         NEW c, NEW M \in SUBSET Keys, NEW L \in BOOLEAN, Stirs(c, M, L), Crew(c),
         \A n \in Grains :
           /\ status'[n] = "live" /\ kin'[n] # 0 /\ ~(status[n] = "live" /\ kin[n] = kin'[n]) => kin'[n] \in M
           /\ kin'[n] # kin[n] /\ kin[n] # 0 => kin[n] \in M
           /\ seat'[n] # seat[n] /\ kin[n] # 0 => kin[n] \in mixed' \/ (seat'[n] = NoSeat /\ status'[n] # "live")
           /\ seat'[n] = NoSeat /\ seat[n] # NoSeat => status'[n] = "gone"
           /\ status[n] = "gone" => status'[n] = "gone"
           /\ ~L => (seat'[n] # NoSeat /\ ~seat'[n].manual => seat'[n] = seat[n])
           /\ status'[n] = "live" /\ kin'[n] \notin mixed' \cup {0} /\ seat'[n] # NoSeat =>
                status[n] = "live" /\ kin[n] = kin'[n] /\ seat[n] = seat'[n]
  PROVE  SeatsInv' /\ \A p \in Seaters : crew'[p].pc = crew[p].pc
<1>1. KinSitTogether'
  BY KinFollows DEF SeatsInv
<1>2. \A p \in Seaters : crew'[p] = Watched(c[p])
  BY DEF Crew
<1>3. crew' = [p \in Seaters |-> crew'[p]]
  BY DEF Crew
<1>4. ASSUME NEW p \in Seaters PROVE SitInv(crew'[p], sky, status', kin', ties', seat', mixed') /\ crew'[p].pc = crew[p].pc
  <2> DEFINE o == crew[p]
             d == c[p]
             e == crew'[p]
  <2>1. SitInv(o, sky, status, kin, ties, seat, mixed)
    BY DEF SeatsInv, Sits
  <2>2. /\ Sitlike(d) /\ d.pc = o.pc /\ d.force = o.force /\ d.grains = o.grains /\ d.kin = o.kin
        /\ d.ties = o.ties /\ d.seats = o.seats /\ d.group = o.group /\ d.doomed = o.doomed /\ d.still = o.still
        /\ d.loose = o.loose /\ d.seated = o.seated /\ d.moved = o.moved \cup M /\ d.late = (o.late \/ L)
    BY DEF Stirs, Turned
  <2>3. e = Watched(d)
    BY <1>2
  <2> HIDE DEF o, d, e
  <2>4. /\ Sitlike(e) /\ e.pc = d.pc /\ e.force = d.force /\ e.grains = d.grains /\ e.kin = d.kin /\ e.ties = d.ties
        /\ e.seats = d.seats /\ e.group = d.group /\ e.doomed = d.doomed /\ e.moved = d.moved /\ e.late = d.late
        /\ e.still = {x \in d.still : x \in ties' /\ \A n \in EndsOf(sky, x) : status'[n] = "live"}
        /\ e.loose = {n \in d.loose : status'[n] = "live" /\ kin'[n] = 0}
        /\ e.seated = {n \in d.seated : status'[n] = "live" /\ seat'[n] # NoSeat}
    BY <2>2, <2>3, WatchedIs
  <2>5. Sitlike(o)
    BY <2>1 DEF SitInv
  <2>6. o.late \in BOOLEAN /\ o.moved \subseteq Keys /\ o.grains \subseteq Grains
    BY <2>5 DEF Sitlike
  <2>7. Followed(o, e) /\ e.moved = o.moved \cup M /\ (L => e.late)
    BY <2>2, <2>4, <2>6 DEF Followed
  <2>8. Held(e, sky, status', ties', seat') /\ Grouped(e, sky)
    BY <2>1, <2>7, HeldFollows DEF SitInv
  <2>9. Known(e, status', kin')
    BY <2>1, <2>7, KnownFollows DEF SitInv
  <2>10. Calmed(e)
    BY <2>7, SeatingAssumption DEF Calmed, SeatsInv, SeatTypes
  <2>11. Ahead(e, status', kin', seat', mixed') /\ Looked(e, status', kin', seat', mixed')
    BY <2>1, <2>6, <2>7, <2>10, SpotsFollow DEF SitInv
  <2>12. Wiped(e, seat')
    BY <2>1, <2>7 DEF SitInv, Wiped, Followed
  <2> QED
    BY <2>2, <2>4, <2>8, <2>9, <2>11, <2>12 DEF SitInv, e, o
<1>5. (\A p \in Seaters : Sits(p))'
  BY <1>4 DEF Sits
<1>6. SeatTypes'
  BY <1>3 DEF SeatsInv, SeatTypes
<1> QED
  BY <1>1, <1>4, <1>5, <1>6 DEF SeatsInv

\* Being overtaken leaves the rest of a run as it is
LEMMA CrewTurned ==
  ASSUME NEW o, Sitlike(o)
  PROVE  Turned(o, [o EXCEPT !.late = TRUE], {}, TRUE) /\ Turned(o, o, {}, FALSE)
BY DEF Sitlike, Turned

\* Nobody joins or leaves a cluster and no run writes
LEMMA CrewStirs ==
  ASSUME SeatsInv
  PROVE  /\ Stirs(crew, {}, FALSE)
         /\ \A M \in SUBSET Keys : Stirs([p \in Seaters |-> [crew[p] EXCEPT !.moved = @ \cup M]], M, FALSE)
         /\ Stirs([p \in Seaters |-> [crew[p] EXCEPT !.late = TRUE]], {}, TRUE)
<1>1. \A p \in Seaters : Sitlike(crew[p])
  BY DEF SeatsInv, Sits, SitInv
<1>2. ASSUME NEW o, Sitlike(o), NEW M \in SUBSET Keys PROVE Turned(o, [o EXCEPT !.moved = @ \cup M], M, FALSE)
  <2>1. o.moved \cup M \in SUBSET Keys /\ o.late \in BOOLEAN
    BY <1>2 DEF Sitlike
  <2> QED
    BY <1>2, <2>1 DEF Sitlike, Turned
<1>3. Stirs(crew, {}, FALSE)
  BY <1>1, CrewTurned DEF Stirs
<1>4. ASSUME NEW M \in SUBSET Keys PROVE Stirs([p \in Seaters |-> [crew[p] EXCEPT !.moved = @ \cup M]], M, FALSE)
  BY <1>1, <1>2 DEF Stirs
<1>5. Stirs([p \in Seaters |-> [crew[p] EXCEPT !.late = TRUE]], {}, TRUE)
  BY <1>1, CrewTurned DEF Stirs
<1> QED
  BY <1>3, <1>4, <1>5

LEMMA HeavensKeep ==
  ASSUME SeatsInv, HeavenMoves
  PROVE  SeatsInv' /\ \A p \in Seaters : crew'[p].pc = crew[p].pc
<1> USE DEF SeatsInv, SeatTypes
<1>0. sky.restless \subseteq Grains
  BY DEF Sky
<1>1. ASSUME NEW n \in Grains, Rises(n)
      PROVE  SeatsInv' /\ \A p \in Seaters : crew'[p].pc = crew[p].pc
  <2> DEFINE M == {kin[n], kin[n]} \ {0}
             f == [p \in Seaters |-> [crew[p] EXCEPT !.moved = @ \cup M]]
  <2>1. M \in SUBSET Keys /\ Stirs(f, M, FALSE)
    BY CrewStirs
  <2>2. Crew(f)
    BY <1>1 DEF Rises, Joins
  <2>3. /\ status' = [status EXCEPT ![n] = "live"] /\ UNCHANGED <<sky, kin, seat>> /\ status[n] \in {"unborn", "closed"}
        /\ mixed' = IF seat[n] # NoSeat /\ kin[n] # 0 THEN mixed \cup {kin[n]} ELSE mixed
    BY <1>1 DEF Rises, Joins
  <2>4. status' \in [Grains -> Standings] /\ mixed \subseteq mixed' /\ mixed' \subseteq Keys
    BY <2>3 DEF Standings
  <2>5. \A m \in Grains :
          /\ status'[m] = "live" /\ kin'[m] # 0 /\ ~(status[m] = "live" /\ kin[m] = kin'[m]) => kin'[m] \in M
          /\ kin'[m] # kin[m] /\ kin[m] # 0 => kin[m] \in M
          /\ status[m] = "gone" => status'[m] = "gone"
          /\ status'[m] = "live" /\ kin'[m] \notin mixed' \cup {0} /\ seat'[m] # NoSeat =>
               status[m] = "live" /\ kin[m] = kin'[m] /\ seat[m] = seat'[m]
    BY <2>3, <2>4
  <2> HIDE DEF f, M
  <2> QED
    BY <2>1, <2>2, <2>3, <2>4, <2>5, HeavenTurns
<1>2. ASSUME NEW n \in Grains, Sets(n)
      PROVE  SeatsInv' /\ \A p \in Seaters : crew'[p].pc = crew[p].pc
  <2>1. status' = [status EXCEPT ![n] = "closed"] /\ UNCHANGED <<sky, kin, seat, mixed>> /\ status[n] = "live" /\ Crew(crew)
    BY <1>2 DEF Sets
  <2>2. status' \in [Grains -> Standings]
    BY <2>1 DEF Standings
  <2> QED
    BY <2>1, <2>2, CrewStirs, HeavenTurns
<1>3. ASSUME NEW n \in Grains, Vanishes(n)
      PROVE  SeatsInv' /\ \A p \in Seaters : crew'[p].pc = crew[p].pc
  <2>1. /\ status' = [status EXCEPT ![n] = "gone"] /\ seat' = [seat EXCEPT ![n] = NoSeat]
        /\ UNCHANGED <<sky, kin, mixed>> /\ status[n] = "closed" /\ Crew(crew)
    BY <1>3 DEF Vanishes
  <2>2. status' \in [Grains -> Standings]
    BY <2>1 DEF Standings
  <2>3. seat' = [m \in Grains |-> seat'[m]] /\ \A m \in Grains : Rowlike(seat'[m])
    BY <2>1, NoSeatIs
  <2> QED
    BY <2>1, <2>2, <2>3, CrewStirs, HeavenTurns
<1>4. ASSUME NEW n \in Grains, NEW k \in Keys \cup {0}, Relabels(n, k)
      PROVE  SeatsInv' /\ \A p \in Seaters : crew'[p].pc = crew[p].pc
  <2> DEFINE M == {k, kin[n]} \ {0}
             f == [p \in Seaters |-> [crew[p] EXCEPT !.moved = @ \cup M]]
  <2>1. M \in SUBSET Keys /\ Stirs(f, M, FALSE)
    BY CrewStirs
  <2>2. Crew(f)
    BY <1>4 DEF Relabels, Joins
  <2>3. /\ kin' = [kin EXCEPT ![n] = k] /\ UNCHANGED <<sky, status, seat>>
        /\ mixed' = IF seat[n] # NoSeat /\ k # 0 THEN mixed \cup {k} ELSE mixed
    BY <1>4 DEF Relabels, Joins
  <2>4. kin' \in [Grains -> Keys \cup {0}] /\ mixed \subseteq mixed' /\ mixed' \subseteq Keys
    BY <2>3
  <2>5. \A m \in Grains :
          /\ status'[m] = "live" /\ kin'[m] # 0 /\ ~(status[m] = "live" /\ kin[m] = kin'[m]) => kin'[m] \in M
          /\ kin'[m] # kin[m] /\ kin[m] # 0 => kin[m] \in M
          /\ status[m] = "gone" => status'[m] = "gone"
          /\ status'[m] = "live" /\ kin'[m] \notin mixed' \cup {0} /\ seat'[m] # NoSeat =>
               status[m] = "live" /\ kin[m] = kin'[m] /\ seat[m] = seat'[m]
    BY <2>3, <2>4
  <2> HIDE DEF f, M
  <2> QED
    BY <2>1, <2>2, <2>3, <2>4, <2>5, HeavenTurns
<1>5. ASSUME NEW e, Ties(e)
      PROVE  SeatsInv' /\ \A p \in Seaters : crew'[p].pc = crew[p].pc
  <2>1. UNCHANGED <<sky, status, kin, seat, mixed>> /\ Crew(crew)
    BY <1>5 DEF Ties
  <2> QED
    BY <2>1, CrewStirs, HeavenTurns
<1>6. ASSUME NEW n \in Grains, MovesByHand(n)
      PROVE  SeatsInv' /\ \A p \in Seaters : crew'[p].pc = crew[p].pc
  <2> DEFINE spot == {Spot("hand", n, hope.hand)}
  <2>1. /\ seat' = [seat EXCEPT ![n] = [seat[n] EXCEPT !.way = "hand", !.at = spot, !.manual = TRUE]]
        /\ mixed' = mixed \cup ({kin[n]} \ {0}) /\ UNCHANGED <<sky, status, kin>> /\ Crew(crew)
    BY <1>6 DEF MovesByHand
  <2>2. \A m \in Grains : seat'[m] = IF m = n THEN [seat[n] EXCEPT !.way = "hand", !.at = spot, !.manual = TRUE] ELSE seat[m]
    BY <2>1
  <2> HIDE DEF spot
  <2>3. ASSUME NEW s, Rowlike(s), NEW t, t = [s EXCEPT !.way = "hand", !.at = spot, !.manual = TRUE]
        PROVE  Rowlike(t) /\ t.manual /\ t # NoSeat
    <3>1. t.way = "hand" /\ Rowlike(t) /\ t.manual
      BY <2>3 DEF Rowlike, Ways
    <3> QED
      BY <3>1, NoSeatIs
  <2>4. Rowlike(seat'[n]) /\ seat'[n].manual /\ seat'[n] # NoSeat
    BY <2>2, <2>3
  <2>5. seat' = [m \in Grains |-> seat'[m]] /\ \A m \in Grains : Rowlike(seat'[m]) /\ (m # n => seat'[m] = seat[m])
    BY <2>1, <2>2, <2>4
  <2> QED
    BY <2>1, <2>4, <2>5, CrewStirs, HeavenTurns
<1>7. ASSUME Relaid
      PROVE  SeatsInv' /\ \A p \in Seaters : crew'[p].pc = crew[p].pc
  <2> DEFINE f == [p \in Seaters |-> [crew[p] EXCEPT !.late = TRUE]]
             relaidRow(m) == [way |-> "drl", at |-> {Spot("drl", m, begun')}, manual |-> seat[m].manual,
                        birth |-> IF seat[m] = NoSeat THEN begun' ELSE seat[m].birth]
  <2>1. seat' = [m \in Grains |-> IF m \notin Awake THEN seat[m] ELSE relaidRow(m)] /\ Crew(f) /\ mixed' = Keys
        /\ UNCHANGED <<sky, status, kin>>
    BY <1>7 DEF Relaid
  <2>2. \A m \in Grains : Rowlike(relaidRow(m)) /\ relaidRow(m) # NoSeat
    <3> TAKE m \in Grains
    <3>1. seat[m].manual \in BOOLEAN
      BY DEF Rowlike
    <3>2. relaidRow(m).way = "drl" /\ Rowlike(relaidRow(m))
      BY <3>1 DEF Rowlike, Ways
    <3> HIDE DEF relaidRow
    <3> QED
      BY <3>2, NoSeatIs
  <2> HIDE DEF relaidRow
  <2>3. /\ seat' = [m \in Grains |-> seat'[m]]
        /\ \A m \in Grains : Rowlike(seat'[m]) /\ (m \notin Awake => seat'[m] = seat[m])
                             /\ (seat[m] # NoSeat => seat'[m] # NoSeat)
    BY <2>1, <2>2
  <2>4. Stirs(f, {}, TRUE)
    BY CrewStirs
  <2> HIDE DEF f
  <2>5. \A m \in Grains : kin[m] \notin mixed' \cup {0} => FALSE
    BY <2>1
  <2> QED
    BY <2>1, <2>3, <2>4, <2>5, HeavenTurns
<1> QED
  BY <1>0, <1>1, <1>2, <1>3, <1>4, <1>5, <1>6, <1>7 DEF HeavenMoves


\* A run takes a step of its own that changes nothing else
LEMMA OwnTurn ==
  ASSUME SeatsInv, NEW p \in Seaters, NEW c, Step0(p, c), UNCHANGED <<sky, heavens, seat, mixed>>,
         SitInv(c, sky, status, kin, ties, seat, mixed)
  PROVE  SeatsInv'
<1>1. crew' = [q \in Seaters |-> crew'[q]] /\ \A q \in Seaters : crew'[q] = IF q = p THEN c ELSE crew[q]
  BY DEF SeatsInv, SeatTypes, Step0
<1>2. (\A q \in Seaters : Sits(q))'
  BY <1>1 DEF SeatsInv, Sits
<1>3. SeatTypes'
  BY <1>1 DEF SeatsInv, SeatTypes
<1>4. KinSitTogether'
  BY DEF SeatsInv, KinSitTogether, Awake
<1> QED
  BY <1>2, <1>3, <1>4 DEF SeatsInv

LEMMA GreatestOf == ASSUME NEW S \in SUBSET Nat, IsFiniteSet(S), S # {} PROVE Max(S) \in S /\ \A x \in S : Max(S) >= x
<1> DEFINE Rel == {p \in S \X S : p[1] < p[2]}
<1>1. \A x, y \in S : <<x, y>> \in Rel <=> x < y
  OBVIOUS
<1> HIDE DEF Rel
<1>2. PICK m \in S : \A x \in S : <<m, x>> \notin Rel
  <2>1. \A x \in S : <<x, x>> \notin Rel
    BY <1>1
  <2>2. \A x, y, z \in S : <<x, y>> \in Rel /\ <<y, z>> \in Rel => <<x, z>> \in Rel
    BY <1>1
  <2> QED
    BY <2>1, <2>2, LastOf
<1>3. \A x \in S : m >= x
  <2> TAKE x \in S
  <2>1. m \in Nat /\ x \in Nat /\ ~(m < x)
    BY <1>1, <1>2
  <2> QED
    BY <2>1
<1> QED
  BY <1>3 DEF Max

\* assign_groups: what a group says of its granules
LEMMA GroupIs ==
  ASSUME NEW c, Sitlike(c), NEW n \in c.grains
  PROVE  /\ c.kin[n] # 0 => GroupOf(c, n) = c.kin[n]
         /\ c.kin[n] = 0 => GroupOf(c, n) \notin Keys
         /\ GroupOf(c, n) = 0 => /\ c.kin[n] = 0
                                 /\ \A e \in c.ties, m \in c.grains :
                                      {m, n} \subseteq EndsOf(sky, e) /\ c.kin[m] = 0 => m = n
<1>1. c.grains \subseteq Grains /\ n \in Grains
  BY DEF Sitlike
<1>2. CASE c.kin[n] # 0
  BY <1>2 DEF GroupOf
<1>3. CASE c.kin[n] = 0
  <2>1. Linked(c, n) \subseteq FreeOf(c) /\ FreeOf(c) \subseteq c.grains /\ n \in Linked(c, n)
    BY <1>3 DEF Linked, FreeOf
  <2>2. Min(Linked(c, n)) \in Linked(c, n) /\ Linked(c, n) \subseteq Nat \ {0}
    BY <1>1, <2>1, LeastOf, SeatingAssumption
  <2>3. Max(Keys) \in Keys /\ \A k \in Keys : Max(Keys) >= k
    BY GreatestOf, SeatingAssumption
  <2>4. CASE Linked(c, n) # {n}
    <3>1. GroupOf(c, n) = Max(Keys) + Min(Linked(c, n))
      BY <1>3, <2>4 DEF GroupOf
    <3>2. Max(Keys) \in Nat /\ Min(Linked(c, n)) \in Nat \ {0} /\ Keys \subseteq Nat
      BY <2>2, <2>3, SeatingAssumption
    <3> HIDE DEF Max, Min
    <3>3. GroupOf(c, n) \in Nat /\ GroupOf(c, n) > Max(Keys)
      BY <3>1, <3>2
    <3> QED
      BY <1>3, <2>3, <3>2, <3>3
  <2>5. CASE Linked(c, n) = {n}
    <3>1. GroupOf(c, n) = 0
      BY <1>3, <2>5 DEF GroupOf
    <3>2. ASSUME NEW e \in c.ties, NEW m \in c.grains, {m, n} \subseteq EndsOf(sky, e), c.kin[m] = 0, m # n PROVE FALSE
      <4>1. m \in FreeOf(c) /\ m \in Ends(e) /\ e \in {x \in c.ties : n \in Ends(x)}
        BY <3>2, EndsAre DEF FreeOf
      <4>2. m \in Beside(c, n)
        BY <3>2, <4>1 DEF Beside
      <4>3. m \in Linked(c, n)
        BY <4>1, <4>2 DEF Linked, Enclosed
      <4> QED
        BY <2>5, <3>2, <4>3
    <3> QED
      BY <1>3, <3>1, <3>2, SeatingAssumption
  <2> QED
    BY <2>4, <2>5
<1> QED
  BY <1>2, <1>3

LEMMA NodesKeep == ASSUME SeatsInv, NEW p \in Seaters, ReadNodes(p) PROVE SeatsInv'
<1> DEFINE o == crew[p]
           still == {e \in ties : Ends(e) \subseteq Awake}
           loose == {n \in Awake : kin[n] = 0}
           seated == {n \in Awake : seat[n] # NoSeat}
           c == [o EXCEPT !.pc = "edges", !.grains = Awake, !.kin = kin, !.moved = {},
                          !.still = still, !.loose = loose, !.seated = seated]
<1>1. Step0(p, c) /\ UNCHANGED <<sky, heavens, seat, mixed>>
  BY DEF ReadNodes
<1>2. Awake \subseteq Grains /\ loose \subseteq Grains /\ seated \subseteq Grains
  BY DEF Awake
<1>3. /\ \A e \in still : e \in ties /\ EndsOf(sky, e) \subseteq Awake
      /\ \A n \in loose : n \in Awake /\ kin[n] = 0
      /\ \A n \in seated : n \in Awake /\ seat[n] # NoSeat
  BY EndsAre
<1>4. Sitlike(o)
  BY DEF SeatsInv, Sits, SitInv
<1>5. kin \in [Grains -> Keys \cup {0}]
  BY DEF SeatsInv, SeatTypes
<1> HIDE DEF o, still, loose, seated
<1>6. /\ Sitlike(c) /\ c.pc = "edges" /\ c.grains = Awake /\ c.kin = kin /\ c.moved = {}
      /\ c.still = still /\ c.loose = loose /\ c.seated = seated
  BY <1>2, <1>4, <1>5 DEF Sitlike, SeatPoints
<1> HIDE DEF c
<1>7. Known(c, status, kin)
  BY <1>6 DEF Known, Awake
<1>8. Ahead(c, status, kin, seat, mixed)
  BY <1>6, SeatingAssumption DEF Ahead, OneSpot, OfKin, SeatsInv, KinSitTogether
<1>9. Held(c, sky, status, ties, seat)
  BY <1>3, <1>6 DEF Held, Awake, Computing
<1>10. SitInv(c, sky, status, kin, ties, seat, mixed)
  BY <1>6, <1>7, <1>8, <1>9 DEF SitInv, Looked, Wiped, Grouped, Computing
<1> QED
  BY <1>1, <1>10, OwnTurn

LEMMA EdgesKeep == ASSUME SeatsInv, NEW p \in Seaters, ReadEdges(p) PROVE SeatsInv'
<1> DEFINE o == crew[p]
           T == {e \in ties : Ends(e) \subseteq Awake \cap o.grains}
           c == [o EXCEPT !.pc = "rows", !.ties = T]
<1>1. Step0(p, c) /\ UNCHANGED <<sky, heavens, seat, mixed>> /\ o.pc = "edges"
  BY DEF ReadEdges, Seating
<1>2. SitInv(o, sky, status, kin, ties, seat, mixed)
  BY DEF SeatsInv, Sits
<1>3. T = {e \in ties : EndsOf(sky, e) \subseteq Awake \cap o.grains}
  BY EndsAre
<1> HIDE DEF o, T
<1>4. /\ Sitlike(c) /\ c.pc = "rows" /\ c.ties = T /\ c.grains = o.grains /\ c.kin = o.kin /\ c.moved = o.moved
      /\ c.still = o.still /\ c.loose = o.loose /\ c.seated = o.seated
  BY <1>2 DEF SitInv, Sitlike, SeatPoints
<1> HIDE DEF c
<1>5. Known(c, status, kin) /\ Ahead(c, status, kin, seat, mixed)
  BY <1>1, <1>2, <1>4 DEF SitInv, Known, Ahead, OneSpot, OfKin, Reading
<1>6. Held(c, sky, status, ties, seat)
  <2>1. Held(o, sky, status, ties, seat) /\ o.pc \in Reading /\ o.grains \subseteq Grains
    BY <1>1, <1>2 DEF SitInv, Reading, Sitlike
  <2>2. c.still \subseteq T
    BY <1>3, <1>4, <2>1 DEF Held, Awake
  <2> QED
    BY <1>1, <1>3, <1>4, <2>1, <2>2 DEF Held, Computing
<1>7. SitInv(c, sky, status, kin, ties, seat, mixed)
  BY <1>4, <1>5, <1>6 DEF SitInv, Looked, Wiped, Grouped, Computing
<1> QED
  BY <1>1, <1>7, OwnTurn

LEMMA RowsKeep == ASSUME SeatsInv, NEW p \in Seaters, ReadRows(p) PROVE SeatsInv'
<1> DEFINE o == crew[p]
           R == [n \in Grains |-> IF n \in o.grains THEN seat[n] ELSE NoSeat]
           G == [n \in Grains |-> IF n \in o.grains THEN GroupOf(o, n) ELSE 0]
           b == [o EXCEPT !.seats = R, !.group = G]
           c == [b EXCEPT !.pc = "delete", !.late = FALSE]
<1>1. UNCHANGED <<sky, heavens, seat, mixed>> /\ o.pc = "rows" /\ (Step0(p, Resting0) \/ Step0(p, c))
  BY DEF ReadRows, Seating
<1>2. SitInv(o, sky, status, kin, ties, seat, mixed)
  BY DEF SeatsInv, Sits
<1>3. Sitlike(o)
  BY <1>2 DEF SitInv
<1>4. o.grains \subseteq Grains
  BY <1>3 DEF Sitlike
<1>5. \A n \in o.grains : R[n] = seat[n] /\ G[n] = GroupOf(o, n)
  BY <1>4
<1> HIDE DEF o, R, G
<1>6. /\ Sitlike(c) /\ c.pc = "delete" /\ c.ties = o.ties /\ c.grains = o.grains /\ c.kin = o.kin /\ c.moved = o.moved
      /\ c.still = o.still /\ c.loose = o.loose /\ c.seated = o.seated /\ c.seats = R /\ c.group = G /\ c.late = FALSE
  BY <1>3 DEF Sitlike, SeatPoints
<1> HIDE DEF c
<1>7. Known(c, status, kin)
  BY <1>1, <1>2, <1>6 DEF SitInv, Known, Reading
<1>8. Looked(c, status, kin, seat, mixed)
  BY <1>1, <1>2, <1>5, <1>6 DEF SitInv, Ahead, Looked, OneSpot, OfKin
<1>9. Grouped(c, sky)
  BY <1>3, <1>5, <1>6, GroupIs DEF Grouped
<1>10. Held(c, sky, status, ties, seat)
  BY <1>1, <1>2, <1>5, <1>6 DEF SitInv, Held, Reading, Computing
<1>11. SitInv(c, sky, status, kin, ties, seat, mixed)
  BY <1>6, <1>7, <1>8, <1>9, <1>10 DEF SitInv, Ahead, Wiped
<1> QED
  BY <1>1, <1>11, Resting0Is, RestingSits, OwnTurn

LEMMA BeginsKeep == ASSUME SeatsInv, NEW p \in Seaters, BeginSeating(p) PROVE SeatsInv'
<1> DEFINE o == crew[p]
           D == IF o.force THEN Doomed ELSE {}
           R == IF o.force THEN seat ELSE o.seats
           L == IF o.force THEN FALSE ELSE o.late
           c == [o EXCEPT !.pc = "insert", !.doomed = D, !.seats = R, !.late = L]
<1>1. Step0(p, c) /\ UNCHANGED <<sky, heavens, seat, mixed>> /\ o.pc = "delete"
  BY DEF BeginSeating, Seating
<1>2. SitInv(o, sky, status, kin, ties, seat, mixed)
  BY DEF SeatsInv, Sits
<1>3. Sitlike(o) /\ o.force \in BOOLEAN
  BY <1>2 DEF SitInv, Sitlike
<1>4. D \in SUBSET Grains /\ L \in BOOLEAN
  BY <1>3 DEF Doomed, Sitlike
<1>5. /\ o.force => D = Doomed /\ R = seat /\ L = FALSE
      /\ ~o.force => D = {} /\ R = o.seats /\ L = o.late
  OBVIOUS
<1> HIDE DEF o, D, R, L
<1>6. /\ Sitlike(c) /\ c.pc = "insert" /\ c.ties = o.ties /\ c.grains = o.grains /\ c.kin = o.kin /\ c.moved = o.moved
      /\ c.still = o.still /\ c.loose = o.loose /\ c.seated = o.seated /\ c.seats = R /\ c.group = o.group /\ c.late = L
      /\ c.doomed = D /\ c.force = o.force
  BY <1>3, <1>4 DEF Sitlike, SeatPoints
<1> HIDE DEF c
<1>7. Known(c, status, kin) /\ Grouped(c, sky)
  BY <1>1, <1>2, <1>6 DEF SitInv, Known, Grouped, Reading, Computing
<1>8. Looked(c, status, kin, seat, mixed)
  BY <1>1, <1>2, <1>5, <1>6 DEF SitInv, Looked, OneSpot, OfKin, Computing
<1>9. Held(c, sky, status, ties, seat)
  BY <1>1, <1>2, <1>5, <1>6 DEF SitInv, Held, Reading, Computing
<1>10. Wiped(c, seat)
  BY <1>5, <1>6 DEF Wiped, Doomed
<1>11. SitInv(c, sky, status, kin, ties, seat, mixed)
  BY <1>6, <1>7, <1>8, <1>9, <1>10 DEF SitInv, Ahead
<1> QED
  BY <1>1, <1>11, OwnTurn

LEMMA RestsKeep ==
  ASSUME SeatsInv, NEW p \in Seaters,
         Scale(p) \/ Refuse(p) \/ SeatingLost(p) \/ \E force \in BOOLEAN : StartSeating(p, force)
  PROVE  SeatsInv'
<1>1. Sitlike(crew[p])
  BY DEF SeatsInv, Sits, SitInv
<1>2. PICK c : Step0(p, c) /\ Sitlike(c) /\ c.pc \in {"idle", "scale", "nodes"} /\ UNCHANGED <<sky, heavens, seat, mixed>>
  <2>1. ASSUME NEW o, Sitlike(o) PROVE LET d == [o EXCEPT !.pc = "nodes"] IN Sitlike(d) /\ d.pc = "nodes"
    BY <2>1 DEF Sitlike, SeatPoints
  <2>2. ASSUME NEW f \in BOOLEAN, NEW i PROVE LET d == [Resting0 EXCEPT !.pc = "scale", !.force = f, !.id = i] IN Sitlike(d) /\ d.pc = "scale"
    BY Resting0Is DEF Sitlike, SeatPoints
  <2>3. crew[p].force \in BOOLEAN
    BY <1>1 DEF Sitlike
  <2>4. CASE Scale(p)
    BY <1>1, <2>1, <2>4, Resting0Is DEF Scale
  <2>5. CASE Refuse(p)
    BY <2>5, Resting0Is DEF Refuse
  <2>6. CASE SeatingLost(p)
    BY <2>2, <2>3, <2>6, Resting0Is DEF SeatingLost
  <2>7. ASSUME NEW force \in BOOLEAN, StartSeating(p, force)
        PROVE  \E c : Step0(p, c) /\ Sitlike(c) /\ c.pc \in {"idle", "scale", "nodes"} /\ UNCHANGED <<sky, heavens, seat, mixed>>
    BY <2>2, <2>7 DEF StartSeating
  <2> QED
    BY <2>4, <2>5, <2>6, <2>7
<1> QED
  BY <1>2, RestingSits, OwnTurn


-----------------------------------------------------------------------------
\* layout_galaxy: what a run computes

LEMMA PlanIs ==
  ASSUME NEW c, NEW S, NEW plan \in Plans(c, S), NEW n \in S
  PROVE  plan[n] \in Computed(c, n)
<1> DEFINE torn == S \ Plain(c, S)
<1>1. PICK f \in {g \in [torn -> UNION {Computed(c, m) : m \in torn}] : \A m \in torn : g[m] \in Computed(c, m)} :
         plan = [m \in S |-> IF m \in torn THEN f[m] ELSE CHOOSE s \in Computed(c, m) : TRUE]
  BY DEF Plans
<1>2. n \in torn => plan[n] \in Computed(c, n)
  BY <1>1
<1>3. ASSUME n \notin torn PROVE plan[n] \in Computed(c, n)
  <2>1. PICK s \in Computed(c, n) : TRUE
    BY <1>3 DEF Plain
  <2> QED
    BY <1>1, <1>3, <2>1
<1> QED
  BY <1>2, <1>3

LEMMA RowsAre ==
  ASSUME NEW c, NEW n, NEW s \in Computed(c, n)
  PROVE  Rowlike(s) /\ s # NoSeat /\ ~s.manual
<1>1. PICK way \in {"group", "satellite", "halo"} : \E at : s = Seat(way, at, c.id)
  BY DEF Computed, FullSeat, IncrementSeats, Halo
<1>2. PICK at : s = Seat(way, at, c.id)
  BY <1>1
<1>3. s.way = way /\ s.at = at /\ s.birth = c.id /\ s.manual = FALSE
  BY <1>2 DEF Seat
<1>4. Rowlike(s)
  BY <1>2, <1>3 DEF Rowlike, Seat, Ways
<1> QED
  BY <1>3, <1>4, NoSeatIs

\* The members of a cluster get one place
SpotOf(c, k) == IF c.force THEN Centre(c, k) ELSE IF SeatedMembers(c, k) # {} THEN Centroid(c, k) ELSE NewPlace(c, k)
LEMMA SpotsAre ==
  ASSUME NEW c, NEW n, c.group[n] # 0, NEW s \in Computed(c, n)
  PROVE  s.at = SpotOf(c, c.group[n]) /\ s.way = "group"
BY DEF Computed, FullSeat, IncrementSeats, SpotOf, Seat

LEMMA HaloIs ==
  ASSUME NEW c, NEW n, NEW s \in Computed(c, n), s.way = "halo"
  PROVE  c.group[n] = 0 /\ (c.force => AnchorsOf(c, n) = {}) /\ (~c.force => TiesToSeated(c, n) = {})
BY DEF Computed, FullSeat, IncrementSeats, Seat

LEMMA MembersAre ==
  ASSUME NEW c, NEW w, Grouped(c, w), c.pc \in Computing, NEW k \in Keys
  PROVE  GroupMembers(c, k) = OfKin(c, k)
BY SeatingAssumption DEF Grouped, GroupMembers, OfKin

LEMMA SeatAllIs ==
  ASSUME SeatsInv, NEW p \in Seaters, SeatAll(p), NEW c, c = crew[p]
  PROVE  /\ UNCHANGED <<sky, heavens>> /\ mixed' = Disturbed(c) /\ c.pc = "insert"
         /\ SitInv(c, sky, status, kin, ties, seat, mixed)
         /\ c.grains \subseteq Grains /\ Unseated(c) \subseteq c.grains /\ (~c.force => Deleted(c) = {})
         /\ seat' = [n \in Grains |-> seat'[n]] /\ \A n \in Grains : Rowlike(seat'[n])
         /\ \A n \in Unseated(c) : seat'[n] \in Computed(c, n)
         /\ \A n \in Grains \ Unseated(c) : seat'[n] = IF n \in Deleted(c) THEN NoSeat ELSE seat[n]
         /\ Crew([q \in Seaters |-> IF q = p THEN Resting0 ELSE [crew[q] EXCEPT !.late = TRUE]])
<1>1. UNCHANGED <<sky, heavens>> /\ mixed' = Disturbed(c) /\ c.pc = "insert"
      /\ Crew([q \in Seaters |-> IF q = p THEN Resting0 ELSE [crew[q] EXCEPT !.late = TRUE]])
  BY DEF SeatAll, Seating
<1>2. SitInv(c, sky, status, kin, ties, seat, mixed)
  BY DEF SeatsInv, Sits
<1>3. c.grains \subseteq Grains
  BY <1>2 DEF SitInv, Sitlike
<1>4. Unseated(c) \subseteq c.grains
  BY DEF Unseated, Todo
<1>5. ~c.force => Deleted(c) = {}
  BY <1>1, <1>2 DEF SitInv, Wiped, Deleted
<1>6. PICK plan \in Plans(c, Unseated(c)) :
         seat' = [n \in Grains |-> IF n \in Unseated(c) THEN plan[n] ELSE IF n \in Deleted(c) THEN NoSeat ELSE seat[n]]
  BY DEF SeatAll
<1>7. \A n \in Unseated(c) : plan[n] \in Computed(c, n)
  BY PlanIs
<1>8. \A n \in Unseated(c) : seat'[n] \in Computed(c, n)
  BY <1>3, <1>4, <1>6, <1>7
<1>9. \A n \in Grains \ Unseated(c) : seat'[n] = IF n \in Deleted(c) THEN NoSeat ELSE seat[n]
  BY <1>6
<1>10. seat' = [n \in Grains |-> seat'[n]]
  BY <1>6
<1>11. \A n \in Grains : Rowlike(seat'[n])
  BY <1>8, <1>9, NoSeatIs, RowsAre DEF SeatsInv, SeatTypes
<1> QED
  BY <1>1, <1>2, <1>3, <1>4, <1>5, <1>8, <1>9, <1>10, <1>11

\* A run that nobody has overtaken leaves no live granule it has read without a row
LEMMA Filled ==
  ASSUME SeatsInv, NEW p \in Seaters, SeatAll(p), ~crew[p].late, NEW n \in crew[p].grains, status[n] = "live"
  PROVE  seat'[n] # NoSeat
<1> DEFINE c == crew[p]
<1>1. /\ c.pc = "insert" /\ SitInv(c, sky, status, kin, ties, seat, mixed) /\ c.grains \subseteq Grains
      /\ (~c.force => Deleted(c) = {})
      /\ \A m \in Unseated(c) : seat'[m] \in Computed(c, m)
      /\ \A m \in Grains \ Unseated(c) : seat'[m] = IF m \in Deleted(c) THEN NoSeat ELSE seat[m]
  BY SeatAllIs
<1>2. \A m \in Unseated(c) : seat'[m] # NoSeat
  BY <1>1, RowsAre
<1>3. CASE n \in Todo(c)
  <2>1. n \in Unseated(c) \/ (seat[n] # NoSeat /\ n \notin Deleted(c))
    BY <1>3 DEF Unseated
  <2> QED
    BY <1>1, <1>2, <2>1
<1>4. CASE n \notin Todo(c)
  <2>1. ~c.force /\ c.seats[n] # NoSeat /\ n \notin Unseated(c)
    BY <1>4 DEF Todo, HasSeat, Unseated
  <2>2. seat[n] # NoSeat
    BY <1>1, <2>1 DEF SitInv, Looked, Computing
  <2> QED
    BY <1>1, <2>1, <2>2
<1> QED
  BY <1>3, <1>4

\* The members of a cluster sit together after a run
LEMMA SeatedTogether == ASSUME SeatsInv, NEW p \in Seaters, SeatAll(p) PROVE KinSitTogether'
<1> DEFINE c == crew[p]
<1>1. /\ UNCHANGED <<sky, heavens>> /\ mixed' = Disturbed(c) /\ c.pc = "insert"
      /\ SitInv(c, sky, status, kin, ties, seat, mixed)
      /\ c.grains \subseteq Grains /\ Unseated(c) \subseteq c.grains /\ (~c.force => Deleted(c) = {})
      /\ \A n \in Unseated(c) : seat'[n] \in Computed(c, n)
      /\ \A n \in Grains \ Unseated(c) : seat'[n] = IF n \in Deleted(c) THEN NoSeat ELSE seat[n]
  BY SeatAllIs
<1>2. c.pc \in Reading /\ c.pc \in Computing
  BY <1>1 DEF Reading, Computing
<1> HIDE DEF c
<1>3. ASSUME NEW n \in Unseated(c), c.kin[n] \in Keys PROVE seat'[n].at = SpotOf(c, c.kin[n])
  <2>1. c.group[n] = c.kin[n] /\ c.kin[n] # 0
    BY <1>1, <1>2, <1>3, SeatingAssumption DEF SitInv, Grouped
  <2> QED
    BY <1>1, <2>1, SpotsAre
<1> SUFFICES ASSUME NEW a \in Grains, NEW b \in Grains, NEW k \in Keys, k \notin mixed', ~c.late,
                    \A n \in {a, b} : status[n] = "live" /\ kin[n] = k /\ seat'[n] # NoSeat
             PROVE  seat'[a].at = seat'[b].at
  <2> SUFFICES ASSUME NEW a \in Awake', NEW b \in Awake', kin'[a] = kin'[b], kin'[a] \notin mixed' \cup {0},
                      NoSeat \notin {seat'[a], seat'[b]}
               PROVE  seat'[a].at = seat'[b].at
    BY DEF KinSitTogether
  <2>1. kin[a] \in Keys /\ kin[b] = kin[a] /\ a \in Grains /\ b \in Grains /\ status[a] = "live" /\ status[b] = "live"
    BY <1>1 DEF SeatsInv, SeatTypes, Awake
  <2>2. c.late => mixed' = Keys
    BY <1>1 DEF Disturbed
  <2>3. kin[a] \notin mixed'
    BY <1>1
  <2> QED
    BY <2>1, <2>2, <2>3
<1>4. ASSUME k \notin c.moved PROVE a \in OfKin(c, k) /\ b \in OfKin(c, k)
  BY <1>1, <1>2, <1>4, SeatingAssumption DEF SitInv, Known, OfKin
<1>5. CASE c.force
  <2>1. k \notin c.moved /\ \A n \in Grains : seat[n].manual => kin[n] # k
    BY <1>1, <1>5, SeatingAssumption DEF Disturbed
  <2>2. ASSUME NEW n \in {a, b} PROVE n \in Unseated(c)
    <3>1. n \in c.grains /\ n \in Todo(c)
      BY <1>4, <1>5, <2>1 DEF OfKin, Todo
    <3>2. ASSUME seat[n] # NoSeat PROVE n \in Deleted(c)
      <4>1. ~seat[n].manual
        BY <2>1
      <4> QED
        BY <1>1, <1>5, <3>2, <4>1 DEF SitInv, Wiped, Deleted
    <3> QED
      BY <3>1, <3>2 DEF Unseated
  <2> QED
    BY <1>3, <1>4, <2>1, <2>2 DEF OfKin
<1>6. CASE ~c.force
  <2>1. k \notin mixed /\ Deleted(c) = {} /\ \A n \in Unseated(c) : kin[n] = k => k \notin c.moved
    BY <1>1, <1>6 DEF Disturbed
  <2>2. \A n \in Unseated(c) : seat[n] = NoSeat
    BY <2>1 DEF Unseated
  <2>3. \A n \in Grains \ Unseated(c) : seat'[n] = seat[n]
    BY <1>1, <2>1
  <2>4. ASSUME NEW m \in {a, b}, NEW n \in {a, b}, m \in Unseated(c), n \notin Unseated(c)
        PROVE  seat'[n].at = SpotOf(c, k)
    <3>1. k \notin c.moved /\ Wanting(status, kin, seat, k) /\ n \in OfKin(c, k)
      BY <1>4, <2>1, <2>2, <2>4 DEF Wanting
    <3>2. OneSpot(c, k, c.seats) /\ \A x \in OfKin(c, k) : seat[x] # NoSeat => c.seats[x] = seat[x]
      BY <1>1, <1>2, <1>6, <2>1, <3>1 DEF SitInv, Looked
    <3>3. seat'[n] = seat[n] /\ c.seats[n] = seat[n] /\ seat[n] # NoSeat
      BY <2>3, <2>4, <3>1, <3>2
    <3>4. GroupMembers(c, k) = OfKin(c, k)
      BY <1>1, <1>2, MembersAre DEF SitInv
    <3>5. n \in SeatedMembers(c, k) /\ \A x \in SeatedMembers(c, k) : c.seats[x].at = seat[n].at
      BY <3>1, <3>2, <3>3, <3>4 DEF SeatedMembers, HasSeat, OneSpot
    <3>6. Centroid(c, k) = seat[n].at
      BY <3>5 DEF Centroid
    <3> QED
      BY <1>6, <3>3, <3>5, <3>6 DEF SpotOf
  <2>5. ASSUME NEW m \in {a, b}, m \in Unseated(c) PROVE seat'[m].at = SpotOf(c, k)
    <3>1. c.kin[m] = k
      BY <1>4, <2>1, <2>5 DEF OfKin
    <3> QED
      BY <1>3, <2>5, <3>1
  <2>6. CASE a \notin Unseated(c) /\ b \notin Unseated(c)
    <3>1. seat'[a] = seat[a] /\ seat'[b] = seat[b]
      BY <2>3, <2>6
    <3> QED
      BY <2>1, <3>1, SeatingAssumption DEF SeatsInv, KinSitTogether, Awake
  <2> QED
    BY <2>4, <2>5, <2>6
<1>7. c.force \in BOOLEAN
  BY <1>1 DEF SitInv, Sitlike
<1> QED
  BY <1>5, <1>6, <1>7


\* Runs that have yet to read the rows
LEMMA AheadAfter ==
  ASSUME SeatsInv, NEW p \in Seaters, SeatAll(p), NEW o, NEW e, Followed(o, e),
         SitInv(o, sky, status, kin, ties, seat, mixed)
  PROVE  Ahead(e, status', kin', seat', mixed')
<1> DEFINE c == crew[p]
<1>1. /\ UNCHANGED <<sky, heavens>> /\ mixed' = Disturbed(c) /\ c.pc = "insert"
      /\ SitInv(c, sky, status, kin, ties, seat, mixed)
      /\ c.grains \subseteq Grains /\ Unseated(c) \subseteq c.grains /\ (~c.force => Deleted(c) = {})
      /\ \A n \in Grains \ Unseated(c) : seat'[n] = IF n \in Deleted(c) THEN NoSeat ELSE seat[n]
  BY SeatAllIs
<1>2. ~c.late => \A n \in c.grains : status[n] = "live" => seat'[n] # NoSeat
  BY Filled
<1>3. c.pc \in Reading /\ c.force \in BOOLEAN
  BY <1>1 DEF Reading, SitInv, Sitlike
<1> HIDE DEF c
<1> SUFFICES ASSUME e.pc \in {"edges", "rows"}, NEW k \in Keys \ (mixed' \cup e.moved), Wanting(status', kin', seat', k)
             PROVE  OneSpot(e, k, seat')
  BY DEF Ahead
<1>4. PICK a \in Grains : status[a] = "live" /\ kin[a] = k /\ seat'[a] = NoSeat
  BY <1>1 DEF Wanting
<1>5. ~c.late
  BY <1>1 DEF Disturbed
<1>6. a \notin c.grains
  BY <1>2, <1>4, <1>5
<1>7. k \in c.moved
  BY <1>1, <1>3, <1>4, <1>6, SeatingAssumption DEF SitInv, Known
<1>8. ~c.force /\ k \notin mixed /\ \A n \in Unseated(c) : kin[n] # k
  BY <1>1, <1>5, <1>7 DEF Disturbed
<1>9. \A n \in Grains \ Unseated(c) : seat'[n] = seat[n]
  BY <1>1, <1>8
<1>10. Wanting(status, kin, seat, k)
  BY <1>1, <1>4, <1>6, <1>9 DEF Wanting
<1>11. o.pc \in {"edges", "rows"} /\ o.pc \in Reading /\ e.grains = o.grains /\ e.kin = o.kin /\ k \notin o.moved
       /\ o.grains \subseteq Grains
  BY DEF Followed, Reading, SitInv, Sitlike
<1>12. OneSpot(o, k, seat)
  BY <1>8, <1>10, <1>11 DEF SitInv, Ahead
<1>13. ASSUME NEW n \in OfKin(o, k) PROVE seat'[n] = seat[n]
  <2>1. n \in Grains /\ kin[n] = k
    BY <1>11, <1>13, SeatingAssumption DEF SitInv, Known, OfKin
  <2> QED
    BY <1>8, <1>9, <2>1
<1>14. OfKin(e, k) = OfKin(o, k)
  BY <1>11 DEF OfKin
<1> QED
  BY <1>12, <1>13, <1>14 DEF OneSpot

LEMMA SeatAllKeeps ==
  ASSUME SeatsInv, NEW p \in Seaters, SeatAll(p)
  PROVE  SeatsInv' /\ \A q \in Seaters \ {p} : crew'[q].pc = crew[q].pc
<1> DEFINE f == [q \in Seaters |-> IF q = p THEN Resting0 ELSE [crew[q] EXCEPT !.late = TRUE]]
           c == crew[p]
<1>1. /\ UNCHANGED <<sky, heavens>> /\ mixed' = Disturbed(c) /\ Crew(f)
      /\ SitInv(c, sky, status, kin, ties, seat, mixed) /\ c.pc = "insert"
      /\ seat' = [n \in Grains |-> seat'[n]] /\ \A n \in Grains : Rowlike(seat'[n])
  BY SeatAllIs
<1>2. KinSitTogether'
  BY SeatedTogether
<1>3. crew' = [q \in Seaters |-> crew'[q]] /\ \A q \in Seaters : crew'[q] = Watched(f[q])
  BY <1>1 DEF Crew
<1>4. mixed' \subseteq Keys
  BY <1>1 DEF Disturbed, SeatsInv, SeatTypes, SitInv, Sitlike
<1>5. ASSUME NEW q \in Seaters \ {p}
      PROVE  SitInv(crew'[q], sky, status', kin', ties', seat', mixed') /\ crew'[q].pc = crew[q].pc
  <2> DEFINE o == crew[q]
             d == f[q]
             e == crew'[q]
  <2>1. SitInv(o, sky, status, kin, ties, seat, mixed)
    BY DEF SeatsInv, Sits
  <2>2. Turned(o, d, {}, TRUE)
    BY CrewTurned DEF SeatsInv, Sits, SitInv
  <2>3. e = Watched(d)
    BY <1>3
  <2> HIDE DEF o, d, e
  <2>4. /\ Sitlike(e) /\ e.pc = d.pc /\ e.force = d.force /\ e.grains = d.grains /\ e.kin = d.kin /\ e.ties = d.ties
        /\ e.seats = d.seats /\ e.group = d.group /\ e.doomed = d.doomed /\ e.moved = d.moved /\ e.late = d.late
        /\ e.still = {x \in d.still : x \in ties' /\ \A n \in EndsOf(sky, x) : status'[n] = "live"}
        /\ e.loose = {n \in d.loose : status'[n] = "live" /\ kin'[n] = 0}
        /\ e.seated = {n \in d.seated : status'[n] = "live" /\ seat'[n] # NoSeat}
    BY <1>1, <2>2, <2>3, WatchedIs DEF Turned
  <2>5. Followed(o, e) /\ e.late
    BY <2>2, <2>4 DEF Followed, Turned
  <2>6. Held(e, sky, status', ties', seat') /\ Grouped(e, sky)
    BY <2>1, <2>5, HeldFollows DEF SitInv
  <2>7. Known(e, status', kin')
    BY <1>1, <2>1, <2>5 DEF SitInv, Known, Followed
  <2>8. Ahead(e, status', kin', seat', mixed')
    BY <2>1, <2>5, AheadAfter
  <2>9. Looked(e, status', kin', seat', mixed') /\ Wiped(e, seat')
    BY <2>1, <2>5 DEF SitInv, Looked, Wiped, Followed
  <2> QED
    BY <2>4, <2>5, <2>6, <2>7, <2>8, <2>9 DEF SitInv, Followed, e, o
<1>6. SitInv(crew'[p], sky, status', kin', ties', seat', mixed')
  <2>1. crew'[p] = Watched(Resting0)
    BY <1>3
  <2> QED
    BY <1>1, <2>1, Resting0Is, RestingSits, WatchedIs
<1>7. (\A q \in Seaters : Sits(q))'
  BY <1>1, <1>5, <1>6 DEF Sits
<1>8. SeatTypes'
  BY <1>1, <1>3, <1>4 DEF SeatsInv, SeatTypes
<1> QED
  BY <1>2, <1>5, <1>7, <1>8 DEF SeatsInv

SeatsSpec == SeatingInit /\ [][SeatingNext]_seatingVars

LEMMA SeatsKept == SeatsInv /\ [SeatingNext]_seatingVars => SeatsInv'
<1> SUFFICES ASSUME SeatsInv, [SeatingNext]_seatingVars PROVE SeatsInv'
  OBVIOUS
<1>1. CASE UNCHANGED seatingVars
  BY <1>1 DEF seatingVars, SeatsInv, SeatTypes, Sits, KinSitTogether, Awake
<1>2. CASE HeavenMoves
  BY <1>2, HeavensKeep
<1>3. ASSUME NEW p \in Seaters, Seats(p) \/ SeatingLost(p) \/ \E force \in BOOLEAN : StartSeating(p, force) PROVE SeatsInv'
  BY <1>3, NodesKeep, EdgesKeep, RowsKeep, BeginsKeep, RestsKeep, SeatAllKeeps DEF Seats
<1> QED
  BY <1>1, <1>2, <1>3 DEF SeatingNext

LEMMA SeatsHold == SeatsSpec => []SeatsInv
BY SeatsInit, SeatsKept, PTL DEF SeatsSpec

\* The members of a cluster sit at one place, however runs of layout_galaxy
\* overlap with each other and with changes of the graph, except where one of
\* the causes in KinSitTogether has parted them.
THEOREM KinStayTogether == SeatsSpec => []KinSitTogether
<1>1. SeatsInv => KinSitTogether
  BY DEF SeatsInv
<1> QED
  BY <1>1, SeatsHold, PTL

\* Only a run that writes ends with other rows
LEMMA WhoSeats ==
  ASSUME SeatsInv, SeatingNext, NEW p \in Seaters, crew[p].pc = "insert", seat' # seat, crew'[p].pc = "idle"
  PROVE  SeatAll(p)
<1>1. CASE HeavenMoves
  BY <1>1, HeavensKeep
<1>2. ASSUME NEW q \in Seaters, SeatAll(q) PROVE SeatAll(p)
  BY <1>2, SeatAllKeeps
<1>3. ASSUME NEW q \in Seaters, Seats(q) \/ SeatingLost(q) \/ \E force \in BOOLEAN : StartSeating(q, force), ~SeatAll(q) PROVE FALSE
  BY <1>3 DEF Seats, Scale, ReadNodes, ReadEdges, ReadRows, BeginSeating, Refuse, SeatingLost, StartSeating
<1> QED
  BY <1>1, <1>2, <1>3 DEF SeatingNext

LEMMA HaloStep ==
  ASSUME SeatsInv, NEW p \in Seaters, SeatAll(p), NEW n \in Grains, seat'[n].way = "halo", seat'[n] # seat[n],
         NEW e \in crew[p].still, n \in Ends(e), Ends(e) # {n}
  PROVE  ~crew[p].force /\ Ends(e) \cap (crew[p].seated \cup crew[p].loose) \subseteq {n}
<1> DEFINE c == crew[p]
<1>1. /\ c.pc = "insert" /\ SitInv(c, sky, status, kin, ties, seat, mixed)
      /\ c.grains \subseteq Grains /\ Unseated(c) \subseteq c.grains
      /\ \A m \in Unseated(c) : seat'[m] \in Computed(c, m)
      /\ \A m \in Grains \ Unseated(c) : seat'[m] = IF m \in Deleted(c) THEN NoSeat ELSE seat[m]
  BY SeatAllIs
<1>2. n \in Unseated(c)
  BY <1>1, NoSeatIs
<1>3. n \in c.grains /\ c.group[n] = 0 /\ (c.force => AnchorsOf(c, n) = {}) /\ (~c.force => TiesToSeated(c, n) = {})
  BY <1>1, <1>2, HaloIs
<1>4. c.pc \in Reading /\ c.pc \in Computing /\ c.pc # "edges"
  BY <1>1 DEF Reading, Computing
<1>5. /\ e \in c.ties /\ Ends(e) \subseteq c.grains /\ c.loose \subseteq c.grains /\ \A m \in c.loose : c.kin[m] = 0
      /\ c.seated \subseteq c.grains /\ (~c.force => \A m \in c.seated : c.seats[m] # NoSeat)
  BY <1>1, <1>4, EndsAre DEF SitInv, Held
<1>6. c.force \in BOOLEAN
  BY <1>1 DEF SitInv, Sitlike
<1> HIDE DEF c
<1>7. ASSUME NEW m \in Ends(e), m # n, c.kin[m] = 0 PROVE FALSE
  <2>1. m \in c.grains /\ {m, n} \subseteq EndsOf(sky, e)
    BY <1>5, <1>7, EndsAre
  <2> QED
    BY <1>1, <1>3, <1>4, <1>5, <1>7, <2>1 DEF SitInv, Grouped
<1>8. ASSUME c.force PROVE FALSE
  <2>1. PICK m \in Ends(e) : m # n
    BY DEF Ends
  <2>2. c.kin[m] # 0 /\ m \in c.grains
    BY <1>5, <1>7, <2>1
  <2>3. c.group[m] # 0
    BY <1>1, <1>4, <2>2 DEF SitInv, Grouped
  <2>4. c.group[m] \in GroupsOf(c)
    BY <2>2, <2>3 DEF GroupsOf
  <2>5. e \in Towards(c, n, c.group[m])
    BY <1>5, <2>1 DEF Towards
  <2> QED
    BY <1>3, <1>8, <2>4, <2>5 DEF AnchorsOf
<1>9. ASSUME NEW m \in Ends(e), m # n PROVE m \notin c.seated \cup c.loose
  <2>1. m \notin c.loose
    BY <1>5, <1>7, <1>9
  <2>2. ASSUME m \in c.seated PROVE FALSE
    <3>1. HasSeat(c, m)
      BY <1>5, <1>8, <2>2 DEF HasSeat
    <3>2. e \in TiesToSeated(c, n)
      BY <1>5, <1>9, <3>1 DEF TiesToSeated
    <3> QED
      BY <1>3, <1>8, <3>2
  <2> QED
    BY <2>1, <2>2
<1> QED
  BY <1>6, <1>8, <1>9 DEF c

\* A granule goes into the halo (halo_point) only when no edge that stands during
\* the whole run holds it.
THEOREM HaloStaysLonely == SeatsSpec => HaloIsLonely
<1>1. SeatsInv /\ [SeatingNext]_seatingVars
      => [\A p \in Seaters : crew[p].pc = "insert" /\ seat' # seat /\ crew'[p].pc = "idle" =>
            \A n \in Grains : seat'[n].way = "halo" /\ seat'[n] # seat[n] =>
              \A e \in crew[p].still : n \in Ends(e) /\ Ends(e) # {n} =>
                ~crew[p].force /\ Ends(e) \cap (crew[p].seated \cup crew[p].loose) \subseteq {n}]_seatingVars
  BY WhoSeats, HaloStep
<1> QED
  BY <1>1, SeatsHold, PTL DEF SeatsSpec, HaloIsLonely

-----------------------------------------------------------------------------
(* The composition.                                                        *)

\* What holds of the map, the clusters and the places alone holds of them in the
\* atlas, where one of them moves at a time.
THEOREM AtlasCovers == AtlasSpec => Spec /\ ClustersSpec /\ SeatsSpec
<1>1. AtlasInit => Init /\ ClustersInit /\ SeatingInit
  BY DEF AtlasInit
<1>2. [AtlasNext]_atlasVars => [Next]_vars /\ [ClustersNext]_clustersVars /\ [SeatingNext]_seatingVars
  BY DEF AtlasNext, atlasVars
<1> QED
  BY <1>1, <1>2, PTL DEF AtlasSpec, Spec, ClustersSpec, SeatsSpec

=============================================================================
