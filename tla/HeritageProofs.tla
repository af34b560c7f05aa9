---------------------------- MODULE HeritageProofs ----------------------------
(***************************************************************************)
(* What a version takes over, for any number of granules, edges, workers,  *)
(* tasks and versions.                                                     *)
(*                                                                         *)
(* The edges: a statement other than a version's changes each row in one   *)
(* of five ways (RowStep) and moves no granule, so the rest is about       *)
(* create_version, update() and the two ways to delete.  A row that is no  *)
(* stray and has an end that is being closed has not been touched since    *)
(* the version began (Calm), hence the version has chosen it (Chosen).     *)
(*                                                                         *)
(* What was told beside the content: a task that goes on with the columns  *)
(* of the last row holds them as they are, up to what was written since it *)
(* read (Fresh); and the task that commits a version is alone with the row *)
(* it closed (Alone), so what it writes differs from what the fact was     *)
(* told only in what is excused.                                           *)
(***************************************************************************)
EXTENDS Heritage, WellFoundedInduction, TLAPS

-----------------------------------------------------------------------------
(* The edges: types, foreign keys, and the open transactions.              *)

\* Foreign keys: no row names a granule that is not there
Keyed == \A e \in Present : edge[e].src \in Exists /\ edge[e].tgt \in Exists \cup {0}

\* An open create_version has its old version to itself, live until it commits,
\* and a new one of its own that nobody else can see
Separate ==
  \A w \in Workers :
    IF pc[w] = "idle" THEN job[w] = Blank
    ELSE /\ job[w].old \in Live /\ job[w].new \in Ids /\ state[job[w].new] = "unborn"
         /\ \A v \in Workers \ {w} : pc[v] # "idle" => job[v].old # job[w].old /\ job[v].new # job[w].new

\* What the transaction will not move has come since it looked
Chosen ==
  \A w \in Workers, e \in Present \ stray :
    Movable(e) =>
      /\ edge[e].src = job[w].old /\ edge[e].tgt \in Seen(job[w].old, job[w].new) =>
           /\ pc[w] = "source" => e \in job[w].cand /\ edge[e].tgt \in job[w].alive
           /\ pc[w] = "target" => e \in job[w].held
      /\ edge[e].tgt = job[w].old /\ edge[e].src \in Seen(job[w].old, job[w].new) /\ pc[w] = "target" =>
           e \in job[w].cand /\ edge[e].src \in job[w].alive

EdgeBase == TypeOK /\ Keyed /\ Separate

-----------------------------------------------------------------------------
\* The youngest bearer of a name exists: a set of ids has a greatest element
LEMMA Greatest ==
  ASSUME NEW N \in Nat, NEW S \in SUBSET (1..N), S # {}
  PROVE  \E m \in S : \A x \in S : x <= m
<1> DEFINE T == {N - x : x \in S}
<1> DEFINE Less == {p \in Nat \X Nat : p[1] < p[2]}
<1>1. T \subseteq Nat /\ T # {}
  <2>1. \A x \in S : N - x \in Nat
    OBVIOUS
  <2>2. PICK s \in S : TRUE
    OBVIOUS
  <2>3. N - s \in T
    BY Zenon
  <2> QED
    BY <2>1, <2>3
<1>2. IsWellFoundedOn(Less, Nat)
  BY NatLessThanWellFounded DEF OpToRel
<1>3. PICK m \in T : \A y \in T : ~(<<y, m>> \in Less)
  <2> HIDE DEF Less, T
  <2> QED
    BY <1>1, <1>2, WFMin
<1> HIDE DEF T
<1>4. \A y \in T : m <= y
  <2> SUFFICES ASSUME NEW y \in T, y < m PROVE FALSE
    BY <1>1, <1>3
  <2>1. y \in Nat /\ m \in Nat
    BY <1>1, <1>3
  <2>2. <<y, m>> \in Nat \X Nat /\ <<y, m>>[1] < <<y, m>>[2]
    BY <2>1
  <2> QED
    BY <2>2, <1>3
<1>5. PICK x \in S : m = N - x
  BY <1>3 DEF T
<1>6. \A y \in S : N - x <= N - y
  BY <1>4, <1>5 DEF T
<1> QED
  BY <1>6

LEMMA ResolvedBears ==
  ASSUME NEW n, Resolved(n) # 0
  PROVE  Resolved(n) \in Bearers(n)
<1>1. Bearers(n) \subseteq 1..MaxId /\ Bearers(n) # {}
  BY DEF Resolved, Bearers, Live, Ids
<1>2. \E g \in Bearers(n) : \A h \in Bearers(n) : h <= g
  BY <1>1, Greatest, EdgeAssumption
<1> QED
  BY <1>1, <1>2 DEF Resolved

-----------------------------------------------------------------------------
\* What a statement that moves no granule may do to a row of relations: nothing,
\* delete it, change how it looks, give its name a bearer, or make it
Stays(e) == edge'[e] = edge[e]
Deletes(e) == There(e) /\ edge'[e] = Deleted
Restyles(e) == /\ There(e) /\ edge'[e] \in Rows
               /\ edge'[e].src = edge[e].src /\ edge'[e].tgt = edge[e].tgt /\ edge'[e].type = edge[e].type
FindsBearer(e) == /\ There(e) /\ edge[e].tgt = 0 /\ edge'[e] \in Rows
             /\ edge'[e].src = edge[e].src /\ edge'[e].tgt \in Bearers(edge[e].name)
Makes(e) == /\ ~There(e) /\ edge'[e] \in Rows
            /\ edge'[e].src \in Exists /\ edge'[e].tgt \in Exists \cup {0}
RowStep(e) == Stays(e) \/ Deletes(e) \/ Restyles(e) \/ FindsBearer(e) \/ Makes(e)
TableStep == edge' \in [Edges -> Rows \cup Absent] /\ \A e \in Edges : RowStep(e)

LEMMA Inserts ==
  ASSUME TypeOK, NEW row \in Rows, row.src \in Exists, row.tgt \in Exists \cup {0}, Insert(row)
  PROVE  TableStep
<1>1. PICK e \in Edges : NextRow(e) /\ edge' = [edge EXCEPT ![e] = row]
  BY DEF Insert
<1>2. edge' \in [Edges -> Rows \cup Absent]
  BY <1>1 DEF TypeOK
<1>3. Makes(e)
  BY <1>1 DEF Makes, NextRow, There, TypeOK
<1>4. \A f \in Edges \ {e} : Stays(f)
  BY <1>1 DEF Stays, TypeOK
<1> QED
  BY <1>2, <1>3, <1>4 DEF TableStep, RowStep

LEMMA RowsAreRows ==
  ASSUME TypeOK, NEW e \in Present
  PROVE  edge[e] \in Rows
BY DEF TypeOK, Present, There, Rows, Absent

LEMMA Looks ==
  ASSUME NEW r \in Rows, NEW o \in Owners
  PROVE  /\ Overwritten(r, o) \in Rows /\ Reweighed(r) \in Rows
         /\ \A q \in {Overwritten(r, o), Reweighed(r)} : q.src = r.src /\ q.tgt = r.tgt /\ q.type = r.type
BY DEF Overwritten, Reweighed, Rows

LEMMA NewRows ==
  ASSUME NEW s \in Exists, NEW t \in Exists \cup {0}, NEW n \in Names \cup {None}, NEW k \in Types, NEW o \in Owners
  PROVE  NewRow(s, t, n, k, o) \in Rows /\ NewRow(s, t, n, k, o).src = s /\ NewRow(s, t, n, k, o).tgt = t
BY EdgeAssumption DEF NewRow, Rows, Exists, Ids

\* How the strays are kept: noted, or no row changed its place
Looked(e) == Restyles(e) /\ edge'[e].st = edge[e].st
Recorded == Noted \/ (stray' = stray /\ \A e \in Edges : Stays(e) \/ Looked(e))

Quiet == TableStep /\ Recorded /\ UNCHANGED <<state, heir, txn>> /\ selected' \subseteq Edges

LEMMA Erases ==
  ASSUME TypeOK, NEW D \in SUBSET Present, edge' = Without(D)
  PROVE  TableStep
<1>1. edge' \in [Edges -> Rows \cup Absent]
  BY DEF TypeOK, Without, Deleted, Absent
<1>2. \A e \in Edges : Stays(e) \/ Deletes(e)
  BY DEF Without, Present, Stays, Deletes
<1> QED
  BY <1>1, <1>2 DEF TableStep, RowStep

\* A row that meets another one: the row that is there changes its look
LEMMA Upserts ==
  ASSUME TypeOK, NEW row \in Rows, row.src \in Exists, row.tgt \in Exists \cup {0},
         Upsert(row, ByHand) \/ Upsert(row, Reweighed) \/ Upsert(row, Ignored)
  PROVE  TableStep
<1> DEFINE there == Same(row.src, row.tgt, row.type)
<1>1. CASE Insert(row)
  BY <1>1, Inserts
<1>2. CASE ~Insert(row)
  <2>1. there \in SUBSET Present /\ \A e \in there : edge[e] \in Rows /\ There(e)
    BY RowsAreRows DEF Same, Present
  <2>2. \A e \in there : edge'[e] \in {ByHand(edge[e]), Reweighed(edge[e]), Ignored(edge[e])}
    BY <1>2, <2>1 DEF Upsert, Present
  <2>3. DOMAIN edge' = Edges /\ edge' = [e \in Edges |-> edge'[e]] /\ \A e \in Edges \ there : edge'[e] = edge[e]
    BY <1>2 DEF Upsert
  <2> HIDE DEF there
  <2>4. \A e \in there : Restyles(e)
    BY <2>1, <2>2, Looks DEF Restyles, ByHand, Ignored, Owners
  <2>5. \A e \in Edges \ there : Stays(e)
    BY <2>3 DEF Stays
  <2>6. edge' \in [Edges -> Rows \cup Absent]
    BY <2>3, <2>4, <2>5 DEF TypeOK, Restyles, Stays
  <2> QED
    BY <2>4, <2>5, <2>6 DEF TableStep, RowStep
<1> QED
  BY <1>1, <1>2

\* The edges of people, of the linker and of the nights move no granule
LEMMA PersonQuiet == TypeOK /\ Person => Quiet
<1> SUFFICES ASSUME TypeOK, Person PROVE Quiet
  OBVIOUS
<1>1. UNCHANGED <<state, heir, txn, selected>> /\ Noted
  BY DEF Person, AddRelation, DeleteRelation, SyncDelete, Backfill, SyncBatch
<1>2. CASE AddRelation
  <2>1. PICK s \in Exists, k \in Types :
          \/ \E t \in Exists \ {s} : Upsert(NewRow(s, t, None, k, "hand"), ByHand)
          \/ \E n \in Names : Insert(NewRow(s, 0, n, k, "hand"))
    BY <1>2 DEF AddRelation
  <2>2. ASSUME NEW t \in Exists, Upsert(NewRow(s, t, None, k, "hand"), ByHand) PROVE TableStep
    BY <2>2, NewRows, Upserts DEF Owners
  <2>3. ASSUME NEW n \in Names, Insert(NewRow(s, 0, n, k, "hand")) PROVE TableStep
    BY <2>3, NewRows, Inserts DEF Owners
  <2> QED
    BY <1>1, <2>1, <2>2, <2>3 DEF Quiet, Recorded, TypeOK
<1>3. CASE DeleteRelation
  <2>1. PICK e \in Present : edge' = Without({e})
    BY <1>3 DEF DeleteRelation
  <2> QED
    BY <1>1, <2>1, Erases DEF Quiet, Recorded, TypeOK
<1>4. CASE SyncDelete
  <2>1. PICK g \in Exists : edge' = Without(Synced(g))
    BY <1>4 DEF SyncDelete
  <2>2. Synced(g) \in SUBSET Present
    BY DEF Synced
  <2> QED
    BY <1>1, <2>1, <2>2, Erases DEF Quiet, Recorded, TypeOK
<1>l. ASSUME NEW g \in Exists, NEW row \in Links(g)
      PROVE  row \in Rows /\ row.src \in Exists /\ row.tgt \in Exists \cup {0}
  <2>1. CASE \E t \in Exists \ {g}, k \in Types : row = SyncRow(g, t, None, k)
    BY <2>1, NewRows DEF SyncRow, Owners
  <2>2. CASE \E n \in Names, k \in Types : row = SyncRow(g, 0, n, k)
    <3>1. PICK n \in Names, k \in Types : row = NewRow(g, Resolved(n), n, k, "sync")
      BY <2>2, EdgeAssumption DEF SyncRow
    <3>2. Resolved(n) \in Exists \cup {0}
      BY ResolvedBears DEF Bearers, Live, Exists
    <3> QED
      BY <3>1, <3>2, NewRows DEF Owners
  <2> QED
    BY <2>1, <2>2 DEF Links
<1>5. CASE Backfill
  <2>1. PICK g \in Exists : \E row \in Links(g) : Upsert(row, Reweighed)
    BY <1>5 DEF Backfill
  <2>2. PICK row \in Links(g) : Upsert(row, Reweighed)
    BY <2>1
  <2> QED
    BY <1>1, <1>l, <2>2, Upserts DEF Quiet, Recorded, TypeOK
<1>6. CASE SyncBatch
  <2>0. PICK g \in Exists : \E row \in Links(g) :
          LET taken == Same(row.src, row.tgt, row.type)
              old == Synced(g) \ taken
          IN IF taken # {}
             THEN edge' = [e \in Edges |-> IF e \in old THEN Deleted
                                           ELSE IF e \in taken THEN BySync(edge[e]) ELSE edge[e]]
             ELSE \E e \in Edges : NextRow(e) /\ edge' = [Without(old) EXCEPT ![e] = row]
    BY <1>6 DEF SyncBatch
  <2>1. PICK row \in Links(g) :
          LET taken == Same(row.src, row.tgt, row.type)
              old == Synced(g) \ taken
          IN IF taken # {}
             THEN edge' = [e \in Edges |-> IF e \in old THEN Deleted
                                           ELSE IF e \in taken THEN BySync(edge[e]) ELSE edge[e]]
             ELSE \E e \in Edges : NextRow(e) /\ edge' = [Without(old) EXCEPT ![e] = row]
    BY <2>0
  <2> DEFINE taken == Same(row.src, row.tgt, row.type)
             old == Synced(g) \ taken
  <2>2. old \in SUBSET Present /\ taken \in SUBSET Present
    BY DEF Synced, Same
  <2>3. row \in Rows /\ row.src \in Exists /\ row.tgt \in Exists \cup {0}
    BY <1>l
  <2>4. CASE taken # {}
    <3>1. edge' = [e \in Edges |-> IF e \in old THEN Deleted
                                   ELSE IF e \in taken THEN BySync(edge[e]) ELSE edge[e]]
      BY <2>1, <2>4
    <3> HIDE DEF old, taken
    <3>2. \A e \in old : Deletes(e)
      BY <2>2, <3>1 DEF Deletes, Present
    <3>3. \A e \in taken \ old : Restyles(e)
      BY <2>2, <3>1, RowsAreRows, Looks DEF Restyles, BySync, Owners, Present
    <3>4. \A e \in Edges \ (taken \cup old) : Stays(e)
      BY <3>1 DEF Stays
    <3>5. edge' \in [Edges -> Rows \cup Absent]
      BY <3>1, <3>2, <3>3, <3>4 DEF TypeOK, Deletes, Restyles, Stays, Deleted, Absent
    <3> QED
      BY <1>1, <3>2, <3>3, <3>4, <3>5 DEF Quiet, Recorded, TypeOK, TableStep, RowStep
  <2>5. CASE taken = {}
    <3>1. PICK e \in Edges : NextRow(e) /\ edge' = [Without(old) EXCEPT ![e] = row]
      BY <2>1, <2>5
    <3> HIDE DEF old, taken
    <3>2. Makes(e) /\ e \notin old
      BY <2>2, <2>3, <3>1 DEF Makes, NextRow, There, Without, Present
    <3>3. \A f \in old : Deletes(f)
      BY <2>2, <3>1, <3>2 DEF Deletes, Present, Without
    <3>4. \A f \in Edges \ (old \cup {e}) : Stays(f)
      BY <3>1 DEF Stays, Without
    <3>5. edge' \in [Edges -> Rows \cup Absent]
      BY <2>3, <3>1 DEF TypeOK, Without, Deleted, Absent
    <3> QED
      BY <1>1, <3>2, <3>3, <3>4, <3>5 DEF Quiet, Recorded, TypeOK, TableStep, RowStep
  <2> QED
    BY <2>4, <2>5
<1> QED
  BY <1>2, <1>3, <1>4, <1>5, <1>6 DEF Person

\* Rows that only change their look: Firm, and one column of one row
LEMMA Firms ==
  ASSUME TypeOK, NEW S \in SUBSET Present, edge' = Firm(S)
  PROVE  TableStep /\ \A e \in Edges : Stays(e) \/ Looked(e)
<1>1. \A e \in S : edge[e] \in Rows /\ There(e) /\ e \in Edges
  BY RowsAreRows DEF Present
<1>2. \A e \in S : Looked(e)
  BY <1>1 DEF Firm, Looked, Restyles, Rows
<1>3. \A e \in Edges \ S : Stays(e)
  BY DEF Firm, Stays
<1>4. edge' \in [Edges -> Rows \cup Absent]
  BY <1>1, <1>2, <1>3 DEF TypeOK, Firm, Looked, Restyles, Stays
<1> QED
  BY <1>2, <1>3, <1>4 DEF TableStep, RowStep, Looked

LEMMA CampaignQuiet == TypeOK /\ Campaign => Quiet
<1> SUFFICES ASSUME TypeOK, Campaign PROVE Quiet
  OBVIOUS
<1>1. CASE Linker
  <2>1. UNCHANGED <<state, heir, txn, selected>> /\ Noted
    BY <1>1 DEF Linker
  <2>2. ASSUME NEW s \in Exists, NEW t \in Exists, NEW k \in Types, NEW o \in {"l1", "l2"}
        PROVE LinkRow(s, t, k, o) \in Rows /\ LinkRow(s, t, k, o).src \in Exists
              /\ LinkRow(s, t, k, o).tgt \in Exists \cup {0}
    BY NewRows DEF LinkRow, Owners
  <2>3. CASE LinkInsert
    <3>1. PICK s \in Exists, t \in Exists, k \in Types, o \in {"l1", "l2"} : Upsert(LinkRow(s, t, k, o), Ignored)
      BY <2>3 DEF LinkInsert
    <3> QED
      BY <2>1, <2>2, <3>1, Upserts DEF Quiet, Recorded, TypeOK
  <2>4. CASE LinkMeet
    <3>1. PICK s \in Exists, t \in Exists :
            \/ Insert(LinkRow(s, t, "related_to", "l1"))
            \/ edge' = Firm({e \in Between(s, t) : edge[e].type = "related_to"})
      BY <2>4 DEF LinkMeet
    <3>2. {e \in Between(s, t) : edge[e].type = "related_to"} \in SUBSET Present
      BY DEF Between
    <3>3. CASE Insert(LinkRow(s, t, "related_to", "l1"))
      BY <2>1, <2>2, <3>3, Inserts, EdgeAssumption DEF Quiet, Recorded, TypeOK
    <3>4. CASE edge' = Firm({e \in Between(s, t) : edge[e].type = "related_to"})
      BY <2>1, <3>2, <3>4, Firms DEF Quiet, Recorded, TypeOK
    <3> QED
      BY <3>1, <3>3, <3>4
  <2> QED
    BY <1>1, <2>3, <2>4 DEF Linker
<1>2. CASE Reconcile
  <2>1. /\ UNCHANGED <<state, heir, txn, selected>> /\ Noted
        /\ edge' = [e \in Edges |-> IF e \in Picked THEN [edge[e] EXCEPT !.tgt = Resolved(edge[e].name)]
                                    ELSE edge[e]]
    BY <1>2 DEF Reconcile
  <2>2. \A e \in Picked : e \in Present /\ edge[e].tgt = 0 /\ Resolved(edge[e].name) # 0
    BY DEF Picked, Oldest, Resolvable, Dangling
  <2>3. \A e \in Picked : edge[e] \in Rows /\ Resolved(edge[e].name) \in Bearers(edge[e].name)
    BY <2>2, RowsAreRows, ResolvedBears
  <2>4. \A n : Bearers(n) \subseteq 1..MaxId
    BY DEF Bearers, Live, Ids
  <2> HIDE DEF Picked
  <2>5. \A e \in Picked : edge'[e] = [edge[e] EXCEPT !.tgt = Resolved(edge[e].name)] /\ edge'[e] \in Rows
    BY <2>1, <2>2, <2>3, <2>4, EdgeAssumption DEF Rows, Present
  <2>6. \A e \in Picked : FindsBearer(e)
    BY <2>2, <2>3, <2>5 DEF FindsBearer, Present, Rows
  <2>7. \A e \in Edges \ Picked : Stays(e)
    BY <2>1 DEF Stays
  <2>8. edge' \in [Edges -> Rows \cup Absent]
    BY <2>1, <2>5, <2>7 DEF TypeOK, Stays
  <2> QED
    BY <2>1, <2>6, <2>7, <2>8 DEF Quiet, TableStep, RowStep, Recorded, TypeOK
<1>3. CASE PruneSelect
  BY <1>3 DEF PruneSelect, Quiet, TableStep, RowStep, Recorded, Stays, TypeOK, Prunable, Present
<1>4. CASE PruneApply
  <2>1. PICK S \in SUBSET Edges :
          /\ \A e \in S : edge[e].st = "live"
          /\ edge' = [e \in Edges |-> IF e \in S THEN [edge[e] EXCEPT !.st = "pruned"] ELSE edge[e]]
    BY <1>4 DEF PruneApply, TypeOK
  <2>2. UNCHANGED <<state, heir, txn>> /\ Noted /\ selected' = {}
    BY <1>4 DEF PruneApply
  <2>3. \A e \in S : There(e) /\ edge[e] \in Rows
    BY <2>1, RowsAreRows DEF There, Present
  <2>4. \A e \in S : Restyles(e)
    BY <2>1, <2>3 DEF Restyles, Rows
  <2>5. \A e \in Edges \ S : Stays(e)
    BY <2>1 DEF Stays
  <2>6. edge' \in [Edges -> Rows \cup Absent]
    BY <2>1, <2>4, <2>5 DEF TypeOK, Restyles, Stays
  <2> QED
    BY <2>2, <2>4, <2>5, <2>6 DEF Quiet, TableStep, RowStep, Recorded
<1> QED
  BY <1>1, <1>2, <1>3, <1>4 DEF Campaign

LEMMA LifeQuiet == TypeOK /\ (Life \/ OrphansCleanup) => Quiet
<1> SUFFICES ASSUME TypeOK, Life \/ OrphansCleanup PROVE Quiet
  OBVIOUS
<1>1. CASE Fade
  <2>1. PICK e \in Prunable : edge' = [edge EXCEPT ![e].faint = TRUE]
    BY <1>1 DEF Fade
  <2>2. e \in Present /\ edge[e] \in Rows
    BY RowsAreRows DEF Prunable
  <2>3. Looked(e) /\ \A f \in Edges \ {e} : Stays(f)
    BY <2>1, <2>2 DEF Looked, Restyles, Stays, Rows, Present, TypeOK
  <2>4. edge' \in [Edges -> Rows \cup Absent]
    BY <2>1, <2>2, <2>3 DEF TypeOK, Rows, Present
  <2> QED
    BY <1>1, <2>3, <2>4 DEF Fade, Quiet, TableStep, RowStep, Recorded, Looked, TypeOK
<1>2. CASE Reinforce
  <2>1. PICK a \in Ids, b \in Ids : edge' = Firm({e \in Between(a, b) : edge[e].st = "live"})
    BY <1>2 DEF Reinforce
  <2>2. {e \in Between(a, b) : edge[e].st = "live"} \in SUBSET Present
    BY DEF Between
  <2> QED
    BY <1>2, <2>1, <2>2, Firms DEF Reinforce, Quiet, Recorded, TypeOK
<1>3. CASE RestoreEdge
  <2>1. PICK e \in Present : edge' = [edge EXCEPT ![e].st = "live", ![e].faint = FALSE]
    BY <1>3 DEF RestoreEdge
  <2>2. edge[e] \in Rows
    BY RowsAreRows
  <2>3. edge' = [edge EXCEPT ![e] = [edge[e] EXCEPT !.st = "live", !.faint = FALSE]]
    BY <2>1, <2>2 DEF TypeOK, Present, Rows
  <2>4. Restyles(e) /\ \A f \in Edges \ {e} : Stays(f)
    BY <2>2, <2>3 DEF Restyles, Stays, Rows, Present, TypeOK
  <2>5. edge' \in [Edges -> Rows \cup Absent]
    BY <2>2, <2>3 DEF TypeOK, Rows, Present
  <2> QED
    BY <1>3, <2>4, <2>5 DEF RestoreEdge, Quiet, TableStep, RowStep, Recorded, TypeOK
<1>4. CASE OrphansCleanup
  <2>1. UNCHANGED <<state, heir, txn, selected>> /\ Noted
        /\ edge' = Without({e \in Present : edge[e].tgt = 0 /\ edge[e].name = None})
    BY <1>4 DEF OrphansCleanup
  <2> QED
    BY <2>1, Erases DEF Quiet, Recorded, TypeOK
<1> QED
  BY <1>1, <1>2, <1>3, <1>4 DEF Life

-----------------------------------------------------------------------------
(* What every step keeps.                                                  *)

\* A row that is no stray after a step and has an end that is being closed was
\* there before, in the same place
Kept(e) == /\ There(e) /\ edge'[e].st = edge[e].st /\ edge'[e].src = edge[e].src
           /\ edge'[e].tgt = edge[e].tgt /\ edge'[e].type = edge[e].type
Calm == \A e \in Edges : There(e)' /\ e \notin stray' /\ {edge'[e].src, edge'[e].tgt} \cap Closing' # {}
                           => Kept(e) /\ e \notin stray
\* No granule comes back to life
NoRebirth == Live' \cap Exists \subseteq Live
StepKeeps == EdgeBase' /\ Calm /\ NoRebirth

LEMMA NotedCalm ==
  ASSUME EdgeBase, edge' \in [Edges -> Rows \cup Absent], Noted,
         NEW e \in Edges, There(e)', e \notin stray', {edge'[e].src, edge'[e].tgt} \cap Closing' # {}
  PROVE  /\ e \notin stray /\ There(e) /\ edge'[e].st = edge[e].st
         /\ {edge'[e].src, edge'[e].tgt} = {edge[e].src, edge[e].tgt}
<1>1. Place(e, edge') = [st |-> edge'[e].st, ends |-> {edge'[e].src, edge'[e].tgt}]
  BY DEF Place, There
<1>2. e \notin stray /\ Place(e, edge') = Place(e, edge)
  BY <1>1 DEF Noted
<1>3. There(e)
  BY <1>1, <1>2 DEF Place, There
<1>4. Place(e, edge) = [st |-> edge[e].st, ends |-> {edge[e].src, edge[e].tgt}]
  BY <1>3 DEF Place, There, EdgeBase, TypeOK
<1> QED
  BY <1>1, <1>2, <1>3, <1>4

LEMMA NotedStrays == Noted => stray' \subseteq Edges
BY DEF Noted

LEMMA StillCalm ==
  ASSUME EdgeBase, Noted, edge' = edge
  PROVE  Calm
<1>1. SUFFICES ASSUME NEW e \in Edges, There(e)', e \notin stray', {edge'[e].src, edge'[e].tgt} \cap Closing' # {}
      PROVE Kept(e) /\ e \notin stray
  BY DEF Calm
<1>2. edge' \in [Edges -> Rows \cup Absent]
  BY DEF EdgeBase, TypeOK
<1> QED
  BY <1>1, <1>2, NotedCalm DEF Kept

LEMMA StatementKeeps ==
  ASSUME EdgeBase, Quiet, menu' = menu
  PROVE  StepKeeps
<1>0. Live' = Live /\ Exists' = Exists
  BY DEF Quiet, Live, Exists
<1>1. stray' \subseteq Edges
  BY NotedStrays DEF Quiet, Recorded, EdgeBase, TypeOK
<1>2. TypeOK'
  BY <1>1 DEF EdgeBase, TypeOK, Quiet, TableStep, txn
<1>3. Keyed'
  <2> SUFFICES ASSUME NEW e \in Edges, There(e)'
      PROVE  edge'[e].src \in Exists /\ edge'[e].tgt \in Exists \cup {0}
    BY <1>0 DEF Keyed, Present
  <2>1. RowStep(e)
    BY DEF Quiet, TableStep
  <2>2. \A n : Bearers(n) \subseteq Exists
    BY DEF Bearers, Live, Exists
  <2>3. ~Deletes(e)
    BY DEF Deletes, Deleted, There
  <2>4. There(e) => edge[e].src \in Exists /\ edge[e].tgt \in Exists \cup {0}
    BY DEF EdgeBase, Keyed, Present
  <2> QED
    BY <2>1, <2>2, <2>3, <2>4 DEF RowStep, Stays, Restyles, FindsBearer, Makes, There
<1>4. Separate'
  BY <1>0 DEF EdgeBase, Separate, Quiet, txn
<1>5. Calm
  <2> SUFFICES ASSUME NEW e \in Edges, There(e)', e \notin stray', {edge'[e].src, edge'[e].tgt} \cap Closing' # {}
      PROVE Kept(e) /\ e \notin stray
    BY DEF Calm
  <2>1. CASE Noted
    <3>1. /\ e \notin stray /\ There(e) /\ edge'[e].st = edge[e].st
          /\ {edge'[e].src, edge'[e].tgt} = {edge[e].src, edge[e].tgt}
      BY <2>1, NotedCalm DEF Quiet, TableStep
    <3>2. RowStep(e) /\ ~Deletes(e) /\ ~Makes(e)
      BY <3>1 DEF Quiet, TableStep, Deletes, Deleted, There, Makes
    <3>3. ~FindsBearer(e)
      <4> SUFFICES ASSUME FindsBearer(e) PROVE FALSE
        OBVIOUS
      <4>1. edge[e].src \in Ids /\ edge[e].tgt = 0 /\ edge'[e].tgt \in Ids /\ edge'[e].src = edge[e].src
        BY <3>1, RowsAreRows DEF FindsBearer, Bearers, Live, EdgeBase, Present, Rows
      <4>2. 0 \notin Ids
        BY DEF Ids
      <4> QED
        BY <3>1, <4>1, <4>2
    <3> QED
      BY <3>1, <3>2, <3>3 DEF RowStep, Stays, Restyles, Kept
  <2>2. CASE stray' = stray /\ \A f \in Edges : Stays(f) \/ Looked(f)
    BY <2>2 DEF Stays, Looked, Restyles, Kept, There
  <2> QED
    BY <2>1, <2>2 DEF Quiet, Recorded
<1> QED
  BY <1>0, <1>2, <1>3, <1>4, <1>5 DEF StepKeeps, EdgeBase, NoRebirth

LEMMA BeginKeeps ==
  ASSUME EdgeBase, NEW w \in Workers, VersionBegin(w), menu' = menu
  PROVE  StepKeeps
<1>1. PICK old \in Live \ Versioned, new \in Ids :
        /\ state[new] = "unborn" /\ new \notin {job[v].new : v \in Workers}
        /\ pc' = [pc EXCEPT ![w] = "source"]
        /\ job' = [job EXCEPT ![w] = [Blank EXCEPT !.old = old, !.new = new, !.alive = Seen(old, new),
                                                   !.cand = SourceRows(old, Seen(old, new))]]
  BY DEF VersionBegin, Goto
<1>2. UNCHANGED <<state, heir, edge, selected>> /\ Noted
  BY DEF VersionBegin
<1>3. Live \subseteq Ids /\ Ids \subseteq 0..MaxId /\ Seen(old, new) \subseteq Ids
  BY EdgeAssumption DEF Live, Ids, Seen
<1>4. SourceRows(old, Seen(old, new)) \subseteq Edges
  BY DEF SourceRows, Present
<1>5. [Blank EXCEPT !.old = old, !.new = new, !.alive = Seen(old, new),
                    !.cand = SourceRows(old, Seen(old, new))] \in Jobs
  BY <1>3, <1>4 DEF Blank, Jobs
<1>6. TypeOK'
  BY <1>1, <1>2, <1>5, NotedStrays DEF EdgeBase, TypeOK
<1>7. Keyed'
  BY <1>2 DEF EdgeBase, Keyed, Present, There, Exists
<1>8. Separate'
  <2>1. Live' = Live
    BY <1>2 DEF Live
  <2>2. job'[w].old = old /\ job'[w].new = new /\ pc'[w] = "source"
    BY <1>1 DEF Blank, EdgeBase, TypeOK
  <2>3. \A v \in Workers \ {w} : job'[v] = job[v] /\ pc'[v] = pc[v]
    BY <1>1 DEF EdgeBase, TypeOK
  <2>4. \A v \in Workers : pc[v] # "idle" => job[v].old # old /\ job[v].new # new
    <3> SUFFICES ASSUME NEW v \in Workers, pc[v] # "idle" PROVE job[v].old # old /\ job[v].new # new
      OBVIOUS
    <3>1. job[v].old \in Live
      BY DEF EdgeBase, Separate
    <3>2. job[v].old # 0
      BY <1>3, <3>1 DEF Ids
    <3> QED
      BY <1>1, <3>2 DEF Versioned
  <2> QED
    BY <1>1, <1>2, <2>1, <2>2, <2>3, <2>4 DEF EdgeBase, Separate
<1> QED
  BY <1>2, <1>6, <1>7, <1>8, StillCalm DEF StepKeeps, EdgeBase, NoRebirth, Live

LEMMA SourceKeeps ==
  ASSUME EdgeBase, NEW w \in Workers, RewireSource(w), menu' = menu
  PROVE  StepKeeps
<1> DEFINE j == job[w]
           alive == Seen(j.old, j.new)
           k == [j EXCEPT !.held = j.cand \cap SourceRows(j.old, j.alive),
                          !.alive = alive, !.cand = TargetRows(j.old, alive)]
<1>1. /\ pc[w] = "source" /\ pc' = [pc EXCEPT ![w] = "target"] /\ job' = [job EXCEPT ![w] = k]
      /\ UNCHANGED <<state, heir, edge, selected>> /\ Noted
  BY DEF RewireSource, Goto, At
<1>2. j \in Jobs /\ j.old \in Live /\ j.new \in Ids
  BY <1>1 DEF EdgeBase, TypeOK, Separate
<1>3. alive \subseteq Ids
  BY <1>2 DEF Seen, Live
<1>4. TargetRows(j.old, alive) \subseteq Edges
  BY DEF TargetRows, Present
<1>5. k \in Jobs /\ k.old = j.old /\ k.new = j.new
  <2> HIDE DEF alive
  <2> QED
    BY <1>2, <1>3, <1>4 DEF Jobs
<1> HIDE DEF k, j
<1>6. TypeOK'
  BY <1>1, <1>5, NotedStrays DEF EdgeBase, TypeOK
<1>7. Keyed'
  BY <1>1 DEF EdgeBase, Keyed, Present, There, Exists
<1>8. Separate'
  <2>1. \A v \in Workers : job'[v].old = job[v].old /\ job'[v].new = job[v].new
                           /\ (pc'[v] # "idle" <=> pc[v] # "idle") /\ (v # w => job'[v] = job[v])
    BY <1>1, <1>5 DEF EdgeBase, TypeOK, j
  <2>2. Live' = Live
    BY <1>1 DEF Live
  <2> QED
    BY <1>1, <2>1, <2>2 DEF EdgeBase, Separate
<1> QED
  BY <1>1, <1>6, <1>7, <1>8, StillCalm DEF StepKeeps, EdgeBase, NoRebirth, Live

LEMMA EndKeeps ==
  ASSUME EdgeBase, NEW w \in Workers, Victim(w) \/ Lose(w), menu' = menu
  PROVE  StepKeeps
<1>1. /\ pc' = [pc EXCEPT ![w] = "idle"] /\ job' = [job EXCEPT ![w] = Blank]
      /\ UNCHANGED <<state, heir, edge, selected>> /\ Noted
  BY DEF Victim, Lose, Done, Goto
<1>2. Blank \in Jobs
  BY EdgeAssumption DEF Blank, Jobs
<1>3. TypeOK'
  BY <1>1, <1>2, NotedStrays DEF EdgeBase, TypeOK
<1>4. Keyed'
  BY <1>1 DEF EdgeBase, Keyed, Present, There, Exists
<1>5. Separate'
  BY <1>1 DEF EdgeBase, TypeOK, Separate, Live
<1> QED
  BY <1>1, <1>3, <1>4, <1>5, StillCalm DEF StepKeeps, EdgeBase, NoRebirth, Live

\* The rows a commit moves, and what becomes of them
Moved(w) == job[w].held \cup (job[w].cand \cap TargetRows(job[w].old, job[w].alive))

LEMMA CommitTable ==
  ASSUME EdgeBase, NEW w \in Workers, RewireTarget(w)
  PROVE  /\ pc[w] = "target" /\ job[w].old \in Live /\ job[w].new \in Ids \ Exists /\ job[w].old # job[w].new
         /\ edge' = [e \in Edges |-> IF e \in Moved(w) THEN Inherit(edge[e], job[w].old, job[w].new) ELSE edge[e]]
         /\ state' = [state EXCEPT ![job[w].old] = "superseded", ![job[w].new] = "asserted"]
         /\ heir' = [heir EXCEPT ![job[w].old] = job[w].new]
         /\ pc' = [pc EXCEPT ![w] = "idle"] /\ job' = [job EXCEPT ![w] = Blank]
         /\ UNCHANGED selected /\ Noted
<1>1. pc[w] = "target" /\ job[w].old \in Live /\ job[w].new \in Ids /\ state[job[w].new] = "unborn"
  BY DEF RewireTarget, At, EdgeBase, Separate
<1>2. job[w].new \notin Exists /\ job[w].old # job[w].new
  BY <1>1 DEF Live, Exists
<1> QED
  BY <1>1, <1>2 DEF RewireTarget, Done, Goto, Moved

LEMMA CommitKeeps ==
  ASSUME EdgeBase, NEW w \in Workers, RewireTarget(w), menu' = menu
  PROVE  /\ StepKeeps
         /\ \A e \in Edges : edge'[e] = edge[e]
              \/ /\ There(e) /\ edge'[e].st = edge[e].st /\ edge'[e].type = edge[e].type
                 /\ edge'[e].src = IF edge[e].src = job[w].old THEN job[w].new ELSE edge[e].src
                 /\ edge'[e].tgt = IF edge[e].tgt = job[w].old THEN job[w].new ELSE edge[e].tgt
<1> DEFINE old == job[w].old
           new == job[w].new
<1>1. /\ pc[w] = "target" /\ old \in Live /\ new \in Ids \ Exists /\ old # new
      /\ edge' = [e \in Edges |-> IF e \in Moved(w) THEN Inherit(edge[e], old, new) ELSE edge[e]]
      /\ state' = [state EXCEPT ![old] = "superseded", ![new] = "asserted"]
      /\ heir' = [heir EXCEPT ![old] = new]
      /\ pc' = [pc EXCEPT ![w] = "idle"] /\ job' = [job EXCEPT ![w] = Blank]
      /\ UNCHANGED selected /\ Noted
  BY CommitTable
<1> HIDE DEF old, new
<1>2. old \in Ids /\ old \in 0..MaxId /\ new \in 0..MaxId /\ Ids \subseteq 0..MaxId /\ 0 \notin Ids
  BY <1>1, EdgeAssumption DEF Live, Ids
<1>3. Live' = (Live \ {old}) \cup {new} /\ Exists' = Exists \cup {new}
  BY <1>1, <1>2 DEF Live, Exists, EdgeBase, TypeOK
<1>4. \A e \in Present : edge[e] \in Rows
  BY RowsAreRows DEF EdgeBase
<1>5. \A e \in Present : Inherit(edge[e], old, new) \in Rows
  BY <1>1, <1>2, <1>4 DEF Inherit, Rows
<1>6. \A e \in Edges \ Present : edge[e] \in Absent /\ Inherit(edge[e], old, new) = edge[e]
  <2>1. ASSUME NEW r \in Absent PROVE Inherit(r, old, new) = r
    BY DEF Absent, Inherit
  <2>2. \A e \in Edges \ Present : edge[e] \in Absent
    BY DEF Present, There, Absent, Rows, EdgeBase, TypeOK
  <2> QED
    BY <2>1, <2>2
<1>7. edge' \in [Edges -> Rows \cup Absent]
  BY <1>1, <1>5, <1>6 DEF EdgeBase, TypeOK, Present
<1>8. ASSUME NEW e \in Edges
      PROVE \/ edge'[e] = edge[e]
            \/ /\ There(e) /\ edge'[e].st = edge[e].st /\ edge'[e].type = edge[e].type
               /\ edge'[e].src = IF edge[e].src = old THEN new ELSE edge[e].src
               /\ edge'[e].tgt = IF edge[e].tgt = old THEN new ELSE edge[e].tgt
  <2>1. CASE e \in Present
    <3>1. edge[e] \in Rows
      BY <1>4, <2>1
    <3> QED
      BY <1>1, <2>1, <3>1 DEF Inherit, Rows, Present
  <2>2. CASE e \notin Present
    BY <1>1, <1>6, <2>2
  <2> QED
    BY <2>1, <2>2
<1>9. \A e \in Edges : There(e)' => There(e)
  BY <1>8 DEF There
<1>10. TypeOK'
  <2>1. Blank \in Jobs
    BY EdgeAssumption DEF Blank, Jobs
  <2> QED
    BY <1>1, <1>2, <1>7, <2>1, NotedStrays DEF EdgeBase, TypeOK
<1>11. Keyed'
  <2> SUFFICES ASSUME NEW e \in Edges, There(e)'
      PROVE  edge'[e].src \in Exists' /\ edge'[e].tgt \in Exists' \cup {0}
    BY DEF Keyed, Present
  <2>1. edge[e].src \in Exists /\ edge[e].tgt \in Exists \cup {0}
    BY <1>9 DEF EdgeBase, Keyed, Present
  <2> QED
    BY <1>3, <1>8, <2>1
<1>12. Separate'
  <2> SUFFICES ASSUME NEW v \in Workers
      PROVE IF pc'[v] = "idle" THEN job'[v] = Blank
            ELSE /\ job'[v].old \in Live' /\ job'[v].new \in Ids /\ state'[job'[v].new] = "unborn"
                 /\ \A u \in Workers \ {v} : pc'[u] # "idle" => job'[v].old # job'[u].old /\ job'[v].new # job'[u].new
    BY DEF Separate
  <2>1. CASE v = w
    BY <1>1, <2>1 DEF EdgeBase, TypeOK
  <2>2. CASE v # w
    <3>1. job'[v] = job[v] /\ pc'[v] = pc[v]
      BY <1>1, <2>2
    <3>2. CASE pc[v] = "idle"
      BY <3>1, <3>2 DEF EdgeBase, Separate
    <3>3. CASE pc[v] # "idle"
      <4>1. /\ job[v].old \in Live /\ job[v].new \in Ids /\ state[job[v].new] = "unborn"
            /\ job[v].old # old /\ job[v].new # new
        BY <1>1, <2>2, <3>3 DEF EdgeBase, Separate, old, new
      <4>2. job[v].old \in Live' /\ state'[job[v].new] = "unborn"
        BY <1>1, <1>3, <4>1 DEF EdgeBase, TypeOK, Live
      <4>3. \A u \in Workers \ {v} : pc'[u] # "idle" => u # w /\ job'[u] = job[u] /\ pc[u] # "idle"
        BY <1>1 DEF EdgeBase, TypeOK
      <4> QED
        BY <3>1, <3>3, <4>1, <4>2, <4>3 DEF EdgeBase, Separate
    <3> QED
      BY <3>2, <3>3
  <2> QED
    BY <2>1, <2>2
<1>13. Calm
  <2> SUFFICES ASSUME NEW e \in Edges, There(e)', e \notin stray', {edge'[e].src, edge'[e].tgt} \cap Closing' # {}
      PROVE Kept(e) /\ e \notin stray
    BY DEF Calm
  <2>1. /\ e \notin stray /\ There(e) /\ edge'[e].st = edge[e].st
        /\ {edge'[e].src, edge'[e].tgt} = {edge[e].src, edge[e].tgt}
    BY <1>1, <1>7, NotedCalm
  <2>2. (edge[e].src # old /\ edge[e].tgt # old) \/ edge'[e] = edge[e]
    BY <1>1, <1>8, <2>1
  <2> QED
    BY <1>8, <2>1, <2>2 DEF Kept
<1>14. NoRebirth
  BY <1>1, <1>3 DEF NoRebirth
<1> QED
  BY <1>8, <1>10, <1>11, <1>12, <1>13, <1>14 DEF StepKeeps, EdgeBase, old, new

\* A granule outside of every open version may go on: nothing new is born
LEMMA OthersSeparate ==
  ASSUME EdgeBase, NEW S \in SUBSET (Ids \ Versioned), txn' = txn, state' \in [Ids -> {"unborn", "asserted", "superseded", "retracted", "gone"}],
         \A g \in S : state[g] # "unborn" /\ state'[g] # "unborn",
         \A g \in Ids \ S : state'[g] = state[g]
  PROVE  Separate'
<1>1. pc' = pc /\ job' = job
  BY DEF txn
<1>2. ASSUME NEW w \in Workers, pc[w] # "idle"
      PROVE job[w].old \in Live' /\ state'[job[w].new] = "unborn"
  <2>1. job[w].old \in Live /\ job[w].new \in Ids /\ state[job[w].new] = "unborn"
    BY <1>2 DEF EdgeBase, Separate
  <2>2. job[w].old \in Versioned
    BY <2>1 DEF Versioned, Live, Ids
  <2> QED
    BY <2>1, <2>2 DEF Live
<1> QED
  BY <1>1, <1>2 DEF EdgeBase, Separate

LEMMA CloseKeeps ==
  ASSUME EdgeBase, Link \/ Retract, menu' = menu
  PROVE  StepKeeps
<1>1. PICK g \in Live \ Versioned, s \in {"superseded", "retracted"} :
        state' = [state EXCEPT ![g] = s]
  BY DEF Link, Retract
<1>2. heir' \in [Ids -> 0..MaxId]
  <2>1. heir \in [Ids -> 0..MaxId] /\ Exists \subseteq 0..MaxId
    BY EdgeAssumption DEF EdgeBase, TypeOK, Exists, Ids
  <2>2. CASE Link
    <3>1. PICK old \in Ids, new \in Exists : heir' = [heir EXCEPT ![old] = new]
      BY <2>2 DEF Link, Live
    <3> QED
      BY <2>1, <3>1
  <2> QED
    BY <2>1, <2>2 DEF Retract
<1>3. UNCHANGED <<edge, txn, selected>>
  BY DEF Link, Retract
<1>4. stray' \subseteq Edges
  BY NotedStrays DEF Link, Retract, Present, EdgeBase, TypeOK
<1>5. TypeOK'
  BY <1>1, <1>2, <1>3, <1>4 DEF EdgeBase, TypeOK, txn
<1>6. Live' \subseteq Live /\ Exists' = Exists
  BY <1>1 DEF Live, Exists, EdgeBase, TypeOK
<1>7. Keyed'
  BY <1>3, <1>6 DEF EdgeBase, Keyed, Present, There
<1>8. Separate'
  <2>1. {g} \in SUBSET (Ids \ Versioned) /\ state[g] # "unborn" /\ state'[g] # "unborn"
    BY <1>1 DEF Live, EdgeBase, TypeOK
  <2>2. \A h \in Ids \ {g} : state'[h] = state[h]
    BY <1>1 DEF EdgeBase, TypeOK
  <2> QED
    BY <1>3, <1>5, <2>1, <2>2, OthersSeparate DEF TypeOK
<1>9. Calm
  <2>1. CASE Retract
    BY <1>3, <2>1, StillCalm DEF Retract
  <2>2. CASE Link
    BY <1>3, <2>2 DEF Link, Calm, Kept, There
  <2> QED
    BY <2>1, <2>2
<1> QED
  BY <1>5, <1>6, <1>7, <1>8, <1>9 DEF StepKeeps, EdgeBase, NoRebirth

\* What a row becomes when granules are deleted
LEMMA Cascades ==
  ASSUME EdgeBase, NEW S \in SUBSET (Exists \ Versioned), NEW D \in SUBSET Present, Erase(S, Without(D)),
         UNCHANGED <<txn, selected>>, Noted, menu' = menu
  PROVE  /\ StepKeeps
         /\ \A e \in Edges : There(e)' =>
              /\ There(e) /\ edge'[e].st = edge[e].st /\ edge'[e].src = edge[e].src /\ edge'[e].type = edge[e].type
              /\ edge'[e].tgt = IF edge[e].tgt \in S THEN 0 ELSE edge[e].tgt
<1> DEFINE table == Without(D)
<1>1. \A e \in Edges : table[e] \in Rows \cup Absent /\ (table[e] = edge[e] \/ table[e] = Deleted)
  BY DEF Without, EdgeBase, TypeOK, Deleted, Absent
<1>2. /\ edge' = [e \in Edges |->
            IF table[e].st \notin {"live", "pruned"} THEN table[e]
            ELSE IF table[e].src \in S THEN Deleted
            ELSE [table[e] EXCEPT !.tgt = IF @ \in S THEN 0 ELSE @, !.inh = IF @ \in S THEN 0 ELSE @]]
      /\ state' = [g \in Ids |-> IF g \in S THEN "gone" ELSE state[g]]
      /\ heir' = [g \in Ids |-> IF heir[g] \in S \/ g \in S THEN 0 ELSE heir[g]]
  BY DEF Erase, Cascade
<1> HIDE DEF table
<1>3. ASSUME NEW e \in Edges
      PROVE /\ edge'[e] \in Rows \cup Absent
            /\ There(e)' =>
                 /\ There(e) /\ edge'[e].st = edge[e].st /\ edge'[e].src = edge[e].src
                 /\ edge'[e].type = edge[e].type /\ edge[e].src \notin S
                 /\ edge'[e].tgt = IF edge[e].tgt \in S THEN 0 ELSE edge[e].tgt
  <2>1. CASE table[e].st \notin {"live", "pruned"}
    BY <1>1, <1>2, <2>1 DEF There
  <2>2. CASE table[e].st \in {"live", "pruned"}
    <3>1. table[e] \in Rows /\ table[e] = edge[e]
      BY <1>1, <2>2 DEF Absent, Deleted
    <3>2. CASE table[e].src \in S
      BY <1>2, <2>2, <3>2 DEF Deleted, Absent, There
    <3>3. CASE table[e].src \notin S
      <4>1. edge'[e] = [edge[e] EXCEPT !.tgt = IF @ \in S THEN 0 ELSE @, !.inh = IF @ \in S THEN 0 ELSE @]
        BY <1>2, <2>2, <3>1, <3>3
      <4>2. /\ edge'[e].tgt = IF edge[e].tgt \in S THEN 0 ELSE edge[e].tgt
            /\ edge'[e].st = edge[e].st /\ edge'[e].src = edge[e].src /\ edge'[e].type = edge[e].type
        BY <3>1, <4>1 DEF Rows
      <4>3. edge'[e] \in Rows
        <5>1. edge[e].tgt \in 0..MaxId /\ edge[e].inh \in 0..MaxId /\ 0 \in 0..MaxId
          BY <3>1, EdgeAssumption DEF Rows
        <5> QED
          BY <3>1, <4>1, <5>1 DEF Rows
      <4>4. There(e)
        BY <2>2, <3>1 DEF There
      <4> QED
        BY <3>1, <3>3, <4>2, <4>3, <4>4
    <3> QED
      BY <3>2, <3>3
  <2> QED
    BY <2>1, <2>2
<1>4. edge' \in [Edges -> Rows \cup Absent]
  BY <1>2, <1>3
<1>5. Exists' = Exists \ S /\ Live' \subseteq Live
  BY <1>2 DEF Exists, Live
<1>6. TypeOK'
  <2>1. state' \in [Ids -> {"unborn", "asserted", "superseded", "retracted", "gone"}]
    BY <1>2 DEF EdgeBase, TypeOK
  <2>2. heir' \in [Ids -> 0..MaxId]
    <3>1. heir' = [g \in Ids |-> IF heir[g] \in S \/ g \in S THEN 0 ELSE heir[g]]
      BY <1>2
    <3>2. \A g \in Ids : heir[g] \in 0..MaxId
      BY DEF EdgeBase, TypeOK
    <3>3. 0 \in 0..MaxId
      BY EdgeAssumption
    <3> QED
      BY <3>1, <3>2, <3>3
  <2> QED
    <3>1. pc' = pc /\ job' = job /\ selected' = selected
      BY DEF txn
    <3>2. stray' \subseteq Edges
      BY NotedStrays
    <3> QED
      BY <1>4, <2>1, <2>2, <3>1, <3>2 DEF EdgeBase, TypeOK
<1>7. Keyed'
  BY <1>3, <1>5 DEF EdgeBase, Keyed, Present
<1>8. Separate'
  <2>1. S \in SUBSET (Ids \ Versioned) /\ \A g \in S : state[g] # "unborn" /\ state'[g] # "unborn"
    BY <1>2 DEF Exists
  <2>2. \A g \in Ids \ S : state'[g] = state[g]
    BY <1>2
  <2> QED
    BY <1>6, <2>1, <2>2, OthersSeparate DEF TypeOK
<1>9. Calm
  <2> SUFFICES ASSUME NEW e \in Edges, There(e)', e \notin stray', {edge'[e].src, edge'[e].tgt} \cap Closing' # {}
      PROVE Kept(e) /\ e \notin stray
    BY DEF Calm
  <2>1. e \notin stray /\ {edge'[e].src, edge'[e].tgt} = {edge[e].src, edge[e].tgt}
    BY <1>4, NotedCalm
  <2>2. 0 \notin S /\ (edge[e].src \in Ids)
    BY <1>3, RowsAreRows DEF Exists, Ids, EdgeBase, Present, Rows
  <2> QED
    BY <1>3, <2>1, <2>2 DEF Kept, Ids
<1> QED
  BY <1>3, <1>5, <1>6, <1>7, <1>8, <1>9 DEF StepKeeps, EdgeBase, NoRebirth

\* The two ways to delete granules
LEMMA Removal ==
  ASSUME EdgeBase, Delete \/ GcPurge
  PROVE  /\ \E S \in SUBSET (Exists \ Versioned), D \in SUBSET Present : Erase(S, Without(D))
         /\ UNCHANGED <<txn, selected>> /\ Noted
<1>1. CASE Delete
  <2>1. PICK g \in Exists \ Versioned : Erase({g}, edge)
    BY <1>1 DEF Delete
  <2>2. Without({}) = edge
    BY DEF Without, EdgeBase, TypeOK
  <2> QED
    BY <1>1, <2>1, <2>2 DEF Delete
<1>2. CASE GcPurge
  <2>1. PICK S \in SUBSET Ids :
          Erase(S \cap Purgeable, Without({e \in Present : edge[e].tgt \in S /\ edge[e].name = None}))
    BY <1>2 DEF GcPurge
  <2>2. S \cap Purgeable \subseteq Exists \ Versioned
    <3>1. ASSUME NEW w \in Workers, job[w].old # 0 PROVE job[w].old \in Live
      BY <3>1 DEF EdgeBase, Separate, Blank
    <3> QED
      BY <3>1 DEF Purgeable, Exists, Versioned, Live
  <2>3. {e \in Present : edge[e].tgt \in S /\ edge[e].name = None} \in SUBSET Present
    OBVIOUS
  <2> QED
    BY <1>2, <2>1, <2>2, <2>3 DEF GcPurge
<1> QED
  BY <1>1, <1>2

LEMMA NextKeeps == EdgeBase /\ Next => StepKeeps
<1> SUFFICES ASSUME EdgeBase, Next PROVE StepKeeps
  OBVIOUS
<1>1. menu' = menu
  BY DEF Next
<1>2. ASSUME NEW w \in Workers, Version(w) PROVE StepKeeps
  BY <1>1, <1>2, BeginKeeps, SourceKeeps, CommitKeeps, EndKeeps DEF Version
<1>3. CASE Granule
  <2>1. CASE Link \/ Retract
    BY <1>1, <2>1, CloseKeeps
  <2>2. CASE Delete \/ GcPurge
    <3>1. PICK S \in SUBSET (Exists \ Versioned), D \in SUBSET Present : Erase(S, Without(D))
      BY <2>2, Removal
    <3> QED
      BY <1>1, <2>2, <3>1, Removal, Cascades
  <2>3. CASE OrphansCleanup
    BY <1>1, <2>3, LifeQuiet, StatementKeeps DEF EdgeBase
  <2> QED
    BY <1>3, <2>1, <2>2, <2>3 DEF Granule
<1>4. CASE Person
  BY <1>1, <1>4, PersonQuiet, StatementKeeps DEF EdgeBase
<1>5. CASE Campaign
  BY <1>1, <1>5, CampaignQuiet, StatementKeeps DEF EdgeBase
<1>6. CASE Life
  BY <1>1, <1>6, LifeQuiet, StatementKeeps DEF EdgeBase
<1> QED
  BY <1>2, <1>3, <1>4, <1>5, <1>6 DEF Next

LEMMA InitEdges == Init => EdgeBase /\ Chosen /\ LeftBehindHasCause
<1> SUFFICES ASSUME Init PROVE EdgeBase /\ Chosen /\ LeftBehindHasCause
  OBVIOUS
<1>1. TypeOK
  <2>1. Blank \in Jobs
    BY EdgeAssumption DEF Blank, Jobs
  <2>2. heir \in [Ids -> 0..MaxId]
    BY EdgeAssumption DEF Init
  <2>3. edge \in [Edges -> Rows \cup Absent]
    BY DEF Init, Absent
  <2> QED
    BY <2>1, <2>2, <2>3 DEF Init, TypeOK
<1>2. Present = {}
  BY DEF Init, Present, There
<1> QED
  BY <1>1, <1>2 DEF Init, EdgeBase, Keyed, Separate, Chosen, LeftBehindHasCause

\* Where a version stands while others take a step: what it will not move is a
\* stray after the step as before
LEMMA OthersChosen ==
  ASSUME EdgeBase, Chosen, StepKeeps, NEW w \in Workers, pc'[w] = pc[w], job'[w] = job[w], pc[w] # "idle",
         NEW e \in Present' \ stray', Movable(e)', {edge'[e].src, edge'[e].tgt} \cap {job[w].old} # {}
  PROVE  /\ e \in Present \ stray /\ Movable(e)
         /\ edge'[e].src = edge[e].src /\ edge'[e].tgt = edge[e].tgt
         /\ \A g \in {edge[e].src, edge[e].tgt} : g \in Seen(job[w].old, job[w].new)' => g \in Seen(job[w].old, job[w].new)
<1>1. job[w].old # 0 /\ job[w].old \in Live
  BY DEF EdgeBase, Separate, Live, Ids
<1>2. job[w].old \in Closing'
  BY <1>1 DEF Closing, Versioned
<1>3. e \in Edges /\ There(e)' /\ e \notin stray' /\ {edge'[e].src, edge'[e].tgt} \cap Closing' # {}
  BY <1>2 DEF Present
<1>4. Kept(e) /\ e \notin stray
  BY <1>3 DEF StepKeeps, Calm
<1>5. edge[e].src \in Exists /\ edge[e].tgt \in Exists \cup {0}
  BY <1>3, <1>4 DEF Kept, EdgeBase, Keyed, Present
<1>6. 0 \notin Live'
  BY DEF Live, Ids
<1> QED
  BY <1>3, <1>4, <1>5, <1>6 DEF Kept, Present, Movable, Seen, StepKeeps, NoRebirth

LEMMA NextChosen == EdgeBase /\ Chosen /\ [Next]_vars => Chosen'
<1> SUFFICES ASSUME EdgeBase, Chosen, [Next]_vars, NEW w \in Workers, NEW e \in Present' \ stray', Movable(e)'
             PROVE /\ edge'[e].src = job'[w].old /\ edge'[e].tgt \in Seen(job[w].old, job[w].new)' =>
                        /\ pc'[w] = "source" => e \in job'[w].cand /\ edge'[e].tgt \in job'[w].alive
                        /\ pc'[w] = "target" => e \in job'[w].held
                   /\ edge'[e].tgt = job'[w].old /\ edge'[e].src \in Seen(job[w].old, job[w].new)' /\ pc'[w] = "target" =>
                        e \in job'[w].cand /\ edge'[e].src \in job'[w].alive
  BY DEF Chosen
<1>1. CASE UNCHANGED vars
  BY <1>1 DEF vars, txn, Chosen, Present, There, Movable, Seen, Live
<1>2. CASE Next /\ pc'[w] = pc[w] /\ job'[w] = job[w]
  <2>1. StepKeeps
    BY <1>2, NextKeeps
  <2>2. CASE pc[w] = "idle"
    BY <1>2, <2>2
  <2>3. CASE pc[w] # "idle"
    <3> SUFFICES ASSUME {edge'[e].src, edge'[e].tgt} \cap {job[w].old} # {}
                 PROVE  /\ edge'[e].src = job[w].old /\ edge'[e].tgt \in Seen(job[w].old, job[w].new)' =>
                             /\ pc[w] = "source" => e \in job[w].cand /\ edge'[e].tgt \in job[w].alive
                             /\ pc[w] = "target" => e \in job[w].held
                        /\ edge'[e].tgt = job[w].old /\ edge'[e].src \in Seen(job[w].old, job[w].new)' /\ pc[w] = "target" =>
                             e \in job[w].cand /\ edge'[e].src \in job[w].alive
      BY <1>2
    <3>1. /\ e \in Present \ stray /\ Movable(e)
          /\ edge'[e].src = edge[e].src /\ edge'[e].tgt = edge[e].tgt
          /\ \A g \in {edge[e].src, edge[e].tgt} : g \in Seen(job[w].old, job[w].new)' => g \in Seen(job[w].old, job[w].new)
      BY <1>2, <2>1, <2>3, OthersChosen
    <3> QED
      BY <3>1 DEF Chosen
  <2> QED
    BY <2>2, <2>3
<1>3. CASE VersionBegin(w)
  <2>1. PICK old \in Live, new \in Ids :
          /\ pc' = [pc EXCEPT ![w] = "source"]
          /\ job' = [job EXCEPT ![w] = [Blank EXCEPT !.old = old, !.new = new, !.alive = Seen(old, new),
                                                     !.cand = SourceRows(old, Seen(old, new))]]
    BY <1>3 DEF VersionBegin, Goto
  <2>2. pc'[w] = "source" /\ job'[w].old = old /\ job'[w].new = new /\ job'[w].alive = Seen(old, new)
        /\ job'[w].cand = SourceRows(old, Seen(old, new))
    BY <2>1 DEF Blank, EdgeBase, TypeOK
  <2>3. edge' = edge /\ Live' = Live
    BY <1>3 DEF VersionBegin, Live
  <2>4. e \in Present /\ Movable(e)
    BY <2>3 DEF Present, There, Movable
  <2> QED
    BY <2>2, <2>3, <2>4 DEF SourceRows, Seen
<1>4. CASE Next /\ RewireSource(w)
  <2> DEFINE j == job[w]
             alive == Seen(j.old, j.new)
             k == [j EXCEPT !.held = j.cand \cap SourceRows(j.old, j.alive),
                            !.alive = alive, !.cand = TargetRows(j.old, alive)]
  <2>1. /\ pc[w] = "source" /\ pc' = [pc EXCEPT ![w] = "target"] /\ job' = [job EXCEPT ![w] = k]
        /\ UNCHANGED <<state, edge>> /\ Noted
    BY <1>4 DEF RewireSource, Goto, At
  <2>2. pc'[w] = "target" /\ job'[w] = k /\ j \in Jobs
    BY <2>1 DEF EdgeBase, TypeOK
  <2>3. k.old = j.old /\ k.new = j.new /\ k.alive = alive /\ k.cand = TargetRows(j.old, alive)
        /\ k.held = j.cand \cap SourceRows(j.old, j.alive)
    BY <2>2 DEF Jobs
  <2> HIDE DEF k
  <2>4. edge' = edge /\ Live' = Live /\ e \in Present /\ Movable(e) /\ There(e)'
    BY <2>1 DEF Live, Present, There, Movable
  <2>5. StepKeeps
    BY <1>4, NextKeeps
  <2>6. ASSUME edge[e].src = j.old PROVE e \notin stray
    <3>1. j.old \in Closing'
      <4>1. j.old # 0 /\ job'[w].old = j.old
        BY <2>1, <2>2, <2>3 DEF EdgeBase, Separate, Live, Ids
      <4> QED
        BY <4>1 DEF Closing, Versioned
    <3> QED
      BY <2>4, <2>5, <2>6, <3>1 DEF StepKeeps, Calm, Present
  <2>7. Seen(job[w].old, job[w].new)' = alive
    BY <2>2, <2>3, <2>4 DEF Seen
  <2>8. ASSUME edge[e].src = j.old, edge[e].tgt \in alive PROVE e \in k.held
    <3>1. e \in j.cand /\ edge[e].tgt \in j.alive
      BY <2>1, <2>4, <2>6, <2>8 DEF Chosen
    <3> QED
      BY <2>3, <2>4, <2>8, <3>1 DEF SourceRows
  <2>9. ASSUME edge[e].tgt = j.old, edge[e].src \in alive PROVE e \in k.cand /\ edge[e].src \in k.alive
    BY <2>3, <2>4, <2>9 DEF TargetRows
  <2> QED
    BY <2>2, <2>3, <2>4, <2>7, <2>8, <2>9
<1>5. CASE RewireTarget(w) \/ Victim(w) \/ Lose(w)
  <2>1. pc'[w] = "idle" /\ job'[w] = Blank
    BY <1>5 DEF RewireTarget, Victim, Lose, Done, Goto, EdgeBase, TypeOK
  <2> QED
    BY <2>1
<1>6. ASSUME NEW v \in Workers \ {w}, Version(v) PROVE pc'[w] = pc[w] /\ job'[w] = job[w]
  <2>1. PICK p, k : Goto(v, p, k)
    BY <1>6 DEF Version, VersionBegin, RewireSource, RewireTarget, Victim, Lose, Done
  <2> QED
    BY <2>1 DEF Goto, EdgeBase, TypeOK
<1>7. ASSUME Granule \/ Person \/ Campaign \/ Life PROVE pc'[w] = pc[w] /\ job'[w] = job[w]
  <2>1. UNCHANGED txn
    <3>1. CASE Person \/ Campaign \/ Life
      BY <3>1, PersonQuiet, CampaignQuiet, LifeQuiet DEF EdgeBase, Quiet
    <3>2. CASE Granule
      BY <3>2 DEF Granule, Link, Retract, Delete, GcPurge, OrphansCleanup
    <3> QED
      BY <1>7, <3>1, <3>2
  <2> QED
    BY <2>1 DEF txn
<1>8. CASE Next
  BY <1>8, <1>2, <1>3, <1>4, <1>5, <1>6, <1>7 DEF Next, Version
<1> QED
  BY <1>1, <1>8

-----------------------------------------------------------------------------
\* Who is superseded by a step, and what that does to its edges: update() marks
\* them all, a commit moves those it has chosen
LEMMA Supersedes ==
  ASSUME EdgeBase, Next, NEW g \in Ids, state[g] # "superseded", state'[g] = "superseded"
  PROVE  \/ \E w \in Workers : RewireTarget(w) /\ g = job[w].old
         \/ {e \in Present : g \in {edge[e].src, edge[e].tgt}} \subseteq stray'
<1>1. ASSUME UNCHANGED state PROVE FALSE
  BY <1>1
<1>2. ASSUME NEW w \in Workers, Version(w)
      PROVE RewireTarget(w) /\ g = job[w].old
  <2>1. RewireTarget(w)
    BY <1>1, <1>2 DEF Version, VersionBegin, RewireSource, Victim, Lose
  <2>2. state' = [state EXCEPT ![job[w].old] = "superseded", ![job[w].new] = "asserted"]
    BY <2>1, CommitTable
  <2> QED
    BY <2>1, <2>2 DEF EdgeBase, TypeOK
<1>3. CASE Person \/ Campaign \/ Life \/ OrphansCleanup
  BY <1>1, <1>3, PersonQuiet, CampaignQuiet, LifeQuiet DEF EdgeBase, Quiet
<1>4. CASE Link
  BY <1>4 DEF Link, EdgeBase, TypeOK
<1>5. CASE Retract
  BY <1>5 DEF Retract, EdgeBase, TypeOK
<1>6. CASE Delete \/ GcPurge
  BY <1>6, Removal DEF Erase
<1> QED
  BY <1>2, <1>3, <1>4, <1>5, <1>6 DEF Next, Granule

LEMMA NextLeftBehind == EdgeBase /\ Chosen /\ LeftBehindHasCause /\ [Next]_vars => LeftBehindHasCause'
<1> SUFFICES ASSUME EdgeBase, Chosen, LeftBehindHasCause, [Next]_vars,
                    NEW e \in Present', LeftBehind(e)', e \notin stray'
             PROVE  FALSE
  BY DEF LeftBehindHasCause
<1>1. CASE UNCHANGED vars
  BY <1>1 DEF vars, txn, LeftBehindHasCause, LeftBehind, Present, There, Live
<1>2. CASE Next
  <2>1. PICK g \in {edge'[e].src, edge'[e].tgt}, h \in {edge'[e].src, edge'[e].tgt} :
          g # h /\ state'[g] = "superseded" /\ h \in Live'
    BY DEF LeftBehind
  <2>2. StepKeeps /\ e \in Edges /\ There(e)' /\ edge'[e] \in Rows /\ edge'[e].tgt # 0
    <3>1. StepKeeps
      BY <1>2, NextKeeps
    <3>2. edge'[e] \in Rows
      BY <3>1 DEF StepKeeps, EdgeBase, TypeOK, Present, There, Absent
    <3> QED
      BY <3>1, <3>2 DEF Present, LeftBehind
  <2>3. g \in Ids
    BY <2>1, <2>2, EdgeAssumption DEF Rows, Ids
  <2>4. g \in Closing'
    BY <2>1, <2>3 DEF Closing
  <2>5. Kept(e) /\ e \notin stray
    BY <2>1, <2>2, <2>4 DEF StepKeeps, Calm
  <2>6. e \in Present /\ g \in {edge[e].src, edge[e].tgt} /\ h \in {edge[e].src, edge[e].tgt}
        /\ edge[e].tgt # 0 /\ edge[e].st = "live" /\ edge[e].type # "supersedes"
    BY <2>1, <2>2, <2>5 DEF Kept, Present, LeftBehind
  <2>7. h \in Live
    BY <2>1, <2>2, <2>6 DEF EdgeBase, Keyed, StepKeeps, NoRebirth
  <2>8. state[g] # "superseded"
    BY <2>1, <2>5, <2>6, <2>7 DEF LeftBehindHasCause, LeftBehind
  <2>9. CASE {f \in Present : g \in {edge[f].src, edge[f].tgt}} \subseteq stray'
    BY <2>6, <2>9
  <2>10. ASSUME NEW w \in Workers, RewireTarget(w), g = job[w].old PROVE FALSE
    <3>1. /\ pc[w] = "target" /\ job[w].old # job[w].new
          /\ edge' = [f \in Edges |-> IF f \in Moved(w) THEN Inherit(edge[f], job[w].old, job[w].new) ELSE edge[f]]
      BY <2>10, CommitTable
    <3>2. h \in Seen(job[w].old, job[w].new)
      BY <2>1, <2>7, <2>10 DEF Seen
    <3>3. Movable(e)
      BY <2>6 DEF Movable
    <3>4. e \in Moved(w)
      <4>1. CASE edge[e].src = g
        <5>1. edge[e].tgt = h
          BY <2>1, <2>6, <4>1
        <5> QED
          BY <2>5, <2>6, <2>10, <3>1, <3>2, <3>3, <4>1, <5>1 DEF Chosen, Moved
      <4>2. CASE edge[e].tgt = g
        <5>1. edge[e].src = h
          BY <2>1, <2>6, <4>2
        <5>2. e \in job[w].cand /\ edge[e].src \in job[w].alive
          BY <2>5, <2>6, <2>10, <3>1, <3>2, <3>3, <4>2, <5>1 DEF Chosen
        <5> QED
          BY <2>6, <2>10, <3>3, <4>2, <5>2 DEF Moved, TargetRows
      <4> QED
        BY <2>6, <4>1, <4>2
    <3>5. edge[e] \in Rows
      BY <2>6, RowsAreRows DEF EdgeBase
    <3>6. edge'[e].src # job[w].old /\ edge'[e].tgt # job[w].old
      BY <2>2, <3>1, <3>4, <3>5 DEF Inherit, Rows
    <3> QED
      BY <2>1, <2>10, <3>6
  <2> QED
    BY <1>2, <2>1, <2>3, <2>8, <2>9, <2>10, Supersedes
<1> QED
  BY <1>1, <1>2

\* An edge that its superseded end keeps to a live granule came there while or
\* after the version was made (or nothing moved edges), whatever campaigns,
\* people and versions run beside it
THEOREM LeftBehindExplained == Spec => []LeftBehindHasCause
<1> DEFINE Inv == EdgeBase /\ Chosen /\ LeftBehindHasCause
<1>1. EdgeBase /\ [Next]_vars => EdgeBase'
  <2>1. EdgeBase /\ UNCHANGED vars => EdgeBase'
    BY DEF vars, txn, EdgeBase, TypeOK, Keyed, Separate, Present, There, Exists, Live
  <2> QED
    BY <2>1, NextKeeps DEF StepKeeps
<1>2. Inv /\ [Next]_vars => Inv'
  BY <1>1, NextChosen, NextLeftBehind
<1>3. Init => Inv
  BY InitEdges
<1>4. Inv => LeftBehindHasCause
  OBVIOUS
<1> QED
  BY <1>2, <1>3, <1>4, PTL DEF Spec

\* Rows, granules and transactions stay inside their domains, no row names a
\* granule that is not there, and no two open versions share a granule
THEOREM EdgesTyped == Spec => []EdgeBase
<1>1. EdgeBase /\ [Next]_vars => EdgeBase'
  <2>1. EdgeBase /\ UNCHANGED vars => EdgeBase'
    BY DEF vars, txn, EdgeBase, TypeOK, Keyed, Separate, Present, There, Exists, Live
  <2> QED
    BY <2>1, NextKeeps DEF StepKeeps
<1>2. Init => EdgeBase
  BY InitEdges
<1> QED
  BY <1>1, <1>2, PTL DEF Spec

\* One step on an edge that is there and stays there
Lawful(e) ==
  /\ Follows(edge[e].src, edge'[e].src)
  /\ \/ edge[e].tgt = edge'[e].tgt
     \/ edge[e].tgt # 0 /\ edge'[e].tgt = 0 /\ state'[edge[e].tgt] = "gone"
     \/ edge[e].tgt = 0 /\ edge'[e].tgt \in Bearers(edge[e].name)
     \/ edge[e].tgt # 0 /\ edge'[e].tgt # 0 /\ Follows(edge[e].tgt, edge'[e].tgt)

LEMMA NextLawful ==
  ASSUME EdgeBase, Next, NEW e \in Present, edge'[e].st \in {"live", "pruned"}
  PROVE  Lawful(e)
<1>0. menu' = menu /\ e \in Edges /\ There(e) /\ There(e)' /\ edge[e] \in Rows
  BY RowsAreRows DEF Next, Present, There, EdgeBase
<1>1. CASE edge' = edge
  BY <1>1 DEF Lawful, Follows
<1>2. CASE Quiet
  BY <1>0, <1>2 DEF Quiet, TableStep, RowStep, Stays, Deletes, Deleted, Restyles, FindsBearer, Makes, Lawful, Follows
<1>3. ASSUME NEW w \in Workers, RewireTarget(w) PROVE Lawful(e)
  <2>1. \/ edge'[e] = edge[e]
        \/ /\ edge'[e].src = IF edge[e].src = job[w].old THEN job[w].new ELSE edge[e].src
           /\ edge'[e].tgt = IF edge[e].tgt = job[w].old THEN job[w].new ELSE edge[e].tgt
    BY <1>0, <1>3, CommitKeeps
  <2>2. /\ job[w].old \in Live /\ job[w].new \in Ids /\ job[w].old # job[w].new
        /\ state' = [state EXCEPT ![job[w].old] = "superseded", ![job[w].new] = "asserted"]
        /\ heir' = [heir EXCEPT ![job[w].old] = job[w].new]
    BY <1>3, CommitTable
  <2>3. Follows(job[w].old, job[w].new)
    BY <2>2 DEF Follows, Live, EdgeBase, TypeOK
  <2>4. job[w].old # 0 /\ job[w].new # 0
    BY <2>2 DEF Live, Ids
  <2> QED
    BY <2>1, <2>3, <2>4 DEF Lawful, Follows
<1>4. CASE Delete \/ GcPurge
  <2>1. PICK S \in SUBSET (Exists \ Versioned), D \in SUBSET Present : Erase(S, Without(D))
    BY <1>4, Removal
  <2>2. /\ edge'[e].src = edge[e].src
        /\ edge'[e].tgt = IF edge[e].tgt \in S THEN 0 ELSE edge[e].tgt
    BY <1>0, <1>4, <2>1, Removal, Cascades
  <2>3. \A g \in S : g \in Ids /\ g # 0 /\ state'[g] = "gone"
    BY <2>1 DEF Erase, Exists, Ids
  <2> QED
    BY <2>2, <2>3 DEF Lawful, Follows
<1>5. CASE Person \/ Campaign \/ Life \/ OrphansCleanup
  BY <1>2, <1>5, PersonQuiet, CampaignQuiet, LifeQuiet DEF EdgeBase
<1>6. CASE Link \/ Retract
  BY <1>1, <1>6 DEF Link, Retract
<1>7. ASSUME NEW w \in Workers, Version(w) PROVE Lawful(e)
  BY <1>1, <1>3, <1>7 DEF Version, VersionBegin, RewireSource, Victim, Lose
<1> QED
  BY <1>4, <1>5, <1>6, <1>7 DEF Next, Granule

\* An edge changes an end only for the heir of a granule that is being closed,
\* for the bearer of its name, or to none when its granule is deleted
THEOREM EdgesFollowHeirs == Spec => MovesFollowHeirs
<1>1. EdgeBase /\ [Next]_vars =>
        [\A e \in Present : edge'[e].st \in {"live", "pruned"} => Lawful(e)]_vars
  BY NextLawful
<1>2. Spec => []EdgeBase
  BY EdgesTyped
<1> QED
  BY <1>1, <1>2, PTL DEF Spec, MovesFollowHeirs, Lawful

-----------------------------------------------------------------------------
(* What was told beside the content.                                       *)

Holding == {"write", "insert", "close", "commit"}

Shape == /\ plan \in Plans /\ rows \in 1..MaxRow /\ DOMAIN held = 1..MaxRow
         /\ step \in [Hands -> Points] /\ DOMAIN saw = Hands
         /\ at \in [Hands -> 0..MaxRow] /\ since \in [Hands -> SUBSET Things]
         /\ did \in [Hands -> BOOLEAN]
         /\ \A w \in Hands : at[w] <= rows /\ (step[w] # "idle" => at[w] # 0)
Fresh == \A w \in Hands : (step[w] \in Holding /\ at[w] = rows)
            => \A x \in Things \ since[w] : saw[w][x] = held[rows][x]
Alone == \A v, w \in Hands : step[w] = "commit"
            => at[w] = rows /\ (step[v] = "commit" => v = w)
IInv == Shape /\ Fresh /\ Alone /\ LossHasCause

LEMMA InitIInv == UpkeepInit => IInv
<1> SUFFICES ASSUME UpkeepInit PROVE IInv OBVIOUS
<1> USE UpkeepAssumption
<1>1. Shape BY DEF UpkeepInit, Shape, Points
<1>2. Fresh /\ Alone BY DEF UpkeepInit, Fresh, Alone, Holding
<1>3. LossHasCause BY DEF UpkeepInit, LossHasCause
<1> QED BY <1>1, <1>2, <1>3 DEF IInv

\* Where a task writes the row it is about, and tells the fact the same, the
\* invariant stays: what others hold of that row is marked, and what the row
\* and the fact say differs only in what is excused.
Agree(w, row, new, T, x) ==
  IF x \in T THEN did[w] \/ (x = "confidence" /\ held[rows][x] # due[x]) \/ row[x] = new[x]
             ELSE row[x] = held[rows][x]

LEMMA WriteKeeps ==
  ASSUME IInv, NEW w \in Hands, NEW row, NEW S \in SUBSET Things, NEW new, NEW T, NEW lost,
         at[w] \in 1..rows, step[w] # "commit",
         Writes(at[w], row, S), Tells(w, new, T, lost), Goes(w, "done"),
         UNCHANGED <<plan, rows, at, saw>>,
         \A x \in Things \ S : row[x] = held[at[w]][x],
         at[w] = rows => \A x \in Things \ lost : Agree(w, row, new, T, x)
  PROVE IInv'
<1> USE UpkeepAssumption
<1>1. Shape'
  <2>1. /\ plan' \in Plans /\ rows' \in 1..MaxRow /\ DOMAIN held' = 1..MaxRow /\ DOMAIN saw' = Hands
        /\ at' \in [Hands -> 0..MaxRow] /\ did' \in [Hands -> BOOLEAN]
    BY DEF IInv, Shape, Writes, Tells
  <2>2. step' \in [Hands -> Points] /\ since' \in [Hands -> SUBSET Things]
    BY DEF IInv, Shape, Writes, Goes, Points
  <2>3. \A v \in Hands : at'[v] <= rows' /\ (step'[v] # "idle" => at'[v] # 0)
    BY DEF IInv, Shape, Goes
  <2> QED BY <2>1, <2>2, <2>3 DEF Shape
<1>2. Fresh'
  <2> SUFFICES ASSUME NEW v \in Hands, step'[v] \in Holding, at'[v] = rows', NEW x \in Things \ since'[v]
               PROVE saw'[v][x] = held'[rows'][x]
    BY DEF Fresh
  <2>1. v # w /\ step[v] = step'[v] /\ at[v] = rows BY DEF IInv, Shape, Goes, Holding
  <2>2. since[v] \subseteq since'[v] /\ (at[w] = rows => x \notin S) BY <2>1 DEF Writes
  <2>3. saw[v][x] = held[rows][x] BY <2>1, <2>2 DEF IInv, Fresh
  <2>4. CASE at[w] = rows BY <2>2, <2>3, <2>4 DEF Writes, IInv, Shape
  <2>5. CASE at[w] # rows BY <2>3, <2>5 DEF Writes, IInv, Shape
  <2> QED BY <2>4, <2>5
<1>3. Alone' BY DEF IInv, Shape, Alone, Goes
<1>4. LossHasCause'
  <2> SUFFICES ASSUME NEW x \in Things, x \notin excused' PROVE held'[rows'][x] = due'[x]
    BY DEF LossHasCause
  <2>1. CASE at[w] # rows
    <3>1. x \notin excused /\ x \notin T BY <2>1 DEF Tells
    <3> QED BY <2>1, <3>1 DEF Tells, Writes, IInv, Shape, LossHasCause
  <2>2. CASE at[w] = rows
    <3>1. held'[rows'][x] = row[x] BY <2>2 DEF Writes, IInv, Shape
    <3>2. x \notin lost BY <2>2 DEF Tells
    <3>3. CASE did[w]
      <4>1. x \notin excused /\ x \notin T BY <3>3 DEF Tells
      <4>2. due'[x] = due[x] BY <3>3 DEF Tells
      <4> QED BY <2>2, <3>1, <3>2, <4>1, <4>2 DEF IInv, LossHasCause, Agree
    <3>4. CASE ~did[w]
      <4>1. due'[x] = IF x \in T THEN new[x] ELSE due[x] BY <3>4 DEF Tells
      <4>2. x \notin T \/ x = "confidence" => x \notin excused BY <2>2, <3>4 DEF Tells
      <4>3. x \notin excused => held[at[w]][x] = due[x] BY <2>2 DEF IInv, LossHasCause
      <4>4. CASE x \notin T BY <2>2, <3>1, <3>2, <4>1, <4>2, <4>3, <4>4 DEF Agree
      <4>5. CASE x \in T BY <2>2, <3>1, <3>2, <3>4, <4>1, <4>2, <4>3, <4>5 DEF Agree
      <4> QED BY <4>4, <4>5
    <3> QED BY <3>3, <3>4
  <2> QED BY <2>1, <2>2
<1> QED BY <1>1, <1>2, <1>3, <1>4 DEF IInv

\* A step that writes nothing keeps the invariant when no task takes hold of
\* columns and none commits.
LEMMA QuietKeeps ==
  ASSUME IInv, NEW w \in Hands, NEW p \in Points \ Holding, p # "idle",
         Goes(w, p), UNCHANGED <<plan, held, rows, saw, story>>,
         \A v \in Hands : v # w => at'[v] = at[v],
         at' \in [Hands -> 0..MaxRow], at'[w] \in 1..rows
  PROVE IInv'
<1> USE UpkeepAssumption
<1>1. \A v \in Hands : v # w => step'[v] = step[v] BY DEF Goes, IInv, Shape
<1>2. step'[w] = p BY DEF Goes, IInv, Shape
<1>3. Shape'
  <2>1. /\ plan' \in Plans /\ rows' \in 1..MaxRow /\ DOMAIN held' = 1..MaxRow /\ DOMAIN saw' = Hands
        /\ at' \in [Hands -> 0..MaxRow] /\ did' \in [Hands -> BOOLEAN]
        /\ since' \in [Hands -> SUBSET Things] /\ step' \in [Hands -> Points]
    BY DEF IInv, Shape, Goes, story
  <2>2. ASSUME NEW v \in Hands PROVE at'[v] <= rows' /\ (step'[v] # "idle" => at'[v] # 0)
    <3>1. rows' = rows /\ rows \in Nat BY DEF IInv, Shape
    <3>2. CASE v = w BY <3>1, <3>2
    <3>3. CASE v # w BY <1>1, <3>1, <3>3 DEF IInv, Shape
    <3> QED BY <3>2, <3>3
  <2> QED BY <2>1, <2>2 DEF Shape
<1>4. Fresh' BY <1>1, <1>2 DEF IInv, Fresh, story
<1>5. Alone' BY <1>1, <1>2 DEF IInv, Alone, Holding
<1>6. LossHasCause' BY DEF IInv, LossHasCause, story
<1> QED BY <1>3, <1>4, <1>5, <1>6 DEF IInv

\* A task that reads holds the columns as they are.
LEMMA ReadKeeps ==
  ASSUME IInv, NEW w \in Hands, NEW p \in {"write", "insert"}, step[w] # "idle", Reads(w, p)
  PROVE IInv'
<1> USE UpkeepAssumption
<1>1. /\ \A v \in Hands : v # w => step'[v] = step[v] /\ saw'[v] = saw[v] /\ since'[v] = since[v]
      /\ step'[w] = p /\ saw'[w] = held[at[w]] /\ since'[w] = {}
  BY DEF IInv, Shape, Reads, Goes
<1>2. Shape'
  <2>1. step' \in [Hands -> Points] /\ since' \in [Hands -> SUBSET Things] /\ DOMAIN saw' = Hands
    BY DEF IInv, Shape, Reads, Goes, Points
  <2>2. \A v \in Hands : at'[v] <= rows' /\ (step'[v] # "idle" => at'[v] # 0)
    BY <1>1 DEF IInv, Shape, Reads, fact
  <2> QED BY <2>1, <2>2 DEF IInv, Shape, Reads, fact
<1>3. Fresh' BY <1>1 DEF IInv, Fresh, Reads, fact
<1>4. Alone' BY <1>1 DEF IInv, Alone, Reads, fact
<1>5. LossHasCause' BY DEF IInv, LossHasCause, Reads, fact
<1> QED BY <1>2, <1>3, <1>4, <1>5 DEF IInv

\* What tasks may give.
LEMMA GivenThings ==
  ASSUME plan \in Plans, NEW w \in Hands
  PROVE /\ Gives(w) \in SUBSET Things /\ "confidence" \notin Gives(w)
        /\ plan[w].kind \in {"confirm", "version"} => Gives(w) \subseteq Keys \cup {"importance"}
BY UpkeepAssumption DEF Gives

LEMMA NextIInv == IInv /\ [UpkeepNext]_upkeepVars => IInv'
<1> SUFFICES ASSUME IInv, [UpkeepNext]_upkeepVars PROVE IInv' OBVIOUS
<1> USE UpkeepAssumption
<1>1. CASE UNCHANGED upkeepVars
  BY <1>1 DEF upkeepVars, fact, task, story, IInv, Shape, Fresh, Alone, LossHasCause
<1>2. ASSUME NEW w \in Hands, Begin(w) PROVE IInv'
  <2>1. at' \in [Hands -> 0..MaxRow] /\ at'[w] \in 1..rows /\ \A v \in Hands : v # w => at'[v] = at[v]
    BY <1>2 DEF Begin, IInv, Shape
  <2>2. "begin" \in Points \ Holding BY DEF Points, Holding
  <2> QED BY <1>2, <2>1, <2>2, QuietKeeps DEF Begin, fact
<1>3. ASSUME NEW w \in Hands, step[w] # "idle", NEW p \in {"begin", "decay", "read", "done"},
             Goes(w, p), UNCHANGED <<plan, fact, at, saw, story>> PROVE IInv'
  <2>1. p \in Points \ Holding BY DEF Points, Holding
  <2>2. at' \in [Hands -> 0..MaxRow] /\ at'[w] \in 1..rows BY <1>3 DEF IInv, Shape
  <2> QED BY <1>3, <2>1, <2>2, QuietKeeps DEF fact
<1>4. ASSUME NEW w \in Hands, Edit(w) PROVE IInv'
  <2> DEFINE new == [x \in Things |-> Given(w, x)]
             row == Updated(held[at[w]], new, Gives(w))
  <2>1. at[w] \in 1..rows /\ step[w] # "commit" BY <1>4 DEF Edit, Stands, IInv, Shape
  <2>2. Gives(w) \in SUBSET Things /\ "confidence" \notin Gives(w) BY GivenThings DEF IInv, Shape
  <2>3. /\ Writes(at[w], row, Gives(w)) /\ Tells(w, new, Gives(w), {}) /\ Goes(w, "done")
        /\ UNCHANGED <<plan, rows, at, saw>>
    BY <1>4 DEF Edit
  <2>4. \A x \in Things : row[x] = IF x \in Gives(w) THEN new[x] ELSE held[at[w]][x] BY DEF Updated
  <2>5. at[w] = rows => \A x \in Things \ {} : Agree(w, row, new, Gives(w), x) BY <2>2, <2>4 DEF Agree
  <2> HIDE DEF new, row
  <2>6. \A x \in Things \ Gives(w) : row[x] = held[at[w]][x] BY <2>4
  <2> QED BY <2>1, <2>2, <2>3, <2>5, <2>6, WriteKeeps
<1>5. ASSUME NEW w \in Hands, Withdraw(w) PROVE IInv'
  <2> DEFINE new == [x \in Things |-> w]
             row == Updated(held[at[w]], new, {Reason})
  <2>1. at[w] \in 1..rows /\ step[w] # "commit" BY <1>5 DEF Withdraw, Stands, IInv, Shape
  <2>2. {Reason} \in SUBSET Things /\ Reason # "confidence" BY DEF Things, Columns
  <2>3. /\ Writes(at[w], row, {Reason}) /\ Tells(w, new, {Reason}, {}) /\ Goes(w, "done")
        /\ UNCHANGED <<plan, rows, at, saw>>
    BY <1>5 DEF Withdraw
  <2>4. \A x \in Things : row[x] = IF x = Reason THEN new[x] ELSE held[at[w]][x] BY DEF Updated
  <2>5. at[w] = rows => \A x \in Things \ {} : Agree(w, row, new, {Reason}, x) BY <2>2, <2>4 DEF Agree
  <2> HIDE DEF new, row
  <2>6. \A x \in Things \ {Reason} : row[x] = held[at[w]][x] BY <2>4
  <2> QED BY <2>1, <2>2, <2>3, <2>5, <2>6, WriteKeeps
<1>6. ASSUME NEW w \in Hands, DecayWrites(w) PROVE IInv'
  <2> DEFINE old == held[at[w]]
             Less(c) == [x \in Things |-> Lower(c)]
             down == IF old["frozen"] THEN {} ELSE {"confidence"}
             meant == IF due["frozen"] THEN {} ELSE {"confidence"}
             lost == IF old["frozen"] = due["frozen"] THEN {} ELSE {"confidence"}
             row == Updated(old, Less(old["confidence"]), down)
             new == Less(due["confidence"])
  <2>1. at[w] \in 1..rows /\ step[w] # "commit" BY <1>6 DEF DecayWrites, Stands, IInv, Shape
  <2>2. down \in SUBSET Things /\ "confidence" \in Things BY DEF Things, Columns
  <2>3. /\ Writes(at[w], row, down) /\ Tells(w, new, meant, lost) /\ Goes(w, "done")
        /\ UNCHANGED <<plan, rows, at, saw>>
    BY <1>6 DEF DecayWrites
  <2>4. \A x \in Things \ down : row[x] = old[x] BY DEF Updated
  <2>5. ASSUME at[w] = rows, NEW x \in Things \ lost PROVE Agree(w, row, new, meant, x)
    <3>1. CASE x # "confidence" BY <3>1, <2>4, <2>5 DEF Agree
    <3>2. CASE x = "confidence"
      <4>1. row[x] = IF x \in down THEN Lower(old["confidence"]) ELSE old[x] BY <2>2, <3>2 DEF Updated
      <4>2. new[x] = Lower(due["confidence"]) BY <2>2, <3>2
      <4>3. x \in down <=> x \in meant BY <2>5, <3>2
      <4> HIDE DEF row, new, down, meant, lost
      <4> QED BY <3>2, <2>5, <4>1, <4>2, <4>3 DEF Agree
    <3> QED BY <3>1, <3>2
  <2> HIDE DEF row, new, down, meant, lost
  <2> QED BY <2>1, <2>2, <2>3, <2>4, <2>5, WriteKeeps
<1>7. ASSUME NEW w \in Hands, ConfirmWrites(w) PROVE IInv'
  <2> DEFINE back == {x \in Keys \ Gives(w) : saw[w][x] # NoKey}
             Confirmed(old) == [x \in Things |-> IF x \in Gives(w) THEN w
                                                 ELSE IF x = "confidence" THEN Raise(old[x]) ELSE old[x]]
             S == Gives(w) \cup {"confidence"}
             lost == since[w] \cap (back \cup {"confidence"})
             row == Updated(held[at[w]], Confirmed(saw[w]), S \cup back)
             new == Confirmed(due)
  <2>1. at[w] \in 1..rows /\ step[w] = "write" BY <1>7 DEF ConfirmWrites, Stands, IInv, Shape
  <2>2. /\ Gives(w) \in SUBSET Things /\ "confidence" \notin Gives(w)
        /\ back \in SUBSET Things /\ "confidence" \in Things /\ "confidence" \notin back
    BY GivenThings, UpkeepAssumption DEF IInv, Shape, Things, Columns
  <2>3. /\ Writes(at[w], row, S \cup back) /\ Tells(w, new, S, lost) /\ Goes(w, "done")
        /\ UNCHANGED <<plan, rows, at, saw>>
    BY <1>7 DEF ConfirmWrites
  <2>4. \A x \in Things \ (S \cup back) : row[x] = held[at[w]][x] BY DEF Updated
  <2>5. at[w] = rows => \A x \in Things \ since[w] : saw[w][x] = held[at[w]][x]
    BY <2>1 DEF IInv, Fresh, Holding
  <2>6. ASSUME at[w] = rows, NEW x \in Things \ lost PROVE Agree(w, row, new, S, x)
    <3>1. row[x] = IF x \in S \cup back THEN Confirmed(saw[w])[x] ELSE held[at[w]][x] BY DEF Updated
    <3>2. CASE x \in Gives(w) BY <3>1, <3>2 DEF Agree
    <3>3. CASE x = "confidence" BY <2>2, <2>5, <2>6, <3>1, <3>3 DEF Agree
    <3>4. CASE x \in back BY <2>2, <2>5, <2>6, <3>1, <3>4 DEF Agree
    <3>5. CASE x \notin S \cup back BY <2>6, <3>1, <3>5 DEF Agree
    <3> QED BY <3>2, <3>3, <3>4, <3>5
  <2> DEFINE U == S \cup back
  <2>7. U \in SUBSET Things /\ Writes(at[w], row, U) /\ \A x \in Things \ U : row[x] = held[at[w]][x]
    BY <2>2, <2>3, <2>4
  <2> HIDE DEF row, new, back, S, lost, U
  <2>8. step[w] # "commit" BY <2>1
  <2> QED BY <2>1, <2>3, <2>6, <2>7, <2>8, WriteKeeps
<1>8. ASSUME NEW w \in Hands, VersionInserts(w) PROVE IInv'
  <2>1. /\ \A v \in Hands : v # w => step'[v] = step[v] /\ saw'[v] = saw[v] /\ since'[v] = since[v]
        /\ step[w] = "insert" /\ step'[w] = "close" /\ since'[w] = since[w] \ {"importance"}
        /\ saw'[w] = Updated(saw[w], held[at[w]], {"importance"})
    BY <1>8 DEF VersionInserts, IInv, Shape, Stands, Goes
  <2>2. Shape'
    <3>1. step' \in [Hands -> Points] /\ since' \in [Hands -> SUBSET Things] /\ DOMAIN saw' = Hands
      BY <1>8 DEF VersionInserts, IInv, Shape, Goes, Points
    <3>2. \A v \in Hands : at'[v] <= rows' /\ (step'[v] # "idle" => at'[v] # 0)
      BY <1>8, <2>1 DEF VersionInserts, IInv, Shape, fact
    <3> QED BY <1>8, <3>1, <3>2 DEF VersionInserts, IInv, Shape, fact
  <2>3. Fresh'
    <3>1. ASSUME at[w] = rows, NEW x \in Things \ since'[w] PROVE saw'[w][x] = held[rows][x]
      <4>1. CASE x = "importance" BY <2>1, <3>1, <4>1 DEF Updated
      <4>2. CASE x # "importance"
        <5>1. saw[w][x] = held[rows][x] BY <2>1, <3>1, <4>2 DEF IInv, Fresh, Holding
        <5> QED BY <2>1, <3>1, <4>2, <5>1 DEF Updated
      <4> QED BY <4>1, <4>2
    <3> QED BY <1>8, <2>1, <3>1 DEF VersionInserts, IInv, Fresh, fact
  <2>4. Alone' BY <1>8, <2>1 DEF VersionInserts, IInv, Alone, fact
  <2>5. LossHasCause' BY <1>8 DEF VersionInserts, IInv, LossHasCause, fact
  <2> QED BY <2>2, <2>3, <2>4, <2>5 DEF IInv
<1>9. ASSUME NEW w \in Hands, VersionCloses(w), Asserted(at[w]) PROVE IInv'
  <2>1. /\ \A v \in Hands : v # w => step'[v] = step[v]
        /\ step[w] = "close" /\ step'[w] = "commit" /\ at[w] = rows
    BY <1>9 DEF VersionCloses, IInv, Shape, Stands, Goes, Asserted
  <2>2. Shape'
    <3>1. step' \in [Hands -> Points] BY <1>9 DEF VersionCloses, IInv, Shape, Goes, Points
    <3>2. \A v \in Hands : at'[v] <= rows' /\ (step'[v] # "idle" => at'[v] # 0)
      BY <1>9, <2>1 DEF VersionCloses, IInv, Shape, fact
    <3> QED BY <1>9, <3>1, <3>2 DEF VersionCloses, IInv, Shape, fact, story
  <2>3. Fresh' BY <1>9, <2>1 DEF VersionCloses, IInv, Fresh, Holding, fact, story
  <2>4. \A v \in Hands : step[v] # "commit"
    BY <1>9, <2>1 DEF VersionCloses, Locked, Stands, IInv, Alone
  <2>5. Alone' BY <1>9, <2>1, <2>4 DEF VersionCloses, Alone, fact
  <2>6. LossHasCause' BY <1>9 DEF VersionCloses, IInv, LossHasCause, fact, story
  <2> QED BY <2>2, <2>3, <2>5, <2>6 DEF IInv
<1>10. ASSUME NEW w \in Hands, VersionCommits(w) PROVE IInv'
  <2> DEFINE S == Gives(w) \cup {"confidence", "frozen"}
             lost == since[w] \ (Gives(w) \cup {"frozen"})
             new == Inherited(w, due)
  <2>1. /\ step[w] = "commit" /\ at[w] = rows /\ rows' = rows + 1 /\ rows' \in 1..MaxRow
        /\ \A v \in Hands : step[v] = "commit" => v = w
    BY <1>10 DEF VersionCommits, Stands, IInv, Shape, Alone
  <2>2. /\ \A v \in Hands : v # w => step'[v] = step[v]
        /\ step'[w] = "done" /\ held'[rows'] = Inherited(w, saw[w])
    BY <1>10, <2>1 DEF VersionCommits, IInv, Shape, Goes
  <2>3. Shape'
    <3>1. step' \in [Hands -> Points] BY <1>10 DEF VersionCommits, IInv, Shape, Goes, Points
    <3>2. \A v \in Hands : at'[v] <= rows' /\ (step'[v] # "idle" => at'[v] # 0)
      BY <1>10, <2>1, <2>2 DEF VersionCommits, IInv, Shape
    <3>3. DOMAIN held' = 1..MaxRow /\ did' \in [Hands -> BOOLEAN]
      BY <1>10 DEF VersionCommits, Tells, IInv, Shape
    <3> QED BY <1>10, <2>1, <3>1, <3>2, <3>3 DEF VersionCommits, IInv, Shape
  <2>4. Fresh'
    <3>1. \A v \in Hands : at'[v] # rows' BY <1>10, <2>1 DEF VersionCommits, IInv, Shape
    <3> QED BY <3>1 DEF Fresh
  <2>5. Alone' BY <2>1, <2>2 DEF Alone
  <2>6. LossHasCause'
    <3> SUFFICES ASSUME NEW x \in Things, x \notin excused' PROVE held'[rows'][x] = due'[x]
      BY DEF LossHasCause
    <3>1. Tells(w, new, S, lost) BY <1>10 DEF VersionCommits
    <3>2. due'[x] = IF x \in S /\ ~did[w] THEN new[x] ELSE due[x] BY <3>1 DEF Tells
    <3>3. x \notin lost /\ (did[w] => x \notin S) /\ (x \notin S \ {"confidence"} => x \notin excused)
      BY <2>1, <3>1 DEF Tells
    <3>4. x \in Gives(w) \/ x = "frozen" \/ saw[w][x] = held[rows][x]
      BY <2>1, <3>3 DEF IInv, Fresh, Holding
    <3>5. x \notin S \ {"confidence"} => held[rows][x] = due[x] BY <3>3 DEF IInv, LossHasCause
    <3>6. /\ held'[rows'][x] = Inherited(w, saw[w])[x]
          /\ "frozen" # "confidence" /\ "confidence" \notin Gives(w)
      BY <2>2, GivenThings DEF IInv, Shape
    <3>7. CASE x \in Gives(w) BY <3>2, <3>3, <3>6, <3>7 DEF Inherited
    <3>8. CASE x = "frozen" /\ x \notin Gives(w) BY <3>2, <3>3, <3>6, <3>8 DEF Inherited
    <3>9. CASE x = "confidence" BY <3>2, <3>3, <3>4, <3>5, <3>6, <3>9 DEF Inherited
    <3>10. CASE x \notin S BY <3>2, <3>3, <3>4, <3>5, <3>6, <3>10 DEF Inherited
    <3> QED BY <3>7, <3>8, <3>9, <3>10
  <2> QED BY <2>3, <2>4, <2>5, <2>6 DEF IInv
<1>11. ASSUME NEW w \in Hands, DecaySees(w) PROVE IInv'
  <2>1. /\ at' \in [Hands -> 0..MaxRow] /\ at'[w] \in 1..rows /\ \A v \in Hands : v # w => at'[v] = at[v]
        /\ "decay" \in Points \ Holding
    BY <1>11 DEF DecaySees, IInv, Shape, Points, Holding
  <2> QED BY <1>11, <2>1, QuietKeeps DEF DecaySees, fact
<1>12. ASSUME NEW w \in Hands, ConfirmReads(w) \/ VersionReads(w) PROVE IInv'
  <2>1. step[w] # "idle" /\ \E p \in {"write", "insert"} : Reads(w, p)
    BY <1>12 DEF ConfirmReads, VersionReads, Stands
  <2> QED BY <2>1, ReadKeeps
<1>13. ASSUME NEW w \in Hands,
              \/ WithdrawLate(w) \/ DecayNothing(w) \/ ConfirmFinds(w) \/ ConfirmGone(w) \/ VersionLate(w)
              \/ (VersionCloses(w) /\ ~Asserted(at[w])) \/ Lost(w)
       PROVE IInv'
  <2>1. /\ step[w] # "idle" /\ UNCHANGED <<plan, fact, at, saw, story>>
        /\ \E p \in {"begin", "decay", "read", "done"} : Goes(w, p)
    BY <1>13 DEF WithdrawLate, DecayNothing, ConfirmFinds, ConfirmGone, VersionLate, VersionCloses, Lost, Ends, Stands
  <2> QED BY <1>3, <2>1
<1> QED
  BY <1>1, <1>2, <1>4, <1>5, <1>6, <1>7, <1>8, <1>9, <1>10, <1>11, <1>12, <1>13
  DEF UpkeepNext, Confirm, Revise, Decay

\* Whatever was told about a fact beside its content is what its last row says,
\* or its loss is excused: write-backs of what was read before
\* (_confirm_existing, create_version), rows that had an heir by then, tasks
\* that repeat themselves.
THEOREM LossIsExcused == UpkeepSpec => []LossHasCause
<1>1. IInv => LossHasCause BY DEF IInv
<1> QED BY InitIInv, NextIInv, <1>1, PTL DEF UpkeepSpec

-----------------------------------------------------------------------------
(* The composition.                                                        *)

\* What holds of the edges and of the upkeep alone holds of them in the heritage,
\* where one of them moves at a time.
THEOREM HeritageCovers == HeritageSpec => Spec /\ UpkeepSpec
<1>1. HeritageInit => Init /\ UpkeepInit
  BY DEF HeritageInit
<1>2. [HeritageNext]_heritageVars => [Next]_vars /\ [UpkeepNext]_upkeepVars
  BY DEF HeritageNext, heritageVars
<1> QED
  BY <1>1, <1>2, PTL DEF HeritageSpec, Spec, UpkeepSpec
=============================================================================
