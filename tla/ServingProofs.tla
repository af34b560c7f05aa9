---------------------------- MODULE ServingProofs ----------------------------
(***************************************************************************)
(* What the parts that answer callers keep for any number of tasks,        *)
(* workers, visitors, slugs, processes and granules.                       *)
(*                                                                         *)
(* The bridge: no task is lost, and no wake-up without a cause.  The body  *)
(* of a task matters to it only where it ends (Leaves), so each step of a  *)
(* batch is a step of the bridge or none.                                  *)
(*                                                                         *)
(* The batch: what is told as stored is stored.  Before the insert every   *)
(* entry is decided well (AllDecided); the insert gives every new entry a  *)
(* row of its own (NewRows) and every repetition the row of its original   *)
(* (Results); rows are only added, so what was right stays right.          *)
(*                                                                         *)
(* The registry: a repository is not taken silently, a process does not    *)
(* resolve a slug to what it has overwritten, and processes agree on the   *)
(* ids of namespaces; a reader of hashes misses only what a slow statement *)
(* wrote and what it was led past between two pages.                       *)
(*                                                                         *)
(* The search: whatever it reads late, what is served as current was not   *)
(* closed before the request began.                                        *)
(*                                                                         *)
(* The process: only the innermost getter of a coroutine is inside a lock, *)
(* and who holds a lock is inside it; so locks are never nested, and what  *)
(* is looked at again behind a lock is made once.                          *)
(*                                                                         *)
(* The composition (Serving) is at any time a behaviour of its parts.      *)
(***************************************************************************)
EXTENDS Serving, Search, FiniteSetTheorems, SequenceTheorems, WellFoundedInduction, TLAPS

\* The body of a task has ended, well or not
Leaves(w) ==
  /\ at[w] = "body" /\ at' = Step(at, w, "store")
  /\ \E o \in Outcomes : outcome' = Step(outcome, w, o)
  /\ UNCHANGED <<clientVars, queue, task, waiters, backend, event, cause>>

\* The client's side of the bridge, and the worker's
ClientSteps(t) == Send(t) \/ Client(t) \/ BlpopFails(t) \/ EventExpires(t)
Works(w) == \/ \E t \in Tasks : Take(w, t)
            \/ Leaves(w) \/ StoreResult(w) \/ Notify(w) \/ NobodyWaits(w) \/ Ack(w)
            \/ Lost(w) \/ HardLimit(w)
BridgeStep == (\E t \in Tasks : ClientSteps(t)) \/ \E w \in Workers : Works(w)

Typed == /\ patient \subseteq Tasks
         /\ wait \in [Tasks -> Waits] /\ queue \subseteq Tasks
         /\ at \in [Workers -> Stages] /\ task \in [Workers -> Tasks \cup {NoTask}]
         /\ waiters \in [Workers -> SUBSET Tasks] /\ outcome \in [Workers -> Outcomes]
         /\ backend \in [Tasks -> Outcomes \cup {"pending"}] /\ event \in [Tasks -> Nat]

\* Who is at work has a task, and what is about to be announced is stored
AtWork == \A w \in Workers : at[w] # "free" => task[w] \in Tasks
Stored == \A w \in Workers : at[w] \in {"notify", "ack"} => Ready(task[w])
\* Who waits has asked to be woken, and a worker knows it until it has pushed the event
HasAsked == \A t \in Tasks : wait[t] = "block" \/ wait[t] = "look" => t \in patient
Known == \A w \in Workers : at[w] \in {"body", "store", "notify"} /\ task[w] \in patient
                              => task[w] \in waiters[w]

BridgeInv == Typed /\ AtWork /\ Stored /\ HasAsked /\ Known /\ TaskKept /\ LostWakeupHasCause

-----------------------------------------------------------------------------
\* The way of a batch is a way over the bridge
LEMMA BatchSteps == [BatchNext]_batchVars => BridgeStep \/ UNCHANGED bridgeVars
<1> SUFFICES ASSUME BatchNext PROVE BridgeStep \/ UNCHANGED bridgeVars
  BY DEF batchVars
<1>1. ASSUME NEW w \in Workers, Begin(w) PROVE BridgeStep
  BY <1>1 DEF Begin, BridgeStep, Works
<1>2. ASSUME NEW w \in Workers, CheckExactly(w) \/ SearchSimilar(w) \/ Register(w) \/ InsertBatch(w)
      PROVE  UNCHANGED bridgeVars
  BY <1>2 DEF CheckExactly, SearchSimilar, Register, InsertBatch, MoveOn
<1>3. ASSUME NEW w \in Workers, Raises(w) \/ RaisesLate(w) \/ Returns(w) PROVE BridgeStep
  <2>1. Leaves(w)
    BY <1>3 DEF Raises, RaisesLate, Returns, BodyEnds, Working, Step, Leaves, Outcomes, clientVars
  <2> QED
    BY <2>1 DEF BridgeStep, Works
<1>4. ASSUME NEW w \in Workers, Store(w) \/ Forgotten(w) PROVE BridgeStep
  BY <1>4 DEF Store, Forgotten, BridgeStep, Works
<1>5. ASSUME NEW w \in Workers, Notify(w) \/ NobodyWaits(w) \/ Ack(w) PROVE BridgeStep
  BY <1>5 DEF BridgeStep, Works
<1>6. ASSUME NEW t \in Tasks, Send(t) \/ Client(t) \/ BlpopFails(t) \/ EventExpires(t) PROVE BridgeStep
  BY <1>6 DEF BridgeStep, ClientSteps
<1> QED
  BY <1>1, <1>2, <1>3, <1>4, <1>5, <1>6 DEF BatchNext, Body

LEMMA InitBridge == BridgeInit => BridgeInv
BY DEF BridgeInit, BridgeInv, Typed, AtWork, Stored, HasAsked, Known, TaskKept, LostWakeupHasCause,
       Waits, Stages, Outcomes, Carrying

LEMMA NextBridge == BridgeInv /\ (BridgeStep \/ UNCHANGED bridgeVars) => BridgeInv'
<1> SUFFICES ASSUME BridgeInv, BridgeStep \/ UNCHANGED bridgeVars PROVE BridgeInv'
  OBVIOUS
<1> USE DEF BridgeInv, Typed, AtWork, Stored, HasAsked, Known, TaskKept, LostWakeupHasCause, Carrying,
            Ready, Step, clientVars, workerVars, Waits, Stages, Outcomes
<1>1. ASSUME NEW t \in Tasks, Send(t) PROVE BridgeInv'
  BY <1>1 DEF Send, Fault, Over
<1>2. ASSUME NEW t \in Tasks, CheckReady(t) PROVE BridgeInv'
  BY <1>2 DEF CheckReady, Fault, Over
<1>3. ASSUME NEW t \in Tasks, LastLook(t) PROVE BridgeInv'
  BY <1>3 DEF LastLook, Fault, Over
<1>4. ASSUME NEW t \in Tasks, Woken(t) PROVE BridgeInv'
  BY <1>4 DEF Woken, Fault, Over
<1>5. ASSUME NEW t \in Tasks, ChunkEnds(t) PROVE BridgeInv'
  BY <1>5 DEF ChunkEnds, Fault, Over
<1>6. ASSUME NEW t \in Tasks, BlpopFails(t) PROVE BridgeInv'
  BY <1>6 DEF BlpopFails, Fault, Over
<1>7. ASSUME NEW t \in Tasks, EventExpires(t) PROVE BridgeInv'
  BY <1>7 DEF EventExpires, Fault, Over
<1>8. ASSUME NEW w \in Workers, NEW t \in Tasks, Take(w, t) PROVE BridgeInv'
  BY <1>8 DEF Take
<1>9. ASSUME NEW w \in Workers, Leaves(w) PROVE BridgeInv'
  BY <1>9 DEF Leaves, Fault, Gone
<1>10. ASSUME NEW w \in Workers, StoreResult(w) PROVE BridgeInv'
  BY <1>10 DEF StoreResult, Fault, Gone
<1>11. ASSUME NEW w \in Workers, Notify(w) PROVE BridgeInv'
  BY <1>11 DEF Notify, Fault, Gone
<1>12. ASSUME NEW w \in Workers, NobodyWaits(w) PROVE BridgeInv'
  BY <1>12 DEF NobodyWaits, Fault, Gone
<1>13. ASSUME NEW w \in Workers, Ack(w) PROVE BridgeInv'
  BY <1>13 DEF Ack, Fault, Gone
<1>14. ASSUME NEW w \in Workers, Lost(w) PROVE BridgeInv'
  BY <1>14 DEF Lost, Fault, Gone
<1>15. ASSUME NEW w \in Workers, HardLimit(w) PROVE BridgeInv'
  BY <1>15 DEF HardLimit, Fault, Gone
<1>16. ASSUME UNCHANGED bridgeVars PROVE BridgeInv'
  BY <1>16 DEF bridgeVars
<1> QED
  BY <1>1, <1>2, <1>3, <1>4, <1>5, <1>6, <1>7, <1>8, <1>9, <1>10, <1>11, <1>12, <1>13, <1>14, <1>15, <1>16 DEF BridgeStep, ClientSteps, Works, Client

-----------------------------------------------------------------------------
\* Domains, the task of whoever is at work, the stored answer, the asking before the
\* waiting: together with the two properties they are kept by every step of every batch
THEOREM BridgeInvariance == BatchSpec => []BridgeInv
<1>1. BatchSpec => BridgeInit /\ [][BatchNext]_batchVars
  BY DEF BatchSpec
<1>2. BridgeInv /\ [BatchNext]_batchVars => BridgeInv'
  BY BatchSteps, NextBridge
<1> QED
  BY <1>1, <1>2, InitBridge, PTL

\* A task that was sent and has no answer yet is in the queue or with a worker: neither
\* a lost worker nor a hard limit drops it (acks_late, reject_on_worker_lost).
THEOREM TasksKept == BatchSpec => []TaskKept
<1>1. BridgeInv => TaskKept
  BY DEF BridgeInv
<1> QED
  BY <1>1, BridgeInvariance, PTL

\* A caller still waits for a finished task whose event was never pushed only because a
\* fault came between, or the announcement is on its way (notify_waiters, wait_for_task).
THEOREM WakeupsKept == BatchSpec => []LostWakeupHasCause
<1>1. BridgeInv => LostWakeupHasCause
  BY DEF BridgeInv
<1> QED
  BY <1>1, BridgeInvariance, PTL

-----------------------------------------------------------------------------
(* Lists and ranks.                                                        *)

\* The rows of s begin with the rows of r
Extends(r, s) == DOMAIN r \subseteq DOMAIN s /\ \A k \in DOMAIN r : s[k] = r[k]

\* What lists its entries by place is a sequence
LEMMA FunctionsAreSeq ==
  ASSUME NEW n \in Nat, NEW S, NEW x \in [1..n -> S]
  PROVE  x \in Seq(S)
BY SeqDef

LEMMA Joined ==
  ASSUME NEW r, r \in Seq(Listed(r)), NEW x, x \in Seq(Listed(x))
  PROVE  /\ r \o x \in Seq(Listed(r \o x)) /\ Extends(r, r \o x)
         /\ \A k \in 1..Len(x) : Len(r) + k \in DOMAIN (r \o x) \ {0} /\ (r \o x)[Len(r) + k] = x[k]
<1> DEFINE S == Listed(r) \cup Listed(x)
           s == r \o x
<1>1. r \in Seq(S) /\ x \in Seq(S)
  BY SeqMonotonic
<1> HIDE DEF S
<1>2. /\ Len(r) \in Nat /\ DOMAIN r = 1..Len(r) /\ Len(x) \in Nat
  BY <1>1, LenProperties
<1>3. /\ s \in Seq(S) /\ Len(s) = Len(r) + Len(x)
      /\ \A i \in 1..Len(r) + Len(x) : s[i] = IF i <= Len(r) THEN r[i] ELSE x[i - Len(r)]
  BY <1>1, ConcatProperties
<1> HIDE DEF s
<1>4. s \in [1..Len(s) -> S] /\ DOMAIN s = 1..Len(s) /\ Len(s) \in Nat
  BY <1>3, LenProperties
<1>5. s \in Seq(Listed(s))
  <2>1. s \in [1..Len(s) -> Listed(s)]
    BY <1>4 DEF Listed
  <2> QED
    BY <1>4, <2>1, FunctionsAreSeq
<1>6. Extends(r, s)
  BY <1>2, <1>3, <1>4 DEF Extends
<1>7. ASSUME NEW k \in 1..Len(x) PROVE Len(r) + k \in DOMAIN s \ {0} /\ s[Len(r) + k] = x[k]
  <2>1. Len(r) + k \in 1..Len(s) /\ ~(Len(r) + k <= Len(r)) /\ (Len(r) + k) - Len(r) = k /\ Len(r) + k # 0
    BY <1>2, <1>3
  <2> QED
    BY <1>3, <1>4, <2>1
<1> QED
  BY <1>5, <1>6, <1>7 DEF s

\* A set of numbers has a least one, and one within bounds a greatest
LEMMA LeastOf ==
  ASSUME NEW S \in SUBSET Nat, S # {}
  PROVE  \E j \in S : \A k \in S : j <= k
<1> DEFINE Less == {p \in Nat \X Nat : p[1] < p[2]}
<1>1. IsWellFoundedOn(Less, Nat)
  BY NatLessThanWellFounded DEF OpToRel
<1>2. PICK j \in S : \A k \in S : ~(<<k, j>> \in Less)
  <2> HIDE DEF Less
  <2> QED
    BY <1>1, WFMin
<1>3. ASSUME NEW k \in S, ~(j <= k) PROVE FALSE
  <2>1. <<k, j>> \in Nat \X Nat /\ <<k, j>>[1] < <<k, j>>[2]
    BY <1>3
  <2> QED
    BY <1>2, <2>1
<1> QED
  BY <1>3

LEMMA RanksApart ==
  ASSUME NEW n \in Nat, NEW S \in SUBSET (1..n)
  PROVE  /\ Cardinality(S) \in Nat
         /\ \A i \in S : Rank(S, i) \in 1..Cardinality(S)
         /\ \A i, j \in S : Rank(S, i) = Rank(S, j) => i = j
<1> DEFINE Upto(i) == {j \in S : j <= i}
<1>1. IsFiniteSet(S)
  <2>1. IsFiniteSet(1..n)
    BY FS_Interval
  <2> QED
    BY <2>1, FS_Subset
<1>2. ASSUME NEW i \in S
      PROVE  /\ Upto(i) \in SUBSET S /\ IsFiniteSet(Upto(i)) /\ Cardinality(Upto(i)) <= Cardinality(S)
             /\ Cardinality(Upto(i)) \in Nat \ {0}
  <2>1. Upto(i) \in SUBSET S /\ i \in Upto(i)
    OBVIOUS
  <2> HIDE DEF Upto
  <2>2. IsFiniteSet(Upto(i)) /\ Cardinality(Upto(i)) <= Cardinality(S)
    BY <1>1, <2>1, FS_Subset
  <2>3. Cardinality(Upto(i)) \in Nat
    BY <2>2, FS_CardinalityType
  <2>4. Cardinality(Upto(i)) # 0
    BY <2>1, <2>2, FS_EmptySet, Zenon
  <2> QED
    BY <2>1, <2>2, <2>3, <2>4
<1>3. ASSUME NEW i \in S, NEW j \in S, i < j PROVE Cardinality(Upto(i)) # Cardinality(Upto(j))
  <2>0. \A k \in S : k \in Nat
    OBVIOUS
  <2>1. \A k \in S : k <= i => k <= j
    BY <1>3, <2>0
  <2>2. j <= j /\ ~(j <= i)
    BY <1>3, <2>0
  <2>3. Upto(i) \in SUBSET Upto(j) /\ j \in Upto(j) /\ j \notin Upto(i)
    BY <2>1, <2>2
  <2> HIDE DEF Upto
  <2>4. Cardinality(Upto(j)) = Cardinality(Upto(i)) => Upto(j) = Upto(i)
    BY <1>2, <2>3, FS_Subset
  <2> QED
    BY <2>3, <2>4, Zenon
<1>4. Cardinality(S) \in Nat
  BY <1>1, FS_CardinalityType
<1>5. \A i \in S : Rank(S, i) = Cardinality(Upto(i))
  BY DEF Rank
<1> HIDE DEF Upto
<1>6. \A i, j \in S : i # j => i < j \/ j < i
  OBVIOUS
<1>7. \A i \in S : Rank(S, i) \in 1..Cardinality(S)
  BY <1>2, <1>4, <1>5
<1> QED
  BY <1>3, <1>4, <1>5, <1>6, <1>7

LEMMA GreatestOf ==
  ASSUME NEW n \in Nat, NEW S \in SUBSET (1..n), S # {}
  PROVE  \E j \in S : \A k \in S : k <= j
<1> DEFINE T == {n - k : k \in S}
<1>1. \A k \in S : k \in 1..n /\ n - k \in Nat
  OBVIOUS
<1>2. T \in SUBSET Nat /\ T # {}
  BY <1>1, Zenon
<1>3. PICK m \in T : \A x \in T : m <= x
  <2> HIDE DEF T
  <2> QED
    BY <1>2, LeastOf
<1>4. PICK j \in S : m = n - j
  BY <1>3
<1>5. \A k \in S : n - j <= n - k
  BY <1>3, <1>4
<1>6. \A k \in S : k <= j
  BY <1>1, <1>4, <1>5
<1> QED
  BY <1>4, <1>6

-----------------------------------------------------------------------------
(* What a batch is told.                                                   *)

\* A row that came is never missed
LEMMA RowsStay ==
  ASSUME NEW r, NEW s, Extends(r, s)
  PROVE  /\ \A e : LikeIn(r, e) \subseteq LikeIn(s, e)
         /\ \A es, p : Settled(r, es, p) => Settled(s, es, p)
         /\ \A es, i, d, g : DecidedWell(r, es, i, d, g) => DecidedWell(s, es, i, d, g)
<1>1. \A e : LikeIn(r, e) \subseteq LikeIn(s, e)
  BY DEF LikeIn, Extends
<1>2. \A e, d : Names(r, e, d) => Names(s, e, d)
  BY <1>1 DEF Names
<1>3. ASSUME NEW es, NEW p, Settled(r, es, p) PROVE Settled(s, es, p)
  <2>1. \A i : ResultIsRight(r, es, p, i) => ResultIsRight(s, es, p, i)
    BY <1>2 DEF ResultIsRight
  <2> QED
    BY <1>1, <1>3, <2>1, Zenon DEF Settled
<1>4. ASSUME NEW es, NEW i, NEW d, NEW g, DecidedWell(r, es, i, d, g) PROVE DecidedWell(s, es, i, d, g)
  BY <1>2, <1>4 DEF DecidedWell
<1> QED
  BY <1>1, <1>3, <1>4

\* What a repetition repeats first
LEMMA Original ==
  ASSUME NEW es, es \in Seq(Listed(es)), NEW i \in DOMAIN es, Repeated(es, i)
  PROVE  \E j \in 1..(i - 1) : j \in DOMAIN es /\ SameKey(es[j], es[i]) /\ ~Repeated(es, j)
<1>1. DOMAIN es = 1..Len(es) /\ Len(es) \in Nat
  BY LenProperties
<1> DEFINE S == {j \in 1..(i - 1) : SameKey(es[j], es[i])}
<1>2. S \in SUBSET Nat /\ S # {}
  BY <1>1 DEF Repeated
<1>3. PICK j \in S : \A k \in S : j <= k
  <2> HIDE DEF S
  <2> QED
    BY <1>2, LeastOf
<1>4. ASSUME NEW k \in 1..(j - 1), SameKey(es[k], es[j]) PROVE FALSE
  <2>1. k \in S
    BY <1>1, <1>3, <1>4 DEF SameKey
  <2> QED
    BY <1>1, <1>3, <2>1
<1>5. j \in 1..(i - 1) /\ j \in DOMAIN es /\ SameKey(es[j], es[i])
  BY <1>1, <1>3
<1> QED
  BY <1>4, <1>5 DEF Repeated

\* All of it is decided well, and one kind of the two as the setting is
AllDecided(r, es, p, g) ==
  \A k \in DOMAIN es : /\ DecidedWell(r, es, k, p[k], g)
                       /\ p[k].what # (IF dedup = "on" THEN "plain" ELSE "repeat")

\* What is decided about a batch before its insert: every repetition is of an entry
\* that is inserted or has a row
LEMMA Originals ==
  ASSUME NEW r, NEW es, es \in Seq(Listed(es)), NEW p, NEW g, g # "search",
         AllDecided(r, es, p, g),
         NEW i \in DOMAIN es, p[i].what = "repeat", Valid(es[i])
  PROVE  \E j \in 1..(i - 1) : /\ j \in DOMAIN es /\ SameKey(es[j], es[i]) /\ ~Repeated(es, j)
                               /\ p[j].what \in {"insert", "skip"}
<1>1. Repeated(es, i)
  BY DEF AllDecided, DecidedWell
<1>2. PICK j \in 1..(i - 1) : j \in DOMAIN es /\ SameKey(es[j], es[i]) /\ ~Repeated(es, j)
  BY <1>1, Original
<1>3. Valid(es[j])
  BY <1>2 DEF SameKey, Valid
<1>4. p[j].what \in {"insert", "skip"}
  BY <1>2, <1>3 DEF AllDecided, DecidedWell
<1> QED
  BY <1>2, <1>4

\* The results: a new entry names its row, a repetition the row of what it repeats
Told(s, es, p, q) ==
  /\ DOMAIN q = DOMAIN es
  /\ \A k \in DOMAIN es : /\ p[k].what \in {"insert", "plain"} => Names(s, es[k], q[k])
                          /\ p[k].what \in {"skip", "invalid"} => q[k] = p[k]
  /\ \A k \in DOMAIN es : p[k].what = "repeat" =>
       \/ \A j \in DOMAIN es : SameKey(es[j], es[k]) => p[j].what # "insert"
       \/ Names(s, es[k], q[k])
       \/ \E j \in DOMAIN es : es[j].content = es[k].content /\ es[j].space # es[k].space

LEMMA Results ==
  ASSUME NEW r, NEW s, Extends(r, s), NEW es, es \in Seq(Listed(es)), NEW p, NEW q, NEW g, g # "search",
         AllDecided(r, es, p, g), Told(s, es, p, q)
  PROVE  Settled(s, es, q)
<1> USE DEF Told
<1>0. \A i \in DOMAIN es : p[i].what = "repeat" /\ Valid(es[i]) =>
        \E j \in 1..(i - 1) : /\ j \in DOMAIN es /\ SameKey(es[j], es[i]) /\ ~Repeated(es, j)
                              /\ p[j].what \in {"insert", "skip"}
  BY Originals, Zenon
<1>1. \A e, d : Names(s, e, d) => LikeIn(s, e) # {}
  BY DEF Names
<1>2. ASSUME NEW i \in DOMAIN es, Valid(es[i]), p[i].what # "repeat" PROVE Names(s, es[i], q[i])
  <2>1. CASE p[i].what = "skip"
    <3>1. Names(r, es[i], p[i]) /\ q[i] = p[i]
      BY <2>1 DEF AllDecided, DecidedWell
    <3> QED
      BY <3>1, RowsStay DEF Names
  <2>2. p[i].what \in {"insert", "plain", "skip"}
    BY <1>2 DEF AllDecided, DecidedWell
  <2>3. CASE p[i].what \in {"insert", "plain"}
    BY <1>2, <2>3, Zenon
  <2> QED
    BY <2>1, <2>2, <2>3
<1>3. ASSUME NEW i \in DOMAIN es, Valid(es[i]), p[i].what = "repeat"
      PROVE  LikeIn(s, es[i]) # {} /\ ResultIsRight(s, es, q, i)
  <2>1. PICK j \in 1..(i - 1) : /\ j \in DOMAIN es /\ SameKey(es[j], es[i]) /\ ~Repeated(es, j)
                                /\ p[j].what \in {"insert", "skip"}
    BY <1>0, <1>3
  <2>2. Valid(es[j])
    BY <1>3, <2>1 DEF SameKey, Valid
  <2>3. LikeIn(s, es[j]) # {}
    BY <1>1, <1>2, <2>1, <2>2
  <2>4. LikeIn(s, es[i]) # {}
    BY <2>1, <2>3 DEF LikeIn, SameKey
  <2>5. CASE p[j].what = "skip"
    <3>1. q[j].what = "skip"
      BY <2>1, <2>5
    <3> QED
      BY <2>1, <2>4, <3>1 DEF ResultIsRight
  <2>6. CASE p[j].what = "insert"
    <3>1. \/ Names(s, es[i], q[i])
          \/ \E k \in DOMAIN es : es[k].content = es[i].content /\ es[k].space # es[i].space
      BY <1>3, <2>1, <2>6
    <3>2. Repeated(es, i)
      BY <1>3 DEF AllDecided, DecidedWell
    <3> QED
      BY <2>4, <3>1, <3>2 DEF ResultIsRight
  <2> QED
    BY <2>1, <2>5, <2>6
<1>4. ASSUME NEW i \in DOMAIN es, ~Valid(es[i]) PROVE ResultIsRight(s, es, q, i)
  BY <1>4 DEF ResultIsRight
<1>5. \A i \in DOMAIN es : /\ Valid(es[i]) => LikeIn(s, es[i]) # {}
                           /\ ResultIsRight(s, es, q, i)
  BY <1>1, <1>2, <1>3, <1>4 DEF ResultIsRight
<1> QED
  BY <1>5 DEF Settled

\* The insert: every new entry has its own row, below those that were there
LEMMA NewRows ==
  ASSUME NEW w, Entries(w) \in Seq(Listed(Entries(w))), DOMAIN plan[w] = DOMAIN Entries(w),
         rows \in Seq(Listed(rows)), NEW s, s = rows \o Inserted(w)
  PROVE  /\ s \in Seq(Listed(s)) /\ Extends(rows, s)
         /\ \A i \in NewEntries(w) : /\ RowOf(w, i) \in DOMAIN s \ {0}
                                     /\ s[RowOf(w, i)].space = Entries(w)[i].space
                                     /\ s[RowOf(w, i)].content = Entries(w)[i].content
<1> DEFINE S == NewEntries(w)
           x == Inserted(w)
           n == Cardinality(S)
<1>1. S \in SUBSET (1..Len(Entries(w))) /\ Len(Entries(w)) \in Nat
  <2>1. DOMAIN Entries(w) = 1..Len(Entries(w)) /\ Len(Entries(w)) \in Nat
    BY LenProperties
  <2> QED
    BY <2>1 DEF NewEntries
<1>2. /\ n \in Nat
      /\ \A i \in S : Rank(S, i) \in 1..n
      /\ \A i, j \in S : Rank(S, i) = Rank(S, j) => i = j
  <2> HIDE DEF S
  <2> QED
    BY <1>1, RanksApart
<1>3. x = [k \in 1..n |-> x[k]] /\ DOMAIN x = 1..n
  BY DEF Inserted
<1>4. ASSUME NEW i \in S
      PROVE  x[Rank(S, i)].space = Entries(w)[i].space /\ x[Rank(S, i)].content = Entries(w)[i].content
  <2>1. (CHOOSE j \in S : Rank(S, j) = Rank(S, i)) = i
    <3> HIDE DEF S
    <3> QED
      BY <1>2
  <2> QED
    BY <1>2, <2>1 DEF Inserted
<1> HIDE DEF S, x, n
<1>5. x \in Seq(Listed(x)) /\ Len(x) = n
  <2>1. x \in [1..n -> Listed(x)]
    BY <1>3 DEF Listed
  <2>2. x \in Seq(Listed(x))
    BY <1>2, <2>1, FunctionsAreSeq
  <2> QED
    BY <1>2, <1>3, <2>2, LenProperties
<1>6. /\ s \in Seq(Listed(s)) /\ Extends(rows, s)
      /\ \A k \in 1..n : Len(rows) + k \in DOMAIN s \ {0} /\ s[Len(rows) + k] = x[k]
  <2>1. s = rows \o x
    BY DEF x
  <2>2. /\ s \in Seq(Listed(s)) /\ Extends(rows, s)
        /\ \A k \in 1..Len(x) : Len(rows) + k \in DOMAIN s \ {0} /\ s[Len(rows) + k] = x[k]
    BY <1>5, <2>1, Joined
  <2> QED
    BY <1>5, <2>2
<1>7. ASSUME NEW i \in S
      PROVE  /\ RowOf(w, i) \in DOMAIN s \ {0}
             /\ s[RowOf(w, i)].space = Entries(w)[i].space
             /\ s[RowOf(w, i)].content = Entries(w)[i].content
  <2>1. RowOf(w, i) = Len(rows) + Rank(S, i) /\ Rank(S, i) \in 1..n
    BY <1>2 DEF RowOf, S
  <2> QED
    BY <1>4, <1>6, <2>1
<1> QED
  BY <1>6, <1>7 DEF S

\* What an insert tells its batch
LEMMA InsertSettles ==
  ASSUME NEW w, Entries(w) \in Seq(Listed(Entries(w))), DOMAIN plan[w] = DOMAIN Entries(w),
         rows \in Seq(Listed(rows)), NEW s, s = rows \o Inserted(w),
         AllDecided(rows, Entries(w), plan[w], "insert"),
         NEW q, q = [i \in DOMAIN plan[w] |->
                CASE plan[w][i].what \in {"insert", "plain"} -> Doing("insert", RowOf(w, i))
                  [] plan[w][i].what = "repeat" -> Doing("skip", LinkRepeat(w, i))
                  [] OTHER -> plan[w][i]]
  PROVE  Settled(s, Entries(w), q)
<1> DEFINE es == Entries(w)
           p == plan[w]
<1>1. /\ Extends(rows, s)
      /\ \A i \in NewEntries(w) : /\ RowOf(w, i) \in DOMAIN s \ {0}
                                  /\ s[RowOf(w, i)].space = es[i].space
                                  /\ s[RowOf(w, i)].content = es[i].content
  BY NewRows
<1>2. ASSUME NEW i \in DOMAIN es, p[i].what \in {"insert", "plain"} PROVE Names(s, es[i], q[i])
  <2>1. i \in NewEntries(w)
    BY <1>2 DEF NewEntries
  <2>2. q[i].id = RowOf(w, i)
    BY <1>2 DEF Doing
  <2> QED
    BY <1>1, <2>1, <2>2 DEF Names, LikeIn, Alike
<1>3. ASSUME NEW i \in DOMAIN es, p[i].what = "repeat"
      PROVE  \/ \A j \in DOMAIN es : SameKey(es[j], es[i]) => p[j].what # "insert"
             \/ Names(s, es[i], q[i])
             \/ \E j \in DOMAIN es : es[j].content = es[i].content /\ es[j].space # es[i].space
  <2> DEFINE same == {j \in NewEntries(w) : p[j].what = "insert" /\ es[j].content = es[i].content}
  <2>1. CASE same = {}
    BY <2>1 DEF NewEntries, SameKey
  <2>2. CASE same # {}
    <3> DEFINE l == CHOOSE j \in same : \A k \in same : k <= j
    <3>1. same \in SUBSET (1..Len(es)) /\ Len(es) \in Nat
      <4>1. DOMAIN es = 1..Len(es) /\ Len(es) \in Nat
        BY LenProperties
      <4> QED
        BY <4>1 DEF NewEntries
    <3>2. \E j \in same : \A k \in same : k <= j
      <4> HIDE DEF same
      <4> QED
        BY <2>2, <3>1, GreatestOf
    <3>3. l \in same
      <4> HIDE DEF same
      <4> QED
        BY <3>2
    <3>4. q[i].id = RowOf(w, l)
      BY <1>3, <2>2 DEF Doing, LinkRepeat
    <3> HIDE DEF l
    <3>5. l \in NewEntries(w) /\ es[l].content = es[i].content /\ l \in DOMAIN es
      BY <3>3 DEF NewEntries
    <3> QED
      BY <1>1, <3>4, <3>5 DEF Names, LikeIn, Alike
  <2> QED
    BY <2>1, <2>2
<1>4. \A i \in DOMAIN es : p[i].what \in {"skip", "invalid"} => q[i] = p[i]
  OBVIOUS
<1>5. DOMAIN q = DOMAIN es
  OBVIOUS
<1> HIDE DEF es, p
<1>6. es \in Seq(Listed(es)) /\ AllDecided(rows, es, p, "insert")
  BY DEF es, p
<1>7. Told(s, es, p, q)
  BY <1>2, <1>3, <1>4, <1>5 DEF Told
<1>8. Settled(s, es, q)
  BY <1>1, <1>6, <1>7, Results
<1> QED
  BY <1>8 DEF es

-----------------------------------------------------------------------------
(* The steps.                                                              *)

\* The step of one worker, and of the rows
LEMMA OneMoves ==
  ASSUME IngestInv, NEW w \in Workers, UNCHANGED batch, UNCHANGED dedup,
         Extends(rows, rows'), rows' \in Seq(Listed(rows')),
         plan' = [v \in Workers |-> plan'[v]], stage' = [v \in Workers |-> stage'[v]],
         answer' = [t \in Tasks |-> answer'[t]],
         \A v \in Workers \ {w} : /\ at'[v] = at[v] /\ task'[v] = task[v]
                                  /\ stage'[v] = stage[v] /\ plan'[v] = plan[v],
         PlanIsRight(w)',
         \A t \in Tasks : answer'[t] # answer[t] => Settled(rows', batch[t], answer'[t])
  PROVE  IngestInv'
<1>1. ASSUME NEW v \in Workers \ {w} PROVE PlanIsRight(v)'
  <2>1. /\ PlanIsRight(v) /\ at'[v] = at[v] /\ task'[v] = task[v] /\ stage'[v] = stage[v] /\ plan'[v] = plan[v]
        /\ batch' = batch /\ dedup' = dedup
    BY <1>1 DEF IngestInv
  <2>2. /\ Settled(rows, batch[task[v]], plan[v]) => Settled(rows', batch[task[v]], plan[v])
        /\ \A i \in DOMAIN plan[v] : DecidedWell(rows, batch[task[v]], i, plan[v][i], stage[v])
                                     => DecidedWell(rows', batch[task[v]], i, plan[v][i], stage[v])
    BY RowsStay
  <2> QED
    BY <2>1, <2>2 DEF PlanIsRight, Entries
<1>2. ASSUME NEW t \in Tasks PROVE Settled(rows', batch[t], answer'[t])
  <2>1. CASE answer'[t] = answer[t]
    BY <2>1, RowsStay DEF IngestInv
  <2> QED
    BY <2>1
<1>3. ListsAreLists'
  BY DEF IngestInv, ListsAreLists
<1> QED
  BY <1>1, <1>2, <1>3 DEF IngestInv

\* A plan that was given up tells nothing
LEMMA NothingPlanned ==
  ASSUME NEW r, NEW es, NEW p, p = << >>
  PROVE  Settled(r, es, p)
BY DEF Settled

LEMMA NextIngest == Typed /\ AtWork /\ IngestInv /\ [BatchNext]_batchVars => IngestInv'
<1> SUFFICES ASSUME Typed, AtWork, IngestInv, [BatchNext]_batchVars PROVE IngestInv'
  OBVIOUS
<1>0. /\ at = [v \in Workers |-> at[v]] /\ task = [v \in Workers |-> task[v]]
      /\ plan = [v \in Workers |-> plan[v]] /\ stage = [v \in Workers |-> stage[v]]
      /\ answer = [t \in Tasks |-> answer[t]] /\ rows \in Seq(Listed(rows))
      /\ \A t \in Tasks : batch[t] \in Seq(Listed(batch[t]))
      /\ \A v \in Workers : PlanIsRight(v) /\ (at[v] # "free" => task[v] \in Tasks)
      /\ Extends(rows, rows)
  BY DEF Typed, AtWork, IngestInv, ListsAreLists, Extends
\* The steps of the bridge, and those that only look
<1>a. ASSUME UNCHANGED <<batch, dedup, rows, answer>>, NEW w \in Workers,
             plan' = [v \in Workers |-> plan'[v]], stage' = [v \in Workers |-> stage'[v]],
             \A v \in Workers \ {w} : /\ at'[v] = at[v] /\ task'[v] = task[v]
                                      /\ stage'[v] = stage[v] /\ plan'[v] = plan[v],
             PlanIsRight(w)'
      PROVE  IngestInv'
  <2>1. Extends(rows, rows') /\ rows' \in Seq(Listed(rows')) /\ answer' = [t \in Tasks |-> answer'[t]]
    BY <1>0, <1>a
  <2> QED
    BY <1>a, <2>1, OneMoves
<1>1. CASE UNCHANGED <<ingestVars, at, task>>
  BY <1>1 DEF ingestVars, IngestInv, ListsAreLists, PlanIsRight, Entries
<1>2. ASSUME NEW t \in Tasks, Send(t) \/ Client(t) \/ BlpopFails(t) \/ EventExpires(t)
      PROVE  UNCHANGED <<at, task>>
  BY <1>2 DEF Send, Client, BlpopFails, EventExpires, CheckReady, LastLook, Woken, ChunkEnds, workerVars
<1>3. ASSUME NEW w \in Workers, Notify(w) \/ NobodyWaits(w) \/ Ack(w), UNCHANGED ingestVars PROVE IngestInv'
  <2>1. /\ at'[w] \in {"ack", "free"}
        /\ \A v \in Workers \ {w} : at'[v] = at[v] /\ task'[v] = task[v]
    BY <1>0, <1>3 DEF Notify, NobodyWaits, Ack, Step
  <2>2. PlanIsRight(w)'
    BY <2>1 DEF PlanIsRight
  <2> QED
    BY <1>0, <1>3, <1>a, <2>1, <2>2 DEF ingestVars
<1>4. ASSUME NEW w \in Workers, Begin(w) PROVE IngestInv'
  <2>1. /\ at'[w] = "body" /\ stage'[w] = "check" /\ stage' = [v \in Workers |-> stage'[v]]
        /\ \A v \in Workers \ {w} : at'[v] = at[v] /\ task'[v] = task[v] /\ stage'[v] = stage[v]
    BY <1>0, <1>4 DEF Begin, Take, Step
  <2>2. PlanIsRight(w)'
    BY <2>1 DEF PlanIsRight
  <2> QED
    BY <1>0, <1>4, <1>a, <2>1, <2>2 DEF Begin
<1>5. ASSUME NEW w \in Workers, Forgotten(w) PROVE IngestInv'
  <2>1. /\ at'[w] = "free" /\ stage' = [v \in Workers |-> stage'[v]] /\ plan' = [v \in Workers |-> plan'[v]]
        /\ \A v \in Workers \ {w} : /\ at'[v] = at[v] /\ task'[v] = task[v]
                                    /\ stage'[v] = stage[v] /\ plan'[v] = plan[v]
    BY <1>0, <1>5 DEF Forgotten, Lost, HardLimit, Gone, Step, Plan
  <2>2. PlanIsRight(w)'
    BY <2>1 DEF PlanIsRight
  <2> QED
    BY <1>5, <1>a, <2>1, <2>2 DEF Forgotten
<1>6. ASSUME NEW w \in Workers, Returns(w) PROVE IngestInv'
  <2>1. /\ at[w] = "body" /\ stage[w] = "link" /\ at'[w] = "store"
        /\ stage' = [v \in Workers |-> stage'[v]] /\ UNCHANGED <<batch, rows, plan, task, dedup, answer>>
        /\ \A v \in Workers \ {w} : at'[v] = at[v] /\ stage'[v] = stage[v]
    BY <1>0, <1>6 DEF Returns, Working, BodyEnds, Step
  <2>2. PlanIsRight(w)'
    BY <1>0, <2>1 DEF PlanIsRight, Entries
  <2> QED
    BY <1>0, <1>a, <2>1, <2>2
<1>7. ASSUME NEW w \in Workers, Raises(w) \/ RaisesLate(w) PROVE IngestInv'
  <2>1. /\ at'[w] = "store" /\ plan'[w] = << >> /\ UNCHANGED <<batch, task, dedup, answer>>
        /\ stage' = [v \in Workers |-> stage'[v]] /\ plan' = [v \in Workers |-> plan'[v]]
        /\ \A v \in Workers \ {w} : at'[v] = at[v] /\ stage'[v] = stage[v] /\ plan'[v] = plan[v]
        /\ stage'[w] = "none"
    BY <1>0, <1>7 DEF Raises, RaisesLate, Plan
  <2>2. PlanIsRight(w)'
    BY <2>1, NothingPlanned DEF PlanIsRight
  <2>3. Extends(rows, rows') /\ rows' \in Seq(Listed(rows'))
    <3>1. CASE Raises(w)
      BY <1>0, <3>1 DEF Raises
    <3>2. CASE RaisesLate(w)
      <4>1. Working(w, "insert") /\ rows' = rows \o Inserted(w)
        BY <3>2 DEF RaisesLate
      <4>2. Entries(w) \in Seq(Listed(Entries(w))) /\ DOMAIN plan[w] = DOMAIN Entries(w)
        BY <1>0, <4>1 DEF Working, PlanIsRight, Entries
      <4> QED
        BY <1>0, <4>1, <4>2, NewRows
    <3> QED
      BY <1>7, <3>1, <3>2
  <2> QED
    BY <1>0, <2>1, <2>2, <2>3, OneMoves
<1>8. ASSUME NEW w \in Workers, Store(w) PROVE IngestInv'
  <2>1. /\ at[w] = "store" /\ at'[w] = "notify" /\ UNCHANGED <<batch, rows, task, dedup, stage>>
        /\ plan' = [v \in Workers |-> plan'[v]]
        /\ \A v \in Workers \ {w} : at'[v] = at[v] /\ plan'[v] = plan[v]
        /\ answer' = [answer EXCEPT ![task[w]] = IF @ = << >> THEN plan[w] ELSE @]
    BY <1>0, <1>8 DEF Store, StoreResult, Plan, Step
  <2>2. PlanIsRight(w)'
    BY <2>1 DEF PlanIsRight
  <2>3. /\ answer' = [t \in Tasks |-> answer'[t]]
        /\ \A t \in Tasks : answer'[t] # answer[t] => t = task[w] /\ answer'[t] = plan[w]
    BY <1>0, <2>1
  <2>4. Settled(rows, batch[task[w]], plan[w])
    BY <1>0, <2>1 DEF PlanIsRight, Entries
  <2> QED
    BY <1>0, <2>1, <2>2, <2>3, <2>4, OneMoves
\* A plan of the whole batch
<1>b. ASSUME NEW w \in Workers, UNCHANGED <<batch, dedup, rows, answer, at, task>>, at[w] = "body",
             \E s \in {"search", "register", "insert"} :
               /\ stage' = [stage EXCEPT ![w] = s]
               /\ AllDecided(rows, Entries(w), plan'[w], s) /\ DOMAIN plan'[w] = DOMAIN Entries(w),
             \/ UNCHANGED plan
             \/ \E p : Plan(w, p)
      PROVE  IngestInv'
  <2>1. /\ stage' = [v \in Workers |-> stage'[v]] /\ plan' = [v \in Workers |-> plan'[v]]
        /\ \A v \in Workers \ {w} : stage'[v] = stage[v] /\ plan'[v] = plan[v]
    BY <1>0, <1>b DEF Plan
  <2>2. PICK s \in {"search", "register", "insert"} :
          stage'[w] = s /\ AllDecided(rows, Entries(w), plan'[w], s) /\ DOMAIN plan'[w] = DOMAIN Entries(w)
    BY <1>0, <1>b
  <2>3. /\ \A i \in DOMAIN plan'[w] : /\ DecidedWell(rows', Entries(w), i, plan'[w][i], stage'[w])
                                      /\ plan'[w][i].what # (IF dedup' = "on" THEN "plain" ELSE "repeat")
        /\ Entries(w)' = Entries(w) /\ at'[w] = "body"
    BY <1>b, <2>2 DEF AllDecided, Entries
  <2>4. PlanIsRight(w)'
    BY <2>2, <2>3 DEF PlanIsRight
  <2> QED
    BY <1>a, <1>b, <2>1, <2>4
<1>9. ASSUME NEW w \in Workers, CheckExactly(w) PROVE IngestInv'
  <2> DEFINE es == Entries(w)
  <2>1. /\ at[w] = "body" /\ UNCHANGED <<batch, dedup, rows, answer, at, task>>
    BY <1>9 DEF CheckExactly, Working, MoveOn, bridgeVars
  <2>2. CASE /\ dedup = "on" /\ Plan(w, [i \in DOMAIN es |-> DecideExactly(es, i)])
             /\ stage' = [stage EXCEPT ![w] = "search"]
    <3>1. plan'[w] = [i \in DOMAIN es |-> DecideExactly(es, i)]
      BY <1>0, <2>2 DEF Plan
    <3>2. ASSUME NEW i \in DOMAIN es
          PROVE  /\ DecidedWell(rows, es, i, DecideExactly(es, i), "search")
                 /\ DecideExactly(es, i).what # "plain"
      <4>1. CASE Valid(es[i]) /\ Indexed(es[i]) # {}
        <5> DEFINE k == CHOOSE x \in Indexed(es[i]) : TRUE
        <5>1. k \in Indexed(es[i]) /\ DecideExactly(es, i) = Doing("skip", k)
          BY <4>1 DEF DecideExactly
        <5> HIDE DEF k
        <5>2. k \in DOMAIN rows /\ k # 0
          <6>1. DOMAIN rows = 1..Len(rows) /\ Len(rows) \in Nat
            BY <1>0, LenProperties
          <6> QED
            BY <5>1, <6>1 DEF Indexed
        <5>3. k \in LikeIn(rows, es[i])
          BY <5>1, <5>2 DEF Indexed, SameKey, LikeIn, Alike
        <5>4. /\ DecideExactly(es, i).what = "skip" /\ DecideExactly(es, i).id = k
          BY <5>1 DEF Doing
        <5> QED
          BY <5>2, <5>3, <5>4 DEF DecidedWell, Names
      <4>2. CASE ~(Valid(es[i]) /\ Indexed(es[i]) # {})
        <5>1. \/ DecideExactly(es, i) = Doing("invalid", 0) /\ ~Valid(es[i])
              \/ DecideExactly(es, i) = Doing("repeat", 0) /\ Repeated(es, i)
              \/ DecideExactly(es, i) = Doing("open", 0)
          BY <4>2 DEF DecideExactly
        <5> QED
          BY <5>1 DEF DecidedWell, Doing
      <4> QED
        BY <4>1, <4>2
    <3>3. AllDecided(rows, es, plan'[w], "search") /\ DOMAIN plan'[w] = DOMAIN es
      BY <2>2, <3>1, <3>2 DEF AllDecided
    <3> QED
      BY <1>b, <2>1, <2>2, <3>3
  <2>3. CASE /\ dedup = "off"
             /\ Plan(w, [i \in DOMAIN es |-> Doing(IF Valid(es[i]) THEN "plain" ELSE "invalid", 0)])
             /\ stage' = [stage EXCEPT ![w] = "register"]
    <3>1. plan'[w] = [i \in DOMAIN es |-> Doing(IF Valid(es[i]) THEN "plain" ELSE "invalid", 0)]
      BY <1>0, <2>3 DEF Plan
    <3>2. AllDecided(rows, es, plan'[w], "register") /\ DOMAIN plan'[w] = DOMAIN es
      BY <2>3, <3>1 DEF AllDecided, DecidedWell, Doing
    <3> QED
      BY <1>b, <2>1, <2>3, <3>2
  <2> QED
    BY <1>9, <2>2, <2>3 DEF CheckExactly, MoveOn
<1>10. ASSUME NEW w \in Workers, SearchSimilar(w) PROVE IngestInv'
  <2> DEFINE es == Entries(w)
             p == plan[w]
             q(found) == [i \in DOMAIN found |->
                            IF p[i].what # "open" THEN p[i]
                            ELSE IF found[i] = 0 THEN Doing("insert", 0) ELSE Doing("skip", found[i])]
  <2>1. /\ at[w] = "body" /\ stage[w] = "search" /\ UNCHANGED <<batch, dedup, rows, answer, at, task>>
        /\ stage' = [stage EXCEPT ![w] = "register"]
    BY <1>10 DEF SearchSimilar, Working, MoveOn, bridgeVars
  <2>2. /\ DOMAIN p = DOMAIN es
        /\ \A i \in DOMAIN p : /\ DecidedWell(rows, es, i, p[i], "search")
                               /\ p[i].what # (IF dedup = "on" THEN "plain" ELSE "repeat")
    BY <1>0, <2>1 DEF PlanIsRight
  <2>3. PICK found \in [DOMAIN p -> 0..Len(rows)] :
          /\ \A i \in DOMAIN found :
               IF p[i].what = "open" THEN found[i] \in LikeIn(rows, es[i]) \cup {0} ELSE found[i] = 0
          /\ Plan(w, q(found))
    BY <1>10 DEF SearchSimilar, AlikeRows
  <2>4. plan'[w] = q(found) /\ DOMAIN found = DOMAIN es
    BY <1>0, <2>2, <2>3 DEF Plan
  <2>5. ASSUME NEW i \in DOMAIN es
        PROVE  /\ DecidedWell(rows, es, i, q(found)[i], "register")
               /\ q(found)[i].what # (IF dedup = "on" THEN "plain" ELSE "repeat")
    <3>1. CASE p[i].what # "open"
      <4>1. q(found)[i] = p[i]
        BY <2>4, <3>1
      <4> QED
        BY <2>2, <3>1, <4>1 DEF DecidedWell
    <3>2. CASE p[i].what = "open"
      <4>1. q(found)[i] = IF found[i] = 0 THEN Doing("insert", 0) ELSE Doing("skip", found[i])
        BY <2>4, <3>2
      <4>2. found[i] \in LikeIn(rows, es[i]) \cup {0}
        BY <2>3, <2>4, <3>2
      <4> QED
        BY <4>1, <4>2 DEF DecidedWell, Names, Doing
    <3> QED
      BY <3>1, <3>2
  <2>6. DOMAIN q(found) = DOMAIN es
    BY <2>4
  <2> HIDE DEF q
  <2>7. AllDecided(rows, es, plan'[w], "register") /\ DOMAIN plan'[w] = DOMAIN es
    BY <2>4, <2>5, <2>6 DEF AllDecided
  <2> QED
    BY <1>b, <2>1, <2>3, <2>7
<1>11. ASSUME NEW w \in Workers, Register(w) PROVE IngestInv'
  <2> DEFINE es == Entries(w)
             p == plan[w]
  <2>1. /\ at[w] = "body" /\ stage[w] = "register" /\ UNCHANGED <<batch, dedup, rows, plan, answer, at, task>>
        /\ stage' = [stage EXCEPT ![w] = IF NewEntries(w) = {} THEN "link" ELSE "insert"]
    BY <1>11 DEF Register, Working, MoveOn, bridgeVars
  <2>2. /\ DOMAIN p = DOMAIN es
        /\ \A i \in DOMAIN p : /\ DecidedWell(rows, es, i, p[i], "register")
                               /\ p[i].what # (IF dedup = "on" THEN "plain" ELSE "repeat")
    BY <1>0, <2>1 DEF PlanIsRight
  <2>3. CASE NewEntries(w) # {}
    <3>1. AllDecided(rows, es, p, "insert")
      BY <2>2 DEF AllDecided, DecidedWell
    <3> QED
      BY <1>b, <2>1, <2>2, <2>3, <3>1
  <2>4. CASE NewEntries(w) = {}
    <3>1. Told(rows, es, p, p)
      BY <2>2, <2>4 DEF Told, NewEntries
    <3>2. AllDecided(rows, es, p, "register")
      BY <2>2 DEF AllDecided
    <3>3. es \in Seq(Listed(es))
      BY <1>0, <2>1 DEF Entries
    <3>4. Settled(rows, es, p)
      BY <1>0, <3>1, <3>2, <3>3, Results
    <3>5. stage'[w] = "link" /\ Entries(w)' = es
      BY <1>0, <2>1, <2>4 DEF Entries
    <3>6. PlanIsRight(w)'
      BY <2>1, <3>4, <3>5 DEF PlanIsRight
    <3>7. stage' = [v \in Workers |-> stage'[v]] /\ \A v \in Workers \ {w} : stage'[v] = stage[v]
      BY <1>0, <2>1
    <3> QED
      BY <1>0, <1>a, <2>1, <3>6, <3>7
  <2> QED
    BY <2>3, <2>4
<1>12. ASSUME NEW w \in Workers, InsertBatch(w) PROVE IngestInv'
  <2> DEFINE q == [i \in DOMAIN plan[w] |->
                CASE plan[w][i].what \in {"insert", "plain"} -> Doing("insert", RowOf(w, i))
                  [] plan[w][i].what = "repeat" -> Doing("skip", LinkRepeat(w, i))
                  [] OTHER -> plan[w][i]]
  <2>1. /\ at[w] = "body" /\ stage[w] = "insert" /\ UNCHANGED <<batch, dedup, answer, at, task>>
        /\ stage' = [stage EXCEPT ![w] = "link"] /\ plan' = [plan EXCEPT ![w] = q]
        /\ rows' = rows \o Inserted(w)
    BY <1>12 DEF InsertBatch, Working, MoveOn, bridgeVars, Plan
  <2>2. /\ Entries(w) \in Seq(Listed(Entries(w))) /\ DOMAIN plan[w] = DOMAIN Entries(w)
        /\ AllDecided(rows, Entries(w), plan[w], "insert")
    BY <1>0, <2>1 DEF PlanIsRight, Entries, AllDecided
  <2>3. \A s : s = rows \o Inserted(w) =>
          s \in Seq(Listed(s)) /\ Extends(rows, s) /\ Settled(s, Entries(w), q)
    BY <1>0, <2>2, NewRows, InsertSettles
  <2> HIDE DEF q
  <2>4. plan'[w] = q /\ stage'[w] = "link" /\ Entries(w)' = Entries(w)
        /\ plan' = [v \in Workers |-> plan'[v]] /\ stage' = [v \in Workers |-> stage'[v]]
        /\ \A v \in Workers \ {w} : plan'[v] = plan[v] /\ stage'[v] = stage[v]
    BY <1>0, <2>1 DEF Entries
  <2>5. rows' \in Seq(Listed(rows')) /\ Extends(rows, rows') /\ Settled(rows', Entries(w), q)
    BY <2>1, <2>3
  <2>6. PlanIsRight(w)'
    BY <2>1, <2>4, <2>5 DEF PlanIsRight
  <2> QED
    BY <1>0, <2>1, <2>4, <2>5, <2>6, OneMoves
<1>13. CASE UNCHANGED batchVars
  BY <1>1, <1>13 DEF batchVars, bridgeVars
<1> QED
  BY <1>1, <1>2, <1>3, <1>4, <1>5, <1>6, <1>7, <1>8, <1>9, <1>10, <1>11, <1>12, <1>13 DEF BatchNext, Body

\* Lists, plans decided well and answers that hold: kept by every step of every batch
THEOREM BatchInvariance == BatchSpec => []IngestInv
<1>1. BridgeInit /\ IngestInit => IngestInv
  BY BatchAssumption DEF BridgeInit, IngestInit, IngestInv, ListsAreLists, PlanIsRight, Settled
<1>2. BridgeInv => Typed /\ AtWork
  BY DEF BridgeInv
<1> QED
  BY <1>1, <1>2, NextIngest, BridgeInvariance, PTL DEF BatchSpec

\* However many batches run beside each other, are lost, run again or run out of time:
\* every valid entry of a batch that has succeeded is stored (ingest_batch, check_batch).
THEOREM BatchesStored == BatchSpec => []BatchIsStored
<1>1. IngestInv => BatchIsStored
  BY DEF IngestInv, BatchIsStored, Settled, AlikeRows
<1> QED
  BY <1>1, BatchInvariance, PTL

\* And its result names the row, but for a repetition of an entry that was itself dropped
\* for a row like it, and for a content the batch has in two namespaces (ingest_batch).
THEOREM ResultsNamed == BatchSpec => []ResultsNameTheirRows
<1>1. IngestInv => ResultsNameTheirRows
  BY DEF IngestInv, ResultsNameTheirRows, Settled
<1> QED
  BY <1>1, BatchInvariance, PTL

-----------------------------------------------------------------------------
Of(v) == errand[v].slug

\* Whoever has come so far came for that, and has read what it needs
Roles ==
  \A v \in Visitors :
    /\ step[v] \in {"path", "insert", "rebind", "bind"} => errand[v].does = "register"
    /\ step[v] \in {"commit", "drop", "card", "updated"} => errand[v].does \in {"create", "update"}
    /\ step[v] = "newSpace" => errand[v].does = "space"
    /\ step[v] = "rebind" => seen[v] \in Taken
    /\ step[v] \in {"bind", "drop", "card", "updated"} => seen[v] \in Cards
    /\ step[v] \in {"bind", "commit"} /\ errand[v].does # "create" => Of(v) \in Taken

\* Whoever is to bind a folder saw no repository, or its own
Looks == \A v \in Visitors : step[v] = "bind" => ~OthersRepo(seen[v], errand[v].repo)

\* A card that is being created is locked and not there yet
Locks ==
  /\ locked \in [Slugs -> Visitors \cup {Nothing}]
  /\ \A v \in Visitors : step[v] = "commit" =>
       locked[Of(v)] = v /\ (errand[v].does = "create" => Of(v) \notin Taken)

\* What a visitor has written is not younger than the card, and not older than the cache
Writes ==
  \A v \in Visitors :
    /\ step[v] \in {"drop", "card", "updated"} => Of(v) \in Taken /\ cards[Of(v)].writes >= seen[v].writes
    /\ step[v] \in {"card", "updated"} => bySlug[errand[v].in][Of(v)] \notin 1..(seen[v].writes - 1)

Base == RegistryTypeOK /\ Roles

USE DEF Of, Paces

\* An action of the hashes moves nobody but one who came for them, and to no place
\* of the registries.
LEMMA HashesApart ==
  ASSUME HashWork, RegistryTypeOK
  PROVE  /\ UNCHANGED <<errand, cards, locked, spaces, seen, bySlug, byId, spaceCache, expiries>>
         /\ \E v \in Visitors : \E to \in {"refused", "hashing", "done", "missing", "again", "paging", "failed"} :
              step' = [step EXCEPT ![v] = to]
  BY DEF HashWork, HashBegins, HashWrites, HashDeletes, HashGets, HashLists, RegistriesRest, Turns, RegistryTypeOK

\* A written card is a card, and no other row changes.
LEMMA WrittenRow ==
  ASSUME cards \in [Slugs -> Cards \cup {Nothing}], NEW s \in Slugs,
         NEW path \in Folders \cup {Nothing}, NEW repo \in Repos \cup {Nothing}, Written(s, path, repo)
  PROVE  /\ cards' \in [Slugs -> Cards \cup {Nothing}]
         /\ cards'[s] \in Cards /\ cards'[s].repo = repo
         /\ \A x \in Slugs \ {s} : cards'[x] = cards[x]
         /\ cards[s] # Nothing => cards'[s].writes = cards[s].writes + 1
         /\ Taken \subseteq Taken'
<1>1. \A x \in Slugs \ {s} : cards'[x] = cards[x]
  BY DEF Written
<1>2. s \in Taken => cards[s].writes \in Nat \ {0}
  BY DEF Taken, Cards
<1>3. cards'[s] = [path |-> path, repo |-> repo, writes |-> IF s \in Taken THEN cards[s].writes + 1 ELSE 1]
  BY DEF Written
<1>4. cards'[s] \in Cards /\ cards'[s].repo = repo
  BY <1>2, <1>3 DEF Cards
<1>5. cards' \in [Slugs -> Cards \cup {Nothing}]
  BY <1>1, <1>4 DEF Written
<1>6. Nothing \notin Cards
  BY RegistryAssumption
<1> QED
  BY <1>1, <1>3, <1>4, <1>5, <1>6 DEF Taken

\* One entry of a cache is replaced.
LEMMA Entry ==
  ASSUME NEW A, NEW B, NEW f \in [A -> [B -> Nat]], NEW a, NEW b, NEW n \in Nat
  PROVE  /\ [f EXCEPT ![a][b] = n] \in [A -> [B -> Nat]]
         /\ \A x \in A, y \in B : [f EXCEPT ![a][b] = n][x][y] = IF x = a /\ y = b THEN n ELSE f[x][y]
<1> DEFINE row == [f[a] EXCEPT ![b] = n]
           g == [f EXCEPT ![a][b] = n]
<1>1. g = [f EXCEPT ![a] = row]
  OBVIOUS
<1>2. a \in A => row \in [B -> Nat] /\ \A y \in B : row[y] = IF y = b THEN n ELSE f[a][y]
  OBVIOUS
<1> HIDE DEF row
<1> QED
  BY <1>1, <1>2

-----------------------------------------------------------------------------
(* Types, and what each step has behind it.                                *)

LEMMA InitBase == RegistryInit => Base
<1> SUFFICES ASSUME RegistryInit PROVE Base
  OBVIOUS
<1>1. RegistryTypeOK
  BY RegistryAssumption DEF RegistryInit, RegistryTypeOK
<1> QED
  BY <1>1 DEF RegistryInit, Base, Roles

\* Whatever is written is of its kind, and nobody takes a step without what it needs.
LEMMA NextBase == Base /\ [RegistryNext]_registryVars => Base'
<1> SUFFICES ASSUME Base, [RegistryNext]_registryVars PROVE Base'
  OBVIOUS
<1> USE RegistryAssumption
<1>t. RegistryTypeOK /\ Roles
  BY DEF Base
<1>e. \A v \in Visitors : errand[v].does \in OfProject =>
         Of(v) \in Slugs /\ errand[v].path \in Folders \cup {Nothing} /\ errand[v].repo \in Repos \cup {Nothing}
  BY <1>t DEF RegistryTypeOK
<1>1. ASSUME NEW v \in Visitors, LooksBySlug(v) PROVE Base'
  <2>1. errand[v].does = "register" /\ cards[Of(v)] \in Cards \cup {Nothing} /\ Of(v) \in Slugs
    BY <1>1, <1>e, <1>t DEF LooksBySlug, Comes, OfProject, RegistryTypeOK
  <2>2. RegistryTypeOK'
    BY <1>1, <1>t, <2>1 DEF LooksBySlug, RegistryTypeOK, Turns, CachesRest
  <2>3. Roles'
    BY <1>1, <1>t, <2>1 DEF LooksBySlug, Roles, RegistryTypeOK, Turns, Taken
  <2> QED
    BY <2>2, <2>3 DEF Base
<1>2. ASSUME NEW v \in Visitors, LooksByPath(v) PROVE Base'
  <2>1. RegistryTypeOK'
    BY <1>2, <1>t DEF LooksByPath, RegistryTypeOK, Turns, CachesRest, Taken
  <2>2. Roles'
    BY <1>2, <1>t DEF LooksByPath, Roles, RegistryTypeOK, Turns, Taken
  <2> QED
    BY <2>1, <2>2 DEF Base
<1>3. ASSUME NEW v \in Visitors, Rebinds(v) PROVE Base'
  <2>1. seen[v] \in Taken /\ errand[v].does = "register" /\ cards[seen[v]] \in Cards
    BY <1>3, <1>t DEF Rebinds, Roles, Taken, RegistryTypeOK
  <2>2. seen[v] \in Slugs /\ cards[seen[v]].path \in Folders \cup {Nothing} /\ errand[v].repo \in Repos \cup {Nothing}
    BY <2>1, <1>e DEF Taken, Cards, OfProject
  <2>3. cards' \in [Slugs -> Cards \cup {Nothing}] /\ Taken \subseteq Taken'
    BY <1>3, <1>t, <2>2, WrittenRow DEF Rebinds, RegistryTypeOK
  <2>4. RegistryTypeOK'
    BY <1>3, <1>t, <2>3 DEF Rebinds, RegistryTypeOK, Turns, CachesRest
  <2>5. Roles'
    BY <1>3, <1>t, <2>3 DEF Rebinds, Roles, RegistryTypeOK, Turns
  <2> QED
    BY <2>4, <2>5 DEF Base
<1>4. ASSUME NEW v \in Visitors, Inserts(v) PROVE Base'
  <2>1. errand[v].does = "register"
    BY <1>4, <1>t DEF Inserts, Roles
  <2>2. cards' \in [Slugs -> Cards \cup {Nothing}] /\ Taken \subseteq Taken'
    <3>1. CASE cards' = cards
      BY <3>1, <1>t DEF RegistryTypeOK, Taken
    <3>2. CASE Written(Of(v), errand[v].path, errand[v].repo)
      BY <3>2, <1>t, <1>e, <2>1, WrittenRow DEF RegistryTypeOK, OfProject
    <3> QED
      BY <3>1, <3>2, <1>4 DEF Inserts
  <2>s. step' \in [Visitors -> Paces]
    <3>1. Turns(v, "conflict") \/ Turns(v, "created")
      BY <1>4 DEF Inserts
    <3> QED
      BY <3>1, <1>t DEF RegistryTypeOK, Turns
  <2>u. UNCHANGED <<errand, seen, bySlug, byId, spaces, spaceCache>>
    BY <1>4 DEF Inserts, CachesRest
  <2>3. RegistryTypeOK'
    BY <1>t, <2>2, <2>s, <2>u DEF RegistryTypeOK
  <2>4. Roles'
    BY <1>4, <1>t, <2>2 DEF Inserts, Roles, RegistryTypeOK, Turns
  <2> QED
    BY <2>3, <2>4 DEF Base
<1>5. ASSUME NEW v \in Visitors, Binds(v) PROVE Base'
  <2>1. errand[v].does = "register"
    BY <1>5, <1>t DEF Binds, Roles
  <2>2. cards' \in [Slugs -> Cards \cup {Nothing}] /\ Taken \subseteq Taken'
    BY <1>5, <1>t, <1>e, <2>1, WrittenRow DEF Binds, RegistryTypeOK, OfProject
  <2>3. RegistryTypeOK'
    BY <1>5, <1>t, <2>2 DEF Binds, RegistryTypeOK, Turns, CachesRest
  <2>4. Roles'
    BY <1>5, <1>t, <2>2 DEF Binds, Roles, RegistryTypeOK, Turns
  <2> QED
    BY <2>3, <2>4 DEF Base
<1>6. ASSUME NEW v \in Visitors, CardBegins(v) PROVE Base'
  <2>1. RegistryTypeOK'
    BY <1>6, <1>t DEF CardBegins, RegistryTypeOK, Turns, CachesRest
  <2>2. Roles'
    BY <1>6, <1>t DEF CardBegins, Roles, RegistryTypeOK, Turns, Taken, Comes
  <2> QED
    BY <2>1, <2>2 DEF Base
<1>7. ASSUME NEW v \in Visitors, CardCommits(v) PROVE Base'
  <2>1. errand[v].does \in {"create", "update"} /\ Of(v) \in Slugs
        /\ (errand[v].does # "create" => Of(v) \in Taken)
    BY <1>7, <1>t, <1>e DEF CardCommits, Roles, OfProject
  <2>2. /\ cards' \in [Slugs -> Cards \cup {Nothing}] /\ Taken \subseteq Taken'
        /\ step' = [step EXCEPT ![v] = "drop"] => cards'[Of(v)] \in Cards
    <3>1. CASE cards' = cards /\ step' = [step EXCEPT ![v] = "failed"]
      BY <3>1, <1>7, <1>t DEF RegistryTypeOK, Taken
    <3>2. ASSUME NEW path \in Folders \cup {Nothing}, NEW repo \in Repos \cup {Nothing}, Written(Of(v), path, repo)
          PROVE  cards' \in [Slugs -> Cards \cup {Nothing}] /\ Taken \subseteq Taken' /\ cards'[Of(v)] \in Cards
      BY <3>2, <2>1, <1>t, WrittenRow DEF RegistryTypeOK
    <3>3. CASE errand[v].does = "create" /\ Written(Of(v), errand[v].path, errand[v].repo)
      BY <3>2, <3>3, <1>e DEF OfProject
    <3>4. CASE errand[v].does # "create"
      <4>1. cards[Of(v)] \in Cards /\ errand[v].path \in Folders \cup {Nothing} /\ errand[v].repo \in Repos \cup {Nothing}
        BY <3>4, <2>1, <1>t, <1>e DEF Taken, RegistryTypeOK, OfProject
      <4> QED
        BY <3>1, <3>2, <3>4, <4>1, <1>7 DEF CardCommits, Cards, Turns
    <3> QED
      BY <3>1, <3>3, <3>4, <1>7 DEF CardCommits, Turns
  <2>3. RegistryTypeOK'
    BY <1>7, <1>t, <2>2 DEF CardCommits, RegistryTypeOK, Turns, CachesRest
  <2>4. Roles'
    BY <1>7, <1>t, <2>1, <2>2 DEF CardCommits, Roles, RegistryTypeOK, Turns
  <2> QED
    BY <2>3, <2>4 DEF Base
<1>b. bySlug \in [Processes -> [Slugs -> Nat]] /\ byId \in [Processes -> [Slugs -> Nat]]
  BY <1>t DEF RegistryTypeOK
<1>8. ASSUME NEW v \in Visitors, CardDrops(v) PROVE Base'
  <2>1. bySlug' \in [Processes -> [Slugs -> Nat]] /\ byId' \in [Processes -> [Slugs -> Nat]]
    <3>1. /\ [bySlug EXCEPT ![errand[v].in][errand[v].slug] = 0] \in [Processes -> [Slugs -> Nat]]
          /\ [byId EXCEPT ![errand[v].in][errand[v].slug] = 0] \in [Processes -> [Slugs -> Nat]]
      <4>1. 0 \in Nat
        OBVIOUS
      <4> QED BY <1>b, <4>1, Entry, Zenon
    <3>2. /\ bySlug' \in {bySlug, [bySlug EXCEPT ![errand[v].in][errand[v].slug] = 0]}
          /\ byId' \in {byId, [byId EXCEPT ![errand[v].in][errand[v].slug] = 0]}
      BY <1>8 DEF CardDrops, Drops
    <3> QED
      BY <1>t, <3>1, <3>2 DEF RegistryTypeOK
  <2>3. RegistryTypeOK'
    BY <1>8, <1>t, <2>1 DEF CardDrops, RegistryTypeOK, Turns
  <2>2. Roles'
    BY <1>8, <1>t DEF CardDrops, Roles, RegistryTypeOK, Turns, Taken
  <2> QED
    BY <2>2, <2>3 DEF Base
<1>9. ASSUME NEW v \in Visitors, CardAnswers(v) PROVE Base'
  <2>1. RegistryTypeOK'
    BY <1>9, <1>t DEF CardAnswers, RegistryTypeOK, Turns, CachesRest
  <2>2. Roles'
    BY <1>9, <1>t DEF CardAnswers, Roles, RegistryTypeOK, Turns, Taken
  <2> QED
    BY <2>1, <2>2 DEF Base
<1>10. ASSUME NEW v \in Visitors, Resolves(v) PROVE Base'
  <2>1. Of(v) \in Slugs /\ errand[v].in \in Processes
    BY <1>10, <1>e, <1>t DEF Resolves, Comes, OfProject, RegistryTypeOK
  <2>2. Of(v) \in Taken => cards[Of(v)].writes \in Nat
    BY <1>t DEF Taken, RegistryTypeOK, Cards
  <2>3. bySlug' \in [Processes -> [Slugs -> Nat]] /\ byId' \in [Processes -> [Slugs -> Nat]]
    <3> DEFINE n == cards[errand[v].slug].writes
    <3>1. n \in Nat => /\ [bySlug EXCEPT ![errand[v].in][errand[v].slug] = n] \in [Processes -> [Slugs -> Nat]]
                       /\ [byId EXCEPT ![errand[v].in][errand[v].slug] = n] \in [Processes -> [Slugs -> Nat]]
      <4> HIDE DEF n
      <4> QED
        BY <1>b, Entry, Zenon
    <3>2. \/ UNCHANGED <<bySlug, byId>>
          \/ /\ errand[v].slug \in Taken
             /\ bySlug' = [bySlug EXCEPT ![errand[v].in][errand[v].slug] = n]
             /\ byId' = [byId EXCEPT ![errand[v].in][errand[v].slug] = n]
      BY <1>10 DEF Resolves
    <3>3. errand[v].slug \in Taken => n \in Nat
      BY <2>2 DEF Of
    <3> HIDE DEF n
    <3> QED
      BY <1>t, <3>1, <3>2, <3>3 DEF RegistryTypeOK
  <2>4. RegistryTypeOK'
    BY <1>10, <1>t, <2>3 DEF Resolves, RegistryTypeOK, Turns
  <2>5. Roles'
    BY <1>10, <1>t DEF Resolves, Roles, RegistryTypeOK, Turns, Taken
  <2> QED
    BY <2>4, <2>5 DEF Base
<1>11. ASSUME NEW v \in Visitors, UsesSpace(v) \/ AddsSpace(v) PROVE Base'
  <2>1. errand[v].does = "space" /\ errand[v].in \in Processes /\ errand[v].space \in Spaces
    BY <1>11, <1>t DEF UsesSpace, AddsSpace, Comes, Roles, RegistryTypeOK
  <2>2. NewId \in Nat
    BY SpacesFinite, FS_CardinalityType, FS_Subset DEF NewId
  <2>3. spaces' \in [Spaces -> Nat] /\ spaceCache' \in [Processes -> [Spaces -> Nat]]
    <3>1. spaces[errand[v].space] \in Nat
      BY <1>t, <2>1 DEF RegistryTypeOK
    <3>2. CASE UsesSpace(v)
      <4>1. [spaceCache EXCEPT ![errand[v].in][errand[v].space] = spaces[errand[v].space]]
              \in [Processes -> [Spaces -> Nat]]
        BY <1>t, <3>1, Entry, Zenon DEF RegistryTypeOK
      <4>2. spaceCache' \in [Processes -> [Spaces -> Nat]]
        BY <1>t, <3>2, <4>1, Zenon DEF UsesSpace, RegistryTypeOK
      <4> QED
        BY <1>t, <3>2, <4>2 DEF UsesSpace, RegistryTypeOK
    <3>3. CASE AddsSpace(v)
      <4> DEFINE u == errand[v].space
                 id == IF spaces[u] = 0 THEN NewId ELSE spaces[u]
      <4>1. id \in Nat
        BY <2>2, <3>1
      <4>2. spaces' = [spaces EXCEPT ![u] = id] /\ spaceCache' = [spaceCache EXCEPT ![errand[v].in][u] = id]
        BY <3>3 DEF AddsSpace
      <4> HIDE DEF u, id
      <4>3. spaceCache' \in [Processes -> [Spaces -> Nat]]
        BY <1>t, <4>1, <4>2, Entry, Zenon DEF RegistryTypeOK
      <4>4. spaces' \in [Spaces -> Nat]
        BY <1>t, <4>1, <4>2 DEF RegistryTypeOK
      <4> QED
        BY <4>3, <4>4
    <3> QED
      BY <1>11, <3>2, <3>3
  <2>4. RegistryTypeOK'
    BY <1>11, <1>t, <2>3 DEF UsesSpace, AddsSpace, RegistryTypeOK, Turns
  <2>5. Roles'
    BY <1>11, <1>t, <2>1 DEF UsesSpace, AddsSpace, Roles, RegistryTypeOK, Turns, Taken
  <2> QED
    BY <2>4, <2>5 DEF Base
<1>12. ASSUME NEW p \in Processes, NEW s \in Slugs, Expires(p, s) PROVE Base'
  <2>1. bySlug' \in [Processes -> [Slugs -> Nat]] /\ byId' \in [Processes -> [Slugs -> Nat]]
    BY <1>12, <1>t, Entry DEF Expires, RegistryTypeOK
  <2>2. UNCHANGED <<errand, cards, step, seen, spaces, spaceCache>>
    BY <1>12 DEF Expires
  <2> QED
    BY <1>t, <2>1, <2>2 DEF Base, Roles, RegistryTypeOK, Taken
<1>13. CASE HashWork
  <2>1. RegistryTypeOK'
    BY <1>13, <1>t, HashesApart DEF RegistryTypeOK
  <2>2. Roles'
    BY <1>13, <1>t, HashesApart DEF RegistryTypeOK, Roles, Taken
  <2> QED
    BY <2>1, <2>2 DEF Base
<1>14. CASE UNCHANGED registryVars
  BY <1>14, <1>t DEF registryVars, Base, Roles, RegistryTypeOK, Taken
<1> QED
  BY <1>1, <1>2, <1>3, <1>4, <1>5, <1>6, <1>7, <1>8, <1>9, <1>10, <1>11, <1>12, <1>13, <1>14
     DEF RegistryNext, RegistryWork

\* What a visitor needs for its next step is there.
THEOREM RegistryTyped == RegistrySpec => []Base
<1> QED
  BY InitBase, NextBase, PTL DEF RegistrySpec

-----------------------------------------------------------------------------
(* A repository is not taken silently.                                     *)

LEMMA NextLooks == Base /\ Looks /\ [RegistryNext]_registryVars => Looks'
<1> SUFFICES ASSUME Base, Looks, [RegistryNext]_registryVars PROVE Looks'
  OBVIOUS
<1>t. RegistryTypeOK
  BY DEF Base
<1>1. CASE RegistryWork
  <2>1. CASE \E v \in Visitors : LooksBySlug(v)
    BY <1>t, <2>1 DEF LooksBySlug, Looks, OthersRepo, RegistryTypeOK, Turns, Comes
  <2>2. CASE \E v \in Visitors : LooksByPath(v) \/ Rebinds(v) \/ Inserts(v) \/ Binds(v)
    BY <1>t, <2>2 DEF LooksByPath, Rebinds, Inserts, Binds, Looks, OthersRepo, RegistryTypeOK, Turns
  <2>3. CASE \E v \in Visitors : CardBegins(v) \/ CardCommits(v) \/ CardDrops(v) \/ CardAnswers(v)
    BY <1>t, <2>3 DEF CardBegins, CardCommits, CardDrops, CardAnswers, Looks, OthersRepo, RegistryTypeOK, Turns
  <2>4. CASE \E v \in Visitors : Resolves(v) \/ UsesSpace(v) \/ AddsSpace(v)
    BY <1>t, <2>4 DEF Resolves, UsesSpace, AddsSpace, Looks, OthersRepo, RegistryTypeOK, Turns
  <2>5. CASE \E p \in Processes, s \in Slugs : Expires(p, s)
    BY <2>5 DEF Expires, Looks, OthersRepo
  <2> QED
    BY <1>1, <2>1, <2>2, <2>3, <2>4, <2>5 DEF RegistryWork
<1>2. CASE HashWork
  BY <1>t, <1>2, HashesApart DEF Looks, OthersRepo, RegistryTypeOK
<1>3. CASE UNCHANGED registryVars
  BY <1>3 DEF registryVars, Looks, OthersRepo
<1> QED
  BY <1>1, <1>2, <1>3 DEF RegistryNext

\* An action leaves the locked rows of others alone.
LEMMA NextLocks == Base /\ Locks /\ [RegistryNext]_registryVars => Locks'
<1> SUFFICES ASSUME Base, Locks, [RegistryNext]_registryVars PROVE Locks'
  OBVIOUS
<1> USE RegistryAssumption
<1>t. RegistryTypeOK /\ Roles
  BY DEF Base
<1>e. \A v \in Visitors : errand[v].does \in OfProject =>
         Of(v) \in Slugs /\ errand[v].path \in Folders \cup {Nothing} /\ errand[v].repo \in Repos \cup {Nothing}
  BY <1>t DEF RegistryTypeOK
<1>1. ASSUME NEW v \in Visitors, LooksBySlug(v) \/ LooksByPath(v) \/ CardDrops(v) \/ CardAnswers(v)
      PROVE  Locks'
  BY <1>t, <1>1 DEF LooksBySlug, LooksByPath, CardDrops, CardAnswers, Locks, RegistryTypeOK, Turns, Taken, Comes
<1>2. ASSUME NEW v \in Visitors, Resolves(v) \/ UsesSpace(v) \/ AddsSpace(v) PROVE Locks'
  BY <1>t, <1>2 DEF Resolves, UsesSpace, AddsSpace, Locks, RegistryTypeOK, Turns, Taken, Comes
<1>3. ASSUME NEW v \in Visitors, Rebinds(v) PROVE Locks'
  <2>1. \A s \in Slugs : s \notin Taken => cards'[s] = Nothing
    BY <1>t, <1>3 DEF Rebinds, Written, Roles, RegistryTypeOK, Taken
  <2> QED
    BY <1>t, <1>3, <2>1 DEF Rebinds, Locks, RegistryTypeOK, Turns, Taken
<1>4. ASSUME NEW v \in Visitors, Inserts(v) \/ Binds(v) PROVE Locks'
  <2>1. \A s \in Slugs : s \notin Taken /\ locked[s] # Nothing => cards'[s] = Nothing
    BY <1>t, <1>4 DEF Inserts, Binds, Written, RegistryTypeOK, Taken
  <2> QED
    BY <1>t, <1>4, <2>1 DEF Inserts, Binds, Locks, RegistryTypeOK, Turns, Taken
<1>5. ASSUME NEW v \in Visitors, CardBegins(v) PROVE Locks'
  <2>1. Of(v) \in Slugs /\ locked[Of(v)] = Nothing
    BY <1>5, <1>e DEF CardBegins, Comes, OfProject
  <2>2. \A w \in Visitors : step[w] = "commit" => Of(w) # Of(v)
    BY <2>1 DEF Locks
  <2> QED
    <3>1. CASE UNCHANGED locked
      <4>1. step'[v] # "commit"
        BY <1>5, <1>t, <2>1, <3>1, RegistryAssumption DEF CardBegins, RegistryTypeOK, Turns, Locks
      <4>2. \A w \in Visitors \ {v} : step'[w] = step[w]
        BY <1>5, <1>t DEF CardBegins, RegistryTypeOK, Turns
      <4> QED
        BY <1>5, <3>1, <4>1, <4>2 DEF CardBegins, Locks, Taken
    <3>2. CASE locked' = [locked EXCEPT ![Of(v)] = v]
      <4>1. \A w \in Visitors \ {v} : step'[w] = step[w]
        BY <1>5, <1>t DEF CardBegins, RegistryTypeOK, Turns
      <4>2. errand[v].does = "create" /\ step'[v] = "commit" => Of(v) \notin Taken
        BY <1>5, <1>t DEF CardBegins, RegistryTypeOK, Turns
      <4> QED
        BY <1>5, <2>1, <2>2, <3>2, <4>1, <4>2 DEF CardBegins, Locks, Taken
    <3> QED
      BY <1>5, <3>1, <3>2 DEF CardBegins
<1>6. ASSUME NEW v \in Visitors, CardCommits(v) PROVE Locks'
  <2>1. step[v] = "commit" /\ Of(v) \in Slugs
    BY <1>6, <1>t, <1>e DEF CardCommits, Roles, OfProject
  <2>2. \A w \in Visitors \ {v} : step[w] = "commit" => Of(w) # Of(v)
    BY <2>1 DEF Locks
  <2>3. \A s \in Slugs \ {Of(v)} : cards'[s] = cards[s]
    BY <1>6, <1>t DEF CardCommits, Written, RegistryTypeOK
  <2>4. \A w \in Visitors \ {v} : step'[w] = step[w] /\ Of(w)' = Of(w)
    BY <1>6, <1>t DEF CardCommits, RegistryTypeOK, Turns
  <2>5. step'[v] # "commit" /\ locked' \in [Slugs -> Visitors \cup {Nothing}]
    BY <1>6, <1>t DEF CardCommits, RegistryTypeOK, Turns, Locks
  <2>6. \A s \in Slugs \ {Of(v)} : locked'[s] = locked[s]
    BY <1>6 DEF CardCommits, Locks
  <2>7. \A w \in Visitors : step[w] = "commit" => Of(w) \in Slugs
    BY <1>t, <1>e DEF Roles, OfProject
  <2>8. errand' = errand
    BY <1>6 DEF CardCommits
  <2> QED
    BY <2>2, <2>3, <2>4, <2>5, <2>6, <2>7, <2>8 DEF Locks, Taken
<1>7. ASSUME NEW p \in Processes, NEW s \in Slugs, Expires(p, s) PROVE Locks'
  BY <1>7 DEF Expires, Locks, Taken
<1>8. CASE HashWork
  BY <1>t, <1>8, HashesApart DEF Locks, RegistryTypeOK, Taken
<1>9. CASE UNCHANGED registryVars
  BY <1>9 DEF registryVars, Locks, Taken
<1> QED
  BY <1>1, <1>2, <1>3, <1>4, <1>5, <1>6, <1>7, <1>8, <1>9 DEF RegistryNext, RegistryWork

\* A repository leaves its project by the hand of a person, through the folder, or by one
\* who looked while there was another or none: the slug alone does not take it.
THEOREM RepositoryKept == RegistrySpec => BindingKept
<1> DEFINE taker(v, s) == /\ step'[v] # step[v]
                          /\ \/ errand[v].does = "update"
                             \/ step[v] = "rebind"
                             \/ step[v] = "bind" /\ seen[v].repo # cards[s].repo
           kept == \A s \in Taken : cards[s].repo \notin {Nothing, cards'[s].repo} =>
                     \E v \in Visitors : taker(v, s)
<1>1. ASSUME Base, Looks, Locks, [RegistryNext]_registryVars PROVE [kept]_registryVars
  <2> SUFFICES ASSUME NEW s \in Taken, cards[s].repo \notin {Nothing, cards'[s].repo}
               PROVE  \E v \in Visitors : taker(v, s)
    OBVIOUS
  <2>t. RegistryTypeOK /\ Roles
    BY <1>1 DEF Base
  <2>c. s \in Slugs /\ cards'[s] # cards[s]
    BY DEF Taken
  <2>1. PICK v \in Visitors : Rebinds(v) \/ Inserts(v) \/ Binds(v) \/ CardCommits(v)
    <3>1. CASE RegistryWork
      BY <2>c, <3>1 DEF RegistryWork, LooksBySlug, LooksByPath, CardBegins, CardDrops, CardAnswers,
                        Resolves, UsesSpace, AddsSpace, Expires
    <3>2. ~HashWork
      BY <2>c, <2>t, HashesApart
    <3> QED
      BY <1>1, <2>c, <3>1, <3>2 DEF RegistryNext, registryVars
  <2>2. CASE Rebinds(v)
    <3>1. step'[v] # step[v] /\ step[v] = "rebind"
      BY <2>2, <2>t DEF Rebinds, RegistryTypeOK, Turns
    <3> QED
      BY <3>1
  <2>3. CASE Inserts(v)
    <3>1. cards'[s] = cards[s]
      BY <2>3, <2>t, <2>c DEF Inserts, Written, RegistryTypeOK
    <3> QED
      BY <2>c, <3>1
  <2>4. CASE Binds(v)
    <3>1. step'[v] # step[v] /\ step[v] = "bind" /\ Of(v) = s /\ cards'[s].repo = errand[v].repo
      BY <2>4, <2>t, <2>c DEF Binds, Written, RegistryTypeOK, Turns
    <3>2. seen[v].repo \in {Nothing, errand[v].repo}
      BY <1>1, <3>1 DEF Looks, OthersRepo
    <3> QED
      BY <3>1, <3>2
  <2>5. CASE CardCommits(v)
    <3>1. step'[v] # step[v] /\ step[v] = "commit" /\ Of(v) = s
      BY <2>5, <2>t, <2>c DEF CardCommits, Written, RegistryTypeOK, Turns
    <3>2. errand[v].does = "update"
      BY <1>1, <2>t, <3>1 DEF Locks, Roles
    <3> QED
      BY <3>1, <3>2
  <2> QED
    BY <2>1, <2>2, <2>3, <2>4, <2>5
<1>2. RegistryInit => Looks /\ Locks
  BY DEF RegistryInit, Looks, Locks
<1> QED
  BY <1>1, <1>2, InitBase, NextBase, NextLooks, NextLocks, PTL DEF RegistrySpec, BindingKept

-----------------------------------------------------------------------------
(* A process does not resolve a slug to what it has overwritten.           *)

\* No card is removed, and none is written back to an earlier state.
LEMMA NeverYounger ==
  ASSUME Base, [RegistryNext]_registryVars, NEW s \in Taken
  PROVE  s \in Taken' /\ cards'[s].writes >= cards[s].writes /\ cards'[s].writes \in Nat
<1>t. RegistryTypeOK /\ RegistryTypeOK'
  BY NextBase DEF Base
<1>1. s \in Slugs /\ cards[s] \in Cards /\ cards[s].writes \in Nat
  BY <1>t DEF Taken, RegistryTypeOK, Cards
<1>2. CASE cards'[s] = cards[s]
  BY <1>1, <1>2 DEF Taken
<1>3. ASSUME NEW x, NEW path, NEW repo, Written(x, path, repo)
      PROVE  cards'[s] = cards[s] \/ cards'[s] = [path |-> path, repo |-> repo, writes |-> cards[s].writes + 1]
  BY <1>3, <1>t, <1>1 DEF Written, RegistryTypeOK
<1>4. CASE RegistryWork /\ cards'[s] # cards[s]
  <2>1. PICK v \in Visitors : Rebinds(v) \/ Inserts(v) \/ Binds(v) \/ CardCommits(v)
    BY <1>4 DEF RegistryWork, LooksBySlug, LooksByPath, CardBegins, CardDrops, CardAnswers, Resolves, UsesSpace,
                AddsSpace, Expires
  <2>2. PICK x \in Slugs, path \in Folders \cup {Nothing}, repo \in Repos \cup {Nothing} : Written(x, path, repo)
    <3>1. errand[v].does \in OfProject
      BY <2>1 DEF Base, Roles, Rebinds, Inserts, Binds, CardCommits, OfProject
    <3>2. Of(v) \in Slugs /\ errand[v].path \in Folders \cup {Nothing} /\ errand[v].repo \in Repos \cup {Nothing}
      BY <1>t, <3>1, RegistryAssumption DEF RegistryTypeOK
    <3>3. CASE Rebinds(v)
      <4>1. seen[v] \in Slugs /\ cards[seen[v]] \in Cards
        BY <1>t, <3>3 DEF Base, Roles, Rebinds, RegistryTypeOK, Taken
      <4> QED
        BY <3>2, <3>3, <4>1 DEF Rebinds, Cards
    <3>4. CASE Inserts(v) \/ Binds(v)
      BY <1>4, <3>2, <3>4 DEF Inserts, Binds
    <3>5. CASE CardCommits(v)
      <4>1. errand[v].does # "create" => cards[Of(v)] \in Cards
        BY <1>t, <3>2, <3>5 DEF Base, Roles, CardCommits, Taken, RegistryTypeOK
      <4> QED
        BY <1>4, <3>2, <3>5, <4>1 DEF CardCommits, Cards
    <3> QED
      BY <2>1, <3>3, <3>4, <3>5
  <2>3. s \in Taken'
    BY <1>t, <2>2, WrittenRow DEF RegistryTypeOK
  <2>4. cards'[s] = [path |-> path, repo |-> repo, writes |-> cards[s].writes + 1]
    BY <1>3, <1>4, <2>2
  <2> QED
    BY <1>1, <2>3, <2>4
<1>5. CASE HashWork \/ UNCHANGED registryVars
  BY <1>2, <1>5, <1>t, HashesApart DEF registryVars
<1> QED
  BY <1>2, <1>4, <1>5 DEF RegistryNext

LEMMA NextWrites == Base /\ Writes /\ [RegistryNext]_registryVars => Writes'
<1> SUFFICES ASSUME Base, Writes, [RegistryNext]_registryVars, NEW v \in Visitors,
                    step'[v] \in {"drop", "card", "updated"}
             PROVE  /\ Of(v)' \in Taken' /\ cards'[Of(v)'].writes >= seen'[v].writes
                    /\ step'[v] \in {"card", "updated"} =>
                         bySlug'[errand'[v].in][Of(v)'] \notin 1..(seen'[v].writes - 1)
  BY DEF Writes
<1>t. RegistryTypeOK /\ Roles /\ RegistryTypeOK' /\ Roles'
  BY NextBase DEF Base
<1>e. errand' = errand
  BY HashesApart, <1>t DEF RegistryNext, registryVars, RegistryWork, LooksBySlug, LooksByPath, CardBegins, CardDrops,
     CardAnswers, Resolves, UsesSpace, AddsSpace, Expires, Rebinds, Inserts, Binds, CardCommits
<1>1. step[v] \in {"drop", "card", "updated"} => seen'[v] = seen[v]
  BY HashesApart, <1>t DEF RegistryNext, registryVars, RegistryWork, LooksBySlug, LooksByPath, CardBegins, CardDrops,
     CardAnswers, Resolves, UsesSpace, AddsSpace, Expires, Rebinds, Inserts, Binds, CardCommits, Comes, RegistryTypeOK
<1>2. \/ step[v] \in {"drop", "card", "updated"}
      \/ step[v] = "commit" /\ seen'[v] = cards'[Of(v)]
  <2>1. CASE RegistryWork
    <3>1. ASSUME NEW w \in Visitors, LooksBySlug(w) \/ LooksByPath(w) \/ Rebinds(w) \/ Inserts(w) \/ Binds(w)
          PROVE  step'[v] = step[v]
      BY <1>t, <3>1 DEF LooksBySlug, LooksByPath, Rebinds, Inserts, Binds, Turns, RegistryTypeOK
    <3>2. ASSUME NEW w \in Visitors, CardBegins(w) \/ CardDrops(w) \/ CardAnswers(w)
          PROVE  step[v] \in {"drop", "card", "updated"}
      BY <1>t, <3>2 DEF CardBegins, CardDrops, CardAnswers, Turns, RegistryTypeOK
    <3>3. ASSUME NEW w \in Visitors, CardCommits(w)
          PROVE  \/ step[v] \in {"drop", "card", "updated"}
                 \/ step[v] = "commit" /\ seen'[v] = cards'[Of(v)]
      <4>1. CASE w # v
        <5>1. \E to : step' = [step EXCEPT ![w] = to]
          BY <3>3 DEF CardCommits, Turns
        <5>2. step'[v] = step[v]
          BY <1>t, <4>1, <5>1 DEF RegistryTypeOK
        <5> QED
          BY <5>2
      <4>2. CASE w = v
        <5>1. step' # [step EXCEPT ![v] = "failed"]
          BY <1>t DEF RegistryTypeOK
        <5>2. seen' = [seen EXCEPT ![v] = cards'[Of(v)]]
          BY <3>3, <4>2, <5>1 DEF CardCommits, Turns
        <5> QED
          BY <1>t, <3>3, <4>2, <5>2 DEF CardCommits, RegistryTypeOK
      <4> QED
        BY <4>1, <4>2
    <3>4. ASSUME NEW w \in Visitors, Resolves(w) \/ UsesSpace(w) \/ AddsSpace(w)
          PROVE  step'[v] = step[v]
      BY <1>t, <3>4 DEF Resolves, UsesSpace, AddsSpace, Turns, RegistryTypeOK
    <3>5. ASSUME NEW p \in Processes, NEW s \in Slugs, Expires(p, s) PROVE step'[v] = step[v]
      BY <3>5 DEF Expires
    <3> QED
      BY <2>1, <3>1, <3>2, <3>3, <3>4, <3>5 DEF RegistryWork
  <2>2. CASE HashWork \/ UNCHANGED registryVars
    BY <2>2, <1>t, HashesApart DEF registryVars, RegistryTypeOK
  <2> QED
    BY <2>1, <2>2 DEF RegistryNext
<1>3. Of(v)' \in Taken' /\ cards'[Of(v)'].writes >= seen'[v].writes
  <2>1. CASE step[v] \in {"drop", "card", "updated"}
    <3>1. Of(v) \in Taken /\ cards[Of(v)].writes >= seen[v].writes /\ seen[v].writes \in Nat
      BY <2>1, <1>t DEF Writes, Roles, Cards
    <3>2. cards[Of(v)].writes \in Nat
      BY <3>1, <1>t DEF Taken, RegistryTypeOK, Cards
    <3> QED
      BY <3>1, <3>2, <1>e, <1>1, <2>1, NeverYounger
  <2>2. CASE step[v] = "commit" /\ seen'[v] = cards'[Of(v)]
    <3>1. Of(v) \in Slugs /\ seen'[v] \in Cards
      BY <2>2, <1>t, RegistryAssumption DEF Roles, OfProject, RegistryTypeOK
    <3>2. Nothing \notin Cards
      BY RegistryAssumption
    <3> QED
      BY <2>2, <3>1, <3>2, <1>e DEF Taken, Cards
  <2> QED
    BY <1>2, <2>1, <2>2
<1>4. ASSUME step'[v] \in {"card", "updated"}
      PROVE  bySlug'[errand[v].in][Of(v)] \notin 1..(seen'[v].writes - 1)
  <2> DEFINE p == errand[v].in
             s == Of(v)
  <2>1. p \in Processes /\ s \in Slugs /\ seen'[v].writes \in Nat
    BY <1>4, <1>t, <1>e, RegistryAssumption DEF Roles, RegistryTypeOK, OfProject, Cards
  <2>2. CASE step[v] \notin {"card", "updated"}
    <3>1. CardDrops(v) /\ Drops(p, s)
      <4>1. CASE RegistryWork
        <5>1. ASSUME NEW w \in Visitors, CardDrops(w) PROVE CardDrops(v) /\ Drops(p, s)
          BY <1>4, <2>2, <5>1, <1>t DEF CardDrops, Turns, RegistryTypeOK
        <5>2. ASSUME NEW w \in Visitors, LooksBySlug(w) \/ LooksByPath(w) \/ Rebinds(w) \/ Inserts(w) \/ Binds(w)
              PROVE  step'[v] = step[v]
          BY <1>4, <1>t, <5>2 DEF LooksBySlug, LooksByPath, Rebinds, Inserts, Binds, Turns, RegistryTypeOK
        <5>3. ASSUME NEW w \in Visitors, CardBegins(w) \/ CardCommits(w) \/ CardAnswers(w)
              PROVE  step[v] \in {"card", "updated"}
          BY <1>4, <1>t, <5>3 DEF CardBegins, CardCommits, CardAnswers, Turns, RegistryTypeOK
        <5>4. ASSUME NEW w \in Visitors, Resolves(w) \/ UsesSpace(w) \/ AddsSpace(w)
              PROVE  step'[v] = step[v]
          BY <1>4, <1>t, <5>4 DEF Resolves, UsesSpace, AddsSpace, Turns, RegistryTypeOK
        <5>5. ASSUME NEW q \in Processes, NEW x \in Slugs, Expires(q, x) PROVE step'[v] = step[v]
          BY <5>5 DEF Expires
        <5> QED
          BY <1>4, <2>2, <4>1, <5>1, <5>2, <5>3, <5>4, <5>5 DEF RegistryWork
      <4>2. CASE HashWork \/ UNCHANGED registryVars
        BY <1>4, <2>2, <4>2, <1>t, HashesApart DEF registryVars, RegistryTypeOK
      <4> QED
        BY <4>1, <4>2 DEF RegistryNext
    <3>2. bySlug'[p][s] = 0
      BY <3>1, <2>1, <1>t, Entry DEF Drops, RegistryTypeOK
    <3> QED
      BY <3>2, <2>1
  <2>3. CASE step[v] \in {"card", "updated"}
    <3>1. bySlug[p][s] \notin 1..(seen[v].writes - 1) /\ seen'[v] = seen[v]
      BY <2>3, <1>1 DEF Writes
    <3>2. \/ bySlug'[p][s] \in {0, bySlug[p][s]}
          \/ bySlug'[p][s] = cards[s].writes
      <4>1. CASE bySlug' = bySlug
        BY <4>1
      <4>2. ASSUME NEW w \in Visitors, CardDrops(w) PROVE bySlug'[p][s] \in {0, bySlug[p][s]}
        <5>1. CASE bySlug' = bySlug
          BY <5>1
        <5>2. CASE bySlug' = [bySlug EXCEPT ![errand[w].in][errand[w].slug] = 0]
          BY <1>t, <2>1, <5>2 DEF RegistryTypeOK
        <5> QED
          BY <4>2, <5>1, <5>2 DEF CardDrops, Drops
      <4>3. ASSUME NEW w \in Visitors, Resolves(w)
            PROVE  bySlug'[p][s] \in {bySlug[p][s], cards[s].writes}
        <5> DEFINE n == cards[errand[w].slug].writes
        <5>1. errand[w].slug \in Taken => n \in Nat
          BY <1>t DEF Taken, RegistryTypeOK, Cards
        <5>2. \/ bySlug' = bySlug
              \/ errand[w].slug \in Taken /\ bySlug' = [bySlug EXCEPT ![errand[w].in][errand[w].slug] = n]
          BY <4>3 DEF Resolves
        <5>3. s = errand[w].slug => cards[s].writes = n
          OBVIOUS
        <5> HIDE DEF n, p, s
        <5>4. CASE errand[w].slug \in Taken /\ bySlug' = [bySlug EXCEPT ![errand[w].in][errand[w].slug] = n]
          <6> DEFINE g == [bySlug EXCEPT ![errand[w].in][errand[w].slug] = n]
          <6>0. \A x \in Processes, y \in Slugs :
                  g[x][y] = IF x = errand[w].in /\ y = errand[w].slug THEN n ELSE bySlug[x][y]
            BY <1>t DEF RegistryTypeOK
          <6>2. bySlug' = g
            BY <5>4
          <6> HIDE DEF g
          <6>1. bySlug'[p][s] = IF p = errand[w].in /\ s = errand[w].slug THEN n ELSE bySlug[p][s]
            BY <2>1, <6>0, <6>2
          <6> QED
            BY <5>3, <6>1
        <5> QED
          BY <5>2, <5>4
      <4>4. ASSUME NEW q \in Processes, NEW x \in Slugs, Expires(q, x)
            PROVE  bySlug'[p][s] \in {0, bySlug[p][s]}
        <5>1. CASE bySlug' = [bySlug EXCEPT ![q][x] = 0]
          <6> DEFINE g == [bySlug EXCEPT ![q][x] = 0]
          <6>0. \A a \in Processes, b \in Slugs : g[a][b] = IF a = q /\ b = x THEN 0 ELSE bySlug[a][b]
            BY <1>t DEF RegistryTypeOK
          <6>2. bySlug' = g
            BY <5>1
          <6> HIDE DEF g, p, s
          <6>1. bySlug'[p][s] = IF p = q /\ s = x THEN 0 ELSE bySlug[p][s]
            BY <2>1, <6>0, <6>2
          <6> QED
            BY <6>1
        <5> QED
          BY <4>4, <5>1 DEF Expires
      <4>5. CASE RegistryWork
        BY <4>1, <4>2, <4>3, <4>4, <4>5 DEF RegistryWork, LooksBySlug, LooksByPath, Rebinds, Inserts, Binds,
           CardBegins, CardCommits, CardAnswers, UsesSpace, AddsSpace, CachesRest
      <4>6. CASE HashWork \/ UNCHANGED registryVars
        BY <1>t, <4>1, <4>6, HashesApart DEF registryVars
      <4> QED
        BY <4>5, <4>6 DEF RegistryNext
    <3>3. cards[s].writes >= seen[v].writes /\ cards[s].writes \in Nat /\ bySlug[p][s] \in Nat
      BY <2>1, <2>3, <1>t DEF Writes, Taken, RegistryTypeOK, Cards
    <3> QED
      BY <2>1, <3>1, <3>2, <3>3
  <2> QED
    BY <2>2, <2>3
<1> QED
  BY <1>3, <1>4, <1>e

\* A process that changed a card does not resolve its slug to an earlier state of the card.
THEOREM OwnWritesSeen == RegistrySpec => []OwnWriteSeen
<1>1. RegistryInit => Writes
  BY DEF RegistryInit, Writes
<1>2. Writes => OwnWriteSeen
  BY DEF Writes, OwnWriteSeen
<1> QED
  BY <1>1, <1>2, InitBase, NextBase, NextWrites, PTL DEF RegistrySpec

-----------------------------------------------------------------------------
(* Processes agree on the ids of namespaces.                               *)

LEMMA NextAgree == Base /\ SpacesAgree /\ [RegistryNext]_registryVars => SpacesAgree'
<1> SUFFICES ASSUME Base, SpacesAgree, [RegistryNext]_registryVars PROVE SpacesAgree'
  OBVIOUS
<1>t. RegistryTypeOK /\ RegistryTypeOK'
  BY NextBase DEF Base
<1>1. CASE UNCHANGED <<spaces, spaceCache>>
  BY <1>1 DEF SpacesAgree
<1>2. ASSUME NEW v \in Visitors, UsesSpace(v) PROVE SpacesAgree'
  <2> DEFINE u == errand[v].space
             n == spaces[u]
             g == [spaceCache EXCEPT ![errand[v].in][u] = n]
  <2>1. \A x \in Processes, y \in Spaces : g[x][y] = IF x = errand[v].in /\ y = u THEN n ELSE spaceCache[x][y]
    BY <1>t DEF RegistryTypeOK
  <2>2. spaces' = spaces /\ (spaceCache' = g \/ spaceCache' = spaceCache)
    BY <1>2 DEF UsesSpace
  <2>3. \A y \in Spaces : y = u => spaces[y] = n
    OBVIOUS
  <2> HIDE DEF g, n
  <2> QED
    BY <2>1, <2>2, <2>3 DEF SpacesAgree
<1>3. ASSUME NEW v \in Visitors, AddsSpace(v) PROVE SpacesAgree'
  <2> DEFINE u == errand[v].space
             n == IF spaces[u] = 0 THEN NewId ELSE spaces[u]
             g == [spaceCache EXCEPT ![errand[v].in][u] = n]
  <2>1. \A x \in Processes, y \in Spaces : g[x][y] = IF x = errand[v].in /\ y = u THEN n ELSE spaceCache[x][y]
    BY <1>t DEF RegistryTypeOK
  <2>2. spaces' = [spaces EXCEPT ![u] = n] /\ spaceCache' = g
    BY <1>3 DEF AddsSpace
  <2>3. \A y \in Spaces : spaces[y] \in {0, IF y = u THEN n ELSE spaces[y]}
    OBVIOUS
  <2> HIDE DEF g, n
  <2>4. \A y \in Spaces : spaces'[y] = IF y = u THEN n ELSE spaces[y]
    BY <1>t, <2>2 DEF RegistryTypeOK
  <2> QED
    BY <2>1, <2>2, <2>3, <2>4 DEF SpacesAgree
<1>4. CASE RegistryWork
  BY <1>1, <1>2, <1>3, <1>4 DEF RegistryWork, LooksBySlug, LooksByPath, Rebinds, Inserts, Binds, CardBegins,
     CardCommits, CardDrops, CardAnswers, Resolves, Expires, CachesRest
<1>5. CASE HashWork \/ UNCHANGED registryVars
  BY <1>t, <1>1, <1>5, HashesApart DEF registryVars
<1> QED
  BY <1>4, <1>5 DEF RegistryNext

\* Processes that register a namespace at the same time end with the same id, that of the row.
THEOREM SpacesAgreed == RegistrySpec => []SpacesAgree
<1>1. RegistryInit => SpacesAgree
  BY DEF RegistryInit, SpacesAgree
<1> QED
  BY <1>1, InitBase, NextBase, NextAgree, PTL DEF RegistrySpec

-----------------------------------------------------------------------------
(* The hashes of resources.                                                *)

\* A hash has the moment of a statement.  A reader asks since no later than the youngest
\* row it was given; at first it asks for all
HashRows ==
  /\ hashes = [r \in Sources |-> hashes[r]] /\ now \in Nat /\ began \in [Visitors -> Nat]
  /\ \A r \in Sources : hashes[r] # Nothing =>
       hashes[r].at \in Nat /\ hashes[r] = [hash |-> hashes[r].hash, at |-> hashes[r].at]
Reader(q) ==
  /\ q = [of |-> q.of, since |-> q.since, top |-> q.top, offset |-> q.offset, lost |-> q.lost]
  /\ q.of = [r \in Sources |-> q.of[r]]
  /\ q.since \in Nat /\ q.top \in Nat /\ q.offset \in Nat /\ q.since <= q.top
AtRest(v) == /\ step[v] = "start" => reader[v].since = 0
             /\ step[v] = "again" => reader[v].since = reader[v].top
HashesTyped == /\ HashRows /\ reader = [v \in Visitors |-> reader[v]]
               /\ \A v \in Visitors : Reader(reader[v]) /\ AtRest(v)

\* What a reader does not know and nobody has put on record it is still to be given in
\* this pass, unless it is younger than the pass
Awaited(v) ==
  step[v] \in {"again", "paging"} =>
    \A r \in Sources : /\ hashes[r] # Nothing /\ hashes[r].at < reader[v].top
                       /\ hashes[r] # reader[v].of[r] /\ r \notin reader[v].lost
                       => step[v] = "paging" /\ hashes[r].at >= reader[v].since /\ Ahead(r) >= reader[v].offset
HashInv == /\ step = [v \in Visitors |-> step[v]] /\ HashesTyped
           /\ \A v \in Visitors : Awaited(v)

LEMMA RankIsNumber == \A r \in Sources : Ahead(r) \in Nat /\ Ahead(r)' \in Nat
<1>1. \A S \in SUBSET Sources : Cardinality(S) \in Nat
  BY SourcesFinite, FS_Subset, FS_CardinalityType
<1> QED BY <1>1 DEF Ahead

\* Rows move up only when others go away or get an earlier date: one that is new, or gets
\* a later date, brings nobody nearer to the front.
LEMMA LaterMovesNobodyUp ==
  ASSUME HashRows, NEW s \in Sources, NEW row, row # Nothing, row.at \in Nat,
         hashes' = [hashes EXCEPT ![s] = row], hashes[s] # Nothing => row.at >= hashes[s].at,
         NEW r \in Sources, hashes[r] # Nothing, hashes'[r] = hashes[r]
  PROVE  Ahead(r) <= Ahead(r)'
<1> DEFINE A == {q \in Sources : hashes[q] # Nothing /\ hashes[q].at > hashes[r].at}
           B == {q \in Sources : hashes'[q] # Nothing /\ hashes'[q].at > hashes'[r].at}
<1>1. \A q \in Sources : hashes'[q] = IF q = s THEN row ELSE hashes[q]
  BY DEF HashRows
<1>2. A \subseteq B
  BY <1>1 DEF HashRows
<1>3. IsFiniteSet(B)
  BY SourcesFinite, FS_Subset
<1>4. Cardinality(A) <= Cardinality(B)
  BY <1>2, <1>3, FS_Subset
<1> QED BY <1>4 DEF Ahead

\* Who registers a project or a namespace reads no hashes
LEMMA WorkersApart ==
  ASSUME RegistryWork, step = [v \in Visitors |-> step[v]]
  PROVE  /\ step' = [v \in Visitors |-> step'[v]] /\ UNCHANGED errand
         /\ \A v \in Visitors : step'[v] # step[v] => step'[v] \notin {"again", "paging", "start"}
<1> DEFINE Moved(v) == /\ UNCHANGED errand
                       /\ \E to \in Paces \ {"again", "paging", "start"} : step' = [step EXCEPT ![v] = to]
<1>1. (\E v \in Visitors : Moved(v)) \/ UNCHANGED <<errand, step>>
  <2>1. ASSUME NEW v \in Visitors, LooksBySlug(v) \/ LooksByPath(v) \/ Rebinds(v) \/ Inserts(v) \/ Binds(v)
        PROVE  Moved(v)
    BY <2>1 DEF LooksBySlug, LooksByPath, Rebinds, Inserts, Binds, Turns, Comes, Paces
  <2>2. ASSUME NEW v \in Visitors, CardBegins(v) \/ CardCommits(v) \/ CardDrops(v) \/ CardAnswers(v)
        PROVE  Moved(v)
    BY <2>2 DEF CardBegins, CardCommits, CardDrops, CardAnswers, Turns, Comes, Paces
  <2>3. ASSUME NEW v \in Visitors, Resolves(v) \/ UsesSpace(v) \/ AddsSpace(v) PROVE Moved(v)
    BY <2>3 DEF Resolves, UsesSpace, AddsSpace, Turns, Comes, Paces
  <2>4. ASSUME NEW p \in Processes, NEW s \in Slugs, Expires(p, s) PROVE UNCHANGED <<errand, step>>
    BY <2>4 DEF Expires
  <2> QED BY <2>1, <2>2, <2>3, <2>4 DEF RegistryWork
<1>2. ASSUME NEW v \in Visitors, Moved(v)
      PROVE  /\ step' = [u \in Visitors |-> step'[u]] /\ UNCHANGED errand
             /\ \A u \in Visitors : step'[u] # step[u] => step'[u] \notin {"again", "paging", "start"}
  BY <1>2
<1>3. CASE UNCHANGED <<errand, step>>
  BY <1>3
<1> QED BY <1>1, <1>2, <1>3

\* A reader for whom nothing moves: it, its rows and its step are as they were, or it is
\* not between two answers any more
LEMMA Unmoved ==
  ASSUME NEW v \in Visitors, Awaited(v), AtRest(v), UNCHANGED hashes, reader'[v] = reader[v],
         step'[v] \in {"again", "paging", "start"} => step'[v] = step[v]
  PROVE  Awaited(v)' /\ AtRest(v)'
BY DEF Awaited, AtRest, Ahead

\* A reader's belief of one source changes, and nothing else of it
LEMMA Belief ==
  ASSUME NEW q, Reader(q), NEW x, NEW y, NEW z, z = [q EXCEPT !.of[x] = y]
  PROVE  Reader(z) /\ z.since = q.since /\ z.top = q.top
<1> DEFINE f == [q.of EXCEPT ![x] = y]
<1>1. z = [q EXCEPT !.of = f]
  OBVIOUS
<1>2. f = [r \in Sources |-> f[r]]
  BY DEF Reader
<1> HIDE DEF f
<1>3. z = [of |-> f, since |-> q.since, top |-> q.top, offset |-> q.offset, lost |-> q.lost]
  BY <1>1 DEF Reader
<1> QED BY <1>2, <1>3 DEF Reader

\* What is put on record changes nothing else of a reader
LEMMA OnRecord ==
  ASSUME NEW q, Reader(q), NEW S, NEW z, z = [q EXCEPT !.lost = S]
  PROVE  /\ Reader(z) /\ z.of = q.of /\ z.since = q.since /\ z.top = q.top /\ z.offset = q.offset
         /\ z.lost = S
<1>1. z = [of |-> q.of, since |-> q.since, top |-> q.top, offset |-> q.offset, lost |-> S]
  BY DEF Reader
<1> QED BY <1>1 DEF Reader

\* A page is read by one who came for it or is in the middle of a pass: what it does not
\* know afterwards and is not on record it would be given on the pages to come
LEMMA PageRead ==
  ASSUME HashRows, NEW u \in Visitors, Reader(reader[u]), AtRest(u), Awaited(u),
         step[u] \in {"start", "again", "paging"},
         NEW offset, offset = IF step[u] = "paging" THEN reader[u].offset ELSE 0,
         NEW r \in Sources, hashes[r] # Nothing, r \notin PageOf(reader[u].since, offset),
         hashes[r] # reader[u].of[r], r \notin reader[u].lost,
         NEW top \in Nat, step[u] = "paging" => top = reader[u].top, hashes[r].at < top
  PROVE  r \in ListedSince(reader[u].since) /\ Ahead(r) >= offset + Page
<1>1. hashes[r].at \in Nat /\ reader[u].since \in Nat /\ reader[u].top \in Nat /\ offset \in Nat /\ Page \in Nat \ {0}
  BY RegistryAssumption DEF HashRows, Reader
<1>2. hashes[r].at >= reader[u].since
  <2>1. CASE step[u] = "start"
    BY <1>1, <2>1 DEF AtRest
  <2>2. CASE step[u] = "again"
    BY <1>1, <2>2 DEF AtRest, Awaited
  <2>3. CASE step[u] = "paging"
    BY <2>3 DEF Awaited
  <2> QED BY <2>1, <2>2, <2>3
<1>3. Ahead(r) >= offset
  <2>1. CASE step[u] = "paging"
    BY <2>1 DEF Awaited
  <2>2. CASE step[u] # "paging"
    BY <2>2, RankIsNumber
  <2> QED BY <2>1, <2>2
<1>4. r \in ListedSince(reader[u].since)
  BY <1>2 DEF ListedSince
<1>5. Ahead(r) \notin offset..(offset + Page - 1)
  BY <1>4 DEF PageOf
<1> QED BY <1>1, <1>3, <1>4, <1>5, RankIsNumber

LEMMA ListedHashes ==
  ASSUME HashesTyped, NEW u \in Visitors, HashLists(u), Awaited(u), step = [v \in Visitors |-> step[v]]
  PROVE  Awaited(u)' /\ AtRest(u)' /\ Reader(reader[u])'
<1> DEFINE q == reader[u]
           offset == IF step[u] = "paging" THEN q.offset ELSE 0
           page == PageOf(q.since, offset)
           of == [r \in Sources |-> IF r \in page THEN hashes[r] ELSE q.of[r]]
           unread == {r \in ListedSince(q.since) : Ahead(r) >= offset + Page}
           Full(top) == [of |-> of, since |-> q.since, top |-> top, offset |-> offset + Page, lost |-> q.lost \ page]
           Stop(top) == [of |-> of, since |-> top, top |-> top, offset |-> 0, lost |-> (q.lost \ page) \cup unread]
<1>0. Reader(q) /\ AtRest(u) /\ HashRows /\ Page \in Nat \ {0} /\ step[u] \in {"start", "again", "paging"}
  BY RegistryAssumption DEF HashesTyped, HashLists, Comes
<1>1. of = [r \in Sources |-> of[r]] /\ \A r \in Sources : of[r] = IF r \in page THEN hashes[r] ELSE q.of[r]
  OBVIOUS
<1>2. offset \in Nat /\ q.since \in Nat
  BY <1>0 DEF Reader
<1>3. ASSUME NEW top \in IF step[u] = "paging" THEN {q.top} ELSE Youngest(q.since)
      PROVE  top \in Nat /\ top >= q.since /\ (step[u] = "paging" => top = q.top)
  BY <1>0, <1>2, <1>3 DEF Reader, Youngest, ListedSince, HashRows
<1>4. UNCHANGED hashes /\ reader = [v \in Visitors |-> reader[v]]
  BY DEF HashLists, HashesTyped
<1>5. \/ reader'[u] = q /\ step'[u] = "failed"
      \/ \E top \in IF step[u] = "paging" THEN {q.top} ELSE Youngest(q.since) :
           \/ step'[u] = "paging" /\ reader'[u] = Full(top)
           \/ step'[u] = "again" /\ reader'[u] = Stop(top)
  BY <1>4 DEF HashLists, Turns
<1> HIDE DEF of
<1>6. CASE reader'[u] = q /\ step'[u] = "failed"
  BY <1>0, <1>6 DEF Awaited, AtRest
<1>7. ASSUME NEW top \in IF step[u] = "paging" THEN {q.top} ELSE Youngest(q.since),
             \/ step'[u] = "paging" /\ reader'[u] = Full(top)
             \/ step'[u] = "again" /\ reader'[u] = Stop(top)
      PROVE  Awaited(u)' /\ AtRest(u)' /\ Reader(reader[u])'
  <2>1. top \in Nat /\ top >= q.since /\ (step[u] = "paging" => top = q.top)
    BY <1>3
  <2>2. Reader(reader[u])' /\ AtRest(u)'
    BY <1>0, <1>1, <1>2, <1>7, <2>1 DEF Reader, AtRest
  <2>3. reader'[u].of = of /\ reader'[u].top = top /\ q.lost \ page \subseteq reader'[u].lost
    BY <1>7
  <2>4. SUFFICES ASSUME NEW r \in Sources, hashes[r] # Nothing, hashes[r].at < top, hashes[r] # of[r],
                        r \notin reader'[u].lost
                 PROVE  step'[u] = "paging" /\ hashes[r].at >= reader'[u].since /\ Ahead(r) >= reader'[u].offset
    BY <1>4, <2>2, <2>3 DEF Awaited, Ahead
  <2>5. r \notin page /\ hashes[r] # q.of[r] /\ r \notin q.lost
    BY <1>1, <2>3, <2>4
  <2>6. r \in ListedSince(q.since) /\ Ahead(r) >= offset + Page
    <3> HIDE DEF offset
    <3>1. offset = IF step[u] = "paging" THEN reader[u].offset ELSE 0
      BY DEF offset
    <3> QED BY <1>0, <2>1, <2>4, <2>5, <3>1, PageRead
  <2>7. hashes[r].at >= q.since
    BY <2>6 DEF ListedSince
  <2>8. r \in unread
    BY <2>6
  <2>9. CASE step'[u] = "paging" /\ reader'[u] = Full(top)
    <3>1. reader'[u].since = q.since /\ reader'[u].offset = offset + Page
      BY <2>9
    <3> HIDE DEF offset, page, unread
    <3> QED BY <2>6, <2>7, <2>9, <3>1
  <2>10. CASE step'[u] = "again" /\ reader'[u] = Stop(top)
    BY <2>4, <2>8, <2>10
  <2> QED BY <1>7, <2>9, <2>10
<1> QED BY <1>5, <1>6, <1>7

\* The row of a source changes and is noted: whoever waits for another row still waits for
\* it, or it is on record; the changed row is gone, or young enough, or on record too
LEMMA NotedRow ==
  ASSUME HashesTyped, NEW v \in Visitors, Awaited(v), step'[v] = step[v] \/ step'[v] = "done" \/ step'[v] = "missing",
         NEW s, NEW late, Noted(s, late), \A r \in Sources : r # s => hashes'[r] = hashes[r],
         s \in Sources /\ hashes'[s] # Nothing => v \in late \/ ~(hashes'[s].at < reader[v].top)
  PROVE  Awaited(v)' /\ AtRest(v)' /\ Reader(reader[v])'
<1> DEFINE S == (reader[v].lost \ {s}) \cup MovedUp(v) \cup (IF v \in late THEN {s} ELSE {})
<1>1. reader'[v] = [reader[v] EXCEPT !.lost = S]
  BY DEF Noted
<1> HIDE DEF S
<1>2. Reader(reader[v])
  BY DEF HashesTyped
<1>3. /\ Reader(reader'[v]) /\ reader'[v].of = reader[v].of /\ reader'[v].since = reader[v].since
      /\ reader'[v].top = reader[v].top /\ reader'[v].offset = reader[v].offset /\ reader'[v].lost = S
  BY <1>1, <1>2, OnRecord
<1>4. AtRest(v)'
  BY <1>3 DEF HashesTyped, AtRest
<1>5. ASSUME step'[v] \in {"again", "paging"}, NEW r \in Sources, hashes'[r] # Nothing,
             hashes'[r].at < reader'[v].top, hashes'[r] # reader'[v].of[r], r \notin reader'[v].lost
      PROVE  step'[v] = "paging" /\ hashes'[r].at >= reader'[v].since /\ Ahead(r)' >= reader'[v].offset
  <2>1. step'[v] = step[v] /\ r \notin S
    BY <1>3, <1>5
  <2>2. r # s
    BY <1>3, <1>5, <2>1 DEF S
  <2>3. hashes'[r] = hashes[r] /\ r \notin reader[v].lost /\ r \notin MovedUp(v)
    BY <2>1, <2>2 DEF S
  <2>4. step[v] = "paging" /\ hashes[r].at >= reader[v].since /\ Ahead(r) >= reader[v].offset
    BY <1>3, <1>5, <2>1, <2>3 DEF Awaited
  <2>5. ~(Ahead(r)' < reader[v].offset)
    BY <1>5, <2>3, <2>4 DEF MovedUp
  <2>6. Ahead(r)' \in Nat /\ reader[v].offset \in Nat
    BY <1>2, RankIsNumber DEF Reader
  <2> QED BY <1>3, <2>1, <2>3, <2>4, <2>5, <2>6
<1> QED BY <1>3, <1>4, <1>5 DEF Awaited

LEMMA NextHashes == HashInv /\ [RegistryNext]_registryVars => HashInv'
<1> SUFFICES ASSUME HashInv, [RegistryNext]_registryVars PROVE HashInv'
  OBVIOUS
<1>0. /\ HashesTyped /\ HashRows /\ step = [v \in Visitors |-> step[v]]
      /\ \A v \in Visitors : Reader(reader[v]) /\ AtRest(v) /\ Awaited(v)
  BY DEF HashInv, HashesTyped
<1>a. ASSUME step' = [v \in Visitors |-> step'[v]], HashRows', reader' = [v \in Visitors |-> reader'[v]],
             \A v \in Visitors : Reader(reader[v])' /\ AtRest(v)' /\ Awaited(v)'
      PROVE  HashInv'
  BY <1>a DEF HashInv, HashesTyped
\* Nobody's step leads to a list but one's own
<1>b. ASSUME step' = [v \in Visitors |-> step'[v]], HashRows', UNCHANGED <<hashes, reader>>,
             \A v \in Visitors : step'[v] \in {"again", "paging", "start"} => step'[v] = step[v]
      PROVE  HashInv'
  <2>1. \A v \in Visitors : Awaited(v)' /\ AtRest(v)'
    BY <1>0, <1>b, Unmoved
  <2> QED BY <1>0, <1>a, <1>b, <2>1 DEF HashesTyped
<1>1. CASE UNCHANGED registryVars
  BY <1>0, <1>1, <1>b DEF registryVars, hashVars, HashRows
<1>2. CASE RegistryWork /\ UNCHANGED hashVars
  BY <1>0, <1>2, <1>b, WorkersApart DEF hashVars, HashRows
<1>3. ASSUME NEW u \in Visitors, HashBegins(u) PROVE HashInv'
  <2>1. /\ UNCHANGED <<hashes, reader>>
        /\ \E to \in {"refused", "hashing"} : step' = [step EXCEPT ![u] = to]
        /\ \/ UNCHANGED <<began, now>>
           \/ began' = [began EXCEPT ![u] = now + 1] /\ now' = now + 1
    BY <1>3 DEF HashBegins, Comes, Turns
  <2>2. HashRows' /\ step' = [v \in Visitors |-> step'[v]]
    BY <1>0, <2>1 DEF HashRows
  <2> QED BY <1>0, <1>b, <2>1, <2>2
<1>4. ASSUME NEW u \in Visitors, HashWrites(u) PROVE HashInv'
  <2> DEFINE s == errand[u].source
             row == [hash |-> errand[u].hash, at |-> UpdatedAt(u, hashes[s])]
  <2>1. /\ UNCHANGED <<began, now>> /\ step' = [step EXCEPT ![u] = "done"] /\ hashes' = [hashes EXCEPT ![s] = row]
        /\ IF row = hashes[s] THEN UNCHANGED reader ELSE Noted(s, {v \in Visitors : began[u] < reader[v].top})
    BY <1>4 DEF HashWrites, Turns
  <2>2. s \in Sources => /\ row.at \in Nat /\ row = [hash |-> row.hash, at |-> row.at]
                         /\ row = hashes[s] \/ row.at = began[u]
    BY <1>0 DEF UpdatedAt, HashRows
  <2> HIDE DEF row
  <2>3. \A r \in Sources : hashes'[r] = IF r = s THEN row ELSE hashes[r]
    BY <1>0, <2>1 DEF HashRows
  <2>4. HashRows'
    BY <1>0, <2>1, <2>2, <2>3 DEF HashRows
  <2>5. step' = [v \in Visitors |-> step'[v]] /\ \A v \in Visitors : step'[v] = step[v] \/ step'[v] = "done"
    BY <1>0, <2>1
  <2>6. CASE row = hashes[s]
    <3>1. UNCHANGED <<hashes, reader>>
      BY <1>0, <2>1, <2>3, <2>6 DEF HashRows
    <3> QED BY <1>b, <2>4, <2>5, <3>1
  <2>7. CASE row # hashes[s]
    <3> DEFINE late == {v \in Visitors : began[u] < reader[v].top}
    <3>1. Noted(s, late)
      BY <2>1, <2>7
    <3>2. ASSUME NEW v \in Visitors, s \in Sources, hashes'[s] # Nothing PROVE v \in late \/ ~(hashes'[s].at < reader[v].top)
      BY <2>2, <2>3, <2>7, <3>2
    <3>3. \A r \in Sources : r # s => hashes'[r] = hashes[r]
      BY <2>3
    <3> HIDE DEF late, s
    <3>4. ASSUME NEW v \in Visitors PROVE Reader(reader[v])' /\ AtRest(v)' /\ Awaited(v)'
      BY <1>0, <2>5, <3>1, <3>2, <3>3, NotedRow
    <3>5. reader' = [v \in Visitors |-> reader'[v]]
      BY <3>1 DEF Noted
    <3> QED BY <1>a, <2>4, <2>5, <3>4, <3>5
  <2> QED BY <2>6, <2>7
<1>5. ASSUME NEW u \in Visitors, HashDeletes(u) PROVE HashInv'
  <2> DEFINE s == errand[u].source
  <2>1. /\ UNCHANGED <<began, now>> /\ hashes' = [hashes EXCEPT ![s] = Nothing] /\ Noted(s, {})
        /\ \E to \in {"missing", "done"} : step' = [step EXCEPT ![u] = to]
    BY <1>5 DEF HashDeletes, Turns
  <2>2. \A r \in Sources : hashes'[r] = IF r = s THEN Nothing ELSE hashes[r]
    BY <1>0, <2>1 DEF HashRows
  <2>3. HashRows'
    BY <1>0, <2>1, <2>2 DEF HashRows
  <2>4. /\ step' = [v \in Visitors |-> step'[v]]
        /\ \A v \in Visitors : step'[v] = step[v] \/ step'[v] = "done" \/ step'[v] = "missing"
    BY <1>0, <2>1
  <2> HIDE DEF s
  <2>5. ASSUME NEW v \in Visitors PROVE Reader(reader[v])' /\ AtRest(v)' /\ Awaited(v)'
    BY <1>0, <2>1, <2>2, <2>4, NotedRow
  <2>6. reader' = [v \in Visitors |-> reader'[v]]
    BY <2>1 DEF Noted
  <2> QED BY <1>a, <2>3, <2>4, <2>5, <2>6
<1>6. ASSUME NEW u \in Visitors, HashGets(u) PROVE HashInv'
  <2>1. /\ UNCHANGED <<hashes, began, now>>
        /\ \E to \in {"missing", "done"} : step' = [step EXCEPT ![u] = to]
        /\ reader' = [reader EXCEPT ![u].of[errand[u].source] = hashes[errand[u].source]]
    BY <1>6 DEF HashGets, Turns
  <2>2. /\ \A v \in Visitors \ {u} : reader'[v] = reader[v]
        /\ reader' = [v \in Visitors |-> reader'[v]]
        /\ reader'[u] = [reader[u] EXCEPT !.of[errand[u].source] = hashes[errand[u].source]]
    BY <1>0, <2>1 DEF HashesTyped
  <2>3. Reader(reader'[u])
    BY <1>0, <2>2, Belief
  <2>4. step' = [v \in Visitors |-> step'[v]] /\ HashRows' /\ step'[u] \in {"missing", "done"}
        /\ \A v \in Visitors \ {u} : step'[v] = step[v]
    BY <1>0, <2>1 DEF HashRows
  <2>5. \A v \in Visitors \ {u} : Awaited(v)' /\ AtRest(v)'
    BY <1>0, <2>1, <2>2, <2>4, Unmoved
  <2>6. Awaited(u)' /\ AtRest(u)'
    BY <2>4 DEF Awaited, AtRest
  <2> QED BY <1>0, <1>a, <2>2, <2>3, <2>4, <2>5, <2>6
<1>7. ASSUME NEW u \in Visitors, HashLists(u) PROVE HashInv'
  <2>1. /\ UNCHANGED <<hashes, now, began>>
        /\ \E to \in {"failed", "paging", "again"} : step' = [step EXCEPT ![u] = to]
        /\ \/ UNCHANGED reader
           \/ \E x : reader' = [reader EXCEPT ![u] = x]
    BY <1>7 DEF HashLists, Turns
  <2>2. HashRows' /\ step' = [v \in Visitors |-> step'[v]] /\ reader' = [v \in Visitors |-> reader'[v]]
        /\ \A v \in Visitors \ {u} : step'[v] = step[v] /\ reader'[v] = reader[v]
    BY <1>0, <2>1 DEF HashRows, HashesTyped
  <2>3. Awaited(u)' /\ AtRest(u)' /\ Reader(reader[u])'
    BY <1>0, <1>7, ListedHashes
  <2>4. \A v \in Visitors \ {u} : Awaited(v)' /\ AtRest(v)'
    BY <1>0, <2>1, <2>2, Unmoved
  <2> QED BY <1>0, <1>a, <2>2, <2>3, <2>4
<1> QED
  BY <1>1, <1>2, <1>3, <1>4, <1>5, <1>6, <1>7 DEF RegistryNext, HashWork

\* However many readers and writers of hashes there are, and however large the pages: a
\* reader that asks for the changes since the youngest row it was given is not told of one
\* only when a statement of an earlier moment wrote it afterwards, when it is gone, or when
\* the reader was led past it (list_hashes with updated_since, limit and offset).
THEOREM MissesExplained == RegistrySpec => []MissedHasCause
<1>1. RegistryInit => HashInv
  <2> SUFFICES ASSUME RegistryInit PROVE HashInv
    OBVIOUS
  <2>1. /\ step = [v \in Visitors |-> step[v]] /\ reader = [v \in Visitors |-> reader[v]]
        /\ HashRows
    BY DEF RegistryInit, HashRows
  <2>2. \A v \in Visitors : Reader(reader[v])
    <3>1. hashes = [r \in Sources |-> hashes[r]]
      BY DEF RegistryInit
    <3>2. \A v \in Visitors : reader[v] = [of |-> hashes, since |-> 0, top |-> 0, offset |-> 0, lost |-> {}]
      BY DEF RegistryInit
    <3> QED
      <4> SUFFICES ASSUME NEW v \in Visitors PROVE Reader(reader[v])
        OBVIOUS
      <4>1. reader[v].of = hashes /\ reader[v].since = 0 /\ reader[v].top = 0 /\ reader[v].offset = 0
        BY <3>2
      <4>2. reader[v] = [of |-> reader[v].of, since |-> reader[v].since, top |-> reader[v].top,
                         offset |-> reader[v].offset, lost |-> reader[v].lost]
        BY <3>2
      <4> QED BY <3>1, <4>1, <4>2 DEF Reader
  <2>3. \A v \in Visitors : Awaited(v) /\ AtRest(v)
    BY DEF RegistryInit, Awaited, AtRest
  <2> QED BY <2>1, <2>2, <2>3 DEF HashInv, HashesTyped
<1>2. HashInv => MissedHasCause
  <2> SUFFICES ASSUME HashInv, NEW v \in Visitors, step[v] = "again",
                      NEW r \in Sources \ ListedSince(reader[v].since)
               PROVE  hashes[r] \in {Nothing, reader[v].of[r]} \/ r \in reader[v].lost
    BY DEF MissedHasCause
  <2>1. Awaited(v) /\ reader[v].since = reader[v].top
    BY DEF HashInv, HashesTyped, AtRest
  <2>2. hashes[r] # Nothing => hashes[r].at \in Nat /\ hashes[r].at < reader[v].top
    <3>1. hashes[r] # Nothing => hashes[r].at \in Nat /\ reader[v].since \in Nat /\ ~(hashes[r].at >= reader[v].since)
      BY DEF HashInv, HashesTyped, HashRows, Reader, ListedSince
    <3> QED BY <2>1, <3>1
  <2> QED BY <2>1, <2>2 DEF Awaited
<1> QED
  BY <1>1, <1>2, NextHashes, PTL DEF RegistrySpec

-----------------------------------------------------------------------------
(* The search.                                                             *)

\* What a filter for current granules lets through is current.
LEMMA CandidatesCurrent ==
  call.filter = "current" => Candidates \subseteq {g \in ToSet(call.dense) \cup ToSet(call.fts) : status[g] = "asserted"}
BY DEF Candidates, Lets

\* A walk over live arcs that begins at current granules stays among them.
LEMMA WalkCurrent ==
  ASSUME NEW n \in Nat, NEW from \in SUBSET Current
  PROVE  ReachedIn(n, from, LiveArcs) \subseteq Current
<1> SUFFICES ASSUME NEW g \in ReachedIn(n, from, LiveArcs) PROVE g \in Current
  OBVIOUS
<1> DEFINE Leads(k, path) ==
      path[0] \in from /\ path[k] = g /\ \A i \in 1..k : <<path[i - 1], path[i]>> \in LiveArcs
<1>0. PICK k \in 0..n : \E path \in [0..k -> Granules] : Leads(k, path)
  BY DEF ReachedIn
<1>1. PICK path \in [0..k -> Granules] : Leads(k, path)
  BY <1>0
<1>2. CASE k = 0
  BY <1>1, <1>2
<1>3. CASE k # 0
  <2>1. k \in 1..k
    BY <1>3
  <2>2. <<path[k - 1], path[k]>> \in LiveArcs
    BY <1>1, <2>1
  <2> QED
    BY <1>1, <2>2 DEF LiveArcs
<1> QED
  BY <1>2, <1>3

-----------------------------------------------------------------------------
(* The inductive invariant.                                                 *)

LEMMA InitSearch == Init => IInv
BY DEF Init, IInv, Idle, Statuses, StartIsServed, Served, Current

LEMMA NextSearch == IInv /\ [Next]_vars => IInv'
<1> SUFFICES ASSUME IInv, [Next]_vars PROVE IInv'
  OBVIOUS
<1> USE DEF StartIsServed, Served
<1>1. ASSUME NEW o \in {0, Limit}, NEW k \in {"hybrid", "dense", "activation"},
             NEW f \in {"current", "closed", "all"}, AskSearch(k, f, o)
      PROVE  IInv'
  BY <1>1 DEF AskSearch, IInv, Idle, Current
<1>2. ASSUME NEW o \in {0, Limit}, NEW k \in {"spread", "walk"}, NEW g \in Granules, AskTraverse(k, g, o)
      PROVE  IInv'
  BY <1>2 DEF AskTraverse, IInv, Idle, Current
<1>3. CASE DenseFails
  BY <1>3 DEF DenseFails, IInv, Idle, Current
<1>4. CASE DenseChannel
  BY <1>4 DEF DenseChannel, IInv, Idle, Current
<1>5. CASE FtsFails
  BY <1>5 DEF FtsFails, IInv, Idle, Current
<1>6. CASE FtsChannel
  BY <1>6 DEF FtsChannel, IInv, Idle, Current
<1>7. CASE Fuse
  <2>1. PICK page \in SUBSET Candidates :
          call' = [call EXCEPT !.page = page, !.at = IF page = {} THEN "done" ELSE "bump"]
    BY <1>7 DEF Fuse
  <2>2. call.filter = "current" => page \cap call.old = {}
    BY <2>1, CandidatesCurrent DEF IInv, Current
  <2> QED
    BY <1>7, <2>1, <2>2 DEF Fuse, IInv, Idle, Current
<1>8. CASE Pick
  <2>1. PICK page \in SUBSET Candidates : call' = [call EXCEPT !.page = page, !.at = "done"]
    BY <1>8 DEF Pick
  <2>2. call.filter = "current" => page \cap call.old = {}
    BY <2>1, CandidatesCurrent DEF IInv, Current
  <2> QED
    BY <1>8, <2>1, <2>2 DEF Pick, IInv, Idle, Current
<1>9. CASE Bump
  BY <1>9 DEF Bump, IInv, Idle, Current
<1>10. CASE SpreadSeeds
  BY <1>10 DEF SpreadSeeds, IInv, Idle, Current
<1>11. CASE SpreadStart
  <2>1. CASE call.start \notin Nodes(MirroredArcs)
    BY <1>11, <2>1 DEF SpreadStart, IInv, Idle, Current
  <2>2. CASE call.start \in Nodes(MirroredArcs)
    <3>1. PICK top : call' = [call EXCEPT !.ranked = Ensured(top, call.start), !.graph = MirroredArcs,
                                          !.at = "cards"]
      BY <1>11, <2>2 DEF SpreadStart
    <3>2. call.start \in Ensured(top, call.start)
      BY DEF Ensured
    <3> QED
      BY <1>11, <3>1, <3>2 DEF SpreadStart, IInv, Idle, Current
  <2> QED
    BY <2>1, <2>2
<1>12. CASE Serve
  BY <1>12 DEF Serve, IInv, Idle, Current
<1>13. CASE CheckStart
  BY <1>13 DEF CheckStart, IInv, Idle, Current
<1>14. CASE Walk
  BY <1>14, WalkCurrent, SearchAssumption DEF Walk, IInv, Idle, Current
<1>15. ASSUME NEW g \in Granules, Closes(g) \/ Delete(g) \/ Sync(g) PROVE IInv'
  <2>1. status' \in [Granules -> Statuses] /\ Current' \subseteq Current
    BY <1>15 DEF Closes, Delete, Sync, IInv, Current, Statuses
  <2>2. call' = call
    BY <1>15 DEF Closes, Delete, Sync
  <2> QED
    BY <2>1, <2>2 DEF IInv, Idle
<1>16. ASSUME NEW a \in arcs, Prune(a) PROVE IInv'
  BY <1>16 DEF Prune, IInv, Idle, Current, Edit
<1>17. CASE UNCHANGED vars
  BY <1>17 DEF vars, IInv, Idle, Current
<1> QED
  BY <1>1, <1>2, <1>3, <1>4, <1>5, <1>6, <1>7, <1>8, <1>9, <1>10, <1>11, <1>12, <1>13, <1>14,
     <1>15, <1>16, <1>17 DEF Next

\* The inductive invariant holds throughout.
THEOREM SearchInvariance == Spec => []IInv
<1> QED
  BY InitSearch, NextSearch, PTL DEF Spec

\* Whatever fails, lags or is closed beside it, a request for what is current serves
\* nothing that was closed before it began.
THEOREM OutdatedNeverServed == Spec => []NothingOutdated
<1>1. IInv => NothingOutdated
  BY DEF IInv, NothingOutdated, Served
<1> QED
  BY <1>1, SearchInvariance, PTL

\* An activation traversal that serves anything serves its start, unless that was closed.
THEOREM StartServed == Spec => []StartIsServed
<1>1. IInv => StartIsServed
  BY DEF IInv
<1> QED
  BY <1>1, SearchInvariance, PTL

-----------------------------------------------------------------------------
(* What a process makes once.                                              *)

ProcessSpec == ProcessInit /\ [][ProcessNext]_processVars

\* A getter a coroutine is in, and a stack of them: only the innermost one is
\* inside, with a lock in its hand
Getters == [getter : Parts, at : {"look", "need", "inside"}, had : Nat, lacks : BOOLEAN]
Nested(s) == s \in Seq(Getters) /\ \A i \in 1..Len(s) : i < Len(s) => s[i].at # "inside"
Within(s) == s # << >> /\ Last(s).at = "inside"

\* Who holds a lock is inside a getter of this lock and in no other above it: it
\* awaits the database, never a lock
LocksAreInnermost ==
  \A l \in {"pool", "services"} : holder[l] # Nobody =>
    /\ holder[l] \in Callers /\ Within(stack[holder[l]])
    /\ LockOf(Last(stack[holder[l]]).getter) = l
\* ... and who is inside holds it
InsideHolds == \A c \in Callers : Within(stack[c]) =>
                 /\ holder[LockOf(Last(stack[c]).getter)] = c
                 /\ Last(stack[c]).getter = "pool" => ~Exists("pool")
\* Nothing is made twice between the start of a process and its end
MadeOnce == \A f \in Parts : made[f] \in {0, 1}

ProcessInv ==
  /\ DOMAIN stack = Callers /\ \A c \in Callers : Nested(stack[c])
  /\ DOMAIN holder = {"pool", "services"} /\ DOMAIN made = Parts
  /\ LocksAreInnermost /\ InsideHolds /\ MadeOnce

-----------------------------------------------------------------------------
(* Stacks.                                                                 *)

LEMMA TopGetter ==
  ASSUME NEW s, Nested(s), s # << >>
  PROVE  /\ Len(s) \in Nat \ {0} /\ Last(s) \in Getters /\ Last(s) = s[Len(s)]
         /\ \A i \in 1..Len(s) : s[i] \in Getters
<1>1. s \in Seq(Getters) /\ Len(s) \in Nat \ {0}
  BY EmptySeq DEF Nested
<1>2. \A i \in 1..Len(s) : s[i] \in Getters
  BY <1>1, ElementOfSeq
<1> QED
  BY <1>1, <1>2 DEF Last

LEMMA FirstFrame ==
  ASSUME NEW f \in Parts
  PROVE  Frame(f) \in Getters /\ Nested(<<Frame(f)>>) /\ ~Within(<<Frame(f)>>)
<1>1. Frame(f) \in Getters /\ Frame(f).at = "look"
  BY DEF Frame, Getters
<1> DEFINE r == Frame(f)
<1> HIDE DEF r
<1>2. <<r>> \in Seq(Getters) /\ Len(<<r>>) = 1 /\ <<r>>[1] = r
  BY <1>1 DEF r
<1> QED
  BY <1>1, <1>2 DEF Nested, Within, Last, r

LEMMA Pushed ==
  ASSUME NEW s, Nested(s), s # << >>, ~Within(s), NEW f \in Parts
  PROVE  Nested(Append(s, Frame(f))) /\ ~Within(Append(s, Frame(f)))
<1> DEFINE r == Frame(f)
           t == Append(s, r)
<1>1. r \in Getters /\ r.at = "look"
  BY DEF Frame, Getters
<1>2. s \in Seq(Getters) /\ Len(s) \in Nat \ {0} /\ s[Len(s)].at # "inside"
  BY TopGetter DEF Nested, Within
<1> HIDE DEF r
<1>3. /\ t \in Seq(Getters) /\ t # << >> /\ Len(t) = Len(s) + 1
      /\ (\A i \in 1..Len(s) : t[i] = s[i]) /\ t[Len(s) + 1] = r
  BY <1>1, <1>2, AppendProperties
<1>4. ASSUME NEW i \in 1..Len(t), i < Len(t) PROVE t[i].at # "inside"
  <2>1. i \in 1..Len(s) /\ (i < Len(s) \/ i = Len(s))
    BY <1>2, <1>3, <1>4
  <2> QED
    BY <1>2, <1>3, <2>1 DEF Nested
<1> QED
  BY <1>1, <1>3, <1>4 DEF Nested, Within, Last, r

LEMMA Moved ==
  ASSUME NEW s, Nested(s), s # << >>, NEW p \in {"look", "need", "inside"}
  PROVE  LET t == [s EXCEPT ![Len(s)].at = p]
         IN  /\ Nested(t) /\ t # << >> /\ Last(t).at = p /\ Last(t).getter = Last(s).getter
<1> DEFINE n == Len(s)
           r == [s[n] EXCEPT !.at = p]
           t == [s EXCEPT ![n] = r]
<1>1. s \in Seq(Getters) /\ n \in Nat \ {0} /\ s[n] \in Getters /\ n \in 1..n /\ Last(s) = s[n]
  BY TopGetter DEF Nested
<1>2. r \in Getters /\ r.at = p /\ r.getter = s[n].getter
  BY <1>1 DEF Getters
<1> HIDE DEF r
<1>3. /\ t \in Seq(Getters) /\ Len(t) = n
      /\ \A j \in 1..n : t[j] = IF j = n THEN r ELSE s[j]
  BY <1>1, <1>2, ExceptSeq
<1>4. t # << >>
  BY <1>1, <1>3, EmptySeq
<1>5. [s EXCEPT ![Len(s)].at = p] = t
  BY DEF t, r
<1> HIDE DEF t
<1>6. t[n] = r /\ \A j \in 1..n : j < n => t[j] = s[j]
  BY <1>1, <1>3
<1>7. Last(t) = r
  BY <1>3, <1>6 DEF Last
<1>8. \A j \in 1..n : j < n => t[j].at # "inside"
  BY <1>6 DEF Nested
<1> QED
  BY <1>1, <1>2, <1>3, <1>4, <1>5, <1>7, <1>8 DEF Nested

\* A getter goes on when what it asked for has ended
Resumed(x, b) == [x EXCEPT !.had = @ + 1, !.lacks = b]

LEMMA Resumes ==
  ASSUME NEW x \in Getters, NEW b \in BOOLEAN
  PROVE  Resumed(x, b) \in Getters /\ Resumed(x, b).at = x.at
<1> DEFINE y == [x EXCEPT !.had = @ + 1]
<1>1. y \in Getters /\ y.at = x.at
  BY DEF Getters
<1>2. [x EXCEPT !.had = @ + 1, !.lacks = b] = [y EXCEPT !.lacks = b]
  OBVIOUS
<1> HIDE DEF y
<1>3. [y EXCEPT !.lacks = b] \in Getters /\ [y EXCEPT !.lacks = b].at = y.at
  BY <1>1 DEF Getters
<1> QED
  BY <1>1, <1>2, <1>3 DEF Resumed

LEMMA TwoFields ==
  ASSUME NEW t, NEW i \in DOMAIN t
  PROVE  [t EXCEPT ![i].had = @ + 1, ![i].lacks = TRUE] = [t EXCEPT ![i] = Resumed(t[i], TRUE)]
<1> DEFINE u == [t EXCEPT ![i].had = @ + 1]
           v == [t[i] EXCEPT !.had = @ + 1]
<1>1. [t EXCEPT ![i].had = @ + 1, ![i].lacks = TRUE] = [u EXCEPT ![i].lacks = TRUE]
  OBVIOUS
<1>2. Resumed(t[i], TRUE) = [v EXCEPT !.lacks = TRUE]
  BY DEF Resumed
<1>3. u = [j \in DOMAIN t |-> IF j = i THEN v ELSE t[j]]
  OBVIOUS
<1> HIDE DEF u, v
<1>4. u[i] = v /\ DOMAIN u = DOMAIN t /\ \A j \in DOMAIN t : j # i => u[j] = t[j]
  BY <1>3
<1>5. [u EXCEPT ![i].lacks = TRUE]
        = [j \in DOMAIN u |-> IF j = i THEN [u[i] EXCEPT !.lacks = TRUE] ELSE u[j]]
  OBVIOUS
<1>6. [u EXCEPT ![i].lacks = TRUE]
        = [j \in DOMAIN t |-> IF j = i THEN Resumed(t[i], TRUE) ELSE t[j]]
  BY <1>2, <1>4, <1>5
<1> QED
  BY <1>1, <1>6

LEMMA HadOneMore ==
  ASSUME NEW x \in Getters
  PROVE  [x EXCEPT !.had = @ + 1] = Resumed(x, x.lacks)
BY DEF Resumed, Getters

\* A getter below the innermost one goes on when what it asked for has ended
LEMMA Below ==
  ASSUME NEW s, Nested(s), NEW i \in 1..Len(s), i < Len(s), NEW b \in BOOLEAN
  PROVE  LET t == SubSeq(s, 1, i)
             r == Resumed(s[i], b)
         IN  /\ t \in Seq(Getters) /\ Len(t) = i /\ t[i] = s[i]
             /\ Nested([t EXCEPT ![i] = r]) /\ ~Within([t EXCEPT ![i] = r])
<1> DEFINE t == SubSeq(s, 1, i)
           r == Resumed(s[i], b)
           u == [t EXCEPT ![i] = r]
<1>1. s \in Seq(Getters) /\ Len(s) \in Nat /\ i \in Nat \ {0} /\ \A j \in 1..Len(s) : s[j] \in Getters
  BY ElementOfSeq, LenProperties DEF Nested
<1>2. \A j \in 1..i : j \in 1..Len(s) /\ j < Len(s) /\ j \in Nat
  BY <1>1
<1>3. s[i] \in Getters /\ s[i].at # "inside"
  BY <1>1 DEF Nested
<1>4. r \in Getters /\ r.at # "inside"
  BY <1>3, Resumes
<1> HIDE DEF r
<1>5. /\ t \in Seq(Getters) /\ Len(t) = IF 1 <= i THEN i - 1 + 1 ELSE 0
      /\ \A j \in 1..(i - 1 + 1) : t[j] = s[1 + j - 1]
  <2>1. \A j \in 1..i : s[j] \in Getters
    BY <1>1, <1>2
  <2>2. 1 \in Int /\ i \in Int
    BY <1>1
  <2> QED
    BY <2>1, <2>2, SubSeqProperties
<1>6. Len(t) = i /\ \A j \in 1..i : t[j] = s[j]
  BY <1>1, <1>5
<1> HIDE DEF t
<1>7. i \in 1..Len(t)
  BY <1>1, <1>6
<1>8. /\ u \in Seq(Getters) /\ Len(u) = i
      /\ \A j \in 1..i : u[j] = IF j = i THEN r ELSE t[j]
  BY <1>4, <1>5, <1>6, <1>7, ExceptSeq
<1>9. \A j \in 1..i : u[j].at # "inside"
  BY <1>2, <1>4, <1>6, <1>8 DEF Nested
<1> HIDE DEF u
<1>10. Nested(u) /\ ~Within(u)
  BY <1>7, <1>6, <1>8, <1>9 DEF Nested, Within, Last
<1> QED
  BY <1>5, <1>6, <1>7, <1>10 DEF u, t, r

LEMMA ReturnedStack ==
  ASSUME NEW s, Nested(s), s # << >>
  PROVE  Nested(Returned(s)) /\ ~Within(Returned(s))
<1> DEFINE n == Len(s)
           rest == Front(s)
<1>1. n \in Nat \ {0} /\ \A j \in 1..n : s[j] \in Getters
  BY TopGetter
<1>2. CASE n = 1
  <2>1. rest = << >>
    BY <1>2, SubSeqEmpty DEF Front
  <2>2. Returned(s) = << >>
    BY <2>1 DEF Returned
  <2> QED
    BY <2>2, EmptySeq DEF Nested, Within
<1>3. CASE n # 1
  <2> DEFINE i == n - 1
             t == SubSeq(s, 1, i)
  <2>1. i \in 1..n /\ i < n
    BY <1>1, <1>3
  <2>2. s[i] \in Getters /\ s[i].lacks \in BOOLEAN
    BY <1>1, <2>1 DEF Getters
  <2>3. /\ t \in Seq(Getters) /\ Len(t) = i /\ t[i] = s[i]
        /\ Nested([t EXCEPT ![i] = Resumed(s[i], s[i].lacks)])
        /\ ~Within([t EXCEPT ![i] = Resumed(s[i], s[i].lacks)])
    BY <2>1, <2>2, Below
  <2>4. t # << >>
    <3> HIDE DEF t
    <3>1. Len(<< >>) = 0
      OBVIOUS
    <3> QED
      BY <1>1, <1>3, <2>3, <3>1
  <2>5. Returned(s) = [t EXCEPT ![i] = [t[i] EXCEPT !.had = @ + 1]]
    BY <2>3, <2>4 DEF Returned, Front
  <2>6. [s[i] EXCEPT !.had = @ + 1] = Resumed(s[i], s[i].lacks)
    BY <2>2, HadOneMore
  <2> QED
    BY <2>3, <2>5, <2>6
<1> QED
  BY <1>2, <1>3

LEMMA RaisedStack ==
  ASSUME NEW s, Nested(s), s # << >>
  PROVE  Nested(Raised(s)) /\ ~Within(Raised(s))
<1> DEFINE catching == {i \in 1..(Len(s) - 1) : s[i].getter = "runtime"}
<1>1. Len(s) \in Nat \ {0} /\ Len(s) - 1 \in Nat
  BY TopGetter
<1>2. CASE catching = {}
  BY <1>2, EmptySeq DEF Raised, Nested, Within
<1>3. CASE catching # {}
  <2> DEFINE i == CHOOSE i \in catching : \A j \in catching : j <= i
             t == SubSeq(s, 1, i)
  <2>1. \E k \in catching : \A j \in catching : j <= k
    BY <1>1, <1>3, GreatestOf
  <2>2. i \in catching
    BY <2>1
  <2>3. Raised(s) = [t EXCEPT ![i].had = @ + 1, ![i].lacks = TRUE]
    BY <1>3, Zenon DEF Raised
  <2> HIDE DEF i
  <2>4. i \in 1..Len(s) /\ i < Len(s)
    BY <1>1, <2>2
  <2>5. /\ t[i] = s[i] /\ i \in DOMAIN t
        /\ Nested([t EXCEPT ![i] = Resumed(s[i], TRUE)]) /\ ~Within([t EXCEPT ![i] = Resumed(s[i], TRUE)])
    <3>1. /\ t \in Seq(Getters) /\ Len(t) = i /\ t[i] = s[i]
          /\ Nested([t EXCEPT ![i] = Resumed(s[i], TRUE)])
          /\ ~Within([t EXCEPT ![i] = Resumed(s[i], TRUE)])
      BY <2>4, Below
    <3>2. i \in 1..i
      BY <1>1, <2>4
    <3>3. DOMAIN t = 1..i
      BY <3>1, LenProperties
    <3> QED
      BY <3>1, <3>2, <3>3
  <2>6. [t EXCEPT ![i].had = @ + 1, ![i].lacks = TRUE] = [t EXCEPT ![i] = Resumed(t[i], TRUE)]
    <3> HIDE DEF t
    <3> QED
      BY <2>5, TwoFields
  <2> QED
    BY <2>3, <2>5, <2>6
<1> QED
  BY <1>2, <1>3

-----------------------------------------------------------------------------
(* Locks.                                                                  *)

\* A coroutine whose stack becomes t keeps out of locks, takes a free one, or
\* lets its own go
KeepsOut(c, t) == ~Within(stack[c]) /\ ~Within(t) /\ holder' = holder
Takes(c, t) == LET l == LockOf(Last(t).getter)
               IN  /\ ~Within(stack[c]) /\ Within(t)
                   /\ holder[l] = Nobody /\ holder' = [holder EXCEPT ![l] = c]
                   /\ Last(t).getter = "pool" => ~Exists("pool")
LetsGo(c, t) == /\ Within(stack[c]) /\ ~Within(t)
                /\ holder' = [holder EXCEPT ![LockOf(Last(stack[c]).getter)] = Nobody]
\* The pool is made by who has its lock
MadeBy(c) == /\ DOMAIN made' = Parts /\ MadeOnce'
             /\ \/ made'["pool"] = made["pool"]
                \/ Within(stack[c]) /\ Last(stack[c]).getter = "pool"

LEMMA LocksKept ==
  ASSUME ProcessInv, NEW c \in Callers, NEW t, stack' = [stack EXCEPT ![c] = t], Nested(t),
         KeepsOut(c, t) \/ Takes(c, t) \/ LetsGo(c, t), MadeBy(c)
  PROVE  ProcessInv'
<1> USE DEF ProcessInv
<1>0. Nobody \notin Callers
  BY ProcessAssumption
<1>2. stack'[c] = t /\ DOMAIN stack' = Callers /\ \A d \in Callers : d # c => stack'[d] = stack[d]
  OBVIOUS
<1>3. \A d \in Callers : Nested(stack'[d])
  BY <1>2
<1>4. DOMAIN holder' = {"pool", "services"}
  BY DEF KeepsOut, Takes, LetsGo
<1>5. \A f : LockOf(f) \in {"pool", "services"} /\ LockOf("pool") = "pool"
  BY DEF LockOf
<1>6. SUFFICES LocksAreInnermost' /\ InsideHolds'
  BY <1>2, <1>3, <1>4 DEF MadeBy
<1>7. ASSUME NEW d \in Callers, d # c, Within(stack[d]), Last(stack[d]).getter = "pool"
      PROVE  ~Exists("pool")'
  <2>1. ~Exists("pool") /\ holder["pool"] = d
    BY <1>5, <1>7 DEF InsideHolds
  <2>2. ~(Within(stack[c]) /\ Last(stack[c]).getter = "pool")
    BY <1>5, <1>7, <2>1 DEF InsideHolds
  <2> QED
    BY <2>1, <2>2 DEF MadeBy, Exists
<1>8. CASE KeepsOut(c, t)
  <2>1. LocksAreInnermost'
    BY <1>2, <1>8 DEF LocksAreInnermost, KeepsOut
  <2>2. InsideHolds'
    BY <1>2, <1>7, <1>8 DEF InsideHolds, KeepsOut
  <2> QED
    BY <2>1, <2>2
<1>9. CASE Takes(c, t)
  <2> DEFINE l == LockOf(Last(t).getter)
  <2>1. /\ ~Within(stack[c]) /\ Within(t) /\ holder[l] = Nobody /\ l \in {"pool", "services"}
        /\ holder'[l] = c /\ \A k \in {"pool", "services"} : k # l => holder'[k] = holder[k]
        /\ Last(t).getter = "pool" => ~Exists("pool")'
    BY <1>5, <1>9 DEF Takes, MadeBy, Exists
  <2>2. LocksAreInnermost'
    <3> SUFFICES ASSUME NEW k \in {"pool", "services"}, holder'[k] # Nobody
                 PROVE  /\ holder'[k] \in Callers /\ Within(stack'[holder'[k]])
                        /\ LockOf(Last(stack'[holder'[k]]).getter) = k
      BY DEF LocksAreInnermost
    <3>1. CASE k = l
      BY <1>2, <2>1, <3>1
    <3>2. CASE k # l
      <4> HIDE DEF l
      <4> QED
        BY <1>2, <2>1, <3>2 DEF LocksAreInnermost
    <3> QED
      BY <3>1, <3>2
  <2>3. InsideHolds'
    <3> SUFFICES ASSUME NEW d \in Callers, Within(stack'[d])
                 PROVE  /\ holder'[LockOf(Last(stack'[d]).getter)] = d
                        /\ Last(stack'[d]).getter = "pool" => ~Exists("pool")'
      BY DEF InsideHolds
    <3>1. CASE d = c
      BY <1>2, <2>1, <3>1
    <3>2. CASE d # c
      <4>1. /\ stack'[d] = stack[d] /\ LockOf(Last(stack[d]).getter) # l
            /\ holder[LockOf(Last(stack[d]).getter)] = d
        BY <1>0, <1>2, <2>1, <3>2 DEF InsideHolds
      <4> HIDE DEF l
      <4> QED
        BY <1>5, <1>7, <2>1, <3>2, <4>1
    <3> QED
      BY <3>1, <3>2
  <2> QED
    BY <2>2, <2>3
<1>10. CASE LetsGo(c, t)
  <2> DEFINE l == LockOf(Last(stack[c]).getter)
  <2>1. /\ Within(stack[c]) /\ ~Within(t) /\ holder[l] = c /\ l \in {"pool", "services"}
        /\ holder'[l] = Nobody /\ \A k \in {"pool", "services"} : k # l => holder'[k] = holder[k]
    BY <1>5, <1>10 DEF LetsGo, InsideHolds
  <2>2. LocksAreInnermost'
    <3> SUFFICES ASSUME NEW k \in {"pool", "services"}, holder'[k] # Nobody
                 PROVE  /\ holder'[k] \in Callers /\ Within(stack'[holder'[k]])
                        /\ LockOf(Last(stack'[holder'[k]]).getter) = k
      BY DEF LocksAreInnermost
    <3>1. k # l /\ holder'[k] = holder[k]
      BY <2>1
    <3>2. holder[k] # c
      BY <3>1, <2>1 DEF LocksAreInnermost
    <3> QED
      BY <1>2, <3>1, <3>2 DEF LocksAreInnermost
  <2>3. InsideHolds'
    <3> SUFFICES ASSUME NEW d \in Callers, Within(stack'[d])
                 PROVE  /\ holder'[LockOf(Last(stack'[d]).getter)] = d
                        /\ Last(stack'[d]).getter = "pool" => ~Exists("pool")'
      BY DEF InsideHolds
    <3>1. d # c /\ stack'[d] = stack[d]
      BY <1>2, <2>1
    <3>2. LockOf(Last(stack[d]).getter) # l /\ holder[LockOf(Last(stack[d]).getter)] = d
      BY <2>1, <3>1 DEF InsideHolds
    <3> HIDE DEF l
    <3> QED
      BY <1>5, <1>7, <2>1, <3>1, <3>2
  <2> QED
    BY <2>2, <2>3
<1> QED
  BY <1>8, <1>9, <1>10

-----------------------------------------------------------------------------
(* The steps.                                                              *)

LEMMA MakesOnce ==
  ASSUME ProcessInv, NEW fs, "pool" \notin fs, Make(Fresh(fs)) \/ UNCHANGED made, NEW c
  PROVE  MadeBy(c)
BY DEF ProcessInv, MadeOnce, MadeBy, Make, Fresh, Exists, Parts

\* What a getter still lacks is a part
LEMMA WantedIsPart ==
  ASSUME ProcessInv, NEW c \in Callers, Lacking(c)
  PROVE  Wanted(c) \in Parts
<1>1. Nested(stack[c]) /\ stack[c] # << >>
  BY DEF ProcessInv, Lacking, In
<1>2. Top(c).had \in Nat /\ Top(c).getter \in Parts
  BY <1>1, TopGetter DEF Top, Getters
<1>3. CASE Top(c).getter \in Repositories
  <2>1. Prerequisites(Top(c).getter) = <<"pool">>
    BY <1>3 DEF Prerequisites, Repositories, Services
  <2>2. Top(c).had = 0
    BY <1>2, <2>1 DEF Lacking
  <2> QED
    BY <2>1, <2>2 DEF Wanted, Parts
<1>4. CASE Top(c).getter = "runtime"
  <2>1. Prerequisites(Top(c).getter) = <<"settings">>
    BY <1>4 DEF Prerequisites, Repositories, Services
  <2>2. Top(c).had = 0
    BY <1>2, <2>1 DEF Lacking
  <2> QED
    BY <2>1, <2>2 DEF Wanted, Parts, Repositories
<1>5. CASE Top(c).getter \in Services
  <2>1. Prerequisites(Top(c).getter) = <<"pool", "runtime">>
    BY <1>5 DEF Prerequisites, Services, Repositories
  <2>2. Top(c).had \in {0, 1}
    BY <1>2, <2>1 DEF Lacking
  <2> QED
    BY <2>1, <2>2 DEF Wanted, Parts
<1>6. CASE Top(c).getter \notin Repositories \cup Services \cup {"runtime"}
  <2>1. Prerequisites(Top(c).getter) = << >>
    BY <1>6 DEF Prerequisites
  <2> QED
    BY <1>2, <2>1 DEF Lacking
<1> QED
  BY <1>3, <1>4, <1>5, <1>6

\* A getter that returns or raises, and one that goes on
LEMMA Ends ==
  ASSUME ProcessInv, NEW c \in Callers, stack[c] # << >>, Return(c) \/ Raise(c)
  PROVE  \E t : stack' = [stack EXCEPT ![c] = t] /\ Nested(t) /\ ~Within(t)
<1>1. Nested(stack[c])
  BY DEF ProcessInv
<1> QED
  BY <1>1, ReturnedStack, RaisedStack DEF Return, Raise

LEMMA Goes ==
  ASSUME ProcessInv, NEW c \in Callers, stack[c] # << >>, NEW p \in {"look", "need", "inside"}, GoTo(c, p)
  PROVE  \E t : /\ stack' = [stack EXCEPT ![c] = t] /\ Nested(t) /\ Last(t).getter = Top(c).getter
                /\ Within(t) <=> p = "inside"
<1> DEFINE t == [stack[c] EXCEPT ![Len(stack[c])].at = p]
<1>1. Nested(stack[c])
  BY DEF ProcessInv
<1>2. Nested(t) /\ t # << >> /\ Last(t).at = p /\ Last(t).getter = Last(stack[c]).getter
  BY <1>1, Moved
<1>3. stack' = [stack EXCEPT ![c] = t]
  BY DEF GoTo
<1> HIDE DEF t
<1> QED
  BY <1>2, <1>3 DEF Within, Top

\* A getter that needs no lock, or passes with its lock free
LEMMA Passes ==
  ASSUME ProcessInv, NEW c \in Callers, stack[c] # << >>, ~Within(stack[c]), MadeBy(c),
         Return(c) \/ Raise(c), UNCHANGED holder
  PROVE  ProcessInv'
BY Ends, LocksKept DEF KeepsOut

LEMMA Awaits ==
  ASSUME ProcessInv, NEW c \in Callers, NEW f, Entering(c, f), Await(c, f), MadeBy(c),
         f = "pool" => ~Exists("pool")
  PROVE  ProcessInv'
<1>1. stack[c] # << >> /\ ~Within(stack[c]) /\ Top(c).getter = f
  BY DEF Entering, In, Within, Top
<1>2. PICK t : /\ stack' = [stack EXCEPT ![c] = t] /\ Nested(t) /\ Last(t).getter = f /\ Within(t)
  BY <1>1, Goes DEF Await
<1>3. Takes(c, t)
  BY <1>1, <1>2 DEF Takes, Entering, Await
<1> QED
  BY <1>2, <1>3, LocksKept

LEMMA Frees ==
  ASSUME ProcessInv, NEW c \in Callers, In(c, "inside"), MadeBy(c), Return(c) \/ Raise(c),
         holder' = [holder EXCEPT ![LockOf(Top(c).getter)] = Nobody]
  PROVE  ProcessInv'
<1>1. stack[c] # << >> /\ Within(stack[c])
  BY DEF In, Within, Top
<1>2. PICK t : stack' = [stack EXCEPT ![c] = t] /\ Nested(t) /\ ~Within(t)
  BY <1>1, Ends
<1> QED
  BY <1>1, <1>2, LocksKept DEF LetsGo, Top

LEMMA NextProcess == ProcessInv /\ [ProcessNext]_processVars => ProcessInv'
<1> SUFFICES ASSUME ProcessInv, [ProcessNext]_processVars PROVE ProcessInv'
  OBVIOUS
<1>a. ASSUME UNCHANGED made PROVE \A c : MadeBy(c)
  BY <1>a, MakesOnce, "pool" \notin {}
<1>1. ASSUME NEW c \in Callers, NEW f \in Asked, Ask(c, f) PROVE ProcessInv'
  <2>1. f \in Parts
    BY <1>1, ProcessAssumption DEF Ask
  <2>2. /\ stack' = [stack EXCEPT ![c] = <<Frame(f)>>] /\ Nested(<<Frame(f)>>)
        /\ KeepsOut(c, <<Frame(f)>>) /\ UNCHANGED made
    BY <1>1, <2>1, FirstFrame DEF Ask, KeepsOut, Within
  <2> QED
    BY <1>a, <2>2, LocksKept
<1>2. ASSUME NEW c \in Callers, Look(c) PROVE ProcessInv'
  <2>1. stack[c] # << >> /\ ~Within(stack[c]) /\ UNCHANGED <<made, holder>>
    BY <1>2 DEF Look, In, Within, Top
  <2>2. CASE Return(c)
    BY <1>a, <2>1, <2>2, Passes
  <2>3. CASE GoTo(c, "need")
    <3>1. PICK t : stack' = [stack EXCEPT ![c] = t] /\ Nested(t) /\ ~Within(t)
      <4>1. PICK t : /\ stack' = [stack EXCEPT ![c] = t] /\ Nested(t)
                     /\ Within(t) <=> "need" = "inside"
        BY <2>1, <2>3, Goes
      <4> QED
        BY <4>1
    <3> QED
      BY <1>a, <2>1, <3>1, LocksKept DEF KeepsOut
  <2> QED
    BY <1>2, <2>2, <2>3 DEF Look
<1>3. ASSUME NEW c \in Callers, Descend(c) PROVE ProcessInv'
  <2> DEFINE t == Append(stack[c], Frame(Wanted(c)))
  <2>1. stack[c] # << >> /\ ~Within(stack[c]) /\ Nested(stack[c]) /\ UNCHANGED <<made, holder>>
    BY <1>3 DEF Descend, Lacking, In, Within, Top, ProcessInv
  <2>2. Nested(t) /\ ~Within(t)
    BY <1>3, <2>1, WantedIsPart, Pushed DEF Descend
  <2>3. stack' = [stack EXCEPT ![c] = t]
    BY <1>3 DEF Descend
  <2> HIDE DEF t
  <2> QED
    BY <1>a, <2>1, <2>2, <2>3, LocksKept DEF KeepsOut
<1>4. ASSUME NEW c \in Callers, NEW f, Entering(c, f) PROVE stack[c] # << >> /\ ~Within(stack[c])
  BY <1>4 DEF Entering, In, Within, Top
<1>5. ASSUME NEW c \in Callers, EnterPool(c) PROVE ProcessInv'
  BY <1>a, <1>4, <1>5, Passes, Awaits DEF EnterPool, Pass
<1>6. ASSUME NEW c \in Callers, Connect(c) PROVE ProcessInv'
  <2>1. In(c, "inside") /\ Top(c).getter = "pool" /\ Within(stack[c]) /\ ~Exists("pool")
    BY <1>6 DEF Connect, In, Within, Top, ProcessInv, InsideHolds
  <2>2. MadeBy(c)
    BY <1>a, <1>6, <2>1 DEF Connect, MadeBy, Make, Exists, Top, ProcessInv, MadeOnce
  <2>3. holder' = [holder EXCEPT ![LockOf(Top(c).getter)] = Nobody] /\ (Return(c) \/ Raise(c))
    BY <1>6, <2>1 DEF Connect, LockOf
  <2> QED
    BY <2>1, <2>2, <2>3, Frees
<1>7. ASSUME NEW c \in Callers, EnterRuntime(c) PROVE ProcessInv'
  <2>1. MadeBy(c) /\ Entering(c, "runtime")
    BY <1>7, MakesOnce DEF EnterRuntime
  <2>2. CASE Await(c, "runtime")
    BY <2>1, <2>2, Awaits
  <2>3. CASE Pass(c)
    BY <1>4, <2>1, <2>3, Passes DEF Pass
  <2> QED
    BY <1>7, <2>2, <2>3 DEF EnterRuntime
<1>8. ASSUME NEW c \in Callers, Start(c) PROVE ProcessInv'
  <2>1. holder' = [holder EXCEPT ![LockOf(Top(c).getter)] = Nobody]
    BY <1>8 DEF Start, LockOf, Clients
  <2> QED
    BY <1>a, <1>8, <2>1, Frees DEF Start
<1>9. ASSUME NEW c \in Callers, EnterSimple(c) PROVE ProcessInv'
  <2>1. PICK f \in Clients \cup Repositories : Entering(c, f) /\ Make(Fresh({f})) /\ Pass(c)
    BY <1>9 DEF EnterSimple
  <2>2. MadeBy(c)
    BY <2>1, MakesOnce DEF Clients, Repositories
  <2> QED
    BY <1>4, <2>1, <2>2, Passes DEF Pass
<1>10. ASSUME NEW c \in Callers, EnterService(c) PROVE ProcessInv'
  <2>1. PICK f \in Services : /\ Entering(c, f) /\ Pass(c)
                              /\ UNCHANGED made \/ Make(Fresh(PartsOf(f)))
    BY <1>10 DEF EnterService
  <2>2. MadeBy(c)
    <3>1. "pool" \notin PartsOf(f)
      BY DEF Services, PartsOf
    <3> QED
      BY <2>1, <3>1, MakesOnce
  <2>3. stack[c] # << >> /\ ~Within(stack[c]) /\ Return(c) /\ UNCHANGED holder
    BY <1>4, <2>1 DEF Pass
  <2> QED
    BY <2>2, <2>3, Passes
<1>11. ASSUME NEW c \in Callers, QdrantRefused(c) PROVE ProcessInv'
  BY <1>a, <1>4, <1>11, Passes DEF QdrantRefused
<1>12. ASSUME NEW c \in Callers, EnterAtOnce(c) PROVE ProcessInv'
  <2>1. PICK f \in {"qdrant", "embedding"} : In(c, "need") /\ Make(Fresh({f})) /\ Pass(c)
    BY <1>12 DEF EnterAtOnce
  <2>2. MadeBy(c) /\ stack[c] # << >> /\ ~Within(stack[c])
    BY <2>1, MakesOnce DEF In, Within, Top
  <2> QED
    BY <2>1, <2>2, Passes DEF Pass
<1>13. ASSUME UNCHANGED <<stack, holder>>, NEW c, MadeBy(c), made'["pool"] = made["pool"] PROVE ProcessInv'
  BY <1>13 DEF ProcessInv, LocksAreInnermost, InsideHolds, MadeBy, Exists
<1>14. ASSUME NEW c \in Callers, AskSync(c) PROVE ProcessInv'
  <2>1. MadeBy(c) /\ made'["pool"] = made["pool"]
    BY <1>14, MakesOnce DEF AskSync, Make, Fresh, Parts
  <2> QED
    BY <1>13, <1>14, <2>1 DEF AskSync
<1>15. CASE Close
  BY <1>15 DEF Close, ProcessInv, LocksAreInnermost, InsideHolds, MadeOnce, Within
<1>16. CASE Outage \/ UNCHANGED processVars
  BY <1>a, <1>13, <1>16 DEF Outage, processVars
<1> QED
  BY <1>1, <1>2, <1>3, <1>5, <1>6, <1>7, <1>8, <1>9, <1>10, <1>11, <1>12, <1>14, <1>15, <1>16
     DEF ProcessNext, Proceed

LEMMA InitProcess == ProcessInit => ProcessInv
BY EmptySeq, ProcessAssumption
   DEF ProcessInit, ProcessInv, Nested, Within, LocksAreInnermost, InsideHolds, MadeOnce

\* However getters overlap, fail and are left behind, who holds a lock awaits the
\* database and no other lock, so that no circle of waiting coroutines can form
\* (the comments in get_runtime_config and get_memory_service).
THEOREM LocksInnermost == ProcessSpec => []LocksAreInnermost
<1>1. ProcessSpec => []ProcessInv
  BY InitProcess, NextProcess, PTL DEF ProcessSpec
<1>2. ProcessInv => LocksAreInnermost
  BY DEF ProcessInv
<1> QED
  BY <1>1, <1>2, PTL

\* However many coroutines ask for it at once, a part is made once in the life of a
\* process (the second look behind the lock).
THEOREM PartsMadeOnce == ProcessSpec => []MadeOnce
<1>1. ProcessSpec => []ProcessInv
  BY InitProcess, NextProcess, PTL DEF ProcessSpec
<1>2. ProcessInv => MadeOnce
  BY DEF ProcessInv
<1> QED
  BY <1>1, <1>2, PTL

-----------------------------------------------------------------------------
(* The composition.                                                        *)

\* What holds of the process, of the bridge with its batches and of the registry
\* alone holds of them in the serving, where one part moves at a time.
THEOREM ServingCovers == ServingSpec => ProcessSpec /\ BatchSpec /\ RegistrySpec
<1>1. ServingInit => ProcessInit /\ BridgeInit /\ IngestInit /\ RegistryInit
  BY DEF ServingInit
<1>2. [ServingNext]_servingVars
        => [ProcessNext]_processVars /\ [BatchNext]_batchVars /\ [RegistryNext]_registryVars
  BY DEF ServingNext, servingVars, batchVars
<1> QED
  BY <1>1, <1>2, PTL DEF ServingSpec, ProcessSpec, BatchSpec, RegistrySpec
=============================================================================
