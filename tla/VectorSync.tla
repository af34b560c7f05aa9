------------------------------ MODULE VectorSync ------------------------------
(***************************************************************************)
(* The two stores behind MemoryRepository: every write commits in          *)
(* PostgreSQL first and is then told to Qdrant, in calls of their own that *)
(* may work, raise (with or without effect) or be skipped because the      *)
(* worker's circuit breaker is open.                                       *)
(*                                                                         *)
(* PostgreSQL is the FactLedger that GranuleStore implements, so a commit  *)
(* is one step here.  A point is described by the status in its payload.   *)
(***************************************************************************)
EXTENDS Naturals

CONSTANTS MaxId, Hashes, None,   \* as in FactLedger
          Workers,               \* worker processes, each with its own breaker
          Ops,                   \* the operations callers issue
          Threshold,             \* failure_threshold of the breaker
          MaxFaults,             \* bound: calls that raise
          Crashes                \* whether workers are lost or time out

VARIABLES next, state, fact, heir,   \* PostgreSQL
          point,                     \* Qdrant: payload status of every granule's point
          breaker,                   \* consecutive failures each worker has counted
          faults,                    \* calls that have raised
          blamed,                    \* history: granules an indexing call failed
          pc, job

Pg == INSTANCE FactLedger

OpNames == {"store", "version", "link", "retract", "forget", "delete", "gc"}

ASSUME VectorAssumption == /\ MaxId \in Nat /\ MaxFaults \in Nat
                           /\ Threshold \in Nat \ {0}
                           /\ None \notin Hashes
                           /\ Ops \subseteq OpNames
                           /\ Crashes \in BOOLEAN

rows == <<next, state, fact, heir>>
index == <<point, breaker, faults, blamed>>
vars == <<rows, index, pc, job>>

Ids == 1..MaxId
Statuses == {"none", "asserted", "superseded", "retracted"}
Points == {"idle", "insert", "commit", "link", "retract", "forget", "delete",
           "gcSelect", "gcPurge", "upsert", "markOld", "markRetracted", "scroll", "sweep",
           "unpoint"}

\* g: the granule; old: the granule that was replaced; f: the content;
\* set: the points a statement is about
Jobs == [op : OpNames \cup {"none"}, g : 0..MaxId, old : 0..MaxId,
         f : Hashes \cup {None}, set : SUBSET Ids]

Blank == [op |-> "none", g |-> 0, old |-> 0, f |-> None, set |-> {}]

StartOf(op) == CASE op = "store"   -> "insert"
                 [] op = "version" -> "commit"
                 [] op = "gc"      -> "gcSelect"
                 [] op \in {"link", "retract", "forget", "delete"} -> op
                 [] OTHER          -> "idle"

TypeOK == /\ next \in 1..(MaxId + 1)
          /\ state \in [Ids -> Pg!States]
          /\ fact \in [Ids -> Hashes \cup {None}]
          /\ heir \in [Ids -> 0..MaxId]
          /\ point \in [Ids -> Statuses]
          /\ breaker \in [Workers -> 0..Threshold]
          /\ faults \in 0..MaxFaults
          /\ blamed \in SUBSET Ids
          /\ pc \in [Workers -> Points]
          /\ job \in [Workers -> Jobs]

Init == /\ Pg!Init
        /\ point = [g \in Ids |-> "none"]
        /\ breaker = [w \in Workers |-> 0]
        /\ faults = 0 /\ blamed = {}
        /\ pc = [w \in Workers |-> "idle"]
        /\ job = [w \in Workers |-> Blank]

At(w, p) == pc[w] = p
Note(w, j) == job' = [job EXCEPT ![w] = j]

\* A worker that has finished acknowledges the message and is idle
Goto(w, p) == /\ pc' = [pc EXCEPT ![w] = p]
              /\ Note(w, IF p = "idle" THEN Blank ELSE job[w])
Carry(w, p, j) == pc' = [pc EXCEPT ![w] = p] /\ Note(w, j)
Exists(g) == g \in Ids /\ state[g] \in {"asserted", "superseded", "retracted"}

-----------------------------------------------------------------------------
(* A call to Qdrant through the breaker that would turn point into P.      *)

\* An open breaker lets a call through once its recovery time is over
Works(w, P) == /\ point' = P
               /\ breaker' = [breaker EXCEPT ![w] = 0] /\ UNCHANGED faults

Skipped(w) == breaker[w] = Threshold /\ UNCHANGED <<point, breaker, faults>>

\* A call that times out may still have had its effect
Raises(w, P) == /\ faults < MaxFaults /\ faults' = faults + 1
                /\ point' \in {point, P}
                /\ breaker' = [breaker EXCEPT ![w] = IF @ < Threshold THEN @ + 1 ELSE @]

\* The task goes on after a skipped call and fails on one that raises
Call(w, P, then) == /\ \/ (Works(w, P) \/ Skipped(w)) /\ Goto(w, then)
                       \/ Raises(w, P) /\ Goto(w, "idle")
                    /\ UNCHANGED rows

Blame(S) == blamed' = {g \in blamed \cup S : state[g] = "asserted"}

\* set_payload changes the points that exist
Marked(g, s) == IF point[g] = "none" THEN point ELSE [point EXCEPT ![g] = s]
Without(S) == [g \in Ids |-> IF g \in S THEN "none" ELSE point[g]]

-----------------------------------------------------------------------------
(* Writes that create a point: store and create_version.                   *)

StoreInsert(w) ==
  /\ At(w, "insert")
  /\ \/ /\ Pg!Live(job[w].f)                      \* confirmed: Qdrant is left alone
        /\ Goto(w, "idle") /\ UNCHANGED rows
     \/ /\ Pg!Record(job[w].f)
        /\ Carry(w, "upsert", [job[w] EXCEPT !.g = next])
  /\ UNCHANGED index

VersionCommit(w) ==
  /\ At(w, "commit")
  /\ \/ /\ ~Exists(job[w].g) \/ state[job[w].g] # "asserted" \/ Pg!Live(job[w].f)
        /\ Goto(w, "idle") /\ UNCHANGED rows
     \/ /\ Exists(job[w].g) /\ Pg!Revise(job[w].g, job[w].f)
        /\ Carry(w, "upsert", [job[w] EXCEPT !.g = next, !.old = job[w].g])
  /\ UNCHANGED index

AfterUpsert(w) == IF job[w].op = "version" THEN "markOld" ELSE "idle"

\* Variant: the payload is written, the vector is not
UpsertPayloadOnly(w) == /\ At(w, "upsert")
                        /\ Call(w, Marked(job[w].g, "asserted"), AfterUpsert(w))
                        /\ UNCHANGED blamed

Upsert(w) == /\ At(w, "upsert")
             /\ LET P == [point EXCEPT ![job[w].g] = "asserted"] IN
                  /\ Call(w, P, AfterUpsert(w))
                  /\ Blame(IF point' = P THEN {} ELSE {job[w].g})

-----------------------------------------------------------------------------
(* Writes that close granules.                                             *)

\* Variant: Qdrant is told although there is nothing to update
LinkUnchecked(w) ==
  /\ At(w, "link")
  /\ Goto(w, "markOld")
  /\ \/ ~Exists(job[w].g) /\ UNCHANGED rows
     \/ Exists(job[w].g) /\ Pg!Adopt(job[w].g, job[w].old)
  /\ UNCHANGED index

\* update(supersedes=old): Qdrant is told whether or not old was still asserted
LinkCommit(w) ==
  /\ At(w, "link")
  /\ \/ /\ ~Exists(job[w].g) \/ ~Exists(job[w].old)
        /\ Goto(w, "idle") /\ UNCHANGED rows
     \/ /\ Exists(job[w].g) /\ Exists(job[w].old)
        /\ \/ Pg!Adopt(job[w].g, job[w].old)
           \/ state[job[w].old] # "asserted" /\ UNCHANGED rows
        /\ Goto(w, "markOld")
  /\ UNCHANGED index

MarkOld(w) == At(w, "markOld") /\ Call(w, Marked(job[w].old, "superseded"), "idle")
                               /\ UNCHANGED blamed

RetractCommit(w) ==
  /\ At(w, "retract")
  /\ \/ ~Exists(job[w].g) /\ Goto(w, "idle") /\ UNCHANGED rows
     \/ /\ Exists(job[w].g) /\ state[job[w].g] # "asserted"
        /\ Goto(w, "idle") /\ UNCHANGED rows
     \/ /\ Exists(job[w].g) /\ Pg!Withdraw({job[w].g})
        /\ Goto(w, "markRetracted")
  /\ UNCHANGED index

MarkRetracted(w) == At(w, "markRetracted") /\ Call(w, Marked(job[w].g, "retracted"), "idle")
                                           /\ UNCHANGED blamed

\* forget: one user is modelled, so every live granule is withdrawn and every
\* point matches the filter
ForgetCommit(w) == /\ At(w, "forget")
                   /\ Pg!Withdraw({g \in Ids : state[g] = "asserted"})
                   /\ Goto(w, "scroll") /\ UNCHANGED index

ForgetScroll(w) ==
  /\ At(w, "scroll")
  /\ LET found == {g \in Ids : point[g] # "none"} IN
     \/ Works(w, point) /\ found # {} /\ Carry(w, "sweep", [job[w] EXCEPT !.set = found])
     \/ Works(w, point) /\ found = {} /\ Goto(w, "idle")
     \/ (Skipped(w) \/ Raises(w, point)) /\ Goto(w, "idle")
  /\ UNCHANGED <<rows, blamed>>

\* The granules stored since the commit lose their points with the others
ForgetSweep(w) == /\ At(w, "sweep")
                  /\ Call(w, Without(job[w].set), "idle")
                  /\ Blame(job[w].set)

-----------------------------------------------------------------------------
(* delete and garbage collection.                                          *)

DeleteCommit(w) ==
  /\ At(w, "delete")
  /\ \/ ~Exists(job[w].g) /\ Goto(w, "idle") /\ UNCHANGED rows
     \/ /\ Exists(job[w].g) /\ Pg!Erase({job[w].g})
        /\ Carry(w, "unpoint", [job[w] EXCEPT !.set = {job[w].g}])
  /\ UNCHANGED index

\* freeze asks nothing of Qdrant and is in GranuleStore: any granule that could
\* be purged may turn out to be frozen
Purgeable(g) == state[g] = "superseded" /\ heir[g] # 0

GcSelect(w) == /\ At(w, "gcSelect")
               /\ \/ Goto(w, "idle")
                  \/ \E S \in SUBSET {g \in Ids : Purgeable(g)} \ {{}} :
                       Carry(w, "gcPurge", [job[w] EXCEPT !.set = S])
               /\ UNCHANGED <<rows, index>>

\* Qdrant is told to delete all the candidates, also those PostgreSQL has kept
GcPurge(w) == /\ At(w, "gcPurge")
              /\ \E S \in SUBSET {g \in job[w].set : Purgeable(g)} :
                   /\ Pg!Erase(S)
                   /\ Goto(w, IF S = {} THEN "idle" ELSE "unpoint")
              /\ UNCHANGED index

Unpoint(w) == /\ At(w, "unpoint") /\ Call(w, Without(job[w].set), "idle") 
              /\ UNCHANGED blamed

-----------------------------------------------------------------------------
(* The task queue, as in GranuleStore.                                     *)

Known == 1..(next - 1)

Form(op, G, Olds, F) == [op : {op}, g : G, old : Olds, f : F, set : {{}}]

Tasks(op) == CASE op = "store"            -> Form(op, {0}, {0}, Hashes)
               [] op = "version"          -> Form(op, Known, {0}, Hashes)
               [] op = "link"             -> Form(op, Known, Known, {None})
               [] op \in {"forget", "gc"} -> Form(op, {0}, {0}, {None})
               [] OTHER                   -> Form(op, Known, {0}, {None})

Submit(w, op) == /\ At(w, "idle")
                 /\ \E j \in Tasks(op) : Carry(w, StartOf(op), j)
                 /\ UNCHANGED <<rows, index>>

\* A granule whose worker stops before the point is written
Abandoned(w) == IF At(w, "upsert") THEN {job[w].g} ELSE {}

\* The message names the granule a version is made of
Fresh(j) == [j EXCEPT !.g = CASE j.op = "store"               -> 0
                             [] j.op = "version" /\ j.old # 0 -> j.old
                             [] OTHER                         -> j.g,
                      !.old = IF j.op = "version" THEN 0 ELSE j.old,
                      !.set = {}]

\* A lost worker's task starts over, in a process with a new breaker
Lose(w) == /\ Crashes /\ ~At(w, "idle")
           /\ Blame(Abandoned(w))
           /\ breaker' = [breaker EXCEPT ![w] = 0]
           /\ Carry(w, StartOf(job[w].op), Fresh(job[w]))
           /\ UNCHANGED <<rows, point, faults>>

\* Its time limit ends a task
TimeOut(w) == /\ Crashes /\ ~At(w, "idle")
              /\ Blame(Abandoned(w))
              /\ Goto(w, "idle") /\ UNCHANGED <<rows, point, breaker, faults>>

Create(w) == StoreInsert(w) \/ VersionCommit(w) \/ Upsert(w)
CloseOld(w) == \/ LinkCommit(w) \/ MarkOld(w) \/ RetractCommit(w) \/ MarkRetracted(w)
               \/ ForgetCommit(w) \/ ForgetScroll(w) \/ ForgetSweep(w)
Upkeep(w) == DeleteCommit(w) \/ GcSelect(w) \/ GcPurge(w) \/ Unpoint(w)
Queue(w) == (\E op \in Ops : Submit(w, op)) \/ Lose(w) \/ TimeOut(w)

Next == \E w \in Workers : Create(w) \/ CloseOld(w) \/ Upkeep(w) \/ Queue(w)

Spec == Init /\ [][Next]_vars

-----------------------------------------------------------------------------
(* Properties.                                                             *)

\* A live granule is never hidden from search by its own point: whatever is
\* skipped, lost or late, a point is marked superseded or retracted only after
\* PostgreSQL has closed the row (repository.update, create_version, archive).
LiveNeverHidden == \A g \in Ids : state[g] = "asserted" => point[g] \in {"none", "asserted"}

\* A live granule without a point is about to get one, or one of the known
\* causes is to blame: a call that raised or was skipped, a worker that stopped
\* before the call, or a forgetting that swept the point away.
MissingHasCause ==
  \A g \in Ids : state[g] = "asserted" /\ point[g] = "none" =>
     g \in blamed \/ \E w \in Workers : At(w, "upsert") /\ job[w].g = g

\* A point that was marked closed never comes back as a live one: no repeated or
\* late upsert undoes the mark.
ClosedPointsStay ==
  [][\A g \in Ids : point[g] \in {"superseded", "retracted"} => point'[g] # "asserted"]_vars

-----------------------------------------------------------------------------
(* The parts of the inductive invariant.                                   *)

Closed(g) == state[g] \in {"superseded", "retracted", "gone"}

\* A granule that waits for its point was inserted by one worker, and nobody
\* else writes that point
UpsertsAreFirst ==
  \A w \in Workers : At(w, "upsert") =>
     /\ job[w].g \in Ids /\ job[w].g < next /\ point[job[w].g] = "none"
     /\ \A v \in Workers : At(v, "upsert") /\ job[v].g = job[w].g => v = w

\* A mark is only on its way once the row is closed
MarksAreLate ==
  \A w \in Workers :
     /\ At(w, "markOld") \/ (At(w, "upsert") /\ job[w].op = "version") =>
           job[w].old \in Ids /\ Closed(job[w].old)
     /\ At(w, "markRetracted") => job[w].g \in Ids /\ Closed(job[w].g)
     /\ At(w, "insert") => job[w].op # "version"

\* Unborn rows have no points; what is purged was closed
BornFirst == \A g \in Ids : (state[g] = "unborn" <=> g >= next)
                            /\ (state[g] = "unborn" => point[g] = "none")
PurgesAreLate ==
  \A w \in Workers : pc[w] \in {"gcPurge", "unpoint"} => \A g \in job[w].set : Closed(g)

IInv == /\ TypeOK /\ LiveNeverHidden /\ MissingHasCause
        /\ UpsertsAreFirst /\ MarksAreLate /\ BornFirst /\ PurgesAreLate
=============================================================================
