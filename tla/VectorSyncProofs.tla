--------------------------- MODULE VectorSyncProofs ---------------------------
(* Machine-checked proofs about VectorSync, for every value of its          *)
(* constants.                                                               *)
EXTENDS VectorSync, TLAPS

RowsOK == /\ next \in 1..(MaxId + 1)
          /\ state \in [Ids -> Pg!States]
          /\ fact \in [Ids -> Hashes \cup {None}]
          /\ heir \in [Ids -> 0..MaxId]
          /\ \A g \in Ids : state[g] = "unborn" <=> g >= next

ClosedNext(g) == state'[g] \in {"superseded", "retracted", "gone"}

\* Rows change without a new one: what is live was live, what is closed stays closed
Quiet == /\ RowsOK' /\ next' = next
         /\ \A g \in Ids : /\ state'[g] = "asserted" => state[g] = "asserted"
                           /\ Closed(g) => Closed(g)'

\* The row next appears, and nothing else becomes live
Birth == /\ RowsOK' /\ next \in Ids /\ next' = next + 1
         /\ state[next] = "unborn" /\ state'[next] = "asserted"
         /\ \A g \in Ids \ {next} : /\ state'[g] = "asserted" => state[g] = "asserted"
                                    /\ Closed(g) => Closed(g)'

-----------------------------------------------------------------------------
(* What the statements of PostgreSQL do to the rows.                       *)

\* Nothing happens to the rows.
LEMMA RowsSame == ASSUME RowsOK, UNCHANGED rows PROVE Quiet
  BY DEF rows, RowsOK, Quiet, Closed, Ids

\* Recording or revising brings exactly one new live row.
LEMMA RecordBirth ==
  ASSUME RowsOK, NEW f \in Hashes \cup {None}, Pg!Record(f) PROVE Birth
<1>1. next \in Ids /\ Pg!Ids = Ids
  BY DEF Pg!Record, Pg!Ids, Ids
<1>2. state' = [state EXCEPT ![next] = "asserted"] /\ next' = next + 1
  BY DEF Pg!Record
<1>3. \A g \in Ids : state'[g] = IF g = next THEN "asserted" ELSE state[g]
  BY <1>2 DEF RowsOK
<1>4. fact' \in [Ids -> Hashes \cup {None}] /\ heir' = heir
  BY DEF Pg!Record, RowsOK
<1>5. state' \in [Ids -> Pg!States] /\ next' \in 1..(MaxId + 1)
  BY <1>1, <1>2, VectorAssumption DEF RowsOK, Pg!States, Ids, VectorAssumption
<1>6. \A g \in Ids : state'[g] = "unborn" <=> g >= next'
  BY <1>1, <1>2, <1>3 DEF RowsOK, Ids
<1> QED BY <1>1, <1>2, <1>3, <1>4, <1>5, <1>6 DEF RowsOK, Birth, Closed, Ids

LEMMA ReviseBirth ==
  ASSUME RowsOK, NEW g \in Ids, NEW f \in Hashes, Pg!Revise(g, f)
  PROVE  Birth /\ ClosedNext(g) /\ g < next
<1>1. next \in Ids /\ g # next /\ state[g] = "asserted"
  BY DEF Pg!Revise, Pg!Ids, Ids
<1>2. /\ state' = [state EXCEPT ![g] = "superseded", ![next] = "asserted"]
      /\ next' = next + 1
  BY DEF Pg!Revise
<1>3. \A h \in Ids : state'[h] = IF h = next THEN "asserted"
                                 ELSE IF h = g THEN "superseded" ELSE state[h]
  BY <1>1, <1>2 DEF RowsOK
<1>4. fact' \in [Ids -> Hashes \cup {None}] /\ heir' \in [Ids -> 0..MaxId]
  BY <1>1 DEF Pg!Revise, RowsOK, Ids
<1>5. state' \in [Ids -> Pg!States] /\ next' \in 1..(MaxId + 1)
  BY <1>1, <1>2, VectorAssumption DEF RowsOK, Pg!States, Ids, VectorAssumption
<1>6. g < next
  BY <1>1 DEF RowsOK, Ids
<1>7. \A h \in Ids : state'[h] = "unborn" <=> h >= next'
  BY <1>1, <1>2, <1>3, <1>6 DEF RowsOK, Ids
<1> QED BY <1>1, <1>2, <1>3, <1>4, <1>5, <1>6, <1>7 DEF RowsOK, Birth, Closed, ClosedNext, Ids

\* The statements that only close or erase rows.
LEMMA AdoptQuiet ==
  ASSUME RowsOK, NEW g \in Ids, NEW old \in Ids, Pg!Adopt(g, old)
  PROVE  Quiet /\ ClosedNext(old)
<1>1. /\ state[old] = "asserted" /\ UNCHANGED <<next, fact>>
      /\ state' = [state EXCEPT ![old] = "superseded"]
      /\ heir' = [heir EXCEPT ![old] = g]
  BY DEF Pg!Adopt
<1>2. \A h \in Ids : state'[h] = IF h = old THEN "superseded" ELSE state[h]
  BY <1>1 DEF RowsOK
<1>3. state' \in [Ids -> Pg!States] /\ heir' \in [Ids -> 0..MaxId]
  BY <1>1 DEF RowsOK, Pg!States, Ids
<1> QED BY <1>1, <1>2, <1>3 DEF RowsOK, Quiet, Closed, ClosedNext

LEMMA WithdrawQuiet ==
  ASSUME RowsOK, NEW S \in SUBSET Ids, Pg!Withdraw(S)
  PROVE  Quiet /\ \A g \in S : ClosedNext(g)
<1>1. /\ \A g \in S : state[g] = "asserted"
      /\ UNCHANGED <<next, fact, heir>>
      /\ state' = [g \in Ids |-> IF g \in S THEN "retracted" ELSE state[g]]
  BY DEF Pg!Withdraw, Pg!Ids, Ids
<1>2. state' \in [Ids -> Pg!States]
  BY <1>1 DEF RowsOK, Pg!States
<1> QED BY <1>1, <1>2 DEF RowsOK, Quiet, Closed, ClosedNext

LEMMA EraseQuiet ==
  ASSUME RowsOK, NEW S \in SUBSET Ids, Pg!Erase(S)
  PROVE  Quiet /\ \A g \in S : ClosedNext(g)
<1>1. /\ \A g \in S : state[g] \in {"asserted", "superseded", "retracted"}
      /\ UNCHANGED <<next, fact>>
      /\ state' = [g \in Ids |-> IF g \in S THEN "gone" ELSE state[g]]
      /\ heir' = [g \in Ids |-> IF g \in S \/ heir[g] \in S THEN 0 ELSE heir[g]]
  BY DEF Pg!Erase, Pg!Ids, Ids
<1>2. state' \in [Ids -> Pg!States] /\ heir' \in [Ids -> 0..MaxId]
  BY <1>1, VectorAssumption DEF RowsOK, Pg!States, VectorAssumption
<1> QED BY <1>1, <1>2 DEF RowsOK, Quiet, Closed, ClosedNext

-----------------------------------------------------------------------------
(* The three kinds of steps: one that has no point to write, one that      *)
(* brings a granule, one that leaves the writing of its point.             *)

\* Worker w is now at p with the task j
Moves(w, p, j) == /\ pc' = [pc EXCEPT ![w] = p] /\ p \in Points
                  /\ job' = [job EXCEPT ![w] = j] /\ j \in Jobs

\* What the worker carries to p is closed
Carries(p, j) == /\ p = "markOld" => j.old \in Ids /\ Closed(j.old)
                 /\ p = "insert" => j.op # "version"
                 /\ p = "markRetracted" => j.g \in Ids /\ Closed(j.g)
                 /\ p \in {"gcPurge", "unpoint"} => \A g \in j.set : Closed(g)

\* The index variables stay typed, and blame is only dropped with the row
IndexTyped == /\ point' \in [Ids -> Statuses] /\ breaker' \in [Workers -> 0..Threshold]
              /\ faults' \in 0..MaxFaults /\ blamed' \in SUBSET Ids
              /\ \A g \in blamed : state'[g] = "asserted" => g \in blamed'

\* A point is left alone, marked as its row, or removed with a cause
PointMoves(g) == \/ point'[g] = point[g]
                 \/ point'[g] = "none" /\ (state'[g] = "asserted" => g \in blamed')
                 \/ /\ point[g] # "none" /\ Closed(g)'
                    /\ point'[g] \in {"superseded", "retracted"}

LEMMA Known0 ==
  ASSUME IInv
  PROVE  /\ RowsOK /\ Pg!Ids = Ids
         /\ \A w \in Workers : job[w] \in Jobs /\ pc[w] \in Points
  BY DEF IInv, TypeOK, BornFirst, RowsOK, Pg!Ids, Ids

LEMMA OtherStep ==
  ASSUME IInv, NEW w \in Workers, NEW p, NEW j,
         pc[w] # "upsert", p # "upsert", Moves(w, p, j), Carries(p, j)',
         Quiet, IndexTyped, \A g \in Ids : PointMoves(g)
  PROVE  IInv'
<1>0. /\ TypeOK /\ LiveNeverHidden /\ MissingHasCause /\ UpsertsAreFirst
      /\ MarksAreLate /\ BornFirst /\ PurgesAreLate
  BY DEF IInv
<1>1. \A v \in Workers : /\ pc'[v] = IF v = w THEN p ELSE pc[v]
                         /\ job'[v] = IF v = w THEN j ELSE job[v]
  BY <1>0 DEF Moves, TypeOK
<1>2. TypeOK'
  BY <1>0 DEF Moves, TypeOK, IndexTyped, Quiet, RowsOK
<1>3. LiveNeverHidden'
  BY <1>0 DEF LiveNeverHidden, PointMoves, Quiet, Closed
<1>4. MissingHasCause'
  <2> SUFFICES ASSUME NEW g \in Ids, state'[g] = "asserted", point'[g] = "none",
                      g \notin blamed'
               PROVE  \E v \in Workers : pc'[v] = "upsert" /\ job'[v].g = g
    BY DEF MissingHasCause, At
  <2>1. state[g] = "asserted" /\ point[g] = "none" /\ g \notin blamed
    BY DEF Quiet, PointMoves, IndexTyped
  <2> QED BY <1>0, <1>1, <2>1 DEF MissingHasCause, At
<1>5. UpsertsAreFirst'
  <2> SUFFICES ASSUME NEW v \in Workers, pc'[v] = "upsert"
               PROVE  /\ job'[v].g \in Ids /\ job'[v].g < next' /\ point'[job'[v].g] = "none"
                      /\ \A u \in Workers : pc'[u] = "upsert" /\ job'[u].g = job'[v].g => u = v
    BY DEF UpsertsAreFirst, At
  <2>1. v # w /\ pc[v] = "upsert" /\ job'[v] = job[v]
    BY <1>1
  <2>2. job[v].g \in Ids /\ job[v].g < next /\ point[job[v].g] = "none"
    BY <1>0, <2>1 DEF UpsertsAreFirst, At
  <2>3. point'[job[v].g] = "none"
    BY <2>2 DEF PointMoves
  <2> QED BY <1>0, <1>1, <2>1, <2>2, <2>3 DEF UpsertsAreFirst, At, Quiet
<1>6. MarksAreLate'
  <2> SUFFICES ASSUME NEW v \in Workers
               PROVE  /\ pc'[v] = "markOld" \/ (pc'[v] = "upsert" /\ job'[v].op = "version") =>
                            job'[v].old \in Ids /\ ClosedNext(job'[v].old)
                      /\ pc'[v] = "markRetracted" => job'[v].g \in Ids /\ ClosedNext(job'[v].g)
                      /\ pc'[v] = "insert" => job'[v].op # "version"
    BY DEF MarksAreLate, At, Closed, ClosedNext
  <2>1. CASE v = w
    BY <1>1, <2>1 DEF Carries, Closed, ClosedNext
  <2>2. CASE v # w
    BY <1>0, <1>1, <2>2 DEF MarksAreLate, At, Quiet, Closed, ClosedNext
  <2> QED BY <2>1, <2>2
<1>7. BornFirst'
  <2>1. \A g \in Ids : state'[g] = "unborn" <=> g >= next'
    BY DEF Quiet, RowsOK
  <2>2. \A g \in Ids : state'[g] = "unborn" => point'[g] = "none"
    BY <1>0, <2>1 DEF BornFirst, PointMoves, Quiet, Closed
  <2> QED BY <2>1, <2>2 DEF BornFirst
<1>8. PurgesAreLate'
  <2> SUFFICES ASSUME NEW v \in Workers, pc'[v] \in {"gcPurge", "unpoint"}
               PROVE  \A g \in job'[v].set : ClosedNext(g)
    BY DEF PurgesAreLate, Closed, ClosedNext
  <2>1. CASE v = w
    BY <1>1, <2>1 DEF Carries, Closed, ClosedNext
  <2>2. CASE v # w
    <3>1. pc[v] = pc'[v] /\ job'[v] = job[v] /\ job[v].set \subseteq Ids
      BY <1>0, <1>1, <2>2 DEF TypeOK, Jobs
    <3> QED BY <1>0, <3>1 DEF PurgesAreLate, Quiet, Closed, ClosedNext
  <2> QED BY <2>1, <2>2
<1> QED BY <1>2, <1>3, <1>4, <1>5, <1>6, <1>7, <1>8 DEF IInv

LEMMA BirthStep ==
  ASSUME IInv, NEW w \in Workers, NEW j, pc[w] # "upsert", Moves(w, "upsert", j),
         j.g = next, j.op = "version" => j.old \in Ids /\ j.old < next /\ ClosedNext(j.old),
         Birth, UNCHANGED index
  PROVE  IInv'
<1>0. /\ TypeOK /\ LiveNeverHidden /\ MissingHasCause /\ UpsertsAreFirst
      /\ MarksAreLate /\ BornFirst /\ PurgesAreLate
      /\ UNCHANGED <<point, breaker, faults, blamed>>
  BY DEF IInv, index
<1>1. \A v \in Workers : /\ pc'[v] = IF v = w THEN "upsert" ELSE pc[v]
                         /\ job'[v] = IF v = w THEN j ELSE job[v]
  BY <1>0 DEF Moves, TypeOK
<1>2. TypeOK'
  BY <1>0 DEF Moves, TypeOK, Birth, RowsOK
<1>3. LiveNeverHidden'
  BY <1>0 DEF LiveNeverHidden, BornFirst, Birth
<1>4. MissingHasCause'
  BY <1>0, <1>1 DEF MissingHasCause, At, Birth
<1>5. UpsertsAreFirst'
  <2>1. point[next] = "none" /\ next \in Ids /\ next < next + 1
    BY <1>0 DEF BornFirst, Birth, Ids
  <2>2. \A v \in Workers : pc[v] = "upsert" => job[v].g < next /\ job[v].g < next + 1
                                               /\ job[v].g # next
    BY <1>0, <2>1 DEF UpsertsAreFirst, At, Ids
  <2> QED BY <1>0, <1>1, <2>1, <2>2 DEF UpsertsAreFirst, At, Birth
<1>6. \A g \in Ids : Closed(g) => Closed(g)' /\ g # next
  BY DEF Birth, Closed
<1>7. MarksAreLate'
  <2> SUFFICES ASSUME NEW v \in Workers
               PROVE  /\ pc'[v] = "markOld" \/ (pc'[v] = "upsert" /\ job'[v].op = "version") =>
                            job'[v].old \in Ids /\ ClosedNext(job'[v].old)
                      /\ pc'[v] = "markRetracted" => job'[v].g \in Ids /\ ClosedNext(job'[v].g)
                      /\ pc'[v] = "insert" => job'[v].op # "version"
    BY DEF MarksAreLate, At, Closed, ClosedNext
  <2> QED BY <1>0, <1>1, <1>6 DEF MarksAreLate, At, Closed, ClosedNext
<1>8. BornFirst'
  <2>1. \A g \in Ids : state'[g] = "unborn" <=> g >= next'
    BY DEF Birth, RowsOK
  <2>2. next \in Ids /\ next' = next + 1 /\ point' = point
    BY <1>0 DEF Birth
  <2>3. \A g \in Ids : g >= next + 1 => g >= next
    BY <2>2 DEF Ids
  <2>4. \A g \in Ids : state'[g] = "unborn" => point'[g] = "none"
    BY <1>0, <2>1, <2>2, <2>3 DEF BornFirst
  <2> QED BY <2>1, <2>4 DEF BornFirst
<1>9. PurgesAreLate'
  <2> SUFFICES ASSUME NEW v \in Workers, pc'[v] \in {"gcPurge", "unpoint"}
               PROVE  \A g \in job'[v].set : ClosedNext(g)
    BY DEF PurgesAreLate, Closed, ClosedNext
  <2>1. v # w /\ pc[v] = pc'[v] /\ job'[v] = job[v] /\ job[v].set \subseteq Ids
    BY <1>0, <1>1 DEF TypeOK, Jobs
  <2> QED BY <1>0, <1>6, <2>1 DEF PurgesAreLate, Closed, ClosedNext
<1> QED BY <1>2, <1>3, <1>4, <1>5, <1>7, <1>8, <1>9 DEF IInv

LEMMA LeaveUpsert ==
  ASSUME IInv, NEW w \in Workers, NEW p, NEW j, At(w, "upsert"),
         p # "upsert", p \notin {"markRetracted", "gcPurge", "unpoint"}, p = "insert" => j.op # "version",
         Moves(w, p, j), p = "markOld" => j = job[w] /\ job[w].op = "version",
         UNCHANGED rows, IndexTyped,
         point' \in {point, [point EXCEPT ![job[w].g] = "asserted"]},
         point' = point => (state[job[w].g] = "asserted" => job[w].g \in blamed')
  PROVE  IInv'
<1>0. /\ TypeOK /\ LiveNeverHidden /\ MissingHasCause /\ UpsertsAreFirst
      /\ MarksAreLate /\ BornFirst /\ PurgesAreLate
      /\ UNCHANGED <<next, state, fact, heir>>
  BY DEF IInv, rows
<1> DEFINE n == job[w].g
<1>1. \A v \in Workers : /\ pc'[v] = IF v = w THEN p ELSE pc[v]
                         /\ job'[v] = IF v = w THEN j ELSE job[v]
  BY <1>0 DEF Moves, TypeOK
<1>2. n \in Ids /\ n < next /\ point[n] = "none"
  BY <1>0 DEF UpsertsAreFirst
<1>3. /\ \A g \in Ids \ {n} : point'[g] = point[g]
      /\ point'[n] = "asserted" \/ point' = point
  BY <1>0, <1>2 DEF TypeOK
<1> HIDE DEF n
<1>4. TypeOK'
  BY <1>0 DEF Moves, TypeOK, IndexTyped
<1>5. LiveNeverHidden'
  BY <1>0, <1>2, <1>3 DEF LiveNeverHidden
<1>6. MissingHasCause'
  <2> SUFFICES ASSUME NEW g \in Ids, state[g] = "asserted", point'[g] = "none",
                      g \notin blamed'
               PROVE  \E v \in Workers : pc'[v] = "upsert" /\ job'[v].g = g
    BY <1>0 DEF MissingHasCause, At
  <2>1. g # n
    BY <1>3 DEF n
  <2>2. point[g] = "none" /\ g \notin blamed
    BY <1>0, <1>3, <2>1 DEF IndexTyped
  <2>3. PICK v \in Workers : pc[v] = "upsert" /\ job[v].g = g
    BY <1>0, <2>2 DEF MissingHasCause, At
  <2> QED BY <1>1, <2>1, <2>3 DEF n
<1>7. UpsertsAreFirst'
  <2>1. \A v \in Workers : pc'[v] = "upsert" => v # w /\ pc[v] = "upsert" /\ job'[v] = job[v]
    BY <1>1
  <2>2. \A v \in Workers : pc'[v] = "upsert" => job[v].g # n
    BY <1>0, <2>1 DEF UpsertsAreFirst, At, n
  <2> QED BY <1>0, <1>3, <2>1, <2>2 DEF UpsertsAreFirst, At
<1>8. MarksAreLate'
  <2> SUFFICES ASSUME NEW v \in Workers
               PROVE  /\ pc'[v] = "markOld" \/ (pc'[v] = "upsert" /\ job'[v].op = "version") =>
                            job'[v].old \in Ids /\ Closed(job'[v].old)
                      /\ pc'[v] = "markRetracted" => job'[v].g \in Ids /\ Closed(job'[v].g)
                      /\ pc'[v] = "insert" => job'[v].op # "version"
    BY <1>0 DEF MarksAreLate, At, Closed
  <2>1. pc[w] = "upsert"
    BY DEF At
  <2> QED BY <1>0, <1>1, <2>1 DEF MarksAreLate, At
<1>9. BornFirst'
  BY <1>0, <1>2, <1>3 DEF BornFirst, Ids, RowsOK, TypeOK
<1>10. PurgesAreLate'
  <2> SUFFICES ASSUME NEW v \in Workers, pc'[v] \in {"gcPurge", "unpoint"}
               PROVE  \A g \in job'[v].set : Closed(g)
    BY <1>0 DEF PurgesAreLate, Closed
  <2> QED BY <1>0, <1>1 DEF PurgesAreLate
<1> QED BY <1>4, <1>5, <1>6, <1>7, <1>8, <1>9, <1>10 DEF IInv

-----------------------------------------------------------------------------
(* Every action is a step of one of the three kinds.                       *)

\* A worker that finishes, or carries on with the task it has.
LEMMA GotoMoves ==
  ASSUME IInv, NEW w \in Workers, NEW p \in Points, Goto(w, p)
  PROVE  \E j \in Jobs : /\ Moves(w, p, j)
                         /\ p # "idle" => j = job[w]
<1>1. Blank \in Jobs /\ job[w] \in Jobs
  BY Known0, VectorAssumption DEF Blank, Jobs, VectorAssumption
<1> QED BY <1>1 DEF Goto, Note, Moves

\* A worker carries a new or changed task.
LEMMA CarryMoves ==
  ASSUME NEW w \in Workers, NEW p \in Points, NEW j \in Jobs, Carry(w, p, j)
  PROVE  Moves(w, p, j)
  BY DEF Carry, Note, Moves

\* A task record stays one.
LEMMA SetUpdate ==
  ASSUME NEW j \in Jobs, NEW S \in SUBSET Ids
  PROVE  [j EXCEPT !.set = S] \in Jobs /\ [j EXCEPT !.set = S].set = S
  BY DEF Jobs

\* A step that leaves Qdrant and the flags alone keeps the index typed.
LEMMA IndexSame ==
  ASSUME IInv, UNCHANGED index
  PROVE  IndexTyped /\ \A g \in Ids : PointMoves(g)
  BY DEF IInv, TypeOK, index, IndexTyped, PointMoves

\* What a call does to the breaker and the counter of faults.
LEMMA CallCounts ==
  ASSUME IInv, NEW w \in Workers, NEW P \in [Ids -> Statuses],
         Works(w, P) \/ Skipped(w) \/ Raises(w, P)
  PROVE  /\ breaker' \in [Workers -> 0..Threshold] /\ faults' \in 0..MaxFaults
         /\ point' \in {point, P} /\ point' \in [Ids -> Statuses]
<1> USE VectorAssumption DEF VectorAssumption
<1>1. /\ breaker \in [Workers -> 0..Threshold] /\ faults \in 0..MaxFaults
      /\ point \in [Ids -> Statuses]
  BY DEF IInv, TypeOK
<1>2. breaker[w] < Threshold => breaker[w] + 1 \in 0..Threshold
  BY <1>1
<1>3. CASE Works(w, P)
  BY <1>1, <1>3 DEF Works
<1>4. CASE Skipped(w)
  BY <1>1, <1>4 DEF Skipped
<1>5. CASE Raises(w, P)
  <2>1. faults' \in 0..MaxFaults /\ point' \in {point, P}
    BY <1>1, <1>5 DEF Raises
  <2>2. breaker' \in [Workers -> 0..Threshold]
    BY <1>1, <1>2, <1>5 DEF Raises
  <2> QED BY <1>1, <2>1, <2>2
<1> QED BY <1>3, <1>4, <1>5

\* A task's last call, which marks or removes points.
LEMMA LastCall ==
  ASSUME IInv, NEW w \in Workers, pc[w] # "upsert", NEW P \in [Ids -> Statuses],
         Call(w, P, "idle"), blamed' \in SUBSET Ids,
         \A g \in blamed : state[g] = "asserted" => g \in blamed',
         \A g \in Ids : \/ P[g] = point[g]
                        \/ P[g] = "none" /\ (state[g] = "asserted" => g \in blamed')
                        \/ /\ point[g] # "none" /\ Closed(g)
                           /\ P[g] \in {"superseded", "retracted"}
  PROVE  IInv'
<1>1. /\ Works(w, P) \/ Skipped(w) \/ Raises(w, P)
      /\ Goto(w, "idle") /\ UNCHANGED rows
  BY DEF Call
<1>2. Quiet /\ state' = state /\ (\A g \in Ids : Closed(g) => Closed(g)')
  BY <1>1, Known0, RowsSame DEF rows, Quiet
<1>3. IndexTyped
  BY <1>1, <1>2, CallCounts DEF IndexTyped, IInv, TypeOK
<1>4. \A g \in Ids : PointMoves(g)
  BY <1>1, <1>2, CallCounts DEF PointMoves
<1>5. PICK j \in Jobs : Moves(w, "idle", j)
  BY <1>1, GotoMoves DEF Points
<1> QED BY <1>2, <1>3, <1>4, <1>5, OtherStep DEF Carries

\* A commit in PostgreSQL that brings no row.
LEMMA CommitOnly ==
  ASSUME IInv, NEW w \in Workers, pc[w] # "upsert", NEW p, NEW j, p # "upsert",
         Moves(w, p, j), Carries(p, j)', Quiet, UNCHANGED point, IndexTyped
  PROVE  IInv'
  BY OtherStep DEF PointMoves

LEMMA CreateStep ==
  ASSUME IInv, NEW w \in Workers, Create(w) PROVE IInv'
<1> USE VectorAssumption DEF VectorAssumption
<1>0. /\ job[w] \in Jobs /\ RowsOK /\ TypeOK /\ Pg!Ids = Ids
      /\ "upsert" \in Points /\ "idle" \in Points /\ "markOld" \in Points
  BY Known0 DEF IInv, Points
<1>a. ASSUME pc[w] # "upsert", Goto(w, "idle"), UNCHANGED rows, UNCHANGED index
      PROVE  IInv'
  <2>1. PICK j \in Jobs : Moves(w, "idle", j)
    BY <1>0, <1>a, GotoMoves
  <2> QED BY <1>0, <1>a, <2>1, RowsSame, IndexSame, OtherStep DEF Carries
<1>1. CASE StoreInsert(w)
  <2> DEFINE j == [job[w] EXCEPT !.g = next]
  <2>1. pc[w] # "upsert" /\ UNCHANGED index
    BY <1>1 DEF StoreInsert, At
  <2>2. CASE Pg!Record(job[w].f) /\ Carry(w, "upsert", j)
    <3>1. Birth /\ next \in Ids
      BY <1>0, <2>2, RecordBirth DEF Jobs, Birth
    <3>2. j \in Jobs /\ j.g = next /\ j.op = job[w].op /\ j.old = job[w].old
      BY <1>0, <3>1 DEF Jobs, Ids
    <3>3. job[w].op # "version"
      BY <1>1 DEF StoreInsert, IInv, MarksAreLate
    <3> HIDE DEF j
    <3> QED BY <1>0, <2>1, <2>2, <3>1, <3>2, <3>3, CarryMoves, BirthStep
  <2> QED BY <1>1, <1>a, <2>1, <2>2 DEF StoreInsert
<1>2. CASE VersionCommit(w)
  <2> DEFINE j == [job[w] EXCEPT !.g = next, !.old = job[w].g]
  <2>1. pc[w] # "upsert" /\ UNCHANGED index
    BY <1>2 DEF VersionCommit, At
  <2>2. CASE Pg!Revise(job[w].g, job[w].f) /\ Exists(job[w].g) /\ Carry(w, "upsert", j)
    <3>0. job[w].f # None
      BY <2>2 DEF Pg!Revise
    <3>1. job[w].g \in Ids /\ job[w].f \in Hashes
      BY <1>0, <2>2, <3>0 DEF Exists, Jobs
    <3>2. Birth /\ state'[job[w].g] \in {"superseded", "retracted", "gone"}
          /\ job[w].g < next /\ next \in Ids
      <4> DEFINE g == job[w].g  f == job[w].f
      <4>1. g \in Ids /\ f \in Hashes /\ Pg!Revise(g, f)
        BY <2>2, <3>1
      <4> HIDE DEF g, f
      <4>2. Birth /\ state'[g] \in {"superseded", "retracted", "gone"} /\ g < next
        BY <1>0, <4>1, ReviseBirth DEF ClosedNext
      <4> QED BY <4>2 DEF Birth, g
    <3>3. j \in Jobs /\ j.g = next /\ j.old = job[w].g
      <4>1. next \in 0..MaxId /\ job[w].g \in 0..MaxId
        BY <1>0, <3>2 DEF Jobs, Ids
      <4>2. j = [job[w] EXCEPT !.g = next, !.old = job[w].g] /\ job[w] \in Jobs
        BY <1>0
      <4> HIDE DEF j
      <4> QED BY <4>1, <4>2 DEF Jobs
    <3>4. j.old \in Ids /\ j.old < next /\ ClosedNext(j.old)
      BY <3>1, <3>2, <3>3 DEF ClosedNext
    <3> HIDE DEF j
    <3> QED BY <1>0, <2>1, <2>2, <3>2, <3>3, <3>4, CarryMoves, BirthStep
  <2> QED BY <1>2, <1>a, <2>1, <2>2 DEF VersionCommit
<1>3. CASE Upsert(w)
  <2> DEFINE P == [point EXCEPT ![job[w].g] = "asserted"]
  <2>1. /\ At(w, "upsert") /\ Call(w, P, AfterUpsert(w))
        /\ Blame(IF point' = P THEN {} ELSE {job[w].g})
    BY <1>3 DEF Upsert
  <2>2. P \in [Ids -> Statuses] /\ job[w].g \in Ids
    BY <1>0, <2>1 DEF TypeOK, Statuses, IInv, UpsertsAreFirst
  <2>3. P # point
    BY <1>0, <2>1, <2>2 DEF IInv, UpsertsAreFirst, TypeOK
  <2> HIDE DEF P
  <2>4. Works(w, P) \/ Skipped(w) \/ Raises(w, P)
    BY <2>1 DEF Call
  <2>5. UNCHANGED rows
    BY <2>1 DEF Call
  <2>6. IndexTyped
    <3>1. blamed' \in SUBSET Ids /\ (\A g \in blamed : state[g] = "asserted" => g \in blamed')
      BY <1>0, <2>1, <2>2 DEF Blame, TypeOK
    <3> QED BY <1>0, <2>2, <2>4, <2>5, <3>1, CallCounts DEF IndexTyped, rows, TypeOK
  <2>7. /\ point' \in {point, P}
        /\ point' = point => (state[job[w].g] = "asserted" => job[w].g \in blamed')
    BY <2>1, <2>2, <2>3, <2>4, CallCounts DEF Blame
  <2>8. PICK p \in {"idle", "markOld"} : /\ Goto(w, p)
                                         /\ p = "markOld" => job[w].op = "version"
    BY <2>1 DEF Call, AfterUpsert
  <2>9. PICK j \in Jobs : Moves(w, p, j) /\ (p = "markOld" => j = job[w])
    BY <1>0, <2>8, GotoMoves
  <2> QED BY <2>1, <2>5, <2>6, <2>7, <2>8, <2>9, LeaveUpsert DEF P
<1> QED BY <1>1, <1>2, <1>3 DEF Create

LEMMA CloseStep ==
  ASSUME IInv, NEW w \in Workers, CloseOld(w) PROVE IInv'
<1> USE VectorAssumption DEF VectorAssumption
<1>0. /\ job[w] \in Jobs /\ RowsOK /\ TypeOK /\ Pg!Ids = Ids
      /\ {"idle", "markOld", "markRetracted", "scroll", "sweep"} \subseteq Points
  BY Known0 DEF IInv, Points
<1>a. ASSUME pc[w] # "upsert", Goto(w, "idle"), UNCHANGED rows, UNCHANGED index
      PROVE  IInv'
  <2>1. PICK j \in Jobs : Moves(w, "idle", j)
    BY <1>0, <1>a, GotoMoves
  <2> QED BY <1>0, <1>a, <2>1, RowsSame, IndexSame, OtherStep DEF Carries
<1>1. CASE LinkCommit(w)
  <2>1. pc[w] # "upsert" /\ UNCHANGED index
    BY <1>1 DEF LinkCommit, At
  <2>2. CASE Goto(w, "idle") /\ UNCHANGED rows
    BY <1>0, <1>a, <2>1, <2>2, RowsSame
  <2>3. ASSUME Exists(job[w].g), Exists(job[w].old), Goto(w, "markOld"),
               Pg!Adopt(job[w].g, job[w].old) \/ (state[job[w].old] # "asserted" /\ UNCHANGED rows)
        PROVE  IInv'
    <3>1. job[w].g \in Ids /\ job[w].old \in Ids
      BY <2>3 DEF Exists
    <3>2. Quiet /\ ClosedNext(job[w].old)
      <4>1. CASE Pg!Adopt(job[w].g, job[w].old)
        BY <1>0, <3>1, <4>1, AdoptQuiet
      <4>2. CASE state[job[w].old] # "asserted" /\ UNCHANGED rows
        BY <1>0, <2>3, <4>2, RowsSame DEF Exists, ClosedNext, rows
      <4> QED BY <2>3, <4>1, <4>2
    <3>4. PICK j \in Jobs : Moves(w, "markOld", j) /\ j = job[w]
      BY <1>0, <2>3, GotoMoves
    <3>5. Carries("markOld", j)'
      BY <3>1, <3>2, <3>4 DEF Carries, Closed, ClosedNext
    <3> QED BY <2>1, <3>2, <3>4, <3>5, IndexSame, OtherStep
  <2> QED BY <1>1, <2>2, <2>3 DEF LinkCommit
<1>2. CASE RetractCommit(w)
  <2>1. pc[w] # "upsert" /\ UNCHANGED index
    BY <1>2 DEF RetractCommit, At
  <2>2. CASE Goto(w, "idle") /\ UNCHANGED rows
    BY <1>0, <1>a, <2>1, <2>2, RowsSame
  <2>3. ASSUME Exists(job[w].g), Goto(w, "markRetracted"), Pg!Withdraw({job[w].g})
        PROVE  IInv'
    <3>1. job[w].g \in Ids
      BY <2>3 DEF Exists
    <3>2. Quiet /\ ClosedNext(job[w].g)
      BY <1>0, <2>3, <3>1, WithdrawQuiet, {job[w].g} \in SUBSET Ids
    <3>3. PICK j \in Jobs : Moves(w, "markRetracted", j) /\ j = job[w]
      BY <1>0, <2>3, GotoMoves
    <3>4. Carries("markRetracted", j)'
      BY <3>1, <3>2, <3>3 DEF Carries, Closed, ClosedNext
    <3> QED BY <2>1, <3>2, <3>3, <3>4, IndexSame, OtherStep
  <2> QED BY <1>2, <2>2, <2>3 DEF RetractCommit
<1>3. CASE ForgetCommit(w)
  <2>1. pc[w] # "upsert" /\ UNCHANGED index /\ Goto(w, "scroll")
    BY <1>3 DEF ForgetCommit, At
  <2>2. Quiet
    BY <1>0, <1>3, WithdrawQuiet DEF ForgetCommit
  <2>3. PICK j \in Jobs : Moves(w, "scroll", j)
    BY <1>0, <2>1, GotoMoves
  <2> QED BY <2>1, <2>2, <2>3, IndexSame, OtherStep DEF Carries
<1>4. CASE MarkOld(w)
  <2> DEFINE o == job[w].old
  <2>1. /\ pc[w] # "upsert" /\ Call(w, Marked(o, "superseded"), "idle") /\ UNCHANGED blamed
        /\ o \in Ids /\ Closed(o)
    BY <1>4 DEF MarkOld, At, IInv, MarksAreLate
  <2> DEFINE P == Marked(o, "superseded")
  <2> HIDE DEF o
  <2>2. P \in [Ids -> Statuses]
    BY <1>0, <2>1 DEF Marked, TypeOK, Statuses
  <2>3. \A g \in Ids : \/ P[g] = point[g]
                       \/ point[g] # "none" /\ Closed(g) /\ P[g] = "superseded"
    BY <1>0, <2>1 DEF Marked, TypeOK
  <2>4. blamed' \in SUBSET Ids /\ (\A g \in blamed : g \in blamed')
    BY <1>0, <2>1 DEF TypeOK
  <2>5. pc[w] # "upsert" /\ Call(w, P, "idle")
    BY <2>1
  <2> HIDE DEF P
  <2> QED BY <2>2, <2>3, <2>4, <2>5, LastCall
<1>5. CASE MarkRetracted(w)
  <2> DEFINE o == job[w].g
  <2>1. /\ pc[w] # "upsert" /\ Call(w, Marked(o, "retracted"), "idle") /\ UNCHANGED blamed
        /\ o \in Ids /\ Closed(o)
    BY <1>5 DEF MarkRetracted, At, IInv, MarksAreLate
  <2> DEFINE P == Marked(o, "retracted")
  <2> HIDE DEF o
  <2>2. P \in [Ids -> Statuses]
    BY <1>0, <2>1 DEF Marked, TypeOK, Statuses
  <2>3. \A g \in Ids : \/ P[g] = point[g]
                       \/ point[g] # "none" /\ Closed(g) /\ P[g] = "retracted"
    BY <1>0, <2>1 DEF Marked, TypeOK
  <2>4. blamed' \in SUBSET Ids /\ (\A g \in blamed : g \in blamed')
    BY <1>0, <2>1 DEF TypeOK
  <2>5. pc[w] # "upsert" /\ Call(w, P, "idle")
    BY <2>1
  <2> HIDE DEF P
  <2> QED BY <2>2, <2>3, <2>4, <2>5, LastCall
<1>6. CASE ForgetScroll(w)
  <2> DEFINE found == {g \in Ids : point[g] # "none"}
             k == [job[w] EXCEPT !.set = found]
  <2>1. /\ pc[w] # "upsert" /\ UNCHANGED <<rows, blamed>>
        /\ Works(w, point) \/ Skipped(w) \/ Raises(w, point)
        /\ Carry(w, "sweep", k) \/ Goto(w, "idle")
    BY <1>6 DEF ForgetScroll, At
  <2>2. k \in Jobs
    BY <1>0, SetUpdate
  <2> HIDE DEF k
  <2>3. Quiet /\ UNCHANGED state
    BY <1>0, <2>1, RowsSame DEF rows
  <2>4. point' = point /\ IndexTyped
    BY <1>0, <2>1, <2>3, CallCounts DEF IndexTyped, TypeOK
  <2>5. PICK p \in {"sweep", "idle"}, j \in Jobs : Moves(w, p, j)
    BY <1>0, <2>1, <2>2, CarryMoves, GotoMoves
  <2> QED BY <2>1, <2>3, <2>4, <2>5, CommitOnly DEF Carries
<1>7. CASE ForgetSweep(w)
  <2>1. /\ pc[w] # "upsert" /\ Call(w, Without(job[w].set), "idle") /\ Blame(job[w].set)
        /\ job[w].set \subseteq Ids
    BY <1>0, <1>7 DEF ForgetSweep, At, Jobs
  <2>2. Without(job[w].set) \in [Ids -> Statuses]
    BY <1>0 DEF Without, TypeOK, Statuses
  <2>3. /\ blamed' \in SUBSET Ids
        /\ \A g \in blamed \cup job[w].set : state[g] = "asserted" => g \in blamed'
    BY <1>0, <2>1 DEF Blame, TypeOK
  <2>4. \A g \in Ids : Without(job[w].set)[g] = IF g \in job[w].set THEN "none" ELSE point[g]
    BY DEF Without
  <2> DEFINE P == Without(job[w].set)
  <2>5. /\ P \in [Ids -> Statuses] /\ Call(w, P, "idle")
        /\ \A g \in Ids : P[g] = point[g] \/ (P[g] = "none" /\ g \in job[w].set)
    BY <2>1, <2>2, <2>4
  <2> HIDE DEF P
  <2> QED BY <2>1, <2>3, <2>5, LastCall
<1> QED BY <1>1, <1>2, <1>3, <1>4, <1>5, <1>6, <1>7 DEF CloseOld

LEMMA UpkeepStep ==
  ASSUME IInv, NEW w \in Workers, Upkeep(w) PROVE IInv'
<1> USE VectorAssumption DEF VectorAssumption
<1>0. /\ job[w] \in Jobs /\ pc[w] \in Points /\ RowsOK /\ TypeOK /\ Pg!Ids = Ids
      /\ {"idle", "gcPurge", "unpoint"} \subseteq Points
  BY Known0 DEF IInv, Points
<1>1. CASE DeleteCommit(w)
  <2> DEFINE S == {job[w].g}
             k == [job[w] EXCEPT !.set = S]
  <2>1. pc[w] # "upsert" /\ UNCHANGED index
    BY <1>1 DEF DeleteCommit, At
  <2>2. CASE Goto(w, "idle") /\ UNCHANGED rows
    <3>1. PICK j \in Jobs : Moves(w, "idle", j)
      BY <1>0, <2>2, GotoMoves
    <3> QED BY <1>0, <2>1, <2>2, <3>1, RowsSame, IndexSame, OtherStep DEF Carries
  <2>3. ASSUME Exists(job[w].g), Pg!Erase(S), Carry(w, "unpoint", k)
        PROVE  IInv'
    <3>1. S \in SUBSET Ids
      BY <1>0, <2>3 DEF Exists, TypeOK
    <3>2. k \in Jobs /\ k.set = S
      BY <1>0, <3>1, SetUpdate
    <3> HIDE DEF k
    <3> HIDE DEF S
    <3>3. Quiet /\ \A g \in S : ClosedNext(g)
      BY <1>0, <2>3, <3>1, EraseQuiet
    <3>4. IndexTyped /\ UNCHANGED point
      BY <1>0, <2>1, <3>1 DEF IndexTyped, TypeOK, index
    <3>5. Moves(w, "unpoint", k)
      BY <1>0, <2>3, <3>2, CarryMoves
    <3>6. PICK j \in Jobs : Moves(w, "unpoint", j) /\ j = k
      BY <3>2, <3>5
    <3>7. Carries("unpoint", j)'
      BY <3>2, <3>3, <3>6 DEF Carries, Closed, ClosedNext
    <3> QED BY <2>1, <3>3, <3>4, <3>6, <3>7, CommitOnly
  <2> QED BY <1>1, <2>2, <2>3 DEF DeleteCommit
<1>2. CASE GcSelect(w)
  <2>1. pc[w] # "upsert" /\ UNCHANGED <<rows, index>>
    BY <1>2 DEF GcSelect, At
  <2>2. Quiet /\ UNCHANGED state
    BY <1>0, <2>1, RowsSame DEF rows
  <2>3. CASE Goto(w, "idle")
    <3>1. PICK j \in Jobs : Moves(w, "idle", j)
      BY <1>0, <2>3, GotoMoves
    <3> QED BY <2>1, <2>2, <3>1, IndexSame, OtherStep DEF Carries
  <2>4. ASSUME NEW S \in SUBSET Ids, \A g \in S : Purgeable(g),
               Carry(w, "gcPurge", [job[w] EXCEPT !.set = S])
        PROVE  IInv'
    <3>1. PICK j \in Jobs : j = [job[w] EXCEPT !.set = S] /\ j.set = S
      BY <1>0, SetUpdate
    <3>2. Moves(w, "gcPurge", j)
      BY <1>0, <2>4, <3>1, CarryMoves
    <3>3. Carries("gcPurge", j)'
      BY <2>2, <2>4, <3>1 DEF Carries, Closed, Purgeable
    <3> QED BY <2>1, <2>2, <3>2, <3>3, IndexSame, OtherStep
  <2> QED BY <1>2, <2>3, <2>4 DEF GcSelect
<1>3. CASE GcPurge(w)
  <2>0. PICK S \in SUBSET {g \in job[w].set : Purgeable(g)} :
          Pg!Erase(S) /\ Goto(w, IF S = {} THEN "idle" ELSE "unpoint")
    BY <1>3 DEF GcPurge
  <2>1. /\ pc[w] # "upsert" /\ UNCHANGED index /\ Pg!Erase(S)
        /\ Goto(w, "idle") \/ Goto(w, "unpoint")
        /\ \A g \in job[w].set : Closed(g)
    BY <1>3, <2>0 DEF GcPurge, At, IInv, PurgesAreLate
  <2>2. S \in SUBSET Ids /\ job[w].set \in SUBSET Ids
    BY <1>0 DEF Jobs
  <2>3. Quiet
    BY <1>0, <2>1, <2>2, EraseQuiet
  <2>4. \A g \in job[w].set : ClosedNext(g)
    BY <2>1, <2>2, <2>3 DEF Quiet, Closed, ClosedNext
  <2>5. PICK p \in {"idle", "unpoint"}, j \in Jobs :
          Moves(w, p, j) /\ (p # "idle" => j = job[w])
    BY <1>0, <2>1, GotoMoves
  <2>6. Carries(p, j)'
    BY <2>4, <2>5 DEF Carries, Closed, ClosedNext
  <2> QED BY <2>1, <2>3, <2>5, <2>6, IndexSame, OtherStep
<1>4. CASE Unpoint(w)
  <2> DEFINE P == Without(job[w].set)
  <2>1. /\ pc[w] # "upsert" /\ Call(w, P, "idle") /\ UNCHANGED blamed
        /\ \A g \in job[w].set : Closed(g)
    BY <1>4 DEF Unpoint, At, IInv, PurgesAreLate
  <2>2. P \in [Ids -> Statuses]
    BY <1>0 DEF Without, TypeOK, Statuses
  <2>3. \A g \in Ids : P[g] = point[g] \/ (P[g] = "none" /\ state[g] # "asserted")
    BY <2>1 DEF Without, Closed
  <2>4. blamed' \in SUBSET Ids /\ (\A g \in blamed : g \in blamed')
    BY <1>0, <2>1 DEF TypeOK
  <2> HIDE DEF P
  <2> QED BY <2>1, <2>2, <2>3, <2>4, LastCall
<1> QED BY <1>1, <1>2, <1>3, <1>4 DEF Upkeep

\* The tasks of the queue are task records.
LEMMA TaskShapes ==
  ASSUME IInv, NEW op \in Ops, NEW j \in Tasks(op) PROVE j \in Jobs /\ j.op = op
<1> USE VectorAssumption DEF VectorAssumption
<1>1. op \in OpNames /\ Known \subseteq 0..MaxId /\ 0 \in 0..MaxId
  BY DEF IInv, TypeOK, Known
<1>2. PICK G \in SUBSET (0..MaxId), Olds \in SUBSET (0..MaxId),
           F \in SUBSET (Hashes \cup {None}) : Tasks(op) = Form(op, G, Olds, F)
  <2>1. /\ {0} \in SUBSET (0..MaxId) /\ Known \in SUBSET (0..MaxId)
        /\ Hashes \in SUBSET (Hashes \cup {None}) /\ {None} \in SUBSET (Hashes \cup {None})
    BY <1>1
  <2> QED BY <2>1 DEF Tasks
<1>3. j \in [op : {op}, g : G, old : Olds, f : F, set : {{}}]
  BY <1>2 DEF Form
<1>4. /\ j = [op |-> j.op, g |-> j.g, old |-> j.old, f |-> j.f, set |-> j.set]
      /\ j.op = op /\ j.g \in G /\ j.old \in Olds /\ j.f \in F /\ j.set = {}
  BY <1>3
<1> QED BY <1>1, <1>2, <1>4 DEF Jobs

\* A task that starts over is a task record of the same operation.
LEMMA FreshJob ==
  ASSUME NEW j \in Jobs PROVE Fresh(j) \in Jobs /\ Fresh(j).op = j.op
<1>1. PICK m : m = CASE j.op = "store"               -> 0
                     [] j.op = "version" /\ j.old # 0 -> j.old
                     [] OTHER                         -> j.g
  OBVIOUS
<1>2. PICK n : n = IF j.op = "version" THEN 0 ELSE j.old
  OBVIOUS
<1>3. 0 \in 0..MaxId /\ j.g \in 0..MaxId /\ j.old \in 0..MaxId
  BY VectorAssumption DEF VectorAssumption, Jobs
<1>4. m \in 0..MaxId /\ n \in 0..MaxId
  BY <1>1, <1>2, <1>3
<1>5. Fresh(j) = [j EXCEPT !.g = m, !.old = n, !.set = {}]
  BY <1>1, <1>2 DEF Fresh
<1> QED BY <1>4, <1>5 DEF Jobs

LEMMA StartPoints ==
  ASSUME NEW op PROVE /\ StartOf(op) \in Points /\ StartOf(op) # "upsert"
                      /\ StartOf(op) \notin {"markOld", "markRetracted", "gcPurge", "unpoint"}
                      /\ StartOf(op) = "insert" => op # "version"
  BY DEF StartOf, Points

LEMMA QueueStep ==
  ASSUME IInv, NEW w \in Workers, Queue(w) PROVE IInv'
<1> USE VectorAssumption DEF VectorAssumption
<1>0. /\ job[w] \in Jobs /\ pc[w] \in Points /\ RowsOK /\ TypeOK /\ Pg!Ids = Ids
      /\ "idle" \in Points
  BY Known0 DEF IInv, Points
<1>1. ASSUME NEW op \in Ops, Submit(w, op) PROVE IInv'
  <2>1. PICK j \in Tasks(op) : Carry(w, StartOf(op), j)
    BY <1>1 DEF Submit
  <2>2. j \in Jobs /\ j.op = op
    BY TaskShapes
  <2>3. pc[w] # "upsert" /\ UNCHANGED <<rows, index>>
    BY <1>1 DEF Submit, At
  <2>4. PICK p \in Points : p = StartOf(op)
    BY StartPoints
  <2>5. Moves(w, p, j) /\ p # "upsert" /\ Carries(p, j)'
    BY <2>1, <2>2, <2>4, StartPoints, CarryMoves DEF Carries
  <2> QED BY <1>0, <2>3, <2>5, RowsSame, IndexSame, OtherStep
\* A worker that stops, whatever it does next
<1>2. ASSUME NEW p \in Points, NEW j \in Jobs, Moves(w, p, j), p # "upsert",
             p \notin {"markOld", "markRetracted", "gcPurge", "unpoint"},
             p = "insert" => j.op # "version",
             UNCHANGED <<rows, point, faults>>,
             breaker' \in [Workers -> 0..Threshold], Blame(Abandoned(w))
      PROVE  IInv'
  <2>1. Quiet /\ UNCHANGED state
    BY <1>0, <1>2, RowsSame DEF rows
  <2>2. Abandoned(w) \subseteq Ids
    BY DEF Abandoned, IInv, UpsertsAreFirst
  <2>3. IndexTyped
    BY <1>0, <1>2, <2>1, <2>2 DEF IndexTyped, TypeOK, Blame
  <2>4. CASE pc[w] # "upsert"
    BY <1>2, <2>1, <2>3, <2>4, CommitOnly DEF Carries
  <2>5. CASE At(w, "upsert")
    <3>1. state[job[w].g] = "asserted" => job[w].g \in blamed'
      BY <1>2, <2>5 DEF Blame, Abandoned
    <3> QED BY <1>2, <2>3, <2>5, <3>1, LeaveUpsert
  <2> QED BY <2>4, <2>5 DEF At
<1>3. CASE Lose(w)
  <2>1. /\ breaker' \in [Workers -> 0..Threshold] /\ Blame(Abandoned(w))
        /\ Carry(w, StartOf(job[w].op), Fresh(job[w]))
        /\ UNCHANGED <<rows, point, faults>>
    BY <1>0, <1>3 DEF Lose, TypeOK
  <2>2. Fresh(job[w]) \in Jobs /\ Fresh(job[w]).op = job[w].op
    BY <1>0, FreshJob
  <2>3. PICK p \in Points, j \in Jobs : p = StartOf(job[w].op) /\ j = Fresh(job[w])
    BY <2>2, StartPoints
  <2>4. Moves(w, p, j)
    BY <2>1, <2>3, CarryMoves
  <2> QED BY <1>2, <2>1, <2>2, <2>3, <2>4, StartPoints
<1>4. CASE TimeOut(w)
  <2>1. /\ Goto(w, "idle") /\ Blame(Abandoned(w))
        /\ UNCHANGED <<rows, point, breaker, faults>>
    BY <1>4 DEF TimeOut
  <2>2. PICK j \in Jobs : Moves(w, "idle", j)
    BY <1>0, <2>1, GotoMoves
  <2> QED BY <1>0, <1>2, <2>1, <2>2 DEF TypeOK
<1> QED BY <1>1, <1>3, <1>4 DEF Queue

-----------------------------------------------------------------------------
(* The theorems.                                                           *)

\* The invariant is inductive: a mark or a removal is only on its way once the row
\* is closed, and a point is written by the worker that inserted its row.
THEOREM Inductive == Spec => []IInv
<1> USE VectorAssumption DEF VectorAssumption
<1>1. Init => IInv
  <2> SUFFICES ASSUME Init PROVE IInv
    OBVIOUS
  <2>1. /\ next = 1 /\ state = [g \in Ids |-> "unborn"]
        /\ fact = [g \in Ids |-> None] /\ heir = [g \in Ids |-> 0]
    BY DEF Init, Pg!Init, Pg!Ids, Ids
  <2>2. Blank \in Jobs
    BY DEF Blank, Jobs
  <2>3. TypeOK
    BY <2>1, <2>2 DEF Init, TypeOK, Pg!States, Statuses, Points
  <2>4. BornFirst
    BY <2>1 DEF Init, BornFirst, Ids
  <2>5. \A w \in Workers : pc[w] = "idle"
    BY DEF Init
  <2> QED BY <2>1, <2>3, <2>4, <2>5
        DEF IInv, LiveNeverHidden, MissingHasCause, UpsertsAreFirst, MarksAreLate,
            PurgesAreLate, At
<1>2. IInv /\ [Next]_vars => IInv'
  <2> SUFFICES ASSUME IInv, [Next]_vars PROVE IInv'
    OBVIOUS
  <2>1. CASE UNCHANGED vars
    BY <2>1 DEF vars, rows, index, IInv, TypeOK, LiveNeverHidden, MissingHasCause,
                UpsertsAreFirst, MarksAreLate, BornFirst, PurgesAreLate, Closed, At
  <2> QED BY <2>1, CreateStep, CloseStep, UpkeepStep, QueueStep DEF Next
<1> QED BY <1>1, <1>2, PTL DEF Spec

\* No live granule is hidden by its own point, whatever calls are skipped, lost,
\* late or repeated.
THEOREM NeverHidden == Spec => []LiveNeverHidden
<1>1. IInv => LiveNeverHidden
  BY DEF IInv
<1> QED BY <1>1, Inductive, PTL

\* A live granule lacks its point only for a reason the code can name.
THEOREM MissingExplained == Spec => []MissingHasCause
<1>1. IInv => MissingHasCause
  BY DEF IInv
<1> QED BY <1>1, Inductive, PTL

\* Only the worker that inserted a row turns its point live, and it does so before
\* anyone can have marked it: a closed point never comes back.
THEOREM NoLateUpsert == Spec => ClosedPointsStay
<1> DEFINE Stays == \A g \in Ids : point[g] \in {"superseded", "retracted"} => point'[g] # "asserted"
<1>1. IInv /\ [Next]_vars => [Stays]_vars
  <2> SUFFICES ASSUME IInv, NEW w \in Workers,
                      Create(w) \/ CloseOld(w) \/ Upkeep(w) \/ Queue(w)
               PROVE  Stays
    BY DEF Next
  <2>0. point \in [Ids -> Statuses] /\ TypeOK
    BY DEF IInv, TypeOK
  <2>a. ASSUME NEW P, Call(w, P, "idle") \/ Call(w, P, AfterUpsert(w)),
               \A g \in Ids : P[g] = "asserted" => point[g] \in {"asserted", "none"}
        PROVE  Stays
    BY <2>a DEF Call, Works, Skipped, Raises
  <2>1. CASE UNCHANGED point
    BY <2>1
  <2>2. CASE Upsert(w)
    <3> DEFINE P == [point EXCEPT ![job[w].g] = "asserted"]
    <3>1. /\ Call(w, P, AfterUpsert(w)) /\ point[job[w].g] = "none"
          /\ job[w].g \in Ids
      BY <2>2 DEF Upsert, IInv, UpsertsAreFirst
    <3>2. \A g \in Ids : P[g] = "asserted" => point[g] \in {"asserted", "none"}
      BY <2>0, <3>1
    <3> HIDE DEF P
    <3> QED BY <2>a, <3>1, <3>2
  <2>3. ASSUME NEW P, Call(w, P, "idle"), NEW o, NEW S,
               P \in {Marked(o, "superseded"), Marked(o, "retracted"), Without(S)}
        PROVE  Stays
    <3>1. \A g \in Ids : P[g] = "asserted" => point[g] = "asserted"
      BY <2>0, <2>3 DEF Marked, Without
    <3> QED BY <2>a, <2>3, <3>1
  <2>4. CASE MarkOld(w)
    BY <2>3, <2>4 DEF MarkOld
  <2>5. CASE MarkRetracted(w)
    BY <2>3, <2>5 DEF MarkRetracted
  <2>6. CASE ForgetSweep(w)
    BY <2>3, <2>6 DEF ForgetSweep
  <2>7. CASE Unpoint(w)
    BY <2>3, <2>7 DEF Unpoint
  <2>8. CASE ForgetScroll(w)
    <3>1. UNCHANGED point
      BY <2>8 DEF ForgetScroll, Works, Skipped, Raises
    <3> QED BY <2>1, <3>1
  <2>9. CASE \/ StoreInsert(w) \/ VersionCommit(w) \/ LinkCommit(w) \/ RetractCommit(w)
             \/ ForgetCommit(w) \/ DeleteCommit(w) \/ GcSelect(w) \/ GcPurge(w)
             \/ Queue(w)
    <3>1. UNCHANGED point
      BY <2>9 DEF StoreInsert, VersionCommit, LinkCommit, RetractCommit, ForgetCommit,
                  DeleteCommit, GcSelect, GcPurge, Queue, Submit, Lose, TimeOut, index
    <3> QED BY <2>1, <3>1
  <2> QED BY <2>2, <2>4, <2>5, <2>6, <2>7, <2>8, <2>9 DEF Create, CloseOld, Upkeep
<1>2. []IInv /\ [][Next]_vars => [][Stays]_vars
  BY <1>1, PTL
<1> QED BY <1>2, Inductive, PTL DEF Spec, ClosedPointsStay
=============================================================================
