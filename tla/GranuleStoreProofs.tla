-------------------------- MODULE GranuleStoreProofs --------------------------
(* Machine-checked proofs about GranuleStore, for every value of its        *)
(* constants.                                                               *)
EXTENDS GranuleStore, TLAPS

-----------------------------------------------------------------------------
(* Typing.                                                                  *)

\* A task record stays a task record when a worker notes what it has read.
LEMMA JobUpdates ==
  ASSUME NEW j \in Jobs
  PROVE  /\ \A x \in 0..MaxId : [j EXCEPT !.g = x] \in Jobs
         /\ \A S \in SUBSET Ids : [j EXCEPT !.set = S] \in Jobs
         /\ \A f \in OnOff : [j EXCEPT !.flag = f] \in Jobs
         /\ Fresh(j) \in Jobs
<1>1. \A x \in 0..MaxId : [j EXCEPT !.g = x] \in Jobs
  BY DEF Jobs
<1>2. \A S \in SUBSET Ids : [j EXCEPT !.set = S] \in Jobs
  BY DEF Jobs
<1>3. \A f \in OnOff : [j EXCEPT !.flag = f] \in Jobs
  BY DEF Jobs
<1>4. Fresh(j) \in Jobs
  <2>1. CASE j.op = "store"
    <3>1. Fresh(j) = [[j EXCEPT !.g = 0] EXCEPT !.flag = "off"]
      BY <2>1 DEF Fresh, Null, Jobs
    <3>2. [j EXCEPT !.g = 0] \in Jobs
      BY <1>1, StoreAssumption DEF StoreAssumption
    <3>3. \A k \in Jobs : [k EXCEPT !.flag = "off"] \in Jobs
      BY DEF Jobs, OnOff
    <3> QED BY <3>1, <3>2, <3>3
  <2>2. CASE j.op # "store"
    BY <1>2, <2>2 DEF Fresh
  <2> QED BY <2>1, <2>2
<1> QED BY <1>1, <1>2, <1>3, <1>4

\* Noting a task record and moving a worker on keep the local state typed.
LEMMA LocalTyping ==
  ASSUME TypeOK, NEW c \in Clients
  PROVE  /\ job[c] \in Jobs
         /\ \A j \in Jobs : Note(c, j) => job' \in [Clients -> Jobs]
         /\ \A p \in Points : Goto(c, p) => pc' \in [Clients -> Points]
  BY DEF TypeOK, Note, Goto

\* Inserting a row keeps the columns it writes typed.
LEMMA InsertTyping ==
  ASSUME TypeOK, NEW h \in Hashes \cup {None}, NEW u \in Users \cup {None},
         NEW prev \in 0..MaxId, InsertRow(h, u, prev)
  PROVE  /\ next \in Ids /\ next' = next + 1 /\ next' \in 1..(MaxId + 1)
         /\ content_hash' \in [Ids -> Hashes \cup {None}]
         /\ user_id' \in [Ids -> Users \cup {None}]
         /\ supersedes' \in [Ids -> 0..MaxId]
         /\ frozen' \in SUBSET Ids
  BY StoreAssumption DEF StoreAssumption, TypeOK, InsertRow, Ids

\* A submitted task is a task record of its operation; a new version has content.
LEMMA TaskShape ==
  ASSUME TypeOK, NEW op \in Ops, NEW j \in Tasks(op)
  PROVE  /\ j \in Jobs /\ j.op = op
         /\ op = "version" => j.h \in Hashes
<1> USE StoreAssumption DEF StoreAssumption, Null
<1>1. Known \subseteq 0..MaxId
  BY DEF Known, TypeOK
<1>2. j \in Form(op, 0..MaxId, 0..MaxId, Hashes \cup {None}, Users \cup {None}, OnOff)
  BY <1>1 DEF Tasks, Form, OnOff, OpNames
<1>3. op = "version" => j.h \in Hashes
  BY DEF Tasks, Form
<1> QED BY <1>2, <1>3 DEF Form, Jobs

\* A step of any worker keeps every variable inside its domain.
LEMMA StepTyping ==
  ASSUME TypeOK, OpenIsSafe, NEW c \in Clients, Step(c)
  PROVE  TypeOK'
<1> USE StoreAssumption DEF StoreAssumption, Null
<1>a. ASSUME UNCHANGED <<rows, job>>, NEW p \in Points, Goto(c, p)
      PROVE  TypeOK'
  BY <1>a DEF rows, TypeOK, Goto
<1>b. ASSUME UNCHANGED rows, NEW p \in Points, Goto(c, p), NEW j \in Jobs, Note(c, j)
      PROVE  TypeOK'
  BY <1>b DEF rows, TypeOK, Goto, Note
<1>2. CASE Store(c)
  <2>0. job[c] \in Jobs
    BY LocalTyping
  <2>1. CASE StoreBegin(c)
    <3>1. PICK on \in OnOff : /\ Note(c, [job[c] EXCEPT !.flag = on])
                             /\ Goto(c, IF on = "on" THEN "storeExact" ELSE "storeInsert")
      BY <2>1 DEF StoreBegin
    <3>2. [job[c] EXCEPT !.flag = on] \in Jobs
      BY <2>0, JobUpdates
    <3>3. UNCHANGED rows
      BY <2>1 DEF StoreBegin
    <3>4. (IF on = "on" THEN "storeExact" ELSE "storeInsert") \in Points
      BY DEF Points
    <3> QED BY <3>1, <3>2, <3>3, <3>4, <1>b
  <2>2. CASE StoreExact(c)
    <3>1. CASE UNCHANGED job
      BY <2>2, <3>1, <1>a DEF StoreExact, Points
    <3>2. ASSUME NEW g \in Ids, Goto(c, "confirmRead"), Note(c, [job[c] EXCEPT !.g = g])
          PROVE  TypeOK'
      <4>1. [job[c] EXCEPT !.g = g] \in Jobs
        BY <2>0, JobUpdates DEF Ids
      <4>2. "confirmRead" \in Points /\ UNCHANGED rows
        BY <2>2 DEF StoreExact, Points
      <4> QED BY <3>2, <4>1, <4>2, <1>b
    <3> QED BY <2>2, <3>1, <3>2 DEF StoreExact, Twins
  <2>3. CASE StoreSearch(c)
    <3>1. CASE UNCHANGED job
      BY <2>3, <3>1, <1>a DEF StoreSearch, Points
    <3>2. ASSUME NEW g \in Ids, Goto(c, "confirmRead"), Note(c, [job[c] EXCEPT !.g = g])
          PROVE  TypeOK'
      <4>1. [job[c] EXCEPT !.g = g] \in Jobs
        BY <2>0, JobUpdates DEF Ids
      <4>2. "confirmRead" \in Points /\ UNCHANGED rows
        BY <2>3 DEF StoreSearch, Points
      <4> QED BY <3>2, <4>1, <4>2, <1>b
    <3> QED BY <2>3, <3>1, <3>2 DEF StoreSearch
  <2>4. CASE ConfirmRead(c)
    BY <2>4, <1>a DEF ConfirmRead, Points
  <2>5. CASE ConfirmWrite(c)
    BY <2>5, <1>a DEF ConfirmWrite, Points
  <2>6. CASE StoreInsert(c)
    <3>1. HashToStore(c) \in Hashes \cup {None} /\ job[c].u \in Users \cup {None}
      BY <2>0 DEF HashToStore, Jobs
    <3>2. InsertRow(HashToStore(c), job[c].u, 0)
      BY <2>6 DEF StoreInsert
    <3>3. 0 \in 0..MaxId
      OBVIOUS
    <3>4. /\ next \in Ids /\ next' \in 1..(MaxId + 1)
          /\ content_hash' \in [Ids -> Hashes \cup {None}]
          /\ user_id' \in [Ids -> Users \cup {None}]
          /\ supersedes' \in [Ids -> 0..MaxId] /\ frozen' \in SUBSET Ids
      BY <3>1, <3>2, <3>3, InsertTyping
    <3>5. [job[c] EXCEPT !.g = next] \in Jobs
      BY <2>0, <3>4, JobUpdates DEF Ids
    <3>6. pc' \in [Clients -> Points] /\ job' \in [Clients -> Jobs]
      BY <2>6, <3>5, LocalTyping DEF StoreInsert, Points
    <3>7. status' \in [Ids -> Statuses] /\ superseded_by' \in [Ids -> 0..MaxId]
      BY <2>6 DEF StoreInsert, TypeOK, Statuses
    <3> QED BY <3>4, <3>6, <3>7 DEF TypeOK
  <2>7. CASE StoreRejected(c)
    BY <2>7, <1>a DEF StoreRejected, Points
  <2>8. CASE StoreFetch(c)
    BY <2>8, <1>a DEF StoreFetch, Points
  <2> QED BY <1>2, <2>1, <2>2, <2>3, <2>4, <2>5, <2>6, <2>7, <2>8 DEF Store
<1>3. CASE Version(c)
  <2>1. CASE VersionRead(c)
    <3>1. \E p \in {"done", "verTwin"} : Goto(c, p)
      BY <2>1 DEF VersionRead
    <3>2. UNCHANGED <<rows, job>> /\ {"done", "verTwin"} \subseteq Points
      BY <2>1 DEF VersionRead, Points
    <3> QED BY <3>1, <3>2, <1>a
  <2>2. CASE VersionTwin(c)
    BY <2>2, <1>a DEF VersionTwin, Points
  <2>3. CASE VersionBegin(c)
    BY <2>3, <1>a DEF VersionBegin, Points
  <2>4. CASE VersionRolledBack(c)
    BY <2>4, <1>a DEF VersionRolledBack, Points
  <2>5. CASE VersionCommit(c)
    <3>0. job[c] \in Jobs
      BY LocalTyping
    <3>1. job[c].h \in Hashes /\ job[c].g \in Ids
      BY <2>5 DEF VersionCommit, OpenIsSafe, At
    <3>2. InsertRow(job[c].h, user_id[job[c].g], job[c].g)
      BY <2>5 DEF VersionCommit
    <3>3. user_id[job[c].g] \in Users \cup {None} /\ job[c].g \in 0..MaxId
      BY <3>1 DEF TypeOK, Ids
    <3>4. /\ next \in Ids /\ next' \in 1..(MaxId + 1)
          /\ content_hash' \in [Ids -> Hashes \cup {None}]
          /\ user_id' \in [Ids -> Users \cup {None}]
          /\ supersedes' \in [Ids -> 0..MaxId] /\ frozen' \in SUBSET Ids
      BY <3>1, <3>2, <3>3, InsertTyping
    <3>5. pc' \in [Clients -> Points] /\ UNCHANGED job
      BY <2>5, LocalTyping DEF VersionCommit, Points
    <3>6. status' \in [Ids -> Statuses]
      BY <2>5, <3>1, <3>4 DEF VersionCommit, TypeOK, Statuses
    <3>7. superseded_by' \in [Ids -> 0..MaxId]
      BY <2>5, <3>1, <3>4 DEF VersionCommit, TypeOK, Ids
    <3> QED BY <3>4, <3>5, <3>6, <3>7 DEF TypeOK
  <2> QED BY <1>3, <2>1, <2>2, <2>3, <2>4, <2>5 DEF Version
<1>4. CASE Link(c)
  <2>0. job[c] \in Jobs
    BY LocalTyping
  <2>1. job[c].g \in 0..MaxId /\ job[c].old \in 0..MaxId
    BY <2>0 DEF Jobs
  <2>2. UNCHANGED job /\ pc' \in [Clients -> Points]
    BY <1>4, LocalTyping DEF Link, Points
  <2>3. CASE UNCHANGED rows
    BY <2>2, <2>3 DEF TypeOK, rows
  <2>4. CASE ~UNCHANGED rows
    <3>1. /\ UNCHANGED <<next, content_hash, frozen, user_id>>
          /\ supersedes' = [supersedes EXCEPT ![job[c].g] = job[c].old]
          /\ \/ /\ status' = [status EXCEPT ![job[c].old] = "superseded"]
                /\ superseded_by' = [superseded_by EXCEPT ![job[c].old] = job[c].g]
             \/ UNCHANGED <<status, superseded_by>>
      BY <1>4, <2>4 DEF Link
    <3> QED BY <2>1, <2>2, <3>1 DEF TypeOK, Statuses
  <2> QED BY <2>3, <2>4
<1>5. CASE Withdrawal(c)
  <2>1. CASE RetractRead(c)
    BY <2>1, <1>a DEF RetractRead, Points
  <2>2. CASE RetractWrite(c)
    BY <2>2, LocalTyping DEF RetractWrite, Close, TypeOK, Statuses, Points
  <2>3. CASE ForgetScan(c)
    <3>1. [job[c] EXCEPT !.set = {g \in Ids : status[g] = "asserted" /\ user_id[g] = job[c].u}]
            \in Jobs
      BY LocalTyping, JobUpdates
    <3> QED BY <2>3, <3>1, <1>b DEF ForgetScan, Points
  <2>4. CASE ForgetApply(c)
    BY <2>4, LocalTyping DEF ForgetApply, Close, TypeOK, Statuses, Points
  <2> QED BY <1>5, <2>1, <2>2, <2>3, <2>4 DEF Withdrawal
<1>6. CASE Upkeep(c)
  <2>1. CASE Freeze(c)
    BY <2>1, LocalTyping DEF Freeze, Exists, TypeOK, Points
  <2>2. CASE Delete(c)
    BY <2>2, LocalTyping DEF Delete, Erase, TypeOK, Statuses, Points
  <2>3. CASE GcSelect(c)
    <3>1. \A S \in SUBSET Ids : [job[c] EXCEPT !.set = S] \in Jobs
      BY LocalTyping, JobUpdates
    <3>2. "done" \in Points /\ "gcPurge" \in Points /\ UNCHANGED rows
      BY <2>3 DEF GcSelect, Points
    <3>3. \/ Goto(c, "done") /\ UNCHANGED job
          \/ Goto(c, "gcPurge") /\ \E S \in SUBSET Ids : Note(c, [job[c] EXCEPT !.set = S])
      BY <2>3 DEF GcSelect
    <3> QED BY <3>1, <3>2, <3>3, <1>a, <1>b
  <2>4. CASE GcPurge(c)
    BY <2>4, LocalTyping DEF GcPurge, Erase, TypeOK, Statuses, Points
  <2> QED BY <1>6, <2>1, <2>2, <2>3, <2>4 DEF Upkeep
<1>7. CASE Queue(c)
  <2>1. ASSUME NEW op \in Ops, Submit(c, op) PROVE TypeOK'
    <3>1. \A j \in Tasks(op) : j \in Jobs
      BY <2>1, TaskShape
    <3>2. StartOf(op) \in Points
      BY DEF StartOf, Points
    <3> QED BY <2>1, <3>1, <3>2, <1>b DEF Submit
  <2>2. CASE Acknowledge(c)
    <3>1. Blank("none") \in Jobs
      BY DEF Blank, Jobs, OnOff
    <3> QED BY <2>2, <3>1, <1>b DEF Acknowledge, Points
  <2>3. CASE Redeliver(c)
    <3>1. StartOf(job[c].op) \in Points
      BY DEF StartOf, Points
    <3>2. Fresh(job[c]) \in Jobs
      BY LocalTyping, JobUpdates DEF OnOff
    <3> QED BY <2>3, <3>1, <3>2, <1>b DEF Redeliver
  <2>4. CASE Fail(c)
    BY <2>4, <1>a DEF Fail, Points
  <2> QED BY <1>7, <2>1, <2>2, <2>3, <2>4 DEF Queue
<1> QED BY <1>2, <1>3, <1>4, <1>5, <1>6, <1>7 DEF Step

-----------------------------------------------------------------------------
(* What a step does to the other workers and to the rows.                   *)

\* A step of one worker leaves the local state of the others alone.
LEMMA Locality ==
  ASSUME TypeOK, NEW c \in Clients, Step(c), NEW d \in Clients, d # c
  PROVE  pc'[d] = pc[d] /\ job'[d] = job[d]
<1>1. /\ \E p : Goto(c, p)
      /\ UNCHANGED job \/ \E j : Note(c, j)
  <2>1. CASE Store(c)
    BY <2>1 DEF Store, StoreBegin, StoreExact, StoreSearch, ConfirmRead, ConfirmWrite,
                StoreInsert, StoreRejected, StoreFetch
  <2>2. CASE Version(c)
    BY <2>2 DEF Version, VersionRead, VersionTwin, VersionBegin, VersionRolledBack, VersionCommit
  <2>3. CASE Link(c) \/ Withdrawal(c)
    BY <2>3 DEF Link, Withdrawal, RetractRead, RetractWrite, ForgetScan, ForgetApply
  <2>4. CASE Upkeep(c)
    BY <2>4 DEF Upkeep, Freeze, Delete, GcSelect, GcPurge
  <2>5. CASE Queue(c)
    BY <2>5 DEF Queue, Submit, Acknowledge, Redeliver, Fail
  <2> QED BY <2>1, <2>2, <2>3, <2>4, <2>5 DEF Step
<1> QED BY <1>1 DEF Goto, Note, TypeOK

\* Only these steps write rows.
LEMMA RowSteps ==
  ASSUME NEW c \in Clients, Step(c)
  PROVE  \/ UNCHANGED rows
         \/ StoreInsert(c) \/ VersionCommit(c) \/ Link(c) \/ RetractWrite(c)
         \/ ForgetApply(c) \/ Freeze(c) \/ Delete(c) \/ GcPurge(c)
<1>1. CASE Store(c)
  BY <1>1 DEF Store, StoreBegin, StoreExact, StoreSearch, ConfirmRead, ConfirmWrite,
              StoreRejected, StoreFetch
<1>2. CASE Version(c)
  BY <1>2 DEF Version, VersionRead, VersionTwin, VersionBegin, VersionRolledBack
<1>3. CASE Withdrawal(c)
  BY <1>3 DEF Withdrawal, RetractRead, ForgetScan
<1>4. CASE Upkeep(c)
  BY <1>4 DEF Upkeep, GcSelect
<1>5. CASE Queue(c)
  BY <1>5 DEF Queue, Submit, Acknowledge, Redeliver, Fail
<1> QED BY <1>1, <1>2, <1>3, <1>4, <1>5 DEF Step

\* A supersession is open after a step only if it was open before, untouched,
\* or has just begun.
LEMMA Opening ==
  ASSUME TypeOK, NEW c \in Clients, Step(c), NEW d \in Clients, pc'[d] = "verOpen"
  PROVE  /\ job'[d] = job[d]
         /\ \/ d # c /\ pc[d] = "verOpen"
            \/ d = c /\ VersionBegin(c)
<1>1. CASE d # c
  BY <1>1, Locality
<1>2. CASE d = c
  <2>0. \A p : Goto(c, p) => pc'[c] = p
    BY DEF Goto, TypeOK
  <2>1. CASE Store(c)
    BY <1>2, <2>0, <2>1 DEF Store, StoreBegin, StoreExact, StoreSearch, ConfirmRead,
       ConfirmWrite, StoreInsert, StoreRejected, StoreFetch
  <2>2. CASE Version(c)
    BY <1>2, <2>0, <2>2 DEF Version, VersionRead, VersionTwin, VersionBegin,
       VersionRolledBack, VersionCommit
  <2>3. CASE Link(c) \/ Withdrawal(c)
    BY <1>2, <2>0, <2>3 DEF Link, Withdrawal, RetractRead, RetractWrite, ForgetScan, ForgetApply
  <2>4. CASE Upkeep(c)
    BY <1>2, <2>0, <2>4 DEF Upkeep, Freeze, Delete, GcSelect, GcPurge
  <2>5. CASE Queue(c)
    <3>1. \A op : StartOf(op) # "verOpen"
      BY DEF StartOf
    <3> QED BY <1>2, <2>0, <2>5, <3>1 DEF Queue, Submit, Acknowledge, Redeliver, Fail
  <2> QED BY <2>1, <2>2, <2>3, <2>4, <2>5 DEF Step
<1> QED BY <1>1, <1>2

\* The steps that insert nothing: rows only close or disappear, and none that an
\* open supersession has locked.
ClosingStep(c) == \/ Link(c) \/ RetractWrite(c) \/ ForgetApply(c) \/ Freeze(c)
                  \/ Delete(c) \/ GcPurge(c)

LEMMA Closing ==
  ASSUME TypeOK, NEW c \in Clients, ClosingStep(c)
  PROVE  /\ UNCHANGED <<next, content_hash, user_id>>
         /\ \A g \in Ids :
              \/ status'[g] = status[g]
              \/ /\ status[g] = "asserted" /\ ~RowLocked(g)
                 /\ status'[g] \in {"superseded", "retracted"}
              \/ Exists(g) /\ ~RowLocked(g) /\ status'[g] = "gone"
<1> USE DEF TypeOK
<1>1. CASE Link(c)
  BY <1>1 DEF Link, rows, Exists, Closable
<1>2. CASE RetractWrite(c)
  BY <1>2 DEF RetractWrite, Close, Closable
<1>3. CASE ForgetApply(c)
  BY <1>3 DEF ForgetApply, Close, Closable
<1>4. CASE Freeze(c)
  BY <1>4 DEF Freeze
<1>5. CASE Delete(c)
  BY <1>5 DEF Delete, Erase, Touched
<1>6. CASE GcPurge(c)
  BY <1>6 DEF GcPurge, Erase, Touched, Purgeable, Exists
<1> QED BY <1>1, <1>2, <1>3, <1>4, <1>5, <1>6 DEF ClosingStep

-----------------------------------------------------------------------------
(* The inductive invariant.                                                 *)

LEMMA InitInv == Init => IInv
<1>1. Init => TypeOK
  BY StoreAssumption DEF StoreAssumption, Init, TypeOK, Ids, Null, Statuses, Points, Jobs, Blank, OnOff
<1>2. Init => /\ TasksMatch /\ OpenIsSafe /\ OpenAreApart /\ OnlySupersededHaveHeirs
              /\ UnbornAndGoneAreBare /\ OneActivePerHash
  BY DEF Init, Blank, Null, TasksMatch, VersionPoints, OpenIsSafe, OpenAreApart,
         OnlySupersededHaveHeirs, UnbornAndGoneAreBare, OneActivePerHash
<1>3. Init => BornInOrder
  BY StoreAssumption DEF StoreAssumption, Init, BornInOrder, Ids, Null
<1> QED BY <1>1, <1>2, <1>3 DEF IInv

\* What a worker notes while it works leaves the operation and the content alone.
LEMMA OpKept ==
  ASSUME TypeOK, NEW c \in Clients, Store(c) \/ Withdrawal(c) \/ Upkeep(c)
  PROVE  job'[c].op = job[c].op /\ job'[c].h = job[c].h
<1>0. job[c] \in Jobs /\ \A j : Note(c, j) => job'[c] = j
  BY DEF TypeOK, Note
<1>1. CASE StoreBegin(c)
  BY <1>0, <1>1 DEF StoreBegin, Jobs
<1>2. CASE StoreExact(c)
  BY <1>0, <1>2 DEF StoreExact, Jobs
<1>3. CASE StoreSearch(c)
  BY <1>0, <1>3 DEF StoreSearch, Jobs
<1>4. CASE StoreInsert(c)
  BY <1>0, <1>4 DEF StoreInsert, Jobs
<1>5. CASE ForgetScan(c)
  BY <1>0, <1>5 DEF ForgetScan, Jobs
<1>6. CASE GcSelect(c)
  BY <1>0, <1>6 DEF GcSelect, Jobs
<1>7. CASE UNCHANGED job
  BY <1>7
<1> QED BY <1>1, <1>2, <1>3, <1>4, <1>5, <1>6, <1>7 DEF Store, ConfirmRead, ConfirmWrite,
      StoreRejected, StoreFetch, Withdrawal, RetractRead, RetractWrite, ForgetApply,
      Upkeep, Freeze, Delete, GcPurge

\* Workers stay inside the operation of their message.
LEMMA TasksStep ==
  ASSUME TypeOK, TasksMatch, NEW c \in Clients, Step(c)
  PROVE  TasksMatch'
<1> SUFFICES ASSUME NEW d \in Clients
    PROVE  /\ job'[d].op \in Ops \cup {"none"}
           /\ job'[d].op = "version" => job'[d].h \in Hashes
           /\ pc'[d] \in VersionPoints => job'[d].op = "version"
           /\ pc'[d] = "linkWrite" => job'[d].op = "link"
  BY DEF TasksMatch
<1>1. CASE d # c
  BY <1>1, Locality DEF TasksMatch
<1>2. CASE d = c
  <2>0. /\ \A p : Goto(c, p) => pc'[c] = p
        /\ \A j : Note(c, j) => job'[c] = j
        /\ job[c] \in Jobs
    BY DEF Goto, Note, TypeOK
  <2>1. /\ \A x : [job[c] EXCEPT !.g = x].op = job[c].op /\ [job[c] EXCEPT !.g = x].h = job[c].h
        /\ \A x : [job[c] EXCEPT !.set = x].op = job[c].op /\ [job[c] EXCEPT !.set = x].h = job[c].h
        /\ \A x : [job[c] EXCEPT !.flag = x].op = job[c].op /\ [job[c] EXCEPT !.flag = x].h = job[c].h
        /\ Fresh(job[c]).op = job[c].op /\ Fresh(job[c]).h = job[c].h
    BY <2>0 DEF Jobs, Fresh
  <2>a. ASSUME job'[c].op = job[c].op, job'[c].h = job[c].h,
               pc'[c] \notin VersionPoints, pc'[c] # "linkWrite"
        PROVE  /\ job'[d].op \in Ops \cup {"none"}
               /\ job'[d].op = "version" => job'[d].h \in Hashes
               /\ pc'[d] \notin VersionPoints /\ pc'[d] # "linkWrite"
    BY <1>2, <2>0, <2>a DEF TasksMatch
  <2>2. CASE Store(c)
    <3>1. job'[c].op = job[c].op /\ job'[c].h = job[c].h
      BY <2>2, OpKept
    <3>2. pc'[c] \notin VersionPoints /\ pc'[c] # "linkWrite"
      BY <2>0, <2>2 DEF Store, StoreBegin, StoreExact, StoreSearch, ConfirmRead,
         ConfirmWrite, StoreInsert, StoreRejected, StoreFetch, VersionPoints
    <3> QED BY <2>a, <3>1, <3>2
  <2>3. CASE Version(c)
    BY <1>2, <2>0, <2>3 DEF Version, VersionRead, VersionTwin, VersionBegin, At,
       VersionRolledBack, VersionCommit, TasksMatch, VersionPoints
  <2>4. CASE Link(c) \/ Withdrawal(c)
    <3>1. job'[c].op = job[c].op /\ job'[c].h = job[c].h
      BY <2>4, OpKept DEF Link
    <3>2. pc'[c] \notin VersionPoints /\ pc'[c] # "linkWrite"
      BY <2>0, <2>4 DEF Link, Withdrawal, RetractRead, RetractWrite, ForgetScan, ForgetApply, VersionPoints
    <3> QED BY <2>a, <3>1, <3>2
  <2>5. CASE Upkeep(c)
    <3>1. job'[c].op = job[c].op /\ job'[c].h = job[c].h
      BY <2>5, OpKept
    <3>2. pc'[c] \notin VersionPoints /\ pc'[c] # "linkWrite"
      BY <2>0, <2>5 DEF Upkeep, Freeze, Delete, GcSelect, GcPurge, VersionPoints
    <3> QED BY <2>a, <3>1, <3>2
  <2>6. CASE Queue(c)
    <3>1. /\ \A op : StartOf(op) \in VersionPoints => op = "version"
          /\ \A op : StartOf(op) = "linkWrite" => op = "link"
      BY DEF StartOf, VersionPoints
    <3>2. ASSUME NEW op \in Ops, Submit(c, op) PROVE
             /\ job'[d].op \in Ops \cup {"none"}
             /\ job'[d].op = "version" => job'[d].h \in Hashes
             /\ pc'[d] \in VersionPoints => job'[d].op = "version"
             /\ pc'[d] = "linkWrite" => job'[d].op = "link"
      <4>1. PICK j \in Tasks(op) : Note(c, j)
        BY <3>2 DEF Submit
      <4>2. j.op = op /\ (op = "version" => j.h \in Hashes)
        BY TaskShape
      <4> QED BY <1>2, <2>0, <3>1, <3>2, <4>1, <4>2 DEF Submit
    <3>3. CASE Acknowledge(c)
      BY <1>2, <2>0, <3>3 DEF Acknowledge, Blank, VersionPoints
    <3>4. CASE Redeliver(c)
      BY <1>2, <2>0, <2>1, <3>1, <3>4 DEF Redeliver, TasksMatch
    <3>5. CASE Fail(c)
      BY <1>2, <2>0, <3>5 DEF Fail, TasksMatch, VersionPoints
    <3> QED BY <2>6, <3>2, <3>3, <3>4, <3>5 DEF Queue
  <2> QED BY <2>2, <2>3, <2>4, <2>5, <2>6 DEF Step
<1> QED BY <1>1, <1>2

\* While a supersession is open, its old granule stays asserted, its content
\* stays free, and no two open ones meet.
LEMMA OpenStep ==
  ASSUME IInv, NEW c \in Clients, Step(c)
  PROVE  OpenIsSafe' /\ OpenAreApart'
<1> USE DEF IInv
<1>1. ASSUME NEW d \in Clients, pc'[d] = "verOpen"
      PROVE  /\ job'[d].g \in Ids /\ job'[d].h \in Hashes
             /\ status[job[d].g] = "asserted" /\ Twins(job[d].h) = {}
             /\ job'[d] = job[d]
             /\ d # c => RowLocked(job[d].g) /\ KeyLocked(job[d].h)
  <2>1. CASE d # c
    BY <1>1, <2>1, Opening DEF OpenIsSafe, RowLocked, KeyLocked
  <2>2. CASE d = c
    <3>1. VersionBegin(c) /\ job'[c] = job[c]
      BY <1>1, <2>2, Opening
    <3>2. job[c].h \in Hashes
      BY <3>1 DEF VersionBegin, At, TasksMatch, VersionPoints
    <3>3. job[c].h # None
      BY <3>2, StoreAssumption DEF StoreAssumption
    <3> QED BY <2>2, <3>1, <3>2, <3>3 DEF VersionBegin, Exists, Closable, IndexAccepts
  <2> QED BY <2>1, <2>2
<1>2. OpenIsSafe'
  <2> SUFFICES ASSUME NEW d \in Clients, pc'[d] = "verOpen"
               PROVE  /\ status'[job[d].g] = "asserted"
                      /\ \A g \in Ids : ~(status'[g] = "asserted" /\ content_hash'[g] = job[d].h)
    BY <1>1 DEF OpenIsSafe, Twins
  <2>1. CASE UNCHANGED rows
    BY <1>1, <2>1 DEF rows, Twins
  <2>2. CASE d # c /\ ~UNCHANGED rows
    <3>0. /\ job[d].g \in Ids /\ job[d].h \in Hashes /\ status[job[d].g] = "asserted"
          /\ Twins(job[d].h) = {} /\ RowLocked(job[d].g) /\ KeyLocked(job[d].h)
      BY <1>1, <2>2
    <3>1. CASE ClosingStep(c)
      <4>1. /\ content_hash' = content_hash
            /\ \A g \in Ids : status'[g] = "asserted" => status[g] = "asserted"
            /\ status'[job[d].g] = status[job[d].g]
        BY <3>0, <3>1, Closing
      <4> QED BY <3>0, <4>1 DEF Twins
    <3>2. CASE StoreInsert(c)
      <4>1. /\ next \in Ids /\ status[next] = "unborn"
            /\ status' = [status EXCEPT ![next] = "asserted"]
            /\ content_hash' = [content_hash EXCEPT ![next] = HashToStore(c)]
            /\ HashToStore(c) # job[d].h
        BY <3>0, <3>2 DEF StoreInsert, InsertRow, BornInOrder, TypeOK, Ids
      <4> QED BY <3>0, <4>1 DEF Twins, TypeOK
    <3>3. CASE VersionCommit(c)
      <4>0. pc[d] = "verOpen" /\ pc[c] = "verOpen"
        BY <2>2, <3>3, Opening DEF VersionCommit, At
      <4>1. job[c].g # job[d].g /\ job[c].h # job[d].h
        BY <2>2, <4>0 DEF OpenAreApart
      <4>2. job[c].g \in Ids
        BY <4>0 DEF OpenIsSafe
      <4>3. /\ next \in Ids /\ status[next] = "unborn"
            /\ status' = [status EXCEPT ![job[c].g] = "superseded", ![next] = "asserted"]
            /\ content_hash' = [content_hash EXCEPT ![next] = job[c].h]
        BY <3>3 DEF VersionCommit, InsertRow, BornInOrder, TypeOK, Ids
      <4> QED BY <3>0, <4>1, <4>2, <4>3 DEF Twins, TypeOK
    <3> QED BY <2>2, <3>1, <3>2, <3>3, RowSteps DEF ClosingStep
  <2>3. CASE d = c
    BY <1>1, <2>1, <2>3, Opening DEF VersionBegin
  <2> QED BY <2>1, <2>2, <2>3
<1>3. OpenAreApart'
  <2> SUFFICES ASSUME NEW d \in Clients, NEW e \in Clients, d # e,
                      pc'[d] = "verOpen", pc'[e] = "verOpen"
               PROVE  job[d].g # job[e].g /\ job[d].h # job[e].h
    BY <1>1 DEF OpenAreApart
  <2>1. CASE d # c /\ e # c
    BY <2>1, Opening DEF OpenAreApart
  <2>2. CASE d = c
    BY <2>2, Opening DEF VersionBegin, RowLocked, KeyLocked
  <2>3. CASE e = c
    BY <2>3, Opening DEF VersionBegin, RowLocked, KeyLocked
  <2> QED BY <2>1, <2>2, <2>3
<1> QED BY <1>2, <1>3

\* The index and the locks together keep live contents apart.
LEMMA DedupStep ==
  ASSUME IInv, NEW c \in Clients, Step(c)
  PROVE  OneActivePerHash'
<1> USE DEF IInv
<1>1. CASE UNCHANGED rows
  BY <1>1 DEF rows, OneActivePerHash
<1>2. CASE ClosingStep(c)
  <2>1. /\ content_hash' = content_hash
        /\ \A g \in Ids : status'[g] = "asserted" => status[g] = "asserted"
    BY <1>2, Closing
  <2> QED BY <2>1 DEF OneActivePerHash
<1>3. CASE StoreInsert(c)
  <2>1. /\ next \in Ids /\ IndexAccepts(HashToStore(c))
        /\ status' = [status EXCEPT ![next] = "asserted"]
        /\ content_hash' = [content_hash EXCEPT ![next] = HashToStore(c)]
    BY <1>3 DEF StoreInsert, InsertRow
  <2> QED BY <2>1 DEF OneActivePerHash, IndexAccepts, Twins, TypeOK
<1>4. CASE VersionCommit(c)
  <2>1. /\ next \in Ids /\ job[c].g \in Ids /\ Twins(job[c].h) = {}
        /\ status' = [status EXCEPT ![job[c].g] = "superseded", ![next] = "asserted"]
        /\ content_hash' = [content_hash EXCEPT ![next] = job[c].h]
    BY <1>4 DEF VersionCommit, InsertRow, OpenIsSafe, At
  <2> QED BY <2>1 DEF OneActivePerHash, Twins, TypeOK
<1> QED BY <1>1, <1>2, <1>3, <1>4, RowSteps DEF ClosingStep

\* An identifier that has a row has been given out.
LEMMA ExistsIsBorn ==
  ASSUME TypeOK, BornInOrder, NEW g, Exists(g)
  PROVE  g \in Ids /\ g < next
<1>1. g \in Ids /\ status[g] # "unborn"
  BY DEF Exists
<1>2. ~(g >= next) /\ g \in Nat /\ next \in Nat
  BY <1>1, StoreAssumption DEF BornInOrder, TypeOK, Ids, StoreAssumption
<1> QED BY <1>1, <1>2

\* Rows are born in order, links name born rows, and only superseded rows have
\* heirs.
LEMMA LinksStep ==
  ASSUME IInv, NEW c \in Clients, Step(c)
  PROVE  BornInOrder' /\ OnlySupersededHaveHeirs' /\ UnbornAndGoneAreBare'
<1> USE StoreAssumption DEF StoreAssumption, IInv
<1>1. CASE UNCHANGED rows
  BY <1>1 DEF rows, BornInOrder, OnlySupersededHaveHeirs, UnbornAndGoneAreBare
<1>2. CASE StoreInsert(c)
  <2>1. /\ next \in Ids /\ next' = next + 1 /\ superseded_by' = superseded_by
        /\ status' = [status EXCEPT ![next] = "asserted"]
        /\ supersedes' = [supersedes EXCEPT ![next] = 0]
    BY <1>2 DEF StoreInsert, InsertRow, Null
  <2> QED BY <2>1 DEF TypeOK, BornInOrder, OnlySupersededHaveHeirs, UnbornAndGoneAreBare, Ids, Null
<1>3. CASE VersionCommit(c)
  <2>1. /\ next \in Ids /\ next' = next + 1 /\ job[c].g \in Ids /\ status[job[c].g] = "asserted"
        /\ superseded_by' = [superseded_by EXCEPT ![job[c].g] = next]
        /\ status' = [status EXCEPT ![job[c].g] = "superseded", ![next] = "asserted"]
        /\ supersedes' = [supersedes EXCEPT ![next] = job[c].g]
    BY <1>3 DEF VersionCommit, InsertRow, OpenIsSafe, At
  <2>2. job[c].g < next /\ status[next] = "unborn"
    BY <2>1 DEF BornInOrder, TypeOK, Ids
  <2> QED BY <2>1, <2>2 DEF TypeOK, BornInOrder, OnlySupersededHaveHeirs, UnbornAndGoneAreBare, Ids, Null
<1>4. CASE Link(c)
  <2>1. CASE UNCHANGED rows
    BY <1>1, <2>1
  <2>2. CASE ~UNCHANGED rows
    <3>1. /\ Exists(job[c].g) /\ Exists(job[c].old) /\ next' = next
          /\ supersedes' = [supersedes EXCEPT ![job[c].g] = job[c].old]
          /\ \/ /\ status' = [status EXCEPT ![job[c].old] = "superseded"]
                /\ superseded_by' = [superseded_by EXCEPT ![job[c].old] = job[c].g]
             \/ UNCHANGED <<status, superseded_by>>
      BY <1>4, <2>2 DEF Link
    <3>2. job[c].g \in Ids /\ job[c].old \in Ids /\ job[c].g < next /\ job[c].old < next
      BY <3>1, ExistsIsBorn
    <3>3. /\ status \in [Ids -> Statuses] /\ supersedes \in [Ids -> 0..MaxId]
          /\ superseded_by \in [Ids -> 0..MaxId]
      BY DEF TypeOK
    <3>4. BornInOrder'
      BY <3>1, <3>2, <3>3 DEF BornInOrder, Exists
    <3>5. OnlySupersededHaveHeirs' /\ UnbornAndGoneAreBare'
      BY <3>1, <3>2, <3>3 DEF OnlySupersededHaveHeirs, UnbornAndGoneAreBare, Exists
    <3> QED BY <3>4, <3>5
  <2> QED BY <2>1, <2>2
<1>5. CASE RetractWrite(c) \/ ForgetApply(c)
  <2>1. \E S : Close(S) /\ \A g \in S : status[g] = "asserted"
    <3>1. CASE RetractWrite(c)
      <4>1. Close({g \in {job[c].g} : Closable(g)})
        BY <3>1 DEF RetractWrite
      <4> QED BY <4>1 DEF Closable
    <3>2. CASE ForgetApply(c)
      <4>1. Close({g \in job[c].set : Closable(g)})
        BY <3>2 DEF ForgetApply
      <4> QED BY <4>1 DEF Closable
    <3> QED BY <1>5, <3>1, <3>2
  <2>2. /\ UNCHANGED <<next, supersedes, superseded_by>>
        /\ \A g \in Ids : \/ status'[g] = status[g]
                          \/ status[g] = "asserted" /\ status'[g] = "retracted"
    BY <2>1 DEF Close
  <2> QED BY <2>2 DEF BornInOrder, OnlySupersededHaveHeirs, UnbornAndGoneAreBare
<1>6. CASE Freeze(c)
  BY <1>6 DEF Freeze, BornInOrder, OnlySupersededHaveHeirs, UnbornAndGoneAreBare
<1>7. CASE Delete(c) \/ GcPurge(c)
  <2>1. \E S : Erase(S) /\ \A g \in S : Exists(g)
    <3>1. CASE Delete(c)
      <4>1. Erase({g \in {job[c].g} : Exists(g)})
        BY <3>1 DEF Delete
      <4> QED BY <4>1
    <3>2. CASE GcPurge(c)
      <4>1. Erase({g \in job[c].set : Purgeable(g)})
        BY <3>2 DEF GcPurge
      <4>2. job[c].set \subseteq Ids
        BY DEF TypeOK, Jobs
      <4>3. \A g \in {h \in job[c].set : Purgeable(h)} : Exists(g)
        BY <4>2 DEF Purgeable, Exists
      <4> QED BY <4>1, <4>3
    <3> QED BY <1>7, <3>1, <3>2
  <2>2. /\ next' = next
        /\ \A g \in Ids :
             /\ supersedes'[g] \in {supersedes[g], 0}
             /\ superseded_by'[g] \in {superseded_by[g], 0}
             /\ \/ status'[g] = status[g]
                \/ /\ Exists(g) /\ status'[g] = "gone"
                   /\ supersedes'[g] = 0 /\ superseded_by'[g] = 0
    BY <2>1 DEF Erase, Null
  <2>3. 0 < next
    BY DEF TypeOK
  <2>4. BornInOrder'
    BY <2>2, <2>3, ExistsIsBorn DEF BornInOrder, Exists
  <2>5. OnlySupersededHaveHeirs' /\ UnbornAndGoneAreBare'
    BY <2>2 DEF OnlySupersededHaveHeirs, UnbornAndGoneAreBare, Null
  <2> QED BY <2>4, <2>5
<1> QED BY <1>1, <1>2, <1>3, <1>4, <1>5, <1>6, <1>7, RowSteps

\* The invariant is inductive.
THEOREM Inductive == Spec => []IInv
<1>1. IInv /\ [Next]_vars => IInv'
  <2> SUFFICES ASSUME IInv, [Next]_vars PROVE IInv'
    OBVIOUS
  <2>1. CASE UNCHANGED vars
    BY <2>1 DEF vars, rows, IInv, TypeOK, TasksMatch, OpenIsSafe, OpenAreApart, BornInOrder,
                OnlySupersededHaveHeirs, UnbornAndGoneAreBare, OneActivePerHash, Twins
  <2>2. ASSUME NEW c \in Clients, Step(c) PROVE IInv'
    <3>1. TypeOK' /\ TasksMatch'
      BY <2>2, StepTyping, TasksStep DEF IInv
    <3> QED BY <2>2, <3>1, OpenStep, DedupStep, LinksStep DEF IInv
  <2> QED BY <2>1, <2>2 DEF Next
<1> QED BY <1>1, InitInv, PTL DEF Spec

\* Every variable stays inside its domain: the columns of memories and the
\* local state of the workers.
THEOREM TypeCorrect == Spec => []TypeOK
<1>1. IInv => TypeOK
  BY DEF IInv
<1> QED BY <1>1, Inductive, PTL

\* Exact dedup holds under every interleaving of stores, supersessions, closers
\* and redeliveries.
THEOREM DedupHolds == Spec => []OneActivePerHash
<1>1. IInv => OneActivePerHash
  BY DEF IInv
<1> QED BY <1>1, Inductive, PTL

-----------------------------------------------------------------------------
(* What the steps do to the statuses and the links.                         *)

\* Withdrawals and erasures concern a set of rows that were there.
LEMMA ClosesOrErases ==
  ASSUME TypeOK, NEW c \in Clients,
         RetractWrite(c) \/ ForgetApply(c) \/ Delete(c) \/ GcPurge(c)
  PROVE  \E S \in SUBSET Ids : \/ Close(S) /\ \A g \in S : status[g] = "asserted"
                               \/ Erase(S) /\ \A g \in S : Exists(g)
<1>0. job[c] \in Jobs /\ job[c].set \subseteq Ids
  BY DEF TypeOK, Jobs
<1>1. CASE RetractWrite(c)
  <2>1. Close({g \in {job[c].g} : Closable(g)})
    BY <1>1 DEF RetractWrite
  <2>2. job[c].g \in Ids \/ Close({})
    <3>1. CASE job[c].g \in Ids
      BY <3>1
    <3>2. CASE job[c].g \notin Ids
      <4>1. \A g \in Ids : g \notin {k \in {job[c].g} : Closable(k)}
        BY <3>2
      <4>2. [g \in Ids |-> IF g \in {k \in {job[c].g} : Closable(k)} THEN "retracted" ELSE status[g]]
              = [g \in Ids |-> IF g \in {} THEN "retracted" ELSE status[g]]
        BY <4>1
      <4> QED BY <2>1, <4>2 DEF Close
    <3> QED BY <3>1, <3>2
  <2>3. CASE job[c].g \in Ids
    <3>1. {g \in {job[c].g} : Closable(g)} \in SUBSET Ids
      BY <2>3
    <3> QED BY <2>1, <3>1 DEF Closable
  <2>4. CASE Close({})
    BY <2>4
  <2> QED BY <2>2, <2>3, <2>4
<1>2. CASE ForgetApply(c)
  <2>1. Close({g \in job[c].set : Closable(g)})
    BY <1>2 DEF ForgetApply
  <2>2. {g \in job[c].set : Closable(g)} \in SUBSET Ids
    BY <1>0
  <2> QED BY <2>1, <2>2 DEF Closable
<1>3. CASE Delete(c)
  <2>1. Erase({g \in {job[c].g} : Exists(g)})
    BY <1>3 DEF Delete
  <2>2. {g \in {job[c].g} : Exists(g)} \in SUBSET Ids
    BY DEF Exists
  <2> QED BY <2>1, <2>2
<1>4. CASE GcPurge(c)
  <2>1. Erase({g \in job[c].set : Purgeable(g)})
    BY <1>4 DEF GcPurge
  <2>2. {g \in job[c].set : Purgeable(g)} \in SUBSET Ids
    BY <1>0
  <2>3. \A g \in {k \in job[c].set : Purgeable(k)} : Exists(g)
    BY <1>0 DEF Purgeable, Exists
  <2> QED BY <2>1, <2>2, <2>3
<1> QED BY <1>1, <1>2, <1>3, <1>4

\* A committed supersession inserts the heir and closes a granule that is live.
LEMMA CommitShape ==
  ASSUME IInv, NEW c \in Clients, VersionCommit(c)
  PROVE  /\ next \in Ids /\ next' = next + 1 /\ job[c].g \in Ids /\ job[c].g < next
         /\ status[next] = "unborn" /\ status[job[c].g] = "asserted"
         /\ job[c].h \in Hashes /\ Twins(job[c].h) = {}
         /\ status' = [status EXCEPT ![job[c].g] = "superseded", ![next] = "asserted"]
         /\ content_hash' = [content_hash EXCEPT ![next] = job[c].h]
         /\ supersedes' = [supersedes EXCEPT ![next] = job[c].g]
         /\ superseded_by' = [superseded_by EXCEPT ![job[c].g] = next]
<1>1. /\ next \in Ids /\ next' = next + 1 /\ job[c].g \in Ids
      /\ status[job[c].g] = "asserted" /\ job[c].h \in Hashes /\ Twins(job[c].h) = {}
  BY DEF VersionCommit, InsertRow, IInv, OpenIsSafe, At
<1>2. job[c].g < next
  BY <1>1, ExistsIsBorn DEF IInv, Exists
<1>3. status[next] = "unborn"
  BY <1>1 DEF IInv, BornInOrder, TypeOK, Ids
<1> QED BY <1>1, <1>2, <1>3 DEF VersionCommit, InsertRow

\* Storing inserts one live row that has no links.
LEMMA InsertShape ==
  ASSUME IInv, NEW c \in Clients, StoreInsert(c)
  PROVE  /\ next \in Ids /\ next' = next + 1 /\ status[next] = "unborn"
         /\ HashToStore(c) \in Hashes \cup {None} /\ IndexAccepts(HashToStore(c))
         /\ status' = [status EXCEPT ![next] = "asserted"]
         /\ content_hash' = [content_hash EXCEPT ![next] = HashToStore(c)]
         /\ supersedes' = [supersedes EXCEPT ![next] = Null]
         /\ superseded_by' = superseded_by
<1>1. next \in Ids
  BY DEF StoreInsert, InsertRow
<1>2. status[next] = "unborn"
  BY <1>1 DEF IInv, BornInOrder, TypeOK, Ids
<1>3. HashToStore(c) \in Hashes \cup {None}
  <2>1. job[c] \in Jobs
    BY DEF IInv, TypeOK
  <2> QED BY <2>1 DEF HashToStore, Jobs
<1> QED BY <1>1, <1>2, <1>3 DEF StoreInsert, InsertRow

\* A legacy link either changes nothing or names two rows that are there.
LEMMA LinkShape ==
  ASSUME NEW c \in Clients, Link(c)
  PROVE  \/ UNCHANGED rows
         \/ /\ Exists(job[c].g) /\ Exists(job[c].old)
            /\ UNCHANGED <<next, content_hash>>
            /\ \/ /\ status[job[c].old] = "asserted"
                  /\ status' = [status EXCEPT ![job[c].old] = "superseded"]
                  /\ superseded_by' = [superseded_by EXCEPT ![job[c].old] = job[c].g]
               \/ UNCHANGED <<status, superseded_by>>
  BY DEF Link, Closable, rows

-----------------------------------------------------------------------------
(* Action properties.                                                       *)

\* Nothing reopens, recloses or re-links a closed granule, whichever closers race.
THEOREM ClosedForever == Spec => ClosedIsFinal
<1> DEFINE Final == \A g \in Ids : status[g] \in {"superseded", "retracted"} =>
                      /\ status'[g] \in {status[g], "gone"}
                      /\ superseded_by'[g] \in {superseded_by[g], Null}
<1>1. IInv /\ [Next]_vars => [Final]_vars
  <2> SUFFICES ASSUME IInv, NEW c \in Clients, Step(c) PROVE Final
    BY DEF Next
  <2>0. /\ status \in [Ids -> Statuses] /\ superseded_by \in [Ids -> 0..MaxId] /\ TypeOK
    BY DEF IInv, TypeOK
  <2>1. CASE UNCHANGED rows
    BY <2>1 DEF rows
  <2>2. CASE StoreInsert(c)
    BY <2>0, <2>2, InsertShape
  <2>3. CASE VersionCommit(c)
    BY <2>0, <2>3, CommitShape
  <2>4. CASE Link(c)
    BY <2>0, <2>4, LinkShape DEF rows, Exists
  <2>5. CASE RetractWrite(c) \/ ForgetApply(c) \/ Delete(c) \/ GcPurge(c)
    <3>1. PICK S \in SUBSET Ids : \/ Close(S) /\ \A g \in S : status[g] = "asserted"
                                  \/ Erase(S) /\ \A g \in S : Exists(g)
      BY <2>0, <2>5, ClosesOrErases
    <3>2. CASE Close(S) /\ \A g \in S : status[g] = "asserted"
      BY <3>2 DEF Close
    <3>3. CASE Erase(S)
      BY <3>3 DEF Erase
    <3> QED BY <3>1, <3>2, <3>3
  <2>6. CASE Freeze(c)
    BY <2>6 DEF Freeze
  <2> QED BY <2>1, <2>2, <2>3, <2>4, <2>5, <2>6, RowSteps
<1> QED BY <1>1, Inductive, PTL DEF Spec, ClosedIsFinal

\* Rows disappear only by an explicit delete or, replaced and not frozen at that
\* moment, by garbage collection.
THEOREM PurgesAreSafe == Spec => PurgeIsSafe
<1> DEFINE Safe == \A g \in Ids : status[g] # "gone" /\ status'[g] = "gone" =>
          \/ \E c \in Clients : At(c, "deleteWrite") /\ job[c].g = g
          \/ status[g] = "superseded" /\ superseded_by[g] # Null /\ g \notin frozen
<1>1. IInv /\ [Next]_vars => [Safe]_vars
  <2> SUFFICES ASSUME IInv, NEW c \in Clients, Step(c) PROVE Safe
    BY DEF Next
  <2>0. status \in [Ids -> Statuses] /\ TypeOK
    BY DEF IInv, TypeOK
  <2>1. CASE UNCHANGED rows
    BY <2>1 DEF rows
  <2>2. CASE StoreInsert(c)
    BY <2>0, <2>2, InsertShape
  <2>3. CASE VersionCommit(c)
    BY <2>0, <2>3, CommitShape
  <2>4. CASE Link(c)
    BY <2>0, <2>4, LinkShape DEF rows, Exists
  <2>5. CASE RetractWrite(c) \/ ForgetApply(c)
    BY <2>5 DEF RetractWrite, ForgetApply, Close
  <2>6. CASE Freeze(c)
    BY <2>6 DEF Freeze
  <2>7. CASE Delete(c)
    BY <2>7 DEF Delete, Erase
  <2>8. CASE GcPurge(c)
    BY <2>8 DEF GcPurge, Erase, Purgeable
  <2> QED BY <2>1, <2>2, <2>3, <2>4, <2>5, <2>6, <2>7, <2>8, RowSteps
<1> QED BY <1>1, Inductive, PTL DEF Spec, PurgeIsSafe

-----------------------------------------------------------------------------
(* Version links, when nobody writes legacy links.                          *)

\* Without legacy links the two ends of every version link agree and point
\* forward in time: supersession, closing and erasure all preserve it.
THEOREM LinksHold == Spec => []LinkInv
<1>1. Init => LinkInv
  BY DEF Init, LinkInv, VersionLinksAgree, HeirIsNewer, Null, Ids
<1>2. IInv /\ LinkInv /\ [Next]_vars => LinkInv'
  <2> SUFFICES ASSUME IInv, LinkInv, [Next]_vars, "link" \notin Ops
               PROVE  VersionLinksAgree' /\ HeirIsNewer'
    BY DEF LinkInv
  <2>0. VersionLinksAgree /\ HeirIsNewer /\ TypeOK /\ BornInOrder
    BY DEF LinkInv, IInv
  <2>a. CASE UNCHANGED rows
    BY <2>0, <2>a DEF rows, VersionLinksAgree, HeirIsNewer
  <2>b. ASSUME NEW c \in Clients, Step(c), ~UNCHANGED rows
        PROVE  VersionLinksAgree' /\ HeirIsNewer'
    <3>0. /\ supersedes \in [Ids -> 0..MaxId] /\ superseded_by \in [Ids -> 0..MaxId]
          /\ \A g \in Ids : supersedes[g] # next /\ superseded_by[g] # next
      BY <2>0 DEF TypeOK, BornInOrder, Ids
    <3>1. CASE StoreInsert(c)
      <4>1. /\ next \in Ids /\ supersedes' = [supersedes EXCEPT ![next] = 0]
            /\ superseded_by' = superseded_by
        BY <3>1, InsertShape DEF Null
      <4>2. \A k \in Ids : superseded_by[k] # next /\ k # 0
        BY <3>0, StoreAssumption DEF Ids, StoreAssumption
      <4> QED BY <2>0, <3>0, <4>1, <4>2 DEF VersionLinksAgree, HeirIsNewer
    <3>2. CASE VersionCommit(c)
      <4>1. /\ next \in Ids /\ job[c].g \in Ids /\ job[c].g < next
            /\ supersedes' = [supersedes EXCEPT ![next] = job[c].g]
            /\ superseded_by' = [superseded_by EXCEPT ![job[c].g] = next]
            /\ status[job[c].g] = "asserted"
        BY <3>2, CommitShape
      <4>2. superseded_by[job[c].g] = 0
        BY <4>1 DEF IInv, OnlySupersededHaveHeirs, Null
      <4>3. \A g \in Ids : supersedes[g] # job[c].g
        BY <2>0, <4>1, <4>2, StoreAssumption DEF VersionLinksAgree, Ids, StoreAssumption
      <4>4. VersionLinksAgree'
        BY <2>0, <3>0, <4>1, <4>3 DEF VersionLinksAgree
      <4>5. HeirIsNewer'
        BY <2>0, <3>0, <4>1 DEF HeirIsNewer
      <4> QED BY <4>4, <4>5
    <3>3. CASE Link(c)
      <4>1. job[c].op = "link" /\ job[c].op \in Ops \cup {"none"}
        BY <3>3 DEF Link, At, IInv, TasksMatch
      <4> QED BY <4>1
    <3>4. CASE RetractWrite(c) \/ ForgetApply(c) \/ Delete(c) \/ GcPurge(c)
      <4>1. PICK S \in SUBSET Ids : Close(S) \/ Erase(S)
        BY <2>0, <3>4, ClosesOrErases
      <4>2. CASE Close(S)
        BY <2>0, <4>2 DEF Close, VersionLinksAgree, HeirIsNewer
      <4>3. CASE Erase(S)
        <5>1. \A g \in Ids :
                /\ supersedes'[g] = IF g \in S \/ supersedes[g] \in S THEN 0 ELSE supersedes[g]
                /\ superseded_by'[g] =
                     IF g \in S \/ superseded_by[g] \in S THEN 0 ELSE superseded_by[g]
          BY <4>3 DEF Erase, Null
        <5>2. \A g \in Ids : g # 0
          BY StoreAssumption DEF Ids, StoreAssumption
        <5>3. VersionLinksAgree'
          BY <2>0, <5>1, <5>2 DEF VersionLinksAgree
        <5>4. HeirIsNewer'
          BY <2>0, <5>1 DEF HeirIsNewer, Null
        <5> QED BY <5>3, <5>4
      <4> QED BY <4>1, <4>2, <4>3
    <3>5. CASE Freeze(c)
      BY <2>0, <3>5 DEF Freeze, VersionLinksAgree, HeirIsNewer
    <3> QED BY <2>b, <3>1, <3>2, <3>3, <3>4, <3>5, RowSteps
  <2> QED BY <2>a, <2>b DEF Next, vars
<1> QED BY <1>1, <1>2, Inductive, PTL DEF Spec

\* Two supersessions of one granule never both succeed.
THEOREM VersionLinksHold == ("link" \notin Ops /\ Spec) => []VersionLinksAgree
<1>1. "link" \notin Ops /\ LinkInv => VersionLinksAgree
  BY DEF LinkInv
<1>2. CASE "link" \notin Ops
  <2>1. LinkInv => VersionLinksAgree
    BY <1>1, <1>2
  <2> QED BY <2>1, LinksHold, PTL
<1>3. CASE "link" \in Ops
  BY <1>3
<1> QED BY <1>2, <1>3

\* ... and every heir is newer than what it replaced, so a history ends.
THEOREM HeirsAreNewer == ("link" \notin Ops /\ Spec) => []HeirIsNewer
<1>1. CASE "link" \notin Ops
  <2>1. LinkInv => HeirIsNewer
    BY <1>1 DEF LinkInv
  <2> QED BY <2>1, LinksHold, PTL
<1>2. CASE "link" \in Ops
  BY <1>2
<1> QED BY <1>1, <1>2

-----------------------------------------------------------------------------
(* Refinement.                                                              *)

\* Erasing and closing rows are the ledger's Erase and Withdraw.
LEMMA StepRefines ==
  ASSUME IInv, NEW c \in Clients, Step(c)
  PROVE  [Ledger!Next]_(Ledger!ledger)
<1>0. TypeOK
  BY DEF IInv
<1>1. CASE UNCHANGED rows
  BY <1>1 DEF rows, Ledger!ledger
<1>2. CASE StoreInsert(c)
  <2>1. Ledger!Record(HashToStore(c))
    BY <1>2, InsertShape DEF Ledger!Record, Ledger!Live, Ledger!Ids, Ids, IndexAccepts, Twins
  <2> QED BY <1>2, <2>1, InsertShape DEF Ledger!Next
<1>3. CASE VersionCommit(c)
  <2>0. job[c].h # None
    BY <1>3, CommitShape, StoreAssumption DEF StoreAssumption
  <2>1. Ledger!Revise(job[c].g, job[c].h)
    BY <1>3, <2>0, CommitShape DEF Ledger!Revise, Ledger!Live, Ledger!Ids, Ids, Twins
  <2> QED BY <1>3, <2>1, CommitShape DEF Ledger!Next, Ledger!Ids, Ids
<1>4. CASE Link(c)
  <2>1. CASE UNCHANGED <<status, superseded_by>> /\ UNCHANGED <<next, content_hash>>
    BY <2>1 DEF Ledger!ledger
  <2>2. CASE ~(UNCHANGED <<status, superseded_by>> /\ UNCHANGED <<next, content_hash>>)
    <3>1. Exists(job[c].g) /\ Exists(job[c].old) /\ Ledger!Adopt(job[c].g, job[c].old)
      BY <1>4, <2>2, LinkShape DEF rows, Exists, Ledger!Adopt
    <3> QED BY <3>1 DEF Ledger!Next, Ledger!Ids, Ids, Exists
  <2> QED BY <2>1, <2>2
<1>5. CASE RetractWrite(c) \/ ForgetApply(c) \/ Delete(c) \/ GcPurge(c)
  <2>1. PICK S \in SUBSET Ids : \/ Close(S) /\ \A g \in S : status[g] = "asserted"
                                \/ Erase(S) /\ \A g \in S : Exists(g)
    BY <1>0, <1>5, ClosesOrErases
  <2>2. CASE Close(S) /\ \A g \in S : status[g] = "asserted"
    <3>1. Ledger!Withdraw(S)
      BY <2>2 DEF Close, Ledger!Withdraw, Ledger!Ids, Ids
    <3> QED BY <3>1 DEF Ledger!Next, Ledger!Ids, Ids
  <2>3. CASE Erase(S) /\ \A g \in S : Exists(g)
    <3>1. Ledger!Erase(S)
      BY <2>3 DEF Erase, Exists, Null, Ledger!Erase, Ledger!Ids, Ids
    <3> QED BY <3>1 DEF Ledger!Next, Ledger!Ids, Ids
  <2> QED BY <2>1, <2>2, <2>3
<1>6. CASE Freeze(c)
  BY <1>6 DEF Freeze, Ledger!ledger
<1> QED BY <1>1, <1>2, <1>3, <1>4, <1>5, <1>6, RowSteps

\* The store keeps the ledger's promise: whatever the workers interleave, each of
\* their steps is one indivisible step of the ledger or invisible to it.
THEOREM Refinement == Spec => ImplementsLedger
<1>1. Init => Ledger!Init
  BY DEF Init, Ledger!Init, Ledger!Ids, Ids, Null
<1>2. IInv /\ [Next]_vars => [Ledger!Next]_(Ledger!ledger)
  <2>1. CASE UNCHANGED vars
    BY <2>1 DEF vars, rows, Ledger!ledger
  <2>2. ASSUME IInv, NEW c \in Clients, Step(c) PROVE [Ledger!Next]_(Ledger!ledger)
    BY <2>2, StepRefines
  <2> QED BY <2>1, <2>2 DEF Next
<1> QED BY <1>1, <1>2, Inductive, PTL DEF Spec, ImplementsLedger, Ledger!Spec
=============================================================================
