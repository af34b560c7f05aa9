-------------------------- MODULE ContextCacheProofs --------------------------
(* Machine-checked proofs about ContextCache, for every value of its        *)
(* constants.                                                               *)
EXTENDS ContextCache, TLAPS

\* A task record stays one when its worker notes what it has read.
LEMMA JobUpdates ==
  ASSUME NEW j \in Jobs
  PROVE  /\ \A v \in Snapshots : [j EXCEPT !.snap = v] \in Jobs
         /\ \A x \in YesNo : [j EXCEPT !.stale = x] \in Jobs
         /\ \A n \in 0..MaxWrites : [j EXCEPT !.wrote = n] \in Jobs
         /\ [j EXCEPT !.passed = "yes"] \in Jobs /\ [j EXCEPT !.stale = "no", !.passed = "yes"] \in Jobs
  BY DEF Jobs, YesNo

\* No numbers at all are numbers of writes.
LEMMA NoneOwed == NoNumbers \in Numbers
BY DEF NoNumbers, Numbers

\* Requests, blank or not, and restarted tasks are task records.
LEMMA JobShapes ==
  ASSUME NEW s \in Sections, NEW op \in OpNames \cup {"none"}, NEW v \in Snapshots,
         NEW o \in Numbers, NEW j \in Jobs
  PROVE  /\ Nothing \in Snapshots
         /\ Request(op, s, v, o) \in Jobs /\ NoRequest(s) \in Jobs
         /\ Restarted(j) \in Jobs
<1> USE ContextAssumption DEF ContextAssumption
<1>1. Nothing \in Snapshots
  BY DEF Nothing, Snapshots
<1>2. "no" \in YesNo /\ "yes" \in YesNo
  BY DEF YesNo
<1>5. 0 \in 0..MaxWrites /\ NoNumbers \in Numbers
  BY NoneOwed
<1>3. Request(op, s, v, o) \in Jobs /\ NoRequest(s) \in Jobs
  BY <1>1, <1>2, <1>5 DEF Request, NoRequest, Jobs
<1>4. Restarted(j) \in Jobs
  BY <1>1, <1>2 DEF Jobs, Restarted
<1> QED BY <1>1, <1>3, <1>4

\* Marks that are to come are numbers of writes.
LEMMA TypedOwed == TypeOK => [u \in Sections |-> ToCome(u)] \in Numbers
BY DEF TypeOK, Jobs, ToCome, Unmarked, Numbers

\* What a snapshot misses are numbers of writes.
LEMMA MissingNumbers ==
  ASSUME TypeOK, NEW c \in Snapshots, NEW s \in Sections
  PROVE  Missing(c, s) \subseteq 1..MaxWrites
BY ContextAssumption DEF TypeOK, Snapshots, Missing, ContextAssumption

\* The record of lost flags is one of numbers, and nothing is ever struck from it.
LEMMA OnRecord ==
  ASSUME TypeOK, NEW w \in Workers,
         Move(w) \/ Lose(w) \/ (\E op \in Ops : Submit(w, op))
  PROVE  lapsed' \in Numbers /\ \A s \in Sections : lapsed[s] \subseteq lapsed'[s]
<1> USE ContextAssumption DEF ContextAssumption
<1>0. /\ lapsed \in [Sections -> SUBSET (1..MaxWrites)] /\ job[w].section \in Sections
      /\ job[w].wrote \in 0..MaxWrites /\ job[w].snap \in Snapshots
      /\ \A s \in Sections : memories[s] \in 0..MaxWrites
  BY DEF TypeOK, Numbers, Jobs, Snapshots
<1>1. ASSUME NEW s \in Sections, NEW n \in 0..MaxWrites, Lapses(s, n) PROVE lapsed' \in Numbers
                                                                       /\ \A u \in Sections : lapsed[u] \subseteq lapsed'[u]
  BY <1>0, <1>1 DEF Lapses, Numbers
<1>2. ASSUME NEW f, lapsed' = [s \in Sections |-> lapsed[s] \cup f[s]],
             \A s \in Sections : f[s] \subseteq 1..MaxWrites
      PROVE  lapsed' \in Numbers /\ \A u \in Sections : lapsed[u] \subseteq lapsed'[u]
  BY <1>0, <1>2 DEF Numbers
<1>3. CASE UNCHANGED lapsed
  BY <1>0, <1>3 DEF Numbers
<1>4. CASE Commit(w)
  <2>1. memories[job[w].section] + 1 \in 0..MaxWrites
    BY <1>0, <1>4 DEF Commit
  <2> QED BY <1>0, <1>1, <1>3, <1>4, <2>1 DEF Commit
<1>5. CASE \E p, q \in Points : Mark(w, p, q)
  BY <1>0, <1>1, <1>3, <1>5 DEF Mark
<1>6. CASE Refused(w)
  BY <1>0, <1>1, <1>3, <1>6 DEF Refused
<1>7. CASE Overtakes(w)
  <2> DEFINE f == [s \in Sections |->
                     IF \E v \in Workers \ {w} : pc[v] \in {"getTableFlag", "saveCache", "clearFlag"}
                     THEN Missing(job[w].snap, s)
                     ELSE IF flag = "down" THEN Missing(job[w].snap, s) \ ToCome(s) ELSE {}]
  <2>1. \A s \in Sections : f[s] \subseteq 1..MaxWrites
    BY <1>0, MissingNumbers
  <2>2. lapsed' = [s \in Sections |-> lapsed[s] \cup f[s]]
    BY <1>7 DEF Overtakes
  <2> HIDE DEF f
  <2> QED BY <1>2, <2>1, <2>2
<1>8. CASE ClearFlag(w)
  <2> DEFINE f == [s \in Sections |-> Missing(job[w].snap, s) \ ToCome(s)]
  <2>1. \A s \in Sections : f[s] \subseteq 1..MaxWrites
    BY <1>0, MissingNumbers
  <2>2. UNCHANGED lapsed \/ lapsed' = [s \in Sections |-> lapsed[s] \cup f[s]]
    BY <1>8 DEF ClearFlag
  <2> HIDE DEF f
  <2> QED BY <1>2, <1>3, <2>1, <2>2
<1>9. Move(w) => \/ UNCHANGED lapsed \/ Commit(w) \/ Refused(w) \/ Overtakes(w) \/ ClearFlag(w)
                  \/ \E p, q \in Points : Mark(w, p, q)
  <2>1. {"mark", "retractMark", "done", "retractWrite"} \subseteq Points
    BY DEF Points
  <2>2. Write(w) => UNCHANGED lapsed \/ Commit(w) \/ Refused(w) \/ \E p, q \in Points : Mark(w, p, q)
    BY <2>1 DEF Write, StoreWrite, StoreConfirm, StoreMark, RetractMark, RetractWrite, ForgetWrite
  <2>3. Get(w) => UNCHANGED lapsed
    BY DEF Get, GetCache, GetFlag, GetTable, GetTableFlag, ReadFlag
  <2>4. Rebuild(w) => UNCHANGED lapsed \/ Overtakes(w) \/ ClearFlag(w)
    BY DEF Rebuild, RebuildRead, RebuildSave, SaveCache, BeatCheck, store
  <2> QED BY <2>2, <2>3, <2>4 DEF Move, Finish
<1>10. Lose(w) \/ (\E op \in Ops : Submit(w, op)) => UNCHANGED lapsed
  BY DEF Lose, Submit
<1> QED BY <1>3, <1>4, <1>5, <1>6, <1>7, <1>8, <1>9, <1>10

\* Who is passed by the end of a flag is told so, and nothing else happens to its task.
LEMMA PassedOn ==
  ASSUME TypeOK, NEW v \in Workers
  PROVE  /\ Passed(v) \in Jobs
         /\ Passed(v).op = job[v].op /\ Passed(v).section = job[v].section /\ Passed(v).todo = job[v].todo
         /\ Passed(v).snap = job[v].snap /\ Passed(v).stale = job[v].stale /\ Passed(v).wrote = job[v].wrote
         /\ Passed(v).since = job[v].since /\ Passed(v).owed = job[v].owed
         /\ Passed(v).passed = "no" =>
              job[v].passed = "no" /\ (flag = "up" => pc[v] \notin {"getFlag", "getTableFlag"})
<1>1. job[v] \in Jobs
  BY DEF TypeOK
<1>2. CASE Passed(v) = job[v] /\ ~(flag = "up" /\ pc[v] \in {"getFlag", "getTableFlag"})
  BY <1>1, <1>2
<1>3. CASE Passed(v) = [job[v] EXCEPT !.passed = "yes"]
  BY <1>1, <1>3, JobUpdates DEF Jobs
<1> QED BY <1>2, <1>3 DEF Passed

\* A step of one worker keeps every variable in its domain, only adds writes, and
\* what a refresh has read stays as fresh as its request.
LEMMA MoveStep ==
  ASSUME IInv, NEW w \in Workers,
         Move(w) \/ Lose(w) \/ (\E op \in Ops : Submit(w, op))
  PROVE  IInv'
<1> USE ContextAssumption DEF ContextAssumption
<1> DEFINE Fresh(p, j) ==
      j.op = "refresh" /\ p # "idle" =>
        /\ p \in {"rebuildRead", "rebuildSave", "saveCache", "clearFlag", "answered"}
        /\ p # "rebuildRead" => j.todo = {}
        /\ \A s \in Sections : s \in j.todo \/ j.snap[s] >= j.since[s]
<1>0. /\ TypeOK /\ RequestsArePast /\ job[w] \in Jobs /\ pc[w] \in Points
      /\ Fresh(pc[w], job[w]) /\ Covers(memories, job[w].since) /\ lapsed' \in Numbers
  BY OnRecord DEF IInv, TypeOK, RequestsArePast, ReadsAreFresh
<1>a. ASSUME NEW p \in Points, NEW j \in Jobs,
             pc' = [pc EXCEPT ![w] = p], job' = [job EXCEPT ![w] = j],
             memories' \in Snapshots, Covers(memories', memories),
             table' \in Snapshots \cup {None}, cache' \in Snapshots \cup {None},
             flag' \in {"up", "down"}, failures' \in 0..MaxFailures,
             Covers(memories', j.since), Fresh(p, j)
      PROVE  IInv'
  <2>1. TypeOK'
    BY <1>0, <1>a DEF TypeOK
  <2>2. \A v \in Workers : job'[v] = IF v = w THEN j ELSE job[v]
    BY <1>0, <1>a DEF TypeOK
  <2>3. \A v \in Workers : pc'[v] = IF v = w THEN p ELSE pc[v]
    BY <1>0, <1>a DEF TypeOK
  <2>4. RequestsArePast'
    <3>1. \A v \in Workers : Covers(memories', job[v].since)
      <4>1. \A v \in Workers : job[v].since \in Snapshots
        BY <1>0 DEF TypeOK, Jobs
      <4> QED BY <1>0, <1>a, <4>1 DEF RequestsArePast, Covers, TypeOK, Snapshots
    <3> QED BY <1>a, <2>2, <3>1 DEF RequestsArePast, Covers
  <2>5. ReadsAreFresh'
    BY <1>a, <2>2, <2>3 DEF ReadsAreFresh, IInv
  <2> QED BY <2>1, <2>4, <2>5 DEF IInv
<1>b. Covers(memories, memories)
  BY <1>0 DEF TypeOK, Snapshots, Covers
<1>c. ASSUME NEW p \in Points, pc' = [pc EXCEPT ![w] = p], UNCHANGED <<memories, job>>,
             table' \in Snapshots \cup {None}, cache' \in Snapshots \cup {None},
             flag' \in {"up", "down"}, failures' \in 0..MaxFailures, Fresh(p, job[w])
      PROVE  IInv'
  <2>1. job' = [job EXCEPT ![w] = job[w]]
    BY <1>0, <1>c DEF TypeOK
  <2> QED BY <1>0, <1>a, <1>b, <1>c, <2>1 DEF TypeOK
<1>d. (RedisWorks \/ RedisFails) => failures' \in 0..MaxFailures
  BY <1>0 DEF RedisWorks, RedisFails, TypeOK
<1>1. CASE Write(w)
  <2>1. job[w].op # "refresh" \/ pc[w] \notin {"write", "retractWrite", "forgetWrite",
                                              "mark", "retractMark"}
    BY <1>0
  <2>2. CASE Refused(w)
    <3>1. Fresh("done", job[w]) /\ "done" \in Points
      BY <2>1, <2>2 DEF Refused, Points
    <3> QED BY <1>0, <1>c, <2>2, <3>1 DEF Refused, Goto, store, TypeOK
  <2>3. ASSUME NEW p \in Points, Commit(w), Goto(w, p), job[w].op # "refresh"
        PROVE  IInv'
    <3> DEFINE j == [job[w] EXCEPT !.wrote = memories[job[w].section] + 1]
    <3>3. job[w].section \in Sections /\ memories \in [Sections -> 0..MaxWrites]
      BY <1>0 DEF TypeOK, Jobs, Snapshots
    <3>1. j \in Jobs
      <4>1. memories[job[w].section] + 1 \in 0..MaxWrites
        BY <2>3, <3>3 DEF Commit
      <4> QED BY <1>0, <4>1, JobUpdates
    <3>2. j.op = job[w].op /\ j.since = job[w].since
      BY <1>0 DEF Jobs
    <3>7. Note(w, j) /\ UNCHANGED <<table, cache, flag, failures>>
      BY <2>3 DEF Commit
    <3> HIDE DEF j
    <3>4. memories' \in Snapshots /\ Covers(memories', memories)
      BY <2>3, <3>3 DEF Commit, Snapshots, Covers
    <3>5. job[w].since \in [Sections -> 0..MaxWrites]
      BY <1>0 DEF Jobs, Snapshots
    <3>6. Covers(memories', job[w].since)
      BY <1>0, <3>3, <3>4, <3>5 DEF Covers, Snapshots
    <3> QED BY <1>0, <1>a, <2>3, <3>1, <3>2, <3>4, <3>6, <3>7 DEF Note, Goto, TypeOK
  <2>4. CASE StoreWrite(w) \/ RetractWrite(w) \/ ForgetWrite(w)
    <3>1. "mark" \in Points /\ "done" \in Points
      BY DEF Points
    <3> QED BY <2>1, <2>3, <2>4, <3>1 DEF StoreWrite, RetractWrite, ForgetWrite, At
  <2>6. CASE StoreConfirm(w)
    <3>1. Fresh("mark", job[w]) /\ "mark" \in Points
      BY <2>1, <2>6 DEF StoreConfirm, At, Points
    <3> QED BY <1>0, <1>c, <2>6, <3>1 DEF StoreConfirm, Goto, store, TypeOK
  <2>5. CASE StoreMark(w) \/ RetractMark(w)
    <3>1. /\ \E p \in {"done", "retractWrite"} : Goto(w, p)
          /\ pc[w] \in {"mark", "retractMark"} /\ UNCHANGED <<memories, table, cache, job>>
          /\ flag' \in {"up", flag} /\ (RedisWorks \/ RedisFails)
      BY <2>5 DEF StoreMark, RetractMark, Mark, At
    <3>2. {"done", "retractWrite"} \subseteq Points
      BY DEF Points
    <3> QED BY <1>0, <1>c, <1>d, <2>1, <3>1, <3>2 DEF Goto, TypeOK
  <2> QED BY <1>1, <2>2, <2>4, <2>5, <2>6 DEF Write
<1>2. CASE Get(w)
  <2>0. ASSUME NEW p \in Points, NEW j \in Jobs, Goto(w, p), Note(w, j), UNCHANGED store,
               j.since = job[w].since, j.op = job[w].op, job[w].op # "refresh",
               failures' \in 0..MaxFailures
        PROVE  IInv'
    BY <1>0, <1>a, <1>b, <2>0 DEF Goto, Note, store, TypeOK
  <2>1. job[w].op # "refresh"
    BY <1>0, <1>2 DEF Get, GetCache, GetFlag, GetTable, GetTableFlag, ReadFlag, At
  <2>2. /\ \A v \in Snapshots : /\ [job[w] EXCEPT !.snap = v] \in Jobs
                                /\ [job[w] EXCEPT !.snap = v].since = job[w].since
                                /\ [job[w] EXCEPT !.snap = v].op = job[w].op
        /\ \A x \in YesNo : /\ [job[w] EXCEPT !.stale = x] \in Jobs
                            /\ [job[w] EXCEPT !.stale = x].since = job[w].since
                            /\ [job[w] EXCEPT !.stale = x].op = job[w].op
        /\ [job[w] EXCEPT !.stale = "no", !.passed = "yes"] \in Jobs
        /\ [job[w] EXCEPT !.stale = "no", !.passed = "yes"].since = job[w].since
        /\ [job[w] EXCEPT !.stale = "no", !.passed = "yes"].op = job[w].op
    <3>1. /\ \A v \in Snapshots : [job[w] EXCEPT !.snap = v] \in Jobs
          /\ \A x \in YesNo : [job[w] EXCEPT !.stale = x] \in Jobs
          /\ [job[w] EXCEPT !.stale = "no", !.passed = "yes"] \in Jobs
      BY <1>0, JobUpdates
    <3>2. \A v : /\ [job[w] EXCEPT !.snap = v].since = job[w].since
                 /\ [job[w] EXCEPT !.snap = v].op = job[w].op
                 /\ [job[w] EXCEPT !.stale = v].since = job[w].since
                 /\ [job[w] EXCEPT !.stale = v].op = job[w].op
                 /\ [job[w] EXCEPT !.stale = "no", !.passed = "yes"].since = job[w].since
                 /\ [job[w] EXCEPT !.stale = "no", !.passed = "yes"].op = job[w].op
      BY <1>0 DEF Jobs
    <3> QED BY <3>1, <3>2
  <2>3. {"getFlag", "getTable", "getTableFlag", "answered", "saveCache", "rebuildRead"} \subseteq Points
    BY DEF Points
  <2>4. CASE GetCache(w)
    <3>1. CASE UNCHANGED job
      <4>1. Goto(w, "getTable") \/ Goto(w, "getFlag")
        BY <2>4 DEF GetCache
      <4>2. UNCHANGED store /\ (RedisWorks \/ RedisFails)
        BY <2>4 DEF GetCache
      <4> QED BY <1>0, <1>c, <1>d, <2>1, <2>3, <3>1, <4>1, <4>2 DEF Goto, store, TypeOK
    <3>2. CASE cache # None /\ Note(w, [job[w] EXCEPT !.snap = cache]) /\ Goto(w, "getFlag")
               /\ RedisWorks
      <4>1. cache \in Snapshots
        BY <1>0, <3>2 DEF TypeOK
      <4> QED BY <1>d, <2>0, <2>1, <2>2, <2>3, <2>4, <3>2, <4>1 DEF GetCache
    <3> QED BY <2>4, <3>1, <3>2 DEF GetCache
  <2>5. CASE GetTable(w)
    <3>0. failures' \in 0..MaxFailures /\ UNCHANGED store
      BY <1>0, <2>5 DEF GetTable, TypeOK
    <3>1. CASE UNCHANGED job /\ Goto(w, "rebuildRead")
      BY <1>0, <1>c, <2>1, <2>3, <3>0, <3>1 DEF Goto, store, TypeOK
    <3>2. CASE table # None /\ Note(w, [job[w] EXCEPT !.snap = table]) /\ Goto(w, "getTableFlag")
      <4>1. table \in Snapshots
        BY <1>0, <3>2 DEF TypeOK
      <4> QED BY <2>0, <2>1, <2>2, <2>3, <3>0, <3>2, <4>1
    <3> QED BY <2>5, <3>1, <3>2 DEF GetTable
  <2>6. CASE GetFlag(w) \/ GetTableFlag(w)
    <3>1. /\ \/ \E x \in YesNo : Note(w, [job[w] EXCEPT !.stale = x])
             \/ Note(w, [job[w] EXCEPT !.stale = "no", !.passed = "yes"])
          /\ \E p \in {"answered", "saveCache"} : Goto(w, p)
          /\ UNCHANGED store /\ (RedisWorks \/ RedisFails)
      BY <2>6 DEF GetFlag, GetTableFlag, ReadFlag, YesNo
    <3> QED BY <1>d, <2>0, <2>1, <2>2, <2>3, <3>1
  <2> QED BY <1>2, <2>4, <2>5, <2>6 DEF Get
<1>3. CASE Rebuild(w)
  <2>0. {"rebuildRead", "rebuildSave", "saveCache", "clearFlag", "answered", "done"} \subseteq Points
    BY DEF Points
  <2>1. CASE RebuildRead(w)
    <3>0. UNCHANGED <<store, failures>> /\ pc[w] = "rebuildRead"
      BY <2>1 DEF RebuildRead, At
    <3>1. CASE job[w].todo = {} /\ Goto(w, "rebuildSave") /\ UNCHANGED job
      BY <1>0, <1>c, <2>0, <3>0, <3>1 DEF Goto, store, TypeOK
    <3>2. ASSUME NEW s \in job[w].todo, UNCHANGED pc,
                 Note(w, [job[w] EXCEPT !.snap[s] = memories[s], !.todo = @ \ {s}])
          PROVE  IInv'
      <4> DEFINE j == [job[w] EXCEPT !.snap[s] = memories[s], !.todo = @ \ {s}]
      <4>1. /\ s \in Sections /\ memories \in [Sections -> 0..MaxWrites]
            /\ job[w].snap \in [Sections -> 0..MaxWrites]
            /\ job[w].since \in [Sections -> 0..MaxWrites] /\ job[w].todo \subseteq Sections
        BY <1>0 DEF TypeOK, Jobs, Snapshots
      <4>2. /\ j.snap = [job[w].snap EXCEPT ![s] = memories[s]] /\ j.todo = job[w].todo \ {s}
            /\ j.since = job[w].since /\ j.op = job[w].op
        BY <1>0 DEF Jobs
      <4>3. j \in Jobs
        <5>1. [job[w].snap EXCEPT ![s] = memories[s]] \in [Sections -> 0..MaxWrites]
          BY <4>1
        <5> QED BY <1>0, <4>1, <5>1 DEF Jobs, Snapshots
      <4>4. Fresh("rebuildRead", j)
        BY <1>0, <3>0, <4>1, <4>2 DEF Covers
      <4>5. pc' = [pc EXCEPT ![w] = "rebuildRead"]
        BY <1>0, <3>0, <3>2 DEF TypeOK
      <4> HIDE DEF j
      <4> QED BY <1>0, <1>a, <1>b, <2>0, <3>0, <3>2, <4>2, <4>3, <4>4, <4>5 DEF j, Note, store, TypeOK
    <3> QED BY <2>1, <3>1, <3>2 DEF RebuildRead
  <2>2. CASE RebuildSave(w)
    <3>1. job[w].snap \in Snapshots /\ Fresh("saveCache", job[w])
      BY <1>0, <2>2 DEF Jobs, RebuildSave, At
    <3> QED BY <1>0, <1>c, <2>0, <2>2, <3>1 DEF RebuildSave, Goto, TypeOK
  <2>3. CASE SaveCache(w)
    <3>1. job[w].snap \in Snapshots
      BY <1>0 DEF Jobs
    <3>2. /\ \E p \in {"clearFlag", Answer(w)} : Goto(w, p)
          /\ cache' \in {cache, job[w].snap} /\ UNCHANGED <<memories, table, flag, job>>
          /\ pc[w] = "saveCache" /\ (RedisWorks \/ RedisFails)
      BY <2>3 DEF SaveCache, At
    <3>3. \A p \in {"clearFlag", Answer(w)} : p \in Points /\ Fresh(p, job[w])
      BY <1>0, <2>0, <3>2 DEF Answer
    <3> QED BY <1>0, <1>c, <1>d, <3>1, <3>2, <3>3 DEF Goto, TypeOK
  <2>4. CASE ClearFlag(w)
    <3>2. /\ Goto(w, Answer(w)) /\ UNCHANGED <<memories, table, cache>>
          /\ pc[w] = "clearFlag" /\ (RedisWorks \/ RedisFails)
          /\ \/ flag' = "down" /\ job' = [v \in Workers |-> Passed(v)]
             \/ UNCHANGED <<flag, job>>
      BY <2>4 DEF ClearFlag, At
    <3>3. Answer(w) \in Points /\ Fresh(Answer(w), job[w])
      BY <1>0, <2>0, <3>2 DEF Answer
    <3>4. CASE UNCHANGED <<flag, job>>
      BY <1>0, <1>c, <1>d, <3>2, <3>3, <3>4 DEF Goto, TypeOK
    <3>5. CASE flag' = "down" /\ job' = [v \in Workers |-> Passed(v)]
      <4>1. \A v \in Workers : /\ job'[v] \in Jobs /\ job'[v].op = job[v].op /\ job'[v].todo = job[v].todo
                               /\ job'[v].snap = job[v].snap /\ job'[v].since = job[v].since
        BY <1>0, <3>5, PassedOn
      <4>2. job' \in [Workers -> Jobs]
        BY <3>5, <4>1
      <4>3. TypeOK'
        BY <1>0, <1>d, <3>2, <3>3, <3>5, <4>2 DEF Goto, TypeOK
      <4>4. RequestsArePast'
        BY <1>0, <3>2, <4>1 DEF RequestsArePast, Covers
      <4>5. \A v \in Workers : pc'[v] = IF v = w THEN Answer(w) ELSE pc[v]
        BY <1>0, <3>2 DEF Goto, TypeOK
      <4>6. ReadsAreFresh'
        BY <3>3, <4>1, <4>5 DEF ReadsAreFresh, IInv
      <4> QED BY <4>3, <4>4, <4>6 DEF IInv
    <3> QED BY <3>2, <3>4, <3>5
  <2>5. CASE BeatCheck(w)
    <3>1. job[w].op # "refresh"
      BY <1>0, <2>5 DEF BeatCheck, At
    <3>2. /\ \E p \in {"rebuildRead", "done"} : Goto(w, p)
          /\ UNCHANGED <<store, job>> /\ (RedisWorks \/ RedisFails)
      BY <2>5 DEF BeatCheck
    <3> QED BY <1>0, <1>c, <1>d, <2>0, <3>1, <3>2 DEF Goto, store, TypeOK
  <2> QED BY <1>3, <2>1, <2>2, <2>3, <2>4, <2>5 DEF Rebuild
<1>4. CASE Finish(w)
  <2>1. NoRequest(job[w].section) \in Jobs /\ Covers(memories, Nothing)
    <3>1. job[w].section \in Sections
      BY <1>0 DEF Jobs
    <3>2. NoRequest(job[w].section) \in Jobs
      BY <1>0, <3>1, NoneOwed, JobShapes DEF TypeOK
    <3>3. Covers(memories, Nothing)
      BY <1>0 DEF Covers, Nothing, TypeOK, Snapshots
    <3> QED BY <3>2, <3>3
  <2>2. NoRequest(job[w].section).since = Nothing /\ "idle" \in Points
    BY DEF NoRequest, Request, Points
  <2> QED BY <1>0, <1>a, <1>b, <1>4, <2>1, <2>2 DEF Finish, Goto, Note, store, TypeOK
<1>5. CASE Lose(w)
  <2> DEFINE j == Restarted(job[w])
  <2>1. j \in Jobs /\ StartOf(job[w].op) \in Points
    <3>1. j \in Jobs
      BY <1>0, NoneOwed, JobShapes DEF TypeOK, Jobs
    <3> QED BY <3>1 DEF StartOf, Points
  <2>2. /\ j.since = job[w].since /\ j.op = job[w].op /\ j.todo = Sections
        /\ StartOf("refresh") = "rebuildRead"
    BY <1>0 DEF Jobs, StartOf, Restarted
  <2>3. Fresh(StartOf(job[w].op), j)
    BY <2>2
  <2>4. /\ pc' = [pc EXCEPT ![w] = StartOf(job[w].op)] /\ job' = [job EXCEPT ![w] = j]
        /\ UNCHANGED store /\ failures' \in 0..MaxFailures
    BY <1>0, <1>5 DEF Lose, Goto, Note, TypeOK
  <2> HIDE DEF j
  <2>5. Covers(memories, j.since)
    BY <1>0, <2>2
  <2> QED BY <1>0, <1>a, <1>b, <2>1, <2>3, <2>4, <2>5 DEF store, TypeOK
<1>6. ASSUME NEW op \in Ops, Submit(w, op) PROVE IInv'
  <2>1. PICK s \in Sections, v \in {memories, Nothing}, o \in {[u \in Sections |-> ToCome(u)], NoNumbers} :
          Note(w, Request(op, s, v, o)) /\ (op = "refresh" => v = memories)
    BY <1>6 DEF Submit
  <2> DEFINE j == Request(op, s, v, o)
  <2>2. j \in Jobs /\ StartOf(op) \in Points
    <3>1. v \in Snapshots /\ o \in Numbers /\ op \in OpNames \cup {"none"}
      BY <1>0, NoneOwed, TypedOwed DEF TypeOK, Nothing, Snapshots
    <3>2. j \in Jobs
      BY <1>0, <3>1, JobShapes DEF TypeOK
    <3> QED BY <3>2 DEF StartOf, Points
  <2>3. j.since = v /\ j.op = op /\ j.todo = Sections /\ StartOf("refresh") = "rebuildRead"
    BY DEF Request, StartOf
  <2>4. Fresh(StartOf(op), j)
    BY <2>3
  <2>5. /\ job' = [job EXCEPT ![w] = j] /\ pc' = [pc EXCEPT ![w] = StartOf(op)]
        /\ UNCHANGED <<store, failures>>
    BY <1>6, <2>1 DEF Submit, Goto, Note
  <2>6. Covers(memories, j.since)
    <3>1. Covers(memories, Nothing)
      BY <1>0 DEF Covers, Nothing, TypeOK, Snapshots
    <3> QED BY <1>b, <2>3, <3>1
  <2> HIDE DEF j
  <2> QED BY <1>0, <1>a, <1>b, <2>2, <2>4, <2>5, <2>6 DEF store, TypeOK
<1> QED BY <1>1, <1>2, <1>3, <1>4, <1>5, <1>6 DEF Move

\* So does the end of the flag.
LEMMA FlagStep == ASSUME IInv, FlagExpires PROVE IInv'
<1>0. /\ TypeOK /\ RequestsArePast /\ ReadsAreFresh
      /\ UNCHANGED <<memories, table, cache, failures, pc>> /\ flag' = "down"
      /\ job' = [v \in Workers |-> Passed(v)]
  BY DEF IInv, FlagExpires
<1>1. \A v \in Workers : /\ job'[v] \in Jobs /\ job'[v].op = job[v].op /\ job'[v].todo = job[v].todo
                         /\ job'[v].snap = job[v].snap /\ job'[v].since = job[v].since
  BY <1>0, PassedOn
<1>2. lapsed' \in Numbers
  <2> DEFINE f == [s \in Sections |-> (UNION {Missing(c, s) : c \in {table, cache} \ {None}}) \ ToCome(s)]
  <2>1. \A s \in Sections : f[s] \subseteq 1..MaxWrites
    BY <1>0, MissingNumbers DEF TypeOK
  <2>2. lapsed' = [s \in Sections |-> lapsed[s] \cup f[s]]
    BY DEF FlagExpires
  <2> HIDE DEF f
  <2> QED BY <1>0, <2>1, <2>2 DEF TypeOK, Numbers
<1>3. TypeOK'
  BY <1>0, <1>1, <1>2 DEF TypeOK
<1> QED BY <1>0, <1>1, <1>3 DEF IInv, RequestsArePast, ReadsAreFresh, Covers

\* The invariant is inductive.
THEOREM Inductive == Spec => []IInv
<1>1. Init => IInv
  <2> SUFFICES ASSUME Init PROVE IInv
    OBVIOUS
  <2>1. Nothing \in Snapshots
    BY ContextAssumption DEF ContextAssumption, Nothing, Snapshots
  <2>2. \A w \in Workers : \E s \in Sections : job[w] = NoRequest(s)
    BY DEF Init
  <2>3. \A s \in Sections : NoRequest(s) \in Jobs
    BY <2>1, NoneOwed, ContextAssumption DEF NoRequest, Request, Jobs, YesNo, ContextAssumption
  <2>4. job \in [Workers -> Jobs]
    BY <2>3 DEF Init
  <2>5. TypeOK
    BY <2>1, <2>4, NoneOwed, ContextAssumption DEF Init, TypeOK, Points, ContextAssumption
  <2>6. RequestsArePast
    BY <2>2 DEF RequestsArePast, NoRequest, Request, Covers, Init, Nothing
  <2>7. ReadsAreFresh
    BY DEF ReadsAreFresh, Init
  <2> QED BY <2>5, <2>6, <2>7 DEF IInv
<1>2. IInv /\ [Next]_vars => IInv'
  <2> SUFFICES ASSUME IInv, [Next]_vars PROVE IInv'
    OBVIOUS
  <2>1. CASE UNCHANGED vars
    BY <2>1 DEF vars, store, IInv, TypeOK, RequestsArePast, ReadsAreFresh, Covers
  <2>2. CASE CacheExpires
    <3>1. UNCHANGED <<memories, pc, job>> /\ TypeOK'
      BY <2>2 DEF CacheExpires, IInv, TypeOK
    <3> QED BY <3>1 DEF IInv, RequestsArePast, ReadsAreFresh, Covers
  <2>3. CASE FlagExpires
    BY <2>3, FlagStep
  <2> QED BY <2>1, <2>2, <2>3, MoveStep DEF Next
<1> QED BY <1>1, <1>2, PTL DEF Spec

\* Snapshots, flag and worker states stay inside their domains.
THEOREM TypeCorrect == Spec => []TypeOK
<1>1. IInv => TypeOK
  BY DEF IInv
<1> QED BY <1>1, Inductive, PTL

\* Whatever rebuilds, failures, expiries and lost workers do, a refresh answers
\* with everything committed before it was asked for.
THEOREM RefreshFresh == Spec => []RefreshIsFresh
<1>1. IInv => RefreshIsFresh
  BY DEF IInv, ReadsAreFresh, RefreshIsFresh, Covers, At
<1> QED BY <1>1, Inductive, PTL
-----------------------------------------------------------------------------
(* Who is told: whatever overlaps, fails, expires or is lost.               *)

\* The invariant, worker by worker: what it has read is there, its task keeps to its
\* own steps, what it hides, what it knows of the marks to come, and what it is told.
Past(w) == Covers(memories, job[w].snap)
Apart(w) == /\ job[w].op = "store" => pc[w] \in {"write", "mark", "done", "idle"}
            /\ job[w].op = "get" => pc[w] # "beatCheck"
Hides(w) ==
  \A s \in Sections :
    /\ pc[w] \in {"getTableFlag", "saveCache", "clearFlag"} /\ table # None =>
         Missing(table, s) \subseteq Missing(job[w].snap, s) \cup lapsed[s]
    /\ pc[w] = "clearFlag" /\ cache # None => Missing(cache, s) \subseteq Missing(job[w].snap, s) \cup lapsed[s]
KnowsOf(v, s, since, owed) ==
  Unmarked(v) /\ job[v].section = s => job[v].wrote > since[s] \/ job[v].wrote \in owed[s]
Knows(w) == \A v \in Workers, s \in Sections : KnowsOf(v, s, job[w].since, job[w].owed)
Told(w) ==
  job[w].op = "get" =>
    /\ pc[w] \in {"getCache", "getTable", "rebuildRead", "rebuildSave"} =>
         \A s \in Sections : s \in job[w].todo \/ job[w].snap[s] >= job[w].since[s]
    /\ pc[w] = "rebuildSave" => job[w].todo = {}
    /\ pc[w] \in {"getFlag", "getTableFlag"} /\ job[w].passed = "no" /\ flag = "down" =>
         \A s \in Sections : Overdue(job[w], s) \subseteq lapsed[s]
    /\ pc[w] \in {"saveCache", "clearFlag", "answered"} /\ job[w].passed = "no" /\ job[w].stale = "no" =>
         \A s \in Sections : Overdue(job[w], s) \subseteq lapsed[s]
Own(w) == Past(w) /\ Apart(w) /\ Hides(w) /\ Told(w)
StoresPast == \A c \in {table, cache} \ {None} : Covers(memories, c)

\* The invariant is the sum of these.
LEMMA Parts ==
  /\ ToldInv => /\ IInv /\ StoresPast /\ LagIsFlagged
                /\ \A w \in Workers : Own(w) /\ Knows(w)
  /\ IInv' /\ StoresPast' /\ LagIsFlagged' /\ (\A w \in Workers : Own(w)' /\ Knows(w)') => ToldInv'
<1>1. ASSUME ToldInv PROVE /\ IInv /\ StoresPast /\ LagIsFlagged
                           /\ \A w \in Workers : Own(w) /\ Knows(w)
  <2>1. IInv /\ StoresPast /\ LagIsFlagged
    BY <1>1 DEF ToldInv, ReadsArePast, StoresPast
  <2>2. \A w \in Workers : Past(w) /\ Apart(w)
    BY <1>1 DEF ToldInv, ReadsArePast, TasksApart, Past, Apart
  <2>3. \A w \in Workers : Hides(w)
    BY <1>1 DEF ToldInv, NothingHidden, Hides
  <2>4. \A w \in Workers : Told(w)
    BY <1>1 DEF ToldInv, ReadersAreTold, Told
  <2>5. \A w \in Workers : Knows(w)
    BY <1>1 DEF ToldInv, OwedIsKnown, Knows, KnowsOf
  <2> QED BY <2>1, <2>2, <2>3, <2>4, <2>5 DEF Own
<1>2. ASSUME IInv', StoresPast', LagIsFlagged', \A w \in Workers : Own(w)' /\ Knows(w)'
      PROVE  ToldInv'
  <2>1. ReadsArePast' /\ TasksApart'
    BY <1>2 DEF ReadsArePast, TasksApart, StoresPast, Own, Past, Apart
  <2>2. NothingHidden'
    BY <1>2 DEF NothingHidden, Own, Hides
  <2>3. ReadersAreTold'
    BY <1>2 DEF ReadersAreTold, Own, Told
  <2>4. OwedIsKnown'
    <3>1. \A v \in Workers : job'[v].section \in Sections
      BY <1>2 DEF IInv, TypeOK, Jobs
    <3> QED BY <1>2, <3>1 DEF OwedIsKnown, Knows, KnowsOf
  <2> QED BY <1>2, <2>1, <2>2, <2>3, <2>4 DEF ToldInv
<1> QED BY <1>1, <1>2

\* A step that writes nothing and takes no flag down: the worker answers for itself, and
\* for the mark it owes.
LEMMA QuietStep ==
  ASSUME ToldInv, IInv', NEW w \in Workers,
         \A v \in Workers \ {w} : pc'[v] = pc[v] /\ job'[v] = job[v],
         UNCHANGED <<memories, table, cache>>, flag' \in {flag, "up"},
         \A s \in Sections : lapsed[s] \subseteq lapsed'[s],
         flag' = "down" /\ Unmarked(w) => Unmarked(w)' \/ job[w].wrote \in lapsed'[job[w].section],
         Unmarked(w)' => Unmarked(w) /\ job'[w].wrote = job[w].wrote /\ job'[w].section = job[w].section,
         \A v \in Workers, s \in Sections : KnowsOf(v, s, job'[w].since, job'[w].owed),
         Own(w)'
  PROVE  ToldInv'
<1>0. /\ TypeOK /\ StoresPast /\ LagIsFlagged /\ \A v \in Workers : Own(v) /\ Knows(v)
      /\ flag' = "down" => flag = "down"
  BY Parts DEF IInv
<1>1. ASSUME NEW v \in Workers \ {w} PROVE Own(v)'
  <2>1. Past(v)' /\ Apart(v)'
    BY <1>0 DEF Own, Past, Apart, Covers
  <2>2. Hides(v)'
    BY <1>0 DEF Own, Hides, Missing
  <2>3. Told(v)'
    BY <1>0 DEF Own, Told, Overdue
  <2> QED BY <2>1, <2>2, <2>3 DEF Own
<1>2. ASSUME NEW u \in Workers PROVE Knows(u)'
  <2> SUFFICES ASSUME NEW v \in Workers, NEW s \in Sections, Unmarked(v)', job'[v].section = s
               PROVE  job'[v].wrote > job'[u].since[s] \/ job'[v].wrote \in job'[u].owed[s]
    BY DEF Knows, KnowsOf
  <2>1. Unmarked(v) /\ job'[v].wrote = job[v].wrote /\ job[v].section = s
    BY DEF Unmarked
  <2>2. KnowsOf(v, s, job'[u].since, job'[u].owed)
    BY <1>0 DEF Knows
  <2> QED BY <2>1, <2>2 DEF KnowsOf
<1>3. LagIsFlagged'
  <2> SUFFICES ASSUME flag' = "down", NEW c \in {table, cache} \ {None}, NEW s \in Sections,
                      NEW m \in Missing(c, s)
               PROVE  m \in ToCome(s)' \cup lapsed'[s]
    BY DEF LagIsFlagged, Missing
  <2>1. CASE m \in lapsed[s]
    BY <2>1
  <2>2. CASE m \in ToCome(s)
    <3>1. PICK v \in Workers : Unmarked(v) /\ job[v].section = s /\ job[v].wrote = m
      BY <2>2 DEF ToCome
    <3>2. (Unmarked(v)' /\ job'[v].section = s /\ job'[v].wrote = m) \/ m \in lapsed'[s]
      BY <3>1 DEF Unmarked
    <3> QED BY <3>2 DEF ToCome
  <2> QED BY <1>0, <2>1, <2>2 DEF LagIsFlagged
<1>4. StoresPast'
  BY <1>0 DEF StoresPast, Covers
<1> QED BY <1>1, <1>2, <1>3, <1>4, Parts

\* The worker before its step
LEMMA Before ==
  ASSUME ToldInv, NEW w \in Workers
  PROVE  /\ TypeOK /\ job[w] \in Jobs /\ pc[w] \in Points
         /\ memories \in [Sections -> 0..MaxWrites] /\ job[w].snap \in [Sections -> 0..MaxWrites]
         /\ job[w].since \in [Sections -> 0..MaxWrites] /\ job[w].section \in Sections
         /\ Covers(memories, job[w].since)
         /\ Own(w) /\ \A u \in Workers : Knows(u)
         /\ StoresPast /\ LagIsFlagged
BY Parts DEF IInv, TypeOK, Jobs, Snapshots, RequestsArePast

\* Its step keeps the first invariant, and nothing is struck from the record.
LEMMA After ==
  ASSUME ToldInv, NEW w \in Workers,
         Move(w) \/ Lose(w) \/ (\E op \in Ops : Submit(w, op))
  PROVE  IInv' /\ \A s \in Sections : lapsed[s] \subseteq lapsed'[s]
BY Parts, MoveStep, OnRecord DEF IInv

\* A worker that goes on without a note and stays away from the stores
LEMMA PlainStep ==
  ASSUME ToldInv, NEW w \in Workers, NEW p \in Points,
         Move(w), Goto(w, p), UNCHANGED <<memories, table, cache, job>>, flag' \in {flag, "up"},
         flag' = "down" /\ Unmarked(w) => p \in {"write", "mark"} \/ job[w].wrote \in lapsed'[job[w].section],
         p \in {"write", "mark"} => pc[w] \in {"write", "mark"},
         Own(w)'
  PROVE  ToldInv'
<1>0. TypeOK /\ \A u \in Workers : Knows(u)
  BY Before
<1>1. pc' = [pc EXCEPT ![w] = p] /\ pc'[w] = p /\ \A v \in Workers \ {w} : pc'[v] = pc[v] /\ job'[v] = job[v]
  BY <1>0 DEF Goto, TypeOK
<1>2. \A v \in Workers, s \in Sections : KnowsOf(v, s, job'[w].since, job'[w].owed)
  BY <1>0 DEF Knows
<1>3. Unmarked(w)' => Unmarked(w)
  BY <1>1 DEF Unmarked
<1>4. flag' = "down" /\ Unmarked(w) => Unmarked(w)' \/ job[w].wrote \in lapsed'[job[w].section]
  BY <1>1 DEF Unmarked
<1> QED BY <1>1, <1>2, <1>3, <1>4, After, QuietStep

\* Writers that come to no write, or past it: a mark that fails, or will not come, is on record.
LEMMA MarksAreTold ==
  ASSUME ToldInv, NEW w \in Workers,
         Refused(w) \/ StoreConfirm(w) \/ StoreMark(w) \/ RetractMark(w)
  PROVE  ToldInv'
<1>0. /\ TypeOK /\ job[w] \in Jobs /\ job[w].section \in Sections /\ Own(w)
      /\ Move(w)
  BY Before DEF Move, Write
<1>1. ASSUME NEW p \in {"done", "mark", "retractWrite"}, Goto(w, p), UNCHANGED <<memories, table, cache, job>>,
             p = "retractWrite" => pc[w] = "retractMark", p = "mark" => pc[w] = "write"
      PROVE  Own(w)'
  <2>1. pc'[w] = p
    BY <1>0, <1>1 DEF Goto, TypeOK
  <2>2. Past(w)' /\ Apart(w)' /\ Hides(w)' /\ Told(w)'
    BY <1>0, <1>1, <2>1 DEF Own, Past, Apart, Hides, Told, Covers
  <2> QED BY <2>2 DEF Own
<1>2. ASSUME Lapses(job[w].section, job[w].wrote), flag' = flag
      PROVE  flag' = "down" /\ job[w].wrote # 0 => job[w].wrote \in lapsed'[job[w].section]
  BY <1>0, <1>2 DEF Lapses, TypeOK, Numbers
<1>3. {"done", "mark", "retractWrite"} \subseteq Points
  BY DEF Points
<1>4. CASE Refused(w)
  <2>1. Goto(w, "done") /\ UNCHANGED <<memories, table, cache, flag, job>>
    BY <1>4 DEF Refused, store
  <2>2. flag' = "down" /\ Unmarked(w) => job[w].wrote \in lapsed'[job[w].section]
    BY <1>2, <1>4, <2>1 DEF Refused, Unmarked, At
  <2>3. Own(w)'
    BY <1>1, <2>1
  <2> QED BY <1>0, <1>3, <2>1, <2>2, <2>3, PlainStep
<1>5. CASE StoreConfirm(w)
  <2>1. Goto(w, "mark") /\ UNCHANGED <<memories, table, cache, flag, job>> /\ pc[w] = "write"
    BY <1>5 DEF StoreConfirm, store, At
  <2>2. Own(w)'
    BY <1>0, <1>1, <2>1
  <2> QED BY <1>0, <1>3, <2>1, <2>2, PlainStep
<1>6. CASE StoreMark(w) \/ RetractMark(w)
  <2>1. PICK p \in {"mark", "retractMark"} : Mark(w, p, IF p = "mark" THEN "done" ELSE "retractWrite")
    BY <1>6 DEF StoreMark, RetractMark
  <2> DEFINE q == IF p = "mark" THEN "done" ELSE "retractWrite"
  <2>2. pc[w] = p /\ Goto(w, q) /\ UNCHANGED <<memories, table, cache, job>> /\ flag' \in {flag, "up"}
    BY <2>1 DEF Mark, At
  <2>3. flag' = "down" /\ Unmarked(w) => job[w].wrote \in lapsed'[job[w].section]
    BY <1>2, <2>1 DEF Mark, Unmarked
  <2>4. Own(w)'
    BY <1>1, <2>2
  <2> QED BY <1>0, <1>3, <2>2, <2>3, <2>4, PlainStep
<1> QED BY <1>4, <1>5, <1>6

\* Readers: while the flag is down, what a copy lacks is still to be marked, and the
\* request knows of that, or it is on record.
LEMMA CopyIsTold ==
  ASSUME ToldInv, NEW w \in Workers, NEW c \in {table, cache} \ {None}, NEW j \in Jobs,
         j.snap = c, j.since = job[w].since, j.owed = job[w].owed, flag = "down"
  PROVE  \A s \in Sections : Overdue(j, s) \subseteq lapsed[s]
<1>0. /\ memories \in [Sections -> 0..MaxWrites] /\ j.since \in [Sections -> 0..MaxWrites]
      /\ c \in [Sections -> 0..MaxWrites]
      /\ Covers(memories, j.since) /\ Knows(w) /\ LagIsFlagged
  BY Before DEF Jobs, Snapshots
<1> SUFFICES ASSUME NEW s \in Sections, NEW m \in Overdue(j, s) PROVE m \in lapsed[s]
  OBVIOUS
<1>1. m \in Missing(c, s) /\ m <= j.since[s] /\ m \notin j.owed[s] /\ m \in Nat
  BY <1>0 DEF Overdue, Missing, Covers
<1>2. m \in ToCome(s) \cup lapsed[s]
  BY <1>0, <1>1 DEF LagIsFlagged
<1>3. m \notin ToCome(s)
  <2> SUFFICES ASSUME NEW v \in Workers, Unmarked(v), job[v].section = s, job[v].wrote = m PROVE FALSE
    BY DEF ToCome
  <2>1. m > j.since[s] \/ m \in j.owed[s]
    BY <1>0 DEF Knows, KnowsOf
  <2> QED BY <1>0, <1>1, <2>1
<1> QED BY <1>2, <1>3

\* A note that leaves the request and the write alone
LEMMA NotedStep ==
  ASSUME ToldInv, NEW w \in Workers, NEW p \in Points \ {"write", "mark"}, NEW j,
         Move(w), Goto(w, p), Note(w, j), UNCHANGED store,
         pc[w] \notin {"write", "mark"}, j.since = job[w].since, j.owed = job[w].owed,
         Own(w)'
  PROVE  ToldInv'
<1>0. TypeOK /\ \A u \in Workers : Knows(u)
  BY Before
<1>1. /\ pc'[w] = p /\ job'[w] = j
      /\ \A v \in Workers \ {w} : pc'[v] = pc[v] /\ job'[v] = job[v]
  BY <1>0 DEF Goto, Note, TypeOK
<1>2. ~Unmarked(w) /\ ~Unmarked(w)'
  BY <1>1 DEF Unmarked
<1>3. \A v \in Workers, s \in Sections : KnowsOf(v, s, job'[w].since, job'[w].owed)
  BY <1>0, <1>1 DEF Knows
<1> QED BY <1>1, <1>2, <1>3, After, QuietStep DEF store

\* Readers without refresh: the look at the flag tells them, or they are passed.
LEMMA GetsAreTold == ASSUME ToldInv, NEW w \in Workers, Get(w) PROVE ToldInv'
<1>0. /\ TypeOK /\ job[w] \in Jobs /\ Own(w) /\ StoresPast /\ Move(w)
      /\ {"getFlag", "getTable", "getTableFlag", "answered", "saveCache", "rebuildRead"} \subseteq Points
  BY Before DEF Move, Points
<1>1. ASSUME NEW q, NEW c \in {table, cache} \ {None}, pc[w] \in {"getCache", "getTable"},
             q = "getFlag" \/ (q = "getTableFlag" /\ c = table),
             Goto(w, q), Note(w, [job[w] EXCEPT !.snap = c]), UNCHANGED store
      PROVE  ToldInv'
  <2> DEFINE j == [job[w] EXCEPT !.snap = c]
  <2>1. c \in Snapshots
    BY <1>0 DEF TypeOK
  <2>2. /\ j.op = job[w].op /\ j.snap = c /\ j.passed = job[w].passed
        /\ j.since = job[w].since /\ j.owed = job[w].owed /\ j \in Jobs
    BY <1>0, <2>1, JobUpdates DEF Jobs
  <2>3. pc'[w] = q /\ job'[w] = j /\ UNCHANGED <<memories, table, cache, flag>>
    BY <1>0, <1>1 DEF Goto, Note, TypeOK, store
  <2> HIDE DEF j
  <2>4. flag = "down" => \A s \in Sections : Overdue(j, s) \subseteq lapsed[s]
    BY <2>2, CopyIsTold
  <2>5. \A s \in Sections : lapsed[s] \subseteq lapsed'[s]
    BY <1>0, After
  <2>6. Past(w)' /\ Hides(w)'
    BY <1>0, <1>1, <2>2, <2>3 DEF StoresPast, Past, Hides, Covers
  <2>7. Told(w)' /\ Apart(w)'
    <3>1. \A s \in Sections : Overdue(job[w], s)' = Overdue(j, s)
      BY <2>3 DEF Overdue
    <3>2. Apart(w)'
      BY <1>0, <1>1, <2>2, <2>3 DEF Own, Apart
    <3> QED BY <1>1, <2>2, <2>3, <2>4, <2>5, <3>1, <3>2 DEF Told
  <2>8. Own(w)'
    BY <2>6, <2>7 DEF Own
  <2> QED BY <1>0, <1>1, <2>2, <2>3, <2>8, NotedStep DEF j
<1>2. ASSUME NEW p \in {"getTable", "rebuildRead"}, Goto(w, p), UNCHANGED <<store, job>>,
             pc[w] \in {"getCache", "getTable"}
      PROVE  ToldInv'
  <2>1. pc'[w] = p /\ UNCHANGED <<memories, table, cache, flag>>
    BY <1>0, <1>2 DEF Goto, TypeOK, store
  <2>2. Past(w)' /\ Apart(w)' /\ Hides(w)' /\ Told(w)'
    BY <1>0, <1>2, <2>1 DEF Own, Past, Apart, Hides, Told, Covers
  <2> QED BY <1>0, <1>2, <2>1, <2>2, PlainStep DEF Own, Unmarked
<1>3. ASSUME NEW p \in {"getFlag", "getTableFlag"}, NEW q \in {"answered", "saveCache"}, ReadFlag(w, p, q),
             (p = "getFlag") <=> (q = "answered")
      PROVE  ToldInv'
  <2>1. PICK x \in YesNo, y \in {job[w].passed, "yes"} :
          /\ Note(w, [job[w] EXCEPT !.stale = x, !.passed = y])
          /\ x = "no" /\ y = "no" => flag # "up"
    <3>1. CASE Note(w, [job[w] EXCEPT !.stale = "no", !.passed = "yes"])
      BY <3>1 DEF YesNo
    <3>2. CASE Note(w, [job[w] EXCEPT !.stale = IF flag = "up" THEN "yes" ELSE "no"])
      <4>1. [job[w] EXCEPT !.stale = IF flag = "up" THEN "yes" ELSE "no"]
              = [job[w] EXCEPT !.stale = IF flag = "up" THEN "yes" ELSE "no", !.passed = job[w].passed]
        BY <1>0 DEF Jobs
      <4> QED BY <3>2, <4>1 DEF YesNo
    <3> QED BY <1>3, <3>1, <3>2 DEF ReadFlag
  <2> DEFINE j == [job[w] EXCEPT !.stale = x, !.passed = y]
  <2>2. /\ j.op = job[w].op /\ j.snap = job[w].snap /\ j.since = job[w].since /\ j.owed = job[w].owed
        /\ j.stale = x /\ j.passed = y
    BY <1>0 DEF Jobs
  <2>3. pc[w] = p /\ pc'[w] = q /\ job'[w] = j /\ UNCHANGED <<memories, table, cache, flag, store>> /\ Goto(w, q)
    BY <1>0, <1>3, <2>1 DEF ReadFlag, Goto, Note, TypeOK, store, At
  <2> HIDE DEF j
  <2>4. \A s : Overdue(j, s) = Overdue(job[w], s)
    BY <2>2 DEF Overdue
  <2>5. \A s \in Sections : lapsed[s] \subseteq lapsed'[s]
    BY <1>0, After
  <2>6. Past(w)' /\ Apart(w)' /\ Hides(w)'
    BY <1>0, <1>3, <2>2, <2>3, <2>5 DEF Own, Past, Apart, Hides, Covers, Missing
  <2>7. Told(w)'
    <3>1. flag \in {"up", "down"}
      BY <1>0 DEF TypeOK
    <3>2. j.op = "get" /\ j.passed = "no" /\ j.stale = "no" =>
            \A s \in Sections : Overdue(j, s) \subseteq lapsed[s]
      BY <1>0, <1>3, <2>1, <2>2, <2>3, <2>4, <3>1 DEF Own, Told
    <3> QED BY <1>3, <2>2, <2>3, <2>5, <3>2 DEF Told
  <2>8. Own(w)'
    BY <2>6, <2>7 DEF Own
  <2> QED BY <1>0, <1>3, <2>1, <2>2, <2>3, <2>8, NotedStep DEF j
<1>4. CASE GetCache(w)
  <2>1. pc[w] = "getCache" /\ UNCHANGED store
    BY <1>4 DEF GetCache, At
  <2>2. CASE cache # None /\ Note(w, [job[w] EXCEPT !.snap = cache]) /\ Goto(w, "getFlag")
    BY <1>1, <2>1, <2>2
  <2>3. CASE Goto(w, "getTable") /\ UNCHANGED job
    BY <1>2, <2>1, <2>3
  <2> QED BY <1>4, <2>2, <2>3 DEF GetCache
<1>5. CASE GetTable(w)
  <2>1. pc[w] = "getTable" /\ UNCHANGED store
    BY <1>5 DEF GetTable, At
  <2>2. CASE table # None /\ Note(w, [job[w] EXCEPT !.snap = table]) /\ Goto(w, "getTableFlag")
    BY <1>1, <2>1, <2>2
  <2>3. CASE Goto(w, "rebuildRead") /\ UNCHANGED job
    BY <1>2, <2>1, <2>3
  <2> QED BY <1>5, <2>2, <2>3 DEF GetTable
<1>6. CASE GetFlag(w)
  <2>1. ReadFlag(w, "getFlag", "answered")
    BY <1>6 DEF GetFlag
  <2> QED BY <1>3, <2>1
<1>7. CASE GetTableFlag(w)
  <2>1. ReadFlag(w, "getTableFlag", "saveCache")
    BY <1>7 DEF GetTableFlag
  <2> QED BY <1>3, <2>1
<1> QED BY <1>4, <1>5, <1>6, <1>7 DEF Get

\* Writes: the new number is missing wherever the flag may be taken down, and it is
\* younger than every request; a mark is to come for it, or it is on record.
LEMMA CommitsAreTold ==
  ASSUME ToldInv, NEW w \in Workers, StoreWrite(w) \/ RetractWrite(w) \/ ForgetWrite(w)
  PROVE  ToldInv'
<1> DEFINE s0 == job[w].section
           n == memories[s0] + 1
<1>0. /\ TypeOK /\ job[w] \in Jobs /\ s0 \in Sections /\ memories \in [Sections -> 0..MaxWrites]
      /\ StoresPast /\ LagIsFlagged /\ Commit(w) /\ Move(w)
      /\ \A v \in Workers : /\ Own(v) /\ Knows(v) /\ Covers(memories, job[v].since)
                            /\ job[v].snap \in Snapshots /\ job[v].since \in Snapshots
  <2>1. Commit(w) /\ Move(w)
    BY DEF StoreWrite, RetractWrite, ForgetWrite, Move, Write
  <2>2. \A v \in Workers : /\ Own(v) /\ Knows(v) /\ Covers(memories, job[v].since)
                           /\ job[v].snap \in Snapshots /\ job[v].since \in Snapshots
    BY Before DEF Snapshots
  <2> QED BY <2>1, <2>2, Before
<1>1. /\ memories' = [memories EXCEPT ![s0] = n] /\ job' = [job EXCEPT ![w] = [job[w] EXCEPT !.wrote = n]]
      /\ UNCHANGED <<table, cache, flag>> /\ job[w].wrote = 0
      /\ IF job[w].op = "store" THEN UNCHANGED lapsed ELSE Lapses(s0, n)
  BY <1>0 DEF Commit, Note
<1>2. /\ pc'[w] \in {"mark", "done"} /\ \A v \in Workers \ {w} : pc'[v] = pc[v] /\ job'[v] = job[v]
      /\ job[w].op = "store" => pc'[w] = "mark"
  BY <1>0, <1>1 DEF StoreWrite, RetractWrite, ForgetWrite, At, Goto, TypeOK, Own, Apart
<1>3. /\ job'[w].wrote = n /\ n \in Nat \ {0}
      /\ \A v \in Workers : /\ job'[v].op = job[v].op /\ job'[v].section = job[v].section
                            /\ job'[v].todo = job[v].todo /\ job'[v].snap = job[v].snap
                            /\ job'[v].stale = job[v].stale /\ job'[v].passed = job[v].passed
                            /\ job'[v].since = job[v].since /\ job'[v].owed = job[v].owed
  BY <1>0, <1>1, <1>2 DEF TypeOK, Jobs
<1>4. \A s \in Sections : lapsed[s] \subseteq lapsed'[s]
  BY <1>0, After
<1>5. /\ \A s \in Sections : memories'[s] = IF s = s0 THEN n ELSE memories[s]
      /\ \A c \in Snapshots, s \in Sections : Covers(memories, c) =>
           ((c[s] + 1)..memories'[s]) = Missing(c, s) \cup (IF s = s0 THEN {n} ELSE {})
  BY <1>0, <1>1, <1>3 DEF Missing, Covers, Snapshots
<1>6. \A c \in Snapshots : Covers(memories, c) => Covers(memories', c)
  BY <1>0, <1>5 DEF Covers, Snapshots
<1> HIDE DEF n, s0
<1>7. StoresPast'
  BY <1>0, <1>1, <1>6 DEF StoresPast, TypeOK
<1>8. ASSUME NEW v \in Workers PROVE Own(v)'
  <2>1. Past(v)' /\ Apart(v)'
    BY <1>0, <1>2, <1>3, <1>6 DEF Own, Past, Apart
  <2>2. Hides(v)'
    <3>1. CASE v = w
      BY <1>2, <3>1 DEF Hides
    <3>2. CASE v # w
      <4>1. \A c \in Snapshots, s \in Sections : Covers(memories, c) /\ Missing(c, s) \subseteq Missing(job[v].snap, s) \cup lapsed[s]
              => ((c[s] + 1)..memories'[s]) \subseteq ((job[v].snap[s] + 1)..memories'[s]) \cup lapsed'[s]
        BY <1>0, <1>4, <1>5 DEF Own, Past
      <4>2. table # None => table \in Snapshots /\ Covers(memories, table)
        BY <1>0 DEF TypeOK, StoresPast
      <4>3. cache # None => cache \in Snapshots /\ Covers(memories, cache)
        BY <1>0 DEF TypeOK, StoresPast
      <4> QED BY <1>0, <1>1, <1>2, <3>2, <4>1, <4>2, <4>3 DEF Own, Hides, Missing
    <3> QED BY <3>1, <3>2
  <2>3. Told(v)'
    BY <1>0, <1>1, <1>2, <1>3, <1>4 DEF Own, Told, Overdue
  <2> QED BY <2>1, <2>2, <2>3 DEF Own
<1>9. ASSUME NEW u \in Workers PROVE Knows(u)'
  <2> SUFFICES ASSUME NEW v \in Workers, NEW s \in Sections, Unmarked(v)', job'[v].section = s
               PROVE  job'[v].wrote > job[u].since[s] \/ job'[v].wrote \in job[u].owed[s]
    BY <1>3 DEF Knows, KnowsOf
  <2>1. CASE v = w
    <3>1. s = s0
      BY <1>3, <2>1 DEF s0
    <3>2. job[u].since[s] <= memories[s] /\ n = memories[s] + 1 /\ job[u].since[s] \in Nat /\ memories[s] \in Nat
      BY <1>0, <3>1 DEF Covers, Snapshots, n
    <3> QED BY <1>3, <2>1, <3>2
  <2>2. CASE v # w
    <3>1. Unmarked(v) /\ job[v].section = s /\ job'[v].wrote = job[v].wrote
      BY <1>2, <2>2 DEF Unmarked
    <3> QED BY <1>0, <3>1 DEF Knows, KnowsOf
  <2> QED BY <2>1, <2>2
<1>10. LagIsFlagged'
  <2> SUFFICES ASSUME flag = "down", NEW c \in {table, cache} \ {None}, NEW s \in Sections,
                      NEW m \in (c[s] + 1)..memories'[s]
               PROVE  m \in ToCome(s)' \cup lapsed'[s]
    BY <1>1 DEF LagIsFlagged, Missing
  <2>1. c \in Snapshots /\ Covers(memories, c)
    BY <1>0 DEF TypeOK, StoresPast
  <2>2. CASE m \in Missing(c, s)
    <3>1. CASE m \in lapsed[s]
      BY <1>4, <3>1
    <3>2. CASE m \in ToCome(s)
      <4>1. PICK v \in Workers : Unmarked(v) /\ job[v].section = s /\ job[v].wrote = m
        BY <3>2 DEF ToCome
      <4>2. v # w
        BY <1>1, <4>1 DEF Unmarked
      <4>3. Unmarked(v)' /\ job'[v].section = s /\ job'[v].wrote = m
        BY <1>2, <4>1, <4>2 DEF Unmarked
      <4> QED BY <4>3 DEF ToCome
    <3> QED BY <1>0, <2>2, <3>1, <3>2 DEF LagIsFlagged
  <2>3. CASE s = s0 /\ m = n
    <3>1. CASE job[w].op = "store"
      <4>1. Unmarked(w)' /\ job'[w].section = s /\ job'[w].wrote = m
        BY <1>2, <1>3, <2>3, <3>1 DEF Unmarked, s0
      <4> QED BY <4>1 DEF ToCome
    <3>2. CASE job[w].op # "store"
      BY <1>0, <1>1, <1>3, <2>3, <3>2 DEF Lapses, TypeOK, Numbers
    <3> QED BY <3>1, <3>2
  <2> QED BY <1>5, <2>1, <2>2, <2>3
<1> QED BY <1>0, <1>7, <1>8, <1>9, <1>10, After, Parts

\* Marks that are to come are those of the writers, whatever else moves.
LEMMA SameMarks ==
  ASSUME \A v \in Workers : /\ pc'[v] = pc[v] \/ (pc[v] \notin {"write", "mark"} /\ pc'[v] \notin {"write", "mark"})
                            /\ job'[v].op = job[v].op /\ job'[v].wrote = job[v].wrote /\ job'[v].section = job[v].section
                            /\ job'[v].since = job[v].since /\ job'[v].owed = job[v].owed
  PROVE  /\ \A s \in Sections : ToCome(s) \subseteq ToCome(s)'
         /\ (\A u \in Workers : Knows(u)) => \A u \in Workers : Knows(u)'
<1>1. \A v \in Workers : Unmarked(v)' <=> Unmarked(v)
  BY DEF Unmarked
<1>2. ASSUME NEW s \in Sections, NEW m \in ToCome(s) PROVE m \in ToCome(s)'
  <2>1. PICK v \in Workers : Unmarked(v) /\ job[v].section = s /\ job[v].wrote = m
    BY <1>2 DEF ToCome
  <2>2. Unmarked(v)' /\ job'[v].section = s /\ job'[v].wrote = m
    BY <1>1, <2>1
  <2> QED BY <2>2 DEF ToCome
<1>3. ASSUME \A u \in Workers : Knows(u), NEW u \in Workers PROVE Knows(u)'
  BY <1>1, <1>3 DEF Knows, KnowsOf
<1> QED BY <1>2, <1>3

\* A snapshot that is stored while others are about to take the flag down, or while it is
\* down, is on record with what it lacks and no mark will tell.
LEMMA Overtaken ==
  ASSUME NEW w \in Workers, Overtakes(w), NEW s \in Sections
  PROVE  /\ \A v \in Workers \ {w} : pc[v] \in {"getTableFlag", "saveCache", "clearFlag"} =>
              Missing(job[w].snap, s) \subseteq lapsed'[s]
         /\ flag = "down" => Missing(job[w].snap, s) \subseteq ToCome(s) \cup lapsed'[s]
BY DEF Overtakes

\* The steps that store a snapshot in the table and in the cache keep the invariant.
LEMMA SavesAreTold ==
  ASSUME ToldInv, NEW w \in Workers, Move(w), Overtakes(w), UNCHANGED <<memories, flag, job>>,
         \/ pc[w] = "rebuildSave" /\ Goto(w, "saveCache") /\ table' = job[w].snap /\ cache' = cache
         \/ pc[w] = "saveCache" /\ Goto(w, "clearFlag") /\ cache' = job[w].snap /\ table' = table
  PROVE  ToldInv'
<1>0. /\ TypeOK /\ StoresPast /\ LagIsFlagged /\ \A v \in Workers : Own(v) /\ Knows(v)
      /\ job[w].snap \in [Sections -> 0..MaxWrites] /\ job[w].since \in [Sections -> 0..MaxWrites]
      /\ IInv' /\ \A s \in Sections : lapsed[s] \subseteq lapsed'[s]
  BY Before, After
<1>1. /\ pc'[w] = IF pc[w] = "rebuildSave" THEN "saveCache" ELSE "clearFlag"
      /\ \A v \in Workers \ {w} : pc'[v] = pc[v]
  BY <1>0 DEF Goto, TypeOK
<1>2. StoresPast'
  BY <1>0 DEF StoresPast, Own, Past, Covers
<1>3. Own(w)'
  <2>1. Past(w)' /\ Apart(w)'
    BY <1>0, <1>1 DEF Own, Past, Apart, Covers
  <2>2. Hides(w)'
    BY <1>0, <1>1 DEF Own, Hides, Missing
  <2>3. Told(w)'
    <3>1. pc[w] = "rebuildSave" /\ job[w].op = "get" => \A s \in Sections : Overdue(job[w], s) = {}
      BY <1>0 DEF Own, Told, Overdue
    <3>2. pc[w] = "saveCache" /\ job[w].op = "get" /\ job[w].passed = "no" /\ job[w].stale = "no" =>
            \A s \in Sections : Overdue(job[w], s) \subseteq lapsed[s]
      BY <1>0 DEF Own, Told
    <3> QED BY <1>0, <1>1, <3>1, <3>2 DEF Told, Overdue
  <2> QED BY <2>1, <2>2, <2>3 DEF Own
<1>4. ASSUME NEW v \in Workers \ {w} PROVE Own(v)'
  <2>1. Past(v)' /\ Apart(v)'
    BY <1>0, <1>1 DEF Own, Past, Apart, Covers
  <2>2. Told(v)'
    BY <1>0, <1>1 DEF Own, Told, Overdue
  <2>3. Hides(v)'
    <3>1. pc[v] \in {"getTableFlag", "saveCache", "clearFlag"} =>
            \A s \in Sections : Missing(job[w].snap, s) \subseteq lapsed'[s]
      BY Overtaken
    <3> QED BY <1>0, <1>1, <3>1 DEF Own, Hides, Missing
  <2> QED BY <2>1, <2>2, <2>3 DEF Own
<1>5. (\A s \in Sections : ToCome(s) \subseteq ToCome(s)') /\ \A u \in Workers : Knows(u)'
  BY <1>0, <1>1, SameMarks
<1>6. LagIsFlagged'
  <2>1. flag = "down" => \A s \in Sections : Missing(job[w].snap, s) \subseteq ToCome(s) \cup lapsed'[s]
    BY Overtaken
  <2>2. flag = "down" => \A c \in {table', cache'} \ {None}, s \in Sections :
                           Missing(c, s) \subseteq ToCome(s) \cup lapsed'[s]
    BY <1>0, <2>1 DEF LagIsFlagged
  <2> QED BY <1>5, <2>2 DEF LagIsFlagged, Missing
<1> QED BY <1>0, <1>2, <1>3, <1>4, <1>5, <1>6, Parts

\* The end of the flag, whoever takes it down: what the stores lack is still to be marked
\* or on record, and who has a copy and has not looked at the flag is passed.
LEMMA FlagGoesDown ==
  ASSUME ToldInv, IInv', UNCHANGED <<memories, table, cache>>, flag' = "down",
         job' = [v \in Workers |-> Passed(v)],
         \A s \in Sections : lapsed[s] \subseteq lapsed'[s],
         \A v \in Workers : \/ pc'[v] = pc[v]
                            \/ pc[v] = "clearFlag" /\ pc'[v] \in {"done", "answered"},
         \A c \in {table, cache} \ {None}, s \in Sections : Missing(c, s) \subseteq ToCome(s) \cup lapsed'[s]
  PROVE  ToldInv'
<1>0. TypeOK /\ StoresPast /\ LagIsFlagged /\ \A v \in Workers : Own(v) /\ Knows(v)
  BY Parts DEF IInv
<1>1. \A v \in Workers : job'[v] = Passed(v)
  OBVIOUS
<1>2. ASSUME NEW v \in Workers PROVE Own(v)'
  <2>1. /\ job'[v].op = job[v].op /\ job'[v].todo = job[v].todo /\ job'[v].snap = job[v].snap
        /\ job'[v].stale = job[v].stale /\ job'[v].since = job[v].since /\ job'[v].owed = job[v].owed
        /\ job'[v].passed = "no" => job[v].passed = "no" /\ (flag = "up" => pc[v] \notin {"getFlag", "getTableFlag"})
    BY <1>0, <1>1, PassedOn
  <2>2. Past(v)' /\ Apart(v)'
    BY <1>0, <2>1 DEF Own, Past, Apart, Covers
  <2>3. Hides(v)'
    BY <1>0, <2>1 DEF Own, Hides, Missing
  <2>4. Told(v)'
    <3>1. \A s : Overdue(job[v], s)' = Overdue(job[v], s)
      BY <2>1 DEF Overdue
    <3>2. flag \in {"up", "down"}
      BY <1>0 DEF TypeOK
    <3> QED BY <1>0, <2>1, <3>1, <3>2 DEF Own, Told
  <2> QED BY <2>2, <2>3, <2>4 DEF Own
<1>3. (\A s \in Sections : ToCome(s) \subseteq ToCome(s)') /\ \A u \in Workers : Knows(u)'
  <2>1. \A v \in Workers : /\ job'[v].op = job[v].op /\ job'[v].wrote = job[v].wrote
                           /\ job'[v].section = job[v].section
                           /\ job'[v].since = job[v].since /\ job'[v].owed = job[v].owed
    BY <1>0, <1>1, PassedOn
  <2> QED BY <1>0, <2>1, SameMarks
<1>4. LagIsFlagged'
  BY <1>3 DEF LagIsFlagged, Missing
<1>5. StoresPast'
  BY <1>0 DEF StoresPast, Covers
<1> QED BY <1>2, <1>3, <1>4, <1>5, Parts

\* Rebuilds: who reads the writes again may take the flag down.
LEMMA RebuildsAreTold == ASSUME ToldInv, NEW w \in Workers, Rebuild(w) PROVE ToldInv'
<1>0. /\ TypeOK /\ job[w] \in Jobs /\ Own(w) /\ Move(w) /\ Covers(memories, job[w].since)
      /\ memories \in [Sections -> 0..MaxWrites] /\ job[w].snap \in [Sections -> 0..MaxWrites]
      /\ job[w].since \in [Sections -> 0..MaxWrites]
      /\ \A s \in Sections : lapsed[s] \subseteq lapsed'[s]
      /\ {"rebuildRead", "rebuildSave", "answered", "done"} \subseteq Points
  BY Before, After DEF Move, Points
<1>1. ASSUME NEW p \in {"rebuildRead", "rebuildSave", "answered", "done"}, Goto(w, p),
             UNCHANGED <<memories, table, cache, flag, job>>,
             \/ pc[w] = "rebuildRead" /\ p = "rebuildSave" /\ job[w].todo = {}
             \/ pc[w] = "beatCheck" /\ p \in {"rebuildRead", "done"}
             \/ pc[w] \in {"saveCache", "clearFlag"} /\ p = Answer(w)
      PROVE  ToldInv'
  <2>1. pc'[w] = p
    BY <1>0, <1>1 DEF Goto, TypeOK
  <2>2. Past(w)' /\ Apart(w)' /\ Hides(w)'
    BY <1>0, <1>1, <2>1 DEF Own, Past, Apart, Hides, Covers
  <2>3. Told(w)'
    BY <1>0, <1>1, <2>1 DEF Own, Told, Apart, Answer, Overdue
  <2>4. Own(w)'
    BY <2>2, <2>3 DEF Own
  <2> QED BY <1>0, <1>1, <2>4, PlainStep DEF Unmarked
<1>2. CASE RebuildRead(w)
  <2>1. CASE job[w].todo = {} /\ Goto(w, "rebuildSave") /\ UNCHANGED job
    BY <1>1, <1>2, <2>1 DEF RebuildRead, At, store
  <2>2. ASSUME NEW s \in job[w].todo, UNCHANGED pc,
               Note(w, [job[w] EXCEPT !.snap[s] = memories[s], !.todo = @ \ {s}])
        PROVE  ToldInv'
    <3> DEFINE j == [job[w] EXCEPT !.snap[s] = memories[s], !.todo = @ \ {s}]
    <3>1. /\ j.snap = [job[w].snap EXCEPT ![s] = memories[s]] /\ j.todo = job[w].todo \ {s}
          /\ j.op = job[w].op /\ j.since = job[w].since /\ j.owed = job[w].owed
      BY <1>0 DEF Jobs
    <3>2. /\ job'[w] = j /\ pc'[w] = "rebuildRead" /\ pc[w] = "rebuildRead" /\ Goto(w, "rebuildRead")
          /\ UNCHANGED store
      BY <1>0, <1>2, <2>2 DEF RebuildRead, At, Goto, Note, TypeOK
    <3> HIDE DEF j
    <3>3. \A u \in Sections : j.snap[u] = IF u = s THEN memories[s] ELSE job[w].snap[u]
      BY <1>0, <3>1
    <3>4. Past(w)' /\ Apart(w)' /\ Hides(w)'
      BY <1>0, <3>1, <3>2, <3>3 DEF Own, Past, Apart, Hides, Covers, store
    <3>5. Told(w)'
      BY <1>0, <3>1, <3>2, <3>3 DEF Own, Told, Covers
    <3>6. Own(w)'
      BY <3>4, <3>5 DEF Own
    <3> QED BY <1>0, <2>2, <3>1, <3>2, <3>6, NotedStep DEF j
  <2> QED BY <1>2, <2>1, <2>2 DEF RebuildRead
<1>3. CASE RebuildSave(w)
  BY <1>0, <1>3, SavesAreTold DEF RebuildSave, At
<1>4. CASE SaveCache(w)
  <2>1. CASE cache' = job[w].snap /\ Overtakes(w) /\ Goto(w, "clearFlag")
    BY <1>0, <1>4, <2>1, SavesAreTold DEF SaveCache, At
  <2>2. CASE UNCHANGED cache /\ Goto(w, Answer(w))
    BY <1>1, <1>4, <2>2 DEF SaveCache, At, Answer
  <2> QED BY <1>4, <2>1, <2>2 DEF SaveCache
<1>5. CASE ClearFlag(w)
  <2>1. pc[w] = "clearFlag" /\ Goto(w, Answer(w)) /\ UNCHANGED <<memories, table, cache>>
    BY <1>5 DEF ClearFlag, At
  <2>2. CASE UNCHANGED <<flag, job>>
    BY <1>1, <2>1, <2>2 DEF Answer
  <2>3. CASE /\ flag' = "down" /\ job' = [v \in Workers |-> Passed(v)]
             /\ lapsed' = [s \in Sections |-> lapsed[s] \cup (Missing(job[w].snap, s) \ ToCome(s))]
    <3>1. \A v \in Workers : \/ pc'[v] = pc[v]
                             \/ pc[v] = "clearFlag" /\ pc'[v] \in {"done", "answered"}
      BY <1>0, <2>1 DEF Goto, Answer, TypeOK
    <3>2. \A s \in Sections : Missing(job[w].snap, s) \subseteq ToCome(s) \cup lapsed'[s]
      BY <2>3
    <3>3. \A c \in {table, cache} \ {None}, s \in Sections : Missing(c, s) \subseteq ToCome(s) \cup lapsed'[s]
      BY <1>0, <2>1, <3>2 DEF Own, Hides
    <3> QED BY <1>0, <2>1, <2>3, <3>1, <3>3, After, FlagGoesDown
  <2> QED BY <1>5, <2>2, <2>3 DEF ClearFlag
<1>6. CASE BeatCheck(w)
  <2>1. /\ pc[w] = "beatCheck" /\ UNCHANGED <<memories, table, cache, flag, job>>
        /\ \E p \in {"rebuildRead", "done"} : Goto(w, p)
    BY <1>6 DEF BeatCheck, At, store
  <2> QED BY <1>1, <2>1
<1> QED BY <1>2, <1>3, <1>4, <1>5, <1>6 DEF Rebuild

\* Requests, answers taken and tasks that start over
LEMMA RequestsAreTold ==
  ASSUME ToldInv, NEW w \in Workers, Finish(w) \/ Lose(w) \/ \E op \in Ops : Submit(w, op)
  PROVE  ToldInv'
<1>0. /\ TypeOK /\ job[w] \in Jobs /\ Own(w) /\ \A u \in Workers : Knows(u)
      /\ memories \in [Sections -> 0..MaxWrites]
      /\ IInv' /\ \A s \in Sections : lapsed[s] \subseteq lapsed'[s]
      /\ UNCHANGED store
  BY Before, After DEF Move, Finish, Lose, Submit
<1>1. ASSUME NEW p \in Points, NEW j, Goto(w, p), Note(w, j), j.snap = Nothing, j.todo = Sections,
             p \in {"idle", "write", "retractMark", "forgetWrite", "getCache", "rebuildRead", "beatCheck"},
             j.op = "store" => p = "write", j.op = "get" => p = "getCache",
             \/ j.wrote = 0 /\ pc[w] \notin {"write", "mark"}
             \/ /\ j.wrote = job[w].wrote /\ j.section = job[w].section /\ j.op = job[w].op
                /\ pc[w] \notin {"idle", "done"},
             \A v \in Workers, s \in Sections : KnowsOf(v, s, j.since, j.owed)
      PROVE  ToldInv'
  <2>1. /\ pc'[w] = p /\ job'[w] = j /\ UNCHANGED <<memories, table, cache, flag>>
        /\ \A v \in Workers \ {w} : pc'[v] = pc[v] /\ job'[v] = job[v]
    BY <1>0, <1>1 DEF Goto, Note, TypeOK, store
  <2>2. Past(w)' /\ Apart(w)' /\ Hides(w)'
    BY <1>0, <1>1, <2>1 DEF Past, Apart, Hides, Covers, Nothing
  <2>3. Told(w)'
    BY <1>1, <2>1 DEF Told
  <2>4. Unmarked(w) => Unmarked(w)'
    BY <1>0, <1>1, <2>1 DEF Unmarked
  <2>5. Unmarked(w)' => Unmarked(w) /\ job'[w].wrote = job[w].wrote /\ job'[w].section = job[w].section
    <3>1. CASE j.wrote = 0
      BY <2>1, <3>1 DEF Unmarked
    <3>2. CASE /\ j.wrote = job[w].wrote /\ j.section = job[w].section /\ j.op = job[w].op
               /\ pc[w] \notin {"idle", "done"}
      BY <1>0, <2>1, <3>2 DEF Own, Apart, Unmarked
    <3> QED BY <1>1, <3>1, <3>2
  <2>6. Own(w)'
    BY <2>2, <2>3 DEF Own
  <2>7. \A v \in Workers, s \in Sections : KnowsOf(v, s, job'[w].since, job'[w].owed)
    BY <1>1, <2>1
  <2> QED BY <1>0, <2>1, <2>4, <2>5, <2>6, <2>7, QuietStep
<1>2. ASSUME NEW v \in Workers, NEW s \in Sections, NEW owed PROVE KnowsOf(v, s, Nothing, owed)
  BY <1>0 DEF KnowsOf, Unmarked, Nothing, TypeOK, Jobs
<1>3. CASE Finish(w)
  <2> DEFINE j == NoRequest(job[w].section)
  <2>1. /\ j.snap = Nothing /\ j.todo = Sections /\ j.wrote = 0 /\ j.since = Nothing
        /\ j.op = "none" /\ "idle" \in Points
    BY DEF NoRequest, Request, Points
  <2>2. pc[w] \notin {"write", "mark"} /\ Goto(w, "idle") /\ Note(w, j)
    BY <1>3 DEF Finish
  <2> HIDE DEF j
  <2> QED BY <1>1, <1>2, <2>1, <2>2
<1>4. CASE Lose(w)
  <2> DEFINE j == Restarted(job[w])
             p == StartOf(job[w].op)
  <2>1. /\ j.snap = Nothing /\ j.todo = Sections /\ j.wrote = job[w].wrote /\ j.section = job[w].section
        /\ j.op = job[w].op /\ j.since = job[w].since /\ j.owed = job[w].owed
    BY <1>0 DEF Restarted, Jobs
  <2>2. pc[w] \notin {"idle", "done"} /\ Goto(w, p) /\ Note(w, j)
    BY <1>4 DEF Lose
  <2>3. /\ p \in {"idle", "write", "retractMark", "forgetWrite", "getCache", "rebuildRead", "beatCheck"}
        /\ p \in Points /\ (job[w].op = "store" => p = "write") /\ (job[w].op = "get" => p = "getCache")
    BY DEF StartOf, Points
  <2>4. \A v \in Workers, s \in Sections : KnowsOf(v, s, j.since, j.owed)
    BY <1>0, <2>1 DEF Knows
  <2> HIDE DEF j, p
  <2> QED BY <1>1, <2>1, <2>2, <2>3, <2>4
<1>5. ASSUME NEW op \in Ops, Submit(w, op) PROVE ToldInv'
  <2>1. PICK s0 \in Sections, since \in {Nothing, memories}, owed \in {NoNumbers, [u \in Sections |-> ToCome(u)]} :
          /\ Note(w, Request(op, s0, since, owed))
          /\ since = Nothing \/ (since = memories /\ owed = [u \in Sections |-> ToCome(u)])
    BY <1>5 DEF Submit
  <2> DEFINE j == Request(op, s0, since, owed)
             p == StartOf(op)
  <2>2. /\ j.snap = Nothing /\ j.todo = Sections /\ j.wrote = 0 /\ j.since = since /\ j.owed = owed
        /\ j.op = op
    BY DEF Request
  <2>3. /\ p \in {"idle", "write", "retractMark", "forgetWrite", "getCache", "rebuildRead", "beatCheck"}
        /\ p \in Points /\ (op = "store" => p = "write") /\ (op = "get" => p = "getCache")
    BY DEF StartOf, Points
  <2>4. \A v \in Workers, s \in Sections : KnowsOf(v, s, since, owed)
    <3>1. CASE since = Nothing
      BY <1>2, <3>1
    <3>2. CASE owed = [u \in Sections |-> ToCome(u)]
      BY <3>2 DEF KnowsOf, ToCome
    <3> QED BY <2>1, <3>1, <3>2
  <2>5. pc[w] = "idle" /\ Goto(w, p) /\ Note(w, j)
    BY <1>5, <2>1 DEF Submit, At
  <2> HIDE DEF j, p
  <2> QED BY <1>1, <2>2, <2>3, <2>4, <2>5
<1> QED BY <1>3, <1>4, <1>5

\* Keys that run out
LEMMA ExpiryIsTold == ASSUME ToldInv, IInv', CacheExpires \/ FlagExpires PROVE ToldInv'
<1>0. /\ TypeOK /\ StoresPast /\ LagIsFlagged /\ \A v \in Workers : Own(v) /\ Knows(v)
  BY Parts DEF IInv
<1>1. CASE CacheExpires
  <2>1. UNCHANGED <<memories, table, flag, pc, job, lapsed>> /\ cache' = None
    BY <1>1 DEF CacheExpires
  <2>2. \A v \in Workers : Own(v)' /\ Knows(v)'
    BY <1>0, <2>1 DEF Own, Past, Apart, Hides, Told, Knows, KnowsOf, Unmarked, Missing, Covers, Overdue
  <2>3. StoresPast' /\ LagIsFlagged'
    BY <1>0, <2>1 DEF StoresPast, LagIsFlagged, Covers, Missing, ToCome, Unmarked
  <2> QED BY <2>2, <2>3, Parts
<1>2. CASE FlagExpires
  <2>1. /\ UNCHANGED <<memories, table, cache, pc>> /\ flag' = "down"
        /\ job' = [v \in Workers |-> Passed(v)]
        /\ lapsed' = [s \in Sections |->
              lapsed[s] \cup ((UNION {Missing(c, s) : c \in {table, cache} \ {None}}) \ ToCome(s))]
    BY <1>2 DEF FlagExpires
  <2>2. \A s \in Sections : lapsed[s] \subseteq lapsed'[s]
    BY <2>1
  <2>3. \A c \in {table, cache} \ {None}, s \in Sections : Missing(c, s) \subseteq ToCome(s) \cup lapsed'[s]
    <3> SUFFICES ASSUME NEW c \in {table, cache} \ {None}, NEW s \in Sections,
                        NEW m \in Missing(c, s), m \notin ToCome(s)
                 PROVE  m \in lapsed'[s]
      OBVIOUS
    <3> DEFINE stores == {table, cache} \ {None}
               all == {Missing(d, s) : d \in stores}
    <3>1. Missing(c, s) \in all
      OBVIOUS
    <3>2. m \in UNION all
      <4> HIDE DEF all
      <4> QED BY <3>1
    <3>3. lapsed'[s] = lapsed[s] \cup ((UNION all) \ ToCome(s))
      BY <2>1
    <3> HIDE DEF all
    <3> QED BY <3>2, <3>3
  <2> QED BY <2>1, <2>2, <2>3, FlagGoesDown
<1> QED BY <1>1, <1>2

\* The invariant of the flag, for any number of workers, sections and writes: whoever is
\* about to take it down has read what is in the stores, or what it has not is on record,
\* and a mark that is to come is known to the requests it is not after.
THEOREM FlagIsTold == Spec => []ToldInv
<1>1. Init /\ IInv => ToldInv
  <2> SUFFICES ASSUME Init, IInv PROVE ToldInv
    OBVIOUS
  <2>1. \A w \in Workers : job[w].op = "none" /\ job[w].snap = Nothing /\ pc[w] = "idle"
    <3>1. \A w \in Workers : \E s \in Sections : job[w] = NoRequest(s)
      BY DEF Init
    <3>2. \A w \in Workers : pc[w] = "idle"
      BY DEF Init
    <3>3. \A s \in Sections : NoRequest(s).op = "none" /\ NoRequest(s).snap = Nothing
      BY DEF NoRequest, Request
    <3> QED BY <3>1, <3>2, <3>3
  <2>2. ReadsArePast /\ TasksApart
    BY <2>1 DEF Init, ReadsArePast, TasksApart, Covers, Nothing
  <2>3. NothingHidden /\ OwedIsKnown /\ ReadersAreTold
    BY <2>1 DEF NothingHidden, OwedIsKnown, ReadersAreTold, Unmarked
  <2>4. LagIsFlagged
    BY DEF Init, LagIsFlagged
  <2> QED BY <2>2, <2>3, <2>4 DEF ToldInv
<1>2. ToldInv /\ IInv' /\ [Next]_vars => ToldInv'
  <2> SUFFICES ASSUME ToldInv, IInv', [Next]_vars PROVE ToldInv'
    OBVIOUS
  <2>1. CASE UNCHANGED vars
    <3>1. UNCHANGED <<memories, table, cache, flag, pc, job, lapsed>>
      BY <2>1 DEF vars, store
    <3>2. StoresPast /\ LagIsFlagged /\ \A v \in Workers : Own(v) /\ Knows(v)
      BY Parts
    <3>3. \A v \in Workers : Own(v)' /\ Knows(v)'
      BY <3>1, <3>2 DEF Own, Past, Apart, Hides, Told, Knows, KnowsOf, Unmarked, Missing, Covers, Overdue
    <3>4. StoresPast' /\ LagIsFlagged'
      BY <3>1, <3>2 DEF StoresPast, LagIsFlagged, Covers, Missing, ToCome, Unmarked
    <3> QED BY <3>3, <3>4, Parts
  <2>2. ASSUME NEW w \in Workers, Move(w) PROVE ToldInv'
    <3>1. CASE Write(w)
      BY <3>1, MarksAreTold, CommitsAreTold DEF Write
    <3>2. CASE Get(w)
      BY <3>2, GetsAreTold
    <3>3. CASE Rebuild(w)
      BY <3>3, RebuildsAreTold
    <3>4. CASE Finish(w)
      BY <3>4, RequestsAreTold
    <3> QED BY <2>2, <3>1, <3>2, <3>3, <3>4 DEF Move
  <2>3. ASSUME NEW w \in Workers, Lose(w) \/ \E op \in Ops : Submit(w, op) PROVE ToldInv'
    BY <2>3, RequestsAreTold
  <2>4. CASE CacheExpires \/ FlagExpires
    BY <2>4, ExpiryIsTold
  <2> QED BY <2>1, <2>2, <2>3, <2>4 DEF Next
<1> QED BY <1>1, <1>2, Inductive, PTL DEF Spec

\* Whatever overlaps, fails, expires or is lost: an answer that is not marked stale lacks a
\* write that was over when it was asked for only for a cause on record.
THEOREM AnswersAreHonest == Spec => []HonestAnswer
<1>1. ToldInv => HonestAnswer
  BY DEF ToldInv, ReadersAreTold, HonestAnswer, At
<1> QED BY <1>1, FlagIsTold, PTL

\* Whatever overlaps, fails, expires or is lost: while the flag is down a store lacks only
\* writes still to be marked and those whose flag was lost for a cause on record.
THEOREM LagsAreFlagged == Spec => []LagIsFlagged
<1>1. ToldInv => LagIsFlagged
  BY DEF ToldInv
<1> QED BY <1>1, FlagIsTold, PTL

=============================================================================
