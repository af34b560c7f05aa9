----------------------------- MODULE ContextCache -----------------------------
(***************************************************************************)
(* The snapshot of one project ("the knowledge cloud"): rows of memories,  *)
(* the saved snapshot in project_contexts, its copy ctx:{slug} in Redis    *)
(* and the flag ctx:{slug}:dirty.  Writers raise the flag, readers take    *)
(* the copy, the table or a fresh computation, and an hourly task rebuilds *)
(* the projects whose flag is up.  Every Redis call may fail and is then   *)
(* ignored; both Redis keys expire.                                        *)
(*                                                                         *)
(* The content of a section is the number of writes it reflects.  Nothing  *)
(* in the code keeps rebuilds and writers apart, so the flag of a write    *)
(* may be lost; lapsed is the record of how.                               *)
(***************************************************************************)
EXTENDS Naturals

CONSTANTS Workers,       \* workers and web processes
          Sections,      \* namespaces that feed the snapshot
          MaxWrites,     \* bound: writes per section
          MaxFailures,   \* bound: failed Redis calls and lost workers
          Ops,           \* what callers ask for
          Expiring,      \* the Redis keys whose lifetime may run out
          None           \* no snapshot

OpNames == {"store", "retract", "forget", "get", "refresh", "beat"}
Writers == {"store", "retract", "forget"}

ASSUME ContextAssumption == /\ MaxWrites \in Nat /\ MaxFailures \in Nat
                            /\ Ops \subseteq OpNames
                            /\ Expiring \subseteq {"cache", "flag"}

VARIABLES memories,   \* committed writes per section
          table,      \* project_contexts
          cache,      \* ctx:{slug}
          flag,       \* ctx:{slug}:dirty
          failures,   \* Redis calls that have failed, and workers lost
          pc, job,
          lapsed      \* history: per section, the writes whose flag was lost, for one of
                      \* the causes that are told at each place where it changes

store == <<memories, table, cache, flag>>
vars == <<store, failures, pc, job, lapsed>>

Snapshots == [Sections -> 0..MaxWrites]
Nothing == [s \in Sections |-> 0]
Numbers == [Sections -> SUBSET (1..MaxWrites)]
NoNumbers == [s \in Sections |-> {}]
YesNo == {"yes", "no"}
Points == {"idle", "write", "mark", "retractMark", "retractWrite", "forgetWrite", "getCache",
           "getFlag", "getTable", "getTableFlag", "rebuildRead", "rebuildSave", "saveCache",
           "clearFlag", "beatCheck", "answered", "done"}

\* section: what a writer changes; wrote: the number of its write; todo: the sections
\* a rebuild has yet to read; snap, stale: the answer; since, owed: what was committed
\* when the request came, and which of it was still to be marked; passed: its look at
\* the flag failed, or came after the flag of its copy had been taken down
Jobs == [op : OpNames \cup {"none"}, section : Sections, todo : SUBSET Sections,
         snap : Snapshots, stale : YesNo, wrote : 0..MaxWrites, since : Snapshots,
         owed : Numbers, passed : YesNo]

TypeOK == /\ memories \in Snapshots
          /\ table \in Snapshots \cup {None}
          /\ cache \in Snapshots \cup {None}
          /\ flag \in {"up", "down"}
          /\ failures \in 0..MaxFailures
          /\ pc \in [Workers -> Points]
          /\ job \in [Workers -> Jobs]
          /\ lapsed \in Numbers

\* Writes that are committed and not marked yet, which is to come
Unmarked(w) == job[w].op = "store" /\ pc[w] \in {"write", "mark"} /\ job[w].wrote # 0
ToCome(s) == {job[w].wrote : w \in {v \in Workers : Unmarked(v) /\ job[v].section = s}}
\* Writes that a snapshot does not reflect
Missing(snap, s) == (snap[s] + 1)..memories[s]

\* Variant: refresh does not bypass the copy
StartOfCached(op) == CASE op = "store"   -> "write"
                       [] op = "retract" -> "retractMark"
                       [] op = "forget"  -> "forgetWrite"
                       [] op \in {"get", "refresh"} -> "getCache"
                       [] op = "beat"    -> "beatCheck"
                       [] OTHER          -> "idle"

StartOf(op) == CASE op = "store"   -> "write"
                 [] op = "retract" -> "retractMark"
                 [] op = "forget"  -> "forgetWrite"
                 [] op = "get"     -> "getCache"
                 [] op = "refresh" -> "rebuildRead"
                 [] op = "beat"    -> "beatCheck"
                 [] OTHER          -> "idle"

Request(op, s, since, owed) ==
  [op |-> op, section |-> s, todo |-> Sections, snap |-> Nothing, stale |-> "no",
   wrote |-> 0, since |-> since, owed |-> owed, passed |-> "no"]
NoRequest(s) == Request("none", s, Nothing, NoNumbers)

At(w, p) == pc[w] = p
Goto(w, p) == pc' = [pc EXCEPT ![w] = p]
Note(w, j) == job' = [job EXCEPT ![w] = j]
Answer(w) == IF job[w].op \in {"get", "refresh"} THEN "answered" ELSE "done"

\* A Redis call that raises: the caller goes on without it
RedisFails == failures < MaxFailures /\ failures' = failures + 1
RedisWorks == UNCHANGED failures

Init == /\ memories = Nothing
        /\ table = None /\ cache = None /\ flag = "down"
        /\ failures = 0
        /\ pc = [w \in Workers |-> "idle"]
        /\ job \in [Workers -> {NoRequest(s) : s \in Sections}]
        /\ lapsed = NoNumbers

-----------------------------------------------------------------------------
(* Writers.  store stands for update and create_version too: they write,   *)
(* then raise the flag; forget stands for delete too: they only write.     *)

\* A write for which no mark is to come lapses unless the flag is up
Lapses(s, n) == lapsed' = IF flag = "up" \/ n = 0 THEN lapsed ELSE [lapsed EXCEPT ![s] = @ \cup {n}]

Commit(w) == LET s == job[w].section
             IN  /\ job[w].wrote = 0 /\ memories[s] < MaxWrites
                 /\ memories' = [memories EXCEPT ![s] = @ + 1]
                 /\ Note(w, [job[w] EXCEPT !.wrote = memories[s] + 1])
                 /\ IF job[w].op = "store" THEN UNCHANGED lapsed ELSE Lapses(s, memories[s] + 1)
                 /\ UNCHANGED <<table, cache, flag, failures>>

\* A duplicate by meaning, a conflict, an unknown or already closed granule, an error.
\* A create_version that starts over finds the granule it has closed and marks nothing
Refused(w) == /\ pc[w] \in {"write", "retractWrite", "forgetWrite"}
              /\ Goto(w, "done") /\ UNCHANGED <<store, failures, job>>
              /\ IF At(w, "write") THEN Lapses(job[w].section, job[w].wrote) ELSE UNCHANGED lapsed

StoreWrite(w) == At(w, "write") /\ Commit(w) /\ Goto(w, "mark")

\* The same content again, its own after a restart or somebody else's: nothing is
\* written that a snapshot shows, and the flag is raised
StoreConfirm(w) == At(w, "write") /\ Goto(w, "mark") /\ UNCHANGED <<store, failures, job, lapsed>>

\* Variant: the flag is left alone
NoMark(w, p, next) == /\ At(w, p) /\ RedisWorks
                      /\ Goto(w, next) /\ UNCHANGED <<store, job, lapsed>>

\* _mark_context_dirty
Mark(w, p, next) == /\ At(w, p)
                    /\ \/ RedisWorks /\ flag' = "up" /\ UNCHANGED lapsed
                       \/ RedisFails /\ UNCHANGED flag /\ Lapses(job[w].section, job[w].wrote)
                    /\ Goto(w, next) /\ UNCHANGED <<memories, table, cache, job>>

StoreMark(w) == Mark(w, "mark", "done")
RetractMark(w) == Mark(w, "retractMark", "retractWrite")
RetractWrite(w) == At(w, "retractWrite") /\ Commit(w) /\ Goto(w, "done")
ForgetWrite(w) == At(w, "forgetWrite") /\ Commit(w) /\ Goto(w, "done")

-----------------------------------------------------------------------------
(* get_project_context without refresh.                                    *)

GetCache(w) ==
  /\ At(w, "getCache")
  /\ \/ /\ RedisWorks /\ cache # None
        /\ Note(w, [job[w] EXCEPT !.snap = cache])
        /\ Goto(w, "getFlag")
     \/ /\ (RedisWorks /\ cache = None) \/ RedisFails
        /\ Goto(w, "getTable") /\ UNCHANGED job
  /\ UNCHANGED <<store, lapsed>>

\* Variant: the answer counts as fresh
ReadFlagSkipped(w, p, next) ==
  /\ At(w, p) /\ RedisWorks
  /\ Note(w, [job[w] EXCEPT !.stale = "no"])
  /\ Goto(w, next) /\ UNCHANGED <<store, lapsed>>

ReadFlag(w, p, next) ==
  /\ At(w, p)
  /\ \/ /\ RedisWorks
        /\ Note(w, [job[w] EXCEPT !.stale = IF flag = "up" THEN "yes" ELSE "no"])
     \/ RedisFails /\ Note(w, [job[w] EXCEPT !.stale = "no", !.passed = "yes"])
  /\ Goto(w, next) /\ UNCHANGED <<store, lapsed>>

GetFlag(w) == ReadFlag(w, "getFlag", "answered")

GetTable(w) ==
  /\ At(w, "getTable")
  /\ \/ table = None /\ Goto(w, "rebuildRead") /\ UNCHANGED job
     \/ table # None /\ Goto(w, "getTableFlag") /\ Note(w, [job[w] EXCEPT !.snap = table])
  /\ UNCHANGED <<store, failures, lapsed>>

\* The copy is written back together with the flag that has just been read
GetTableFlag(w) == ReadFlag(w, "getTableFlag", "saveCache")

-----------------------------------------------------------------------------
(* _rebuild_context and _cache_context.                                    *)

RebuildRead(w) ==
  /\ At(w, "rebuildRead")
  /\ \/ /\ job[w].todo = {} /\ Goto(w, "rebuildSave") /\ UNCHANGED job
     \/ \E s \in job[w].todo :
          /\ Note(w, [job[w] EXCEPT !.snap[s] = memories[s], !.todo = @ \ {s}])
          /\ UNCHANGED pc
  /\ UNCHANGED <<store, failures, lapsed>>

\* A snapshot is stored while the flag is down, or while another process is on its way to
\* take it down: nothing will tell what it misses
Overtakes(w) ==
  lapsed' = [s \in Sections |->
    lapsed[s] \cup IF \E v \in Workers \ {w} : pc[v] \in {"getTableFlag", "saveCache", "clearFlag"}
                   THEN Missing(job[w].snap, s)
                   ELSE IF flag = "down" THEN Missing(job[w].snap, s) \ ToCome(s) ELSE {}]

RebuildSave(w) == /\ At(w, "rebuildSave")
                  /\ table' = job[w].snap /\ Overtakes(w)
                  /\ Goto(w, "saveCache")
                  /\ UNCHANGED <<memories, cache, flag, failures, job>>

SaveCache(w) == /\ At(w, "saveCache")
                /\ \/ RedisWorks /\ cache' = job[w].snap /\ Overtakes(w) /\ Goto(w, "clearFlag")
                   \/ RedisFails /\ UNCHANGED <<cache, lapsed>> /\ Goto(w, Answer(w))
                /\ UNCHANGED <<memories, table, flag, job>>

\* Readers that have their copy and have not looked at the flag
Passed(v) == IF flag = "up" /\ pc[v] \in {"getFlag", "getTableFlag"}
             THEN [job[v] EXCEPT !.passed = "yes"] ELSE job[v]

\* The flag of what this process has not read is taken down as well
ClearFlag(w) == /\ At(w, "clearFlag")
                /\ \/ /\ RedisWorks /\ flag' = "down" /\ job' = [v \in Workers |-> Passed(v)]
                      /\ lapsed' = [s \in Sections |->
                                      lapsed[s] \cup (Missing(job[w].snap, s) \ ToCome(s))]
                   \/ RedisFails /\ UNCHANGED <<flag, job, lapsed>>
                /\ Goto(w, Answer(w)) /\ UNCHANGED <<memories, table, cache>>

\* Variant: nothing is rebuilt
BeatCheckIdle(w) == /\ At(w, "beatCheck") /\ RedisWorks
                    /\ Goto(w, "done") /\ UNCHANGED <<store, job, lapsed>>

\* rebuild_dirty_contexts: a flag that cannot be read counts as down
BeatCheck(w) == /\ At(w, "beatCheck")
                /\ \/ RedisWorks /\ Goto(w, IF flag = "up" THEN "rebuildRead" ELSE "done")
                   \/ RedisFails /\ Goto(w, "done")
                /\ UNCHANGED <<store, job, lapsed>>

-----------------------------------------------------------------------------
(* Requests, lost workers and expiring keys.                               *)

\* What was there, and what was still to be marked, matters for an answer
Submit(w, op) == /\ At(w, "idle")
                 /\ \E s \in Sections :
                      Note(w, IF op \in {"get", "refresh"}
                              THEN Request(op, s, memories, [u \in Sections |-> ToCome(u)])
                              ELSE Request(op, s, Nothing, NoNumbers))
                 /\ Goto(w, StartOf(op)) /\ UNCHANGED <<store, failures, lapsed>>

Finish(w) == /\ pc[w] \in {"answered", "done"}
             /\ Goto(w, "idle") /\ Note(w, NoRequest(job[w].section))
             /\ UNCHANGED <<store, failures, lapsed>>

\* acks_late: a lost worker's task starts over
Restarted(j) == [j EXCEPT !.todo = Sections, !.snap = Nothing, !.stale = "no", !.passed = "no"]
Lose(w) == /\ pc[w] \notin {"idle", "answered", "done"}
           /\ failures < MaxFailures /\ failures' = failures + 1
           /\ Note(w, Restarted(job[w]))
           /\ Goto(w, StartOf(job[w].op)) /\ UNCHANGED <<store, lapsed>>

CacheExpires == /\ "cache" \in Expiring /\ cache # None /\ cache' = None
                /\ UNCHANGED <<memories, table, flag, failures, pc, job, lapsed>>

\* The flag lives for an hour after the last mark, whether a rebuild has come or not
FlagExpires ==
  /\ "flag" \in Expiring /\ flag = "up" /\ flag' = "down"
  /\ job' = [v \in Workers |-> Passed(v)]
  /\ lapsed' = [s \in Sections |->
       lapsed[s] \cup ((UNION {Missing(c, s) : c \in {table, cache} \ {None}}) \ ToCome(s))]
  /\ UNCHANGED <<memories, table, cache, failures, pc>>

Write(w) == \/ Refused(w) \/ StoreWrite(w) \/ StoreConfirm(w) \/ StoreMark(w)
            \/ RetractMark(w) \/ RetractWrite(w) \/ ForgetWrite(w)
Get(w) == GetCache(w) \/ GetFlag(w) \/ GetTable(w) \/ GetTableFlag(w)
Rebuild(w) == RebuildRead(w) \/ RebuildSave(w) \/ SaveCache(w) \/ ClearFlag(w) \/ BeatCheck(w)
Move(w) == Write(w) \/ Get(w) \/ Rebuild(w) \/ Finish(w)

Next == \/ \E w \in Workers : Move(w) \/ Lose(w) \/ \E op \in Ops : Submit(w, op)
        \/ CacheExpires \/ FlagExpires

Spec == Init /\ [][Next]_vars

\* Tasks that are taken run to their end, and the hourly message is delivered
\* again and again whatever else the workers do.
FairSpec == /\ Spec
            /\ \A w \in Workers : WF_vars(Move(w))
            /\ SF_vars(\E w \in Workers : Submit(w, "beat"))

-----------------------------------------------------------------------------
(* Properties.                                                             *)

Covers(a, b) == \A s \in Sections : a[s] >= b[s]
\* A computed answer reflects every write committed before it was asked for,
\* however rebuilds, failures and redeliveries overlap (get_project_context with
\* refresh, and the miss of both stores).
RefreshIsFresh ==
  \A w \in Workers : At(w, "answered") /\ job[w].op = "refresh" => Covers(job[w].snap, job[w].since)

\* Writes a snapshot does not reflect although they were over when it was asked for
Overdue(j, s) == (j.snap[s] + 1)..j.since[s] \ j.owed[s]

\* An answer that is not marked stale reflects every write that was committed and marked
\* when it was asked for, but for those whose flag was lost for a cause on record, and but
\* for a reader whose look at the flag failed or came after another had taken it down
\* (ProjectContext.stale in models.py).
HonestAnswer ==
  \A w \in Workers : /\ At(w, "answered") /\ job[w].op = "get"
                     /\ job[w].stale = "no" /\ job[w].passed = "no"
                     => \A s \in Sections : Overdue(job[w], s) \subseteq lapsed[s]

\* While the flag is down both stores reflect every write, but for those that are still to be
\* marked and those whose flag was lost: no mark was to come or it failed, it ran out, or
\* a process that had not read the write took it down or stored its snapshot late
\* (the comment on the Redis keys in service.py, _cache_context).
LagIsFlagged ==
  flag = "down" => \A c \in {table, cache} \ {None}, s \in Sections : Missing(c, s) \subseteq ToCome(s) \cup lapsed[s]

\* A raised flag is taken down again: the hourly task never leaves a project it
\* was told about (rebuild_dirty_contexts).
FlagIsServed == flag = "up" ~> flag = "down"

-----------------------------------------------------------------------------
(* Why a computed answer is fresh: the parts of the inductive invariant.   *)

\* What was committed when a request came stays committed
RequestsArePast == \A w \in Workers : Covers(memories, job[w].since)

\* A refresh takes no shortcut, and what it has read is no older than the request
ReadsAreFresh ==
  \A w \in Workers : job[w].op = "refresh" /\ pc[w] # "idle" =>
     /\ pc[w] \in {"rebuildRead", "rebuildSave", "saveCache", "clearFlag", "answered"}
     /\ pc[w] # "rebuildRead" => job[w].todo = {}
     /\ \A s \in Sections : s \in job[w].todo \/ job[w].snap[s] >= job[w].since[s]

IInv == TypeOK /\ RequestsArePast /\ ReadsAreFresh

-----------------------------------------------------------------------------
(* Why readers are told: the parts of the inductive invariant.             *)

\* Nothing is read or stored that is not there
ReadsArePast == /\ \A w \in Workers : Covers(memories, job[w].snap)
                /\ \A c \in {table, cache} \ {None} : Covers(memories, c)

\* A store stays with its write and its mark, and a reader never asks for the flag alone
TasksApart ==
  \A w \in Workers : /\ job[w].op = "store" => pc[w] \in {"write", "mark", "done", "idle"}
                     /\ job[w].op = "get" => pc[w] # "beatCheck"

\* Who is about to take the flag down has itself read what is in the stores, or what it
\* has not is on record
NothingHidden ==
  \A w \in Workers, s \in Sections :
    /\ pc[w] \in {"getTableFlag", "saveCache", "clearFlag"} /\ table # None =>
         Missing(table, s) \subseteq Missing(job[w].snap, s) \cup lapsed[s]
    /\ pc[w] = "clearFlag" /\ cache # None => Missing(cache, s) \subseteq Missing(job[w].snap, s) \cup lapsed[s]

\* A mark that is to come belongs to a write after the request, or the request knows of it
OwedIsKnown ==
  \A v, w \in Workers : Unmarked(v) =>
    LET s == job[v].section
    IN  job[v].wrote > job[w].since[s] \/ job[v].wrote \in job[w].owed[s]

\* A reader that computes has read no less than was there; one that has a copy will see
\* the flag of what it misses, or has seen it
ReadersAreTold ==
  \A w \in Workers : job[w].op = "get" =>
    /\ pc[w] \in {"getCache", "getTable", "rebuildRead", "rebuildSave"} =>
         \A s \in Sections : s \in job[w].todo \/ job[w].snap[s] >= job[w].since[s]
    /\ pc[w] = "rebuildSave" => job[w].todo = {}
    /\ pc[w] \in {"getFlag", "getTableFlag"} /\ job[w].passed = "no" /\ flag = "down" =>
         \A s \in Sections : Overdue(job[w], s) \subseteq lapsed[s]
    /\ pc[w] \in {"saveCache", "clearFlag", "answered"} /\ job[w].passed = "no" /\ job[w].stale = "no" =>
         \A s \in Sections : Overdue(job[w], s) \subseteq lapsed[s]

ToldInv == /\ IInv /\ ReadsArePast /\ TasksApart
           /\ NothingHidden /\ OwedIsKnown /\ ReadersAreTold /\ LagIsFlagged
=============================================================================
