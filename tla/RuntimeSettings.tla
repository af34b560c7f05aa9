---------------------------- MODULE RuntimeSettings ----------------------------
(***************************************************************************)
(* Run-time settings: one table in PostgreSQL, one snapshot of it in every *)
(* web process.  A write is validated against the snapshot of the process  *)
(* that got the request, stored, and told to all processes by NOTIFY; a    *)
(* process re-reads the whole table under its refresh lock, because of a   *)
(* notice, because the snapshot is over its time to live, or because it    *)
(* has just written.                                                       *)
(*                                                                         *)
(* The keys are the three thresholds that constrain each other.            *)
(***************************************************************************)
EXTENDS Naturals, FiniteSets

CONSTANTS Procs, Clients, Levels,
          None,          \* no actor, and: no row for this key
          Default,       \* the defaults of config.py
          Env,           \* keys set by the environment, with their values
          Puts,          \* the single changes clients may ask for
          Profiles,      \* the stored profiles
          Ops,           \* the requests clients issue
          Cuts,          \* processes whose listening connection may break
          MaxWrites, MaxFailures, MaxBacklog   \* bounds

Keys == {"synonym", "verdict", "dedup"}
Locked == DOMAIN Env
OpNames == {"set", "reset", "apply", "resetAll"}

ASSUME SettingsAssumption ==
  /\ Levels \subseteq Nat /\ None \notin Levels \cup Procs \cup Clients
  /\ Procs # {} /\ Procs \cap Clients = {}
  /\ Default \in [Keys -> Levels]
  /\ Locked \subseteq Keys /\ Env \in [Locked -> Levels]
  /\ Puts \subseteq Keys \X Levels
  /\ Profiles \subseteq [Keys -> Levels]
  /\ Ops \subseteq OpNames /\ Cuts \subseteq Procs
  /\ MaxWrites \in Nat /\ MaxFailures \in Nat /\ MaxBacklog \in Nat \ {0}

VARIABLES stored,    \* app_settings: the overriding rows
          ver,       \* history: how many writes were committed
          known,     \* what each process last read of the table
          seen,      \* history: the writes that read had seen
          aged,      \* processes whose snapshot is over its time to live
          news,      \* notices on their way to each process
          wired,     \* processes whose listening connection is up
          backlog,   \* background refreshes that are waiting for the lock
          lock,      \* who holds the refresh lock of each process
          failures,  \* reads that have failed
          pc, req,   \* where every actor is, what a client's request is about
          read       \* what a refresh has read and the writes it saw

table == <<stored, ver>>
snaps == <<known, seen, aged>>
wires == <<news, wired>>
vars == <<table, snaps, wires, backlog, lock, failures, pc, req, read>>

\* A process refreshes on its own account, a client in the course of its request
Actors == Procs \cup Clients

Rows == [Keys -> Levels \cup {None}]
Reads == [rows : Rows, ver : Nat]
\* keys: the rows that are changed to val (None: deleted); mine: the write it made
Requests == [proc : Procs, keys : SUBSET Keys, val : Rows, mine : Nat]
Places == {"idle", "write", "refresh", "select", "install", "answered"}

TypeOK == /\ stored \in Rows /\ ver \in Nat
          /\ known \in [Procs -> Rows] /\ seen \in [Procs -> Nat]
          /\ aged \subseteq Procs /\ wired \subseteq Procs
          /\ news \in [Procs -> Nat] /\ backlog \in [Procs -> Nat]
          /\ lock \in [Procs -> Actors \cup {None}]
          /\ failures \in 0..MaxFailures
          /\ pc \in [Actors -> Places]
          /\ req \in [Clients -> Requests]
          /\ read \in [Actors -> Reads]

Home(a) == IF a \in Procs THEN a ELSE req[a].proc

\* Defaults, overridden by the table, overridden by the environment
Effective(rows) == [k \in Keys |-> IF k \in Locked THEN Env[k]
                                   ELSE IF rows[k] # None THEN rows[k] ELSE Default[k]]

\* The levels are numbers on one scale
LinkerOK(e) == e["synonym"] < e["verdict"] /\ e["verdict"] <= e["dedup"]

\* The migration seeds the rows with the defaults
NoReads == [rows |-> Default, ver |-> 0]
NoRequest(p) == [proc |-> p, keys |-> {}, val |-> Default, mine |-> 0]
AnyProc == CHOOSE p \in Procs : TRUE

Init == /\ stored = Default /\ ver = 0
        /\ known = [p \in Procs |-> Default] /\ seen = [p \in Procs |-> 0]
        /\ aged = {} /\ failures = 0
        /\ news = [p \in Procs |-> 0] /\ backlog = [p \in Procs |-> 0]
        /\ wired \in {Procs \ D : D \in SUBSET Cuts}
        /\ lock = [p \in Procs |-> None]
        /\ pc = [a \in Actors |-> "idle"]
        /\ req = [c \in Clients |-> NoRequest(AnyProc)]
        /\ read = [a \in Actors |-> NoReads]

Goto(a, p) == pc' = [pc EXCEPT ![a] = p]

-----------------------------------------------------------------------------
(* Requests.                                                               *)

\* A request: the keys it changes and their new values
Change(p, K, v) == [proc |-> p, keys |-> K, val |-> v, mine |-> 0]
Same(v) == [k \in Keys |-> v]

Changed(rows, r) == [k \in Keys |-> IF k \in r.keys THEN r.val[k] ELSE rows[k]]

\* The thresholds are checked on the snapshot of the process, the change laid over it
Valid(r) == LinkerOK(Effective(Changed(known[r.proc], r)))

Pending == Cardinality({c \in Clients : pc[c] = "write"})

Ask(c, r) == /\ pc[c] = "idle" /\ ver + Pending < MaxWrites
             /\ req' = [req EXCEPT ![c] = r]
             /\ Goto(c, "write")
             /\ UNCHANGED <<table, snaps, wires, backlog, lock, failures, read>>

\* Whatever is refused (a locked key, a check that fails) changes nothing
Set(c) == \E p \in Procs, x \in Puts :
             LET r == Change(p, {x[1]}, Same(x[2]))
             IN  "set" \in Ops /\ x[1] \notin Locked /\ Valid(r) /\ Ask(c, r)

Apply(c) == \E p \in Procs, v \in Profiles :
               LET r == Change(p, Keys \ Locked, v)
               IN  "apply" \in Ops /\ Valid(r) /\ Ask(c, r)

\* Going back to the defaults is not checked
Reset(c) == \E p \in Procs, k \in Keys \ Locked :
               "reset" \in Ops /\ Ask(c, Change(p, {k}, Same(None)))

ResetAll(c) == \E p \in Procs :
                  /\ "resetAll" \in Ops
                  /\ Ask(c, Change(p, {k \in Keys \ Locked : stored[k] # None}, Same(None)))

\* The rows a request really writes: deleting a row that is not there is nothing
Touched(r) == {k \in r.keys : r.val[k] # None \/ stored[k] # None}

\* The transaction commits and the triggers of the rows it wrote notify the processes
\* that listen; the notices of one commit count as one
Write(c) == /\ pc[c] = "write"
            /\ stored' = Changed(stored, req[c])
            /\ IF Touched(req[c]) = {} THEN UNCHANGED <<ver, news>>
               ELSE /\ ver' = ver + 1
                    /\ news' = [p \in Procs |-> IF p \in wired THEN news[p] + 1 ELSE news[p]]
            /\ req' = [req EXCEPT ![c] = [NoRequest(@.proc) EXCEPT !.mine = ver']]
            /\ Goto(c, "refresh")
            /\ UNCHANGED <<snaps, wired, backlog, lock, failures, read>>

Forget(c) == Goto(c, "idle") /\ req' = [req EXCEPT ![c] = NoRequest(AnyProc)]

WriteFails(c) == /\ pc[c] = "write"
                 /\ Forget(c)
                 /\ UNCHANGED <<table, snaps, wires, backlog, lock, failures, read>>

Answer(c) == /\ pc[c] = "answered"
             /\ Forget(c)
             /\ UNCHANGED <<table, snaps, wires, backlog, lock, failures, read>>

-----------------------------------------------------------------------------
(* Refreshing: RuntimeConfig.refresh, by a background task or by a client. *)

Wants(a) == IF a \in Procs THEN pc[a] = "idle" /\ backlog[a] > 0 ELSE pc[a] = "refresh"

\* Variant: nobody waits for the lock
AcquireUnlocked(a) == /\ Wants(a)
                      /\ lock' = [lock EXCEPT ![Home(a)] = a]
                      /\ backlog' = IF a \in Procs THEN [backlog EXCEPT ![a] = @ - 1] ELSE backlog
                      /\ Goto(a, "select")
                      /\ UNCHANGED <<table, snaps, wires, failures, req, read>>

\* Variant: a request that finds a refresh under way relies on it
AcquireOrJoin(a) ==
  /\ Wants(a)
  /\ \/ /\ lock[Home(a)] = None
        /\ lock' = [lock EXCEPT ![Home(a)] = a] /\ Goto(a, "select")
        /\ backlog' = IF a \in Procs THEN [backlog EXCEPT ![a] = @ - 1] ELSE backlog
     \/ /\ lock[Home(a)] # None /\ a \in Clients
        /\ Goto(a, "answered") /\ UNCHANGED <<lock, backlog>>
  /\ UNCHANGED <<table, snaps, wires, failures, req, read>>

Acquire(a) == /\ Wants(a) /\ lock[Home(a)] = None
              /\ lock' = [lock EXCEPT ![Home(a)] = a]
              /\ backlog' = IF a \in Procs THEN [backlog EXCEPT ![a] = @ - 1] ELSE backlog
              /\ Goto(a, "select")
              /\ UNCHANGED <<table, snaps, wires, failures, req, read>>

Select(a) == /\ pc[a] = "select"
             /\ read' = [read EXCEPT ![a] = [rows |-> stored, ver |-> ver]]
             /\ Goto(a, "install")
             /\ UNCHANGED <<table, snaps, wires, backlog, lock, failures, req>>

\* A background refresh just ends, a request is answered
Release(a) == /\ lock' = [lock EXCEPT ![Home(a)] = None]
              /\ aged' = aged \ {Home(a)}
              /\ Goto(a, IF a \in Procs THEN "idle" ELSE "answered")

Install(a) == /\ pc[a] = "install"
              /\ known' = [known EXCEPT ![Home(a)] = read[a].rows]
              /\ seen' = [seen EXCEPT ![Home(a)] = read[a].ver]
              /\ Release(a)
              /\ read' = [read EXCEPT ![a] = NoReads]
              /\ UNCHANGED <<table, wires, backlog, failures, req>>

\* A failed read keeps the snapshot and its age starts anew; the request is
\* answered from the old one, which need not hold its write: it makes no claim
ReadFails(a) == /\ pc[a] = "select" /\ failures < MaxFailures
                /\ failures' = failures + 1
                /\ Release(a)
                /\ req' = IF a \in Clients THEN [req EXCEPT ![a] = NoRequest(@.proc)] ELSE req
                /\ UNCHANGED <<table, known, seen, wires, backlog, read>>

\* A refresh is only scheduled while none is running
Schedule(p) == backlog' = IF lock[p] = None THEN [backlog EXCEPT ![p] = @ + 1] ELSE backlog

Deliver(p) == /\ news[p] > 0 /\ backlog[p] < MaxBacklog
              /\ news' = [news EXCEPT ![p] = @ - 1]
              /\ Schedule(p)
              /\ UNCHANGED <<table, snaps, wired, lock, failures, pc, req, read>>

\* Variant: while the connection is up the age of the snapshot is not looked at
GetWhenCut(p) == /\ p \in aged /\ lock[p] = None /\ backlog[p] < MaxBacklog /\ p \notin wired
                 /\ Schedule(p)
                 /\ UNCHANGED <<table, snaps, wires, lock, failures, pc, req, read>>

\* A call of get that finds the snapshot too old
Get(p) == /\ p \in aged /\ lock[p] = None /\ backlog[p] < MaxBacklog
          /\ Schedule(p)
          /\ UNCHANGED <<table, snaps, wires, lock, failures, pc, req, read>>

-----------------------------------------------------------------------------
(* Time and connections.                                                   *)

Age(p) == /\ p \notin aged
          /\ aged' = aged \cup {p}
          /\ UNCHANGED <<table, known, seen, wires, backlog, lock, failures, pc, req, read>>

\* The connection breaks, and with it go the notices on their way
Cut(p) == /\ p \in Cuts \cap wired
          /\ wired' = wired \ {p} /\ news' = [news EXCEPT ![p] = 0]
          /\ UNCHANGED <<table, snaps, backlog, lock, failures, pc, req, read>>

\* Listening again, without a look at what was missed
Reconnect(p) == /\ p \notin wired
                /\ wired' = wired \cup {p}
                /\ UNCHANGED <<table, snaps, news, backlog, lock, failures, pc, req, read>>

Request(c) == Set(c) \/ Apply(c) \/ Reset(c) \/ ResetAll(c) \/ Write(c) \/ WriteFails(c) \/ Answer(c)
Refresh(a) == Acquire(a) \/ Select(a) \/ Install(a) \/ ReadFails(a)
Around(p) == Deliver(p) \/ Get(p) \/ Age(p) \/ Cut(p) \/ Reconnect(p)

Next == \/ \E c \in Clients : Request(c)
        \/ \E a \in Actors : Refresh(a)
        \/ \E p \in Procs : Around(p)

Spec == Init /\ [][Next]_vars

\* Time passes, settings are read again and again, and a refresh that has the lock
\* comes to its end
FairSpec == /\ Spec
            /\ \A p \in Procs : WF_vars(Age(p)) /\ WF_vars(Get(p))
            /\ \A a \in Actors : /\ WF_vars(Acquire(a)) /\ WF_vars(Select(a))
                                 /\ WF_vars(Install(a))

-----------------------------------------------------------------------------
(* Properties.                                                             *)

\* A snapshot is never replaced by an older one, although refreshes start on
\* several grounds at once (RuntimeConfig.refresh).
NeverGoesBack == [][\A p \in Procs : seen'[p] >= seen[p]]_vars

\* A request whose refresh did not fail is answered from a snapshot that holds its own
\* write, whatever other refreshes are under way (_after_write).
WriterSeesOwnWrite ==
  \A c \in Clients : pc[c] = "answered" => seen[req[c].proc] >= req[c].mine

\* Every process learns of every write in the end: lost notices, broken connections
\* and failed reads only delay it (the time to live in RuntimeConfig.get).
CatchesUp == \A v \in 1..MaxWrites : ver >= v ~> \A p \in Procs : seen[p] >= v

-----------------------------------------------------------------------------
(* The parts of the inductive invariant.                                   *)

Busy(a) == pc[a] \in {"select", "install"}

\* Whoever refreshes has the lock of its process
LockHeld == \A a \in Actors : Busy(a) => lock[Home(a)] = a

\* A read that is about to be installed is as new as the snapshot and the own write
ReadIsNewer ==
  \A a \in Actors :
     /\ pc[a] = "install" => read[a].ver >= seen[Home(a)]
     /\ pc[a] = "install" /\ a \in Clients => read[a].ver >= req[a].mine

\* Nothing is ahead of the table
TableIsNewest ==
  /\ \A p \in Procs : seen[p] <= ver
  /\ \A a \in Actors : read[a].ver <= ver
  /\ \A c \in Clients : req[c].mine <= ver
  /\ \A p \in Procs : pc[p] \in {"idle", "select", "install"}

IInv == /\ TypeOK /\ LockHeld /\ ReadIsNewer /\ TableIsNewest /\ WriterSeesOwnWrite
=============================================================================
