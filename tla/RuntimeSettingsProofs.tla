------------------------- MODULE RuntimeSettingsProofs -------------------------
(***************************************************************************)
(* Proofs about RuntimeSettings: for any number of processes, clients,     *)
(* levels, failures and writes, a snapshot never goes back and a request   *)
(* is answered from a snapshot that holds its own write.                   *)
(*                                                                         *)
(* Both rest on the refresh lock: whoever refreshes holds the lock of its  *)
(* process, so that nobody installs anything between a read and its        *)
(* installation.                                                           *)
(***************************************************************************)
EXTENDS RuntimeSettings, TLAPS

\* The request without content is one, of any process.
LEMMA EmptyRequest ==
  ASSUME NEW p \in Procs
  PROVE  /\ NoRequest(p) \in Requests /\ NoRequest(p).proc = p
         /\ NoRequest(p).mine = 0
BY SettingsAssumption DEF NoRequest, Requests, Rows

\* There is a process to speak of.
LEMMA SomeProc == AnyProc \in Procs
BY SettingsAssumption DEF AnyProc

\* A change of any keys to any values is a request that has written nothing yet.
LEMMA ChangeType ==
  ASSUME NEW p \in Procs, NEW K \in SUBSET Keys, NEW v \in Rows
  PROVE  Change(p, K, v) \in Requests /\ Change(p, K, v).mine = 0
BY DEF Change, Requests

\* Laying a change over rows gives rows.
LEMMA ChangedRows ==
  ASSUME NEW rows \in Rows, NEW r \in Requests
  PROVE  Changed(rows, r) \in Rows
BY DEF Changed, Rows, Requests

\* Every actor works for one process.
LEMMA HomeType ==
  ASSUME TypeOK, NEW a \in Actors
  PROVE  Home(a) \in Procs
BY DEF TypeOK, Home, Actors, Requests

-----------------------------------------------------------------------------
(* The invariant.                                                          *)

\* It holds at the start.
LEMMA InitInv == Init => IInv
<1> SUFFICES ASSUME Init PROVE IInv
  OBVIOUS
<1>1. \A c \in Clients : req[c] \in Requests /\ req[c].mine = 0
  BY SomeProc, EmptyRequest DEF Init
<1>2. Default \in Rows /\ \A a \in Actors : read[a] \in Reads /\ read[a].ver = 0
  BY SettingsAssumption DEF Init, NoReads, Reads, Rows
<1>3. req \in [Clients -> Requests] /\ read \in [Actors -> Reads]
  BY <1>1, <1>2 DEF Init
<1>4. TypeOK
  BY <1>2, <1>3, SettingsAssumption DEF Init, TypeOK, Places, Actors
<1>5. \A a \in Actors : pc[a] = "idle"
  BY DEF Init
<1>6. TableIsNewest
  BY <1>1, <1>2, <1>5 DEF Init, TableIsNewest, Actors
<1> QED BY <1>4, <1>5, <1>6 DEF IInv, LockHeld, ReadIsNewer, WriterSeesOwnWrite, Busy, Actors

\* A step of a client that neither holds the lock nor gets an answer: it replaces its
\* request and moves on, and may let the table grow.
LEMMA ClientStep ==
  ASSUME IInv, NEW c \in Clients, NEW r \in Requests, NEW p \in {"idle", "write", "refresh"},
         ~Busy(c), req' = [req EXCEPT ![c] = r], Goto(c, p),
         stored' \in Rows, ver' \in Nat, ver' >= ver, r.mine <= ver',
         news' \in [Procs -> Nat],
         UNCHANGED <<snaps, wired, backlog, lock, failures, read>>
  PROVE  IInv'
<1> USE SettingsAssumption
<1>1. TypeOK'
  BY DEF IInv, TypeOK, Goto, Places, snaps, Actors
<1>2. \A a \in Actors : a # c => pc'[a] = pc[a] /\ Home(a)' = Home(a)
  BY DEF IInv, TypeOK, Goto, Home, Actors
<1>3. pc'[c] = p /\ c \in Actors /\ ~Busy(c)'
  BY DEF IInv, TypeOK, Goto, Busy, Actors
<1>4. LockHeld'
  BY <1>2, <1>3 DEF IInv, LockHeld, Busy
<1>5. ReadIsNewer'
  BY <1>2, <1>3 DEF IInv, TypeOK, ReadIsNewer, snaps
<1>6. TableIsNewest'
  <2>1. \A d \in Clients : req'[d].mine <= ver'
    BY <1>1 DEF IInv, TypeOK, TableIsNewest, Requests
  <2>2. \A q \in Procs : seen'[q] <= ver' /\ pc'[q] = pc[q]
    BY <1>2 DEF IInv, TypeOK, TableIsNewest, snaps, Actors
  <2>3. \A a \in Actors : read'[a].ver <= ver'
    BY DEF IInv, TypeOK, TableIsNewest, Reads
  <2> QED BY <2>1, <2>2, <2>3 DEF IInv, TableIsNewest
<1>7. WriterSeesOwnWrite'
  BY <1>2, <1>3 DEF IInv, TypeOK, WriterSeesOwnWrite, snaps, Actors
<1> QED BY <1>1, <1>4, <1>5, <1>6, <1>7 DEF IInv

\* A step that changes nothing but notices, connections, ages and waiting refreshes.
LEMMA AroundStep ==
  ASSUME IInv, NEW p \in Procs, Around(p) \/ UNCHANGED vars
  PROVE  IInv' /\ seen' = seen
<1>1. /\ UNCHANGED <<stored, ver, known, seen, lock, failures, pc, req, read>>
  BY DEF Around, Deliver, Get, Age, Cut, Reconnect, table, snaps, wires, vars
<1>2. /\ aged' \subseteq Procs /\ wired' \subseteq Procs
      /\ news' \in [Procs -> Nat] /\ backlog' \in [Procs -> Nat]
  BY DEF Around, Deliver, Get, Age, Cut, Reconnect, Schedule, table, snaps, wires, vars,
         IInv, TypeOK
<1>3. TypeOK'
  BY <1>1, <1>2 DEF IInv, TypeOK
<1>4. \A a \in Actors : Home(a)' = Home(a)
  BY <1>1 DEF Home
<1> QED BY <1>1, <1>3, <1>4 DEF IInv, LockHeld, ReadIsNewer, TableIsNewest,
                               WriterSeesOwnWrite, Busy

\* Who takes the lock has seen nobody else refresh the same process.
LEMMA AcquireStep ==
  ASSUME IInv, NEW a \in Actors, Acquire(a)
  PROVE  IInv' /\ seen' = seen
<1> USE SettingsAssumption
<1>1. Home(a) \in Procs /\ pc'[a] = "select" /\ lock[Home(a)] = None
  BY HomeType DEF IInv, TypeOK, Acquire, Goto
<1>2. backlog' \in [Procs -> Nat]
  BY DEF IInv, TypeOK, Acquire, Wants, Actors
<1>3. TypeOK'
  BY <1>1, <1>2 DEF IInv, TypeOK, Acquire, Goto, Places, table, snaps, wires
<1>4. \A b \in Actors : /\ Home(b)' = Home(b)
                        /\ b # a => pc'[b] = pc[b]
  BY DEF IInv, TypeOK, Acquire, Goto, Home
<1>5. LockHeld'
  <2> SUFFICES ASSUME NEW b \in Actors, Busy(b)' PROVE lock'[Home(b)] = b
    BY <1>4 DEF LockHeld
  <2>1. CASE b = a
    BY <1>1, <2>1 DEF IInv, TypeOK, Acquire
  <2>2. CASE b # a
    <3>1. lock[Home(b)] = b /\ b # None
      BY <1>4, <2>2 DEF IInv, LockHeld, Busy, Actors
    <3>2. Home(b) # Home(a)
      BY <1>1, <3>1
    <3> QED BY <1>1, <3>1, <3>2 DEF IInv, TypeOK, Acquire
  <2> QED BY <2>1, <2>2
<1>6. ReadIsNewer'
  BY <1>1, <1>4 DEF IInv, ReadIsNewer, Acquire, snaps
<1>7. TableIsNewest' /\ WriterSeesOwnWrite'
  BY <1>1, <1>4 DEF IInv, TableIsNewest, WriterSeesOwnWrite, Acquire, snaps, table, Actors
<1> QED BY <1>3, <1>5, <1>6, <1>7 DEF IInv, Acquire, snaps

\* What is read is as new as the table, so as new as everything else.
LEMMA SelectStep ==
  ASSUME IInv, NEW a \in Actors, Select(a)
  PROVE  IInv' /\ seen' = seen
<1> USE SettingsAssumption
<1>1. read'[a].ver = ver /\ read' \in [Actors -> Reads]
  BY DEF IInv, TypeOK, Select, Reads
<1>2. /\ pc'[a] = "install" /\ pc[a] = "select"
      /\ \A b \in Actors : /\ Home(b)' = Home(b)
                           /\ b # a => pc'[b] = pc[b] /\ read'[b] = read[b]
  BY DEF IInv, TypeOK, Select, Goto, Home
<1>3. TypeOK'
  BY <1>1 DEF IInv, TypeOK, Select, Goto, Places, table, snaps, wires
<1>4. LockHeld'
  BY <1>2 DEF IInv, LockHeld, Select, Busy
<1>5. ver \in Nat /\ \A c \in Clients : req[c].mine <= ver
  BY DEF IInv, TypeOK, TableIsNewest
<1>6. ReadIsNewer'
  <2>1. seen[Home(a)] <= ver
    BY HomeType DEF IInv, TableIsNewest
  <2> QED BY <1>1, <1>2, <1>5, <2>1 DEF IInv, TypeOK, ReadIsNewer, Requests, Select, snaps
<1>7. TableIsNewest'
  <2>1. \A b \in Actors : read'[b].ver <= ver
    BY <1>1, <1>2, <1>5 DEF IInv, TableIsNewest
  <2> QED BY <1>2, <2>1 DEF IInv, TableIsNewest, Select, table, snaps, Actors
<1>8. WriterSeesOwnWrite'
  BY <1>2 DEF IInv, WriterSeesOwnWrite, Select, snaps, Actors
<1> QED BY <1>3, <1>4, <1>6, <1>7, <1>8 DEF IInv, Select, snaps

\* Whoever lets go of the lock was the only one to refresh its process.
LEMMA ReleaseStep ==
  ASSUME IInv, NEW a \in Actors, Busy(a), Release(a),
         \A b \in Actors : Home(b)' = Home(b)
  PROVE  /\ lock' \in [Procs -> Actors \cup {None}] /\ aged' \subseteq Procs
         /\ pc' \in [Actors -> Places]
         /\ pc'[a] = IF a \in Procs THEN "idle" ELSE "answered"
         /\ \A b \in Actors \ {a} : /\ pc'[b] = pc[b]
                                    /\ Busy(b) => Home(b) # Home(a)
         /\ LockHeld'
<1> USE SettingsAssumption
<1>1. lock[Home(a)] = a /\ Home(a) \in Procs
  BY HomeType DEF IInv, LockHeld
<1>2. \A b \in Actors \ {a} : pc'[b] = pc[b] /\ (Busy(b) => Home(b) # Home(a))
  BY <1>1 DEF IInv, TypeOK, LockHeld, Release, Goto
<1>3. pc'[a] = (IF a \in Procs THEN "idle" ELSE "answered") /\ ~Busy(a)'
  BY DEF IInv, TypeOK, Release, Goto, Busy
<1>4. LockHeld'
  <2> SUFFICES ASSUME NEW b \in Actors, Busy(b)' PROVE lock'[Home(b)] = b
    BY DEF LockHeld
  <2>1. b # a /\ Busy(b) /\ Home(b) # Home(a)
    BY <1>2, <1>3 DEF Busy
  <2>2. lock[Home(b)] = b /\ Home(b) \in Procs
    BY <2>1, HomeType DEF IInv, LockHeld
  <2> QED BY <2>1, <2>2 DEF IInv, TypeOK, Release
<1>5. /\ lock' \in [Procs -> Actors \cup {None}] /\ aged' \subseteq Procs
      /\ pc' \in [Actors -> Places]
  BY DEF IInv, TypeOK, Release, Goto, Places
<1> QED BY <1>2, <1>3, <1>4, <1>5

\* Only the holder of the lock installs, and what it has read is no older than the
\* snapshot it replaces.
LEMMA InstallStep ==
  ASSUME IInv, NEW a \in Actors, Install(a)
  PROVE  IInv' /\ \A p \in Procs : seen'[p] >= seen[p]
<1> USE SettingsAssumption
<1>1. Home(a) \in Procs /\ Busy(a) /\ Release(a)
  BY HomeType DEF IInv, Install, Busy
<1>2. \A b \in Actors : Home(b)' = Home(b)
  BY DEF Install, Home
<1>3. /\ lock' \in [Procs -> Actors \cup {None}] /\ aged' \subseteq Procs
      /\ pc' \in [Actors -> Places]
      /\ pc'[a] = IF a \in Procs THEN "idle" ELSE "answered"
      /\ \A b \in Actors \ {a} : pc'[b] = pc[b] /\ (Busy(b) => Home(b) # Home(a))
      /\ LockHeld'
  BY <1>1, <1>2, ReleaseStep
<1>4. /\ read[a] \in Reads /\ NoReads \in Reads /\ NoReads.ver = 0
      /\ read[a].ver \in Nat /\ read[a].ver <= ver /\ read[a].ver >= seen[Home(a)]
      /\ a \in Clients => read[a].ver >= req[a].mine
  BY DEF IInv, TypeOK, TableIsNewest, ReadIsNewer, Install, Reads, NoReads, Rows
<1>5. TypeOK'
  BY <1>1, <1>3, <1>4 DEF IInv, TypeOK, Install, table, wires, Reads
<1>6. \A p \in Procs : seen'[p] = IF p = Home(a) THEN read[a].ver ELSE seen[p]
  BY DEF IInv, TypeOK, Install
<1>7. \A b \in Actors : read'[b] = IF b = a THEN NoReads ELSE read[b]
  BY DEF IInv, TypeOK, Install
<1>8. ReadIsNewer'
  <2> SUFFICES ASSUME NEW b \in Actors, pc'[b] = "install"
               PROVE  /\ read'[b].ver >= seen'[Home(b)]
                      /\ b \in Clients => read'[b].ver >= req[b].mine
    BY <1>2 DEF ReadIsNewer, Install
  <2>1. b # a /\ pc[b] = "install" /\ Home(b) # Home(a) /\ Home(b) \in Procs
    BY <1>3, HomeType DEF IInv, Busy
  <2> QED BY <1>6, <1>7, <2>1 DEF IInv, ReadIsNewer
<1>9. TableIsNewest'
  <2>1. /\ \A p \in Procs : seen'[p] <= ver
        /\ \A b \in Actors : read'[b].ver <= ver
    BY <1>4, <1>6, <1>7 DEF IInv, TypeOK, TableIsNewest
  <2> QED BY <1>3, <2>1 DEF IInv, TableIsNewest, Install, table, Actors
<1>10. WriterSeesOwnWrite'
  <2> SUFFICES ASSUME NEW c \in Clients, pc'[c] = "answered"
               PROVE  seen'[req[c].proc] >= req[c].mine
    BY DEF WriterSeesOwnWrite, Install
  <2>0. c \in Actors /\ Home(c) = req[c].proc /\ Home(c) \in Procs
        /\ seen[Home(c)] \in Nat /\ req[c].mine \in Nat
    BY HomeType DEF IInv, TypeOK, Actors, Home, Requests
  <2>1. CASE c = a
    BY <1>4, <1>6, <2>0, <2>1
  <2>2. CASE c # a
    <3>1. seen[Home(c)] >= req[c].mine
      BY <1>3, <2>0, <2>2 DEF IInv, WriterSeesOwnWrite
    <3> QED BY <1>4, <1>6, <2>0, <3>1 DEF IInv, TypeOK
  <2> QED BY <2>1, <2>2
<1>11. \A p \in Procs : seen'[p] >= seen[p]
  BY <1>4, <1>6 DEF IInv, TypeOK
<1> QED BY <1>3, <1>5, <1>8, <1>9, <1>10, <1>11 DEF IInv

\* A failed read lets go of the lock and installs nothing.
LEMMA ReadFailsStep ==
  ASSUME IInv, NEW a \in Actors, ReadFails(a)
  PROVE  IInv' /\ seen' = seen
<1> USE SettingsAssumption
<1>1. Busy(a) /\ Release(a) /\ Home(a) \in Procs
  BY HomeType DEF IInv, ReadFails, Busy
<1>2. /\ req' \in [Clients -> Requests]
      /\ \A c \in Clients : /\ req'[c].proc = req[c].proc
                            /\ c # a => req'[c] = req[c]
                            /\ c = a => req'[c].mine = 0
      /\ \A b \in Actors : Home(b)' = Home(b)
  <2>1. \A c \in Clients : /\ req'[c] = IF c = a THEN NoRequest(req[c].proc) ELSE req[c]
                           /\ req[c].proc \in Procs
    BY DEF IInv, TypeOK, ReadFails, Requests
  <2>2. \A c \in Clients : req'[c] \in Requests /\ req'[c].proc = req[c].proc
    BY <2>1, EmptyRequest DEF IInv, TypeOK
  <2>3. req' \in [Clients -> Requests]
    BY <2>2 DEF IInv, TypeOK, ReadFails
  <2> QED BY <2>1, <2>2, <2>3, EmptyRequest DEF Home, Actors
<1>3. /\ lock' \in [Procs -> Actors \cup {None}] /\ aged' \subseteq Procs
      /\ pc' \in [Actors -> Places]
      /\ pc'[a] = IF a \in Procs THEN "idle" ELSE "answered"
      /\ \A b \in Actors \ {a} : pc'[b] = pc[b] /\ (Busy(b) => Home(b) # Home(a))
      /\ LockHeld'
  BY <1>1, <1>2, ReleaseStep
<1>4. failures' \in 0..MaxFailures
  BY DEF IInv, TypeOK, ReadFails
<1>5. TypeOK'
  BY <1>2, <1>3, <1>4 DEF IInv, TypeOK, ReadFails, table, wires
<1>6. ReadIsNewer'
  <2> SUFFICES ASSUME NEW b \in Actors, pc'[b] = "install"
               PROVE  /\ read[b].ver >= seen[Home(b)]
                      /\ b \in Clients => read[b].ver >= req'[b].mine
    BY <1>2 DEF ReadIsNewer, ReadFails
  <2>1. b # a /\ pc[b] = "install"
    BY <1>3
  <2> QED BY <1>2, <2>1 DEF IInv, ReadIsNewer
<1>7. TableIsNewest'
  <2>1. \A c \in Clients : req'[c].mine <= ver
    BY <1>2 DEF IInv, TypeOK, TableIsNewest
  <2> QED BY <1>3, <2>1 DEF IInv, TableIsNewest, ReadFails, table, Actors
<1>8. WriterSeesOwnWrite'
  <2> SUFFICES ASSUME NEW c \in Clients, pc'[c] = "answered"
               PROVE  seen[req'[c].proc] >= req'[c].mine
    BY DEF WriterSeesOwnWrite, ReadFails
  <2>1. c \in Actors /\ seen[req[c].proc] \in Nat
    BY DEF IInv, TypeOK, Actors, Requests
  <2> QED BY <1>2, <1>3, <2>1 DEF IInv, WriterSeesOwnWrite
<1> QED BY <1>3, <1>5, <1>6, <1>7, <1>8 DEF IInv, ReadFails

\* A client's own steps are client steps in the sense above.
LEMMA RequestStep ==
  ASSUME IInv, NEW c \in Clients, Request(c)
  PROVE  IInv' /\ seen' = seen
<1> USE SettingsAssumption
<1>0. stored \in Rows /\ ver \in Nat /\ req[c] \in Requests /\ news \in [Procs -> Nat]
  BY DEF IInv, TypeOK
<1>a. ASSUME NEW p \in Procs, NEW K \in SUBSET Keys, NEW v \in Rows, Ask(c, Change(p, K, v))
      PROVE  IInv' /\ seen' = seen
  <2>1. Change(p, K, v) \in Requests /\ Change(p, K, v).mine = 0
    BY ChangeType
  <2> DEFINE r == Change(p, K, v)
  <2>2. /\ ~Busy(c) /\ req' = [req EXCEPT ![c] = r] /\ Goto(c, "write")
        /\ UNCHANGED <<snaps, wired, backlog, lock, failures, read>>
    BY <1>a DEF Ask, Busy, wires
  <2>3. /\ stored' \in Rows /\ ver' \in Nat /\ ver' >= ver /\ r.mine <= ver'
        /\ news' \in [Procs -> Nat] /\ seen' = seen
    BY <1>0, <1>a, <2>1 DEF Ask, table, wires, snaps
  <2> HIDE DEF r
  <2>4. r \in Requests
    BY <2>1 DEF r
  <2> QED BY <2>2, <2>3, <2>4, ClientStep
<1>1. CASE Set(c)
  <2>1. PICK p \in Procs, x \in Puts : Ask(c, Change(p, {x[1]}, Same(x[2])))
    BY <1>1 DEF Set
  <2>2. {x[1]} \in SUBSET Keys /\ Same(x[2]) \in Rows
    BY DEF Same, Rows
  <2> QED BY <1>a, <2>1, <2>2
<1>2. CASE Apply(c)
  <2>1. PICK p \in Procs, v \in Profiles : Ask(c, Change(p, Keys \ Locked, v))
    BY <1>2 DEF Apply
  <2>2. v \in Rows
    BY DEF Rows
  <2> QED BY <1>a, <2>1, <2>2
<1>3. CASE Reset(c)
  <2>1. PICK p \in Procs, k \in Keys \ Locked : Ask(c, Change(p, {k}, Same(None)))
    BY <1>3 DEF Reset
  <2>2. Same(None) \in Rows
    BY DEF Same, Rows
  <2> QED BY <1>a, <2>1, <2>2
<1>4. CASE ResetAll(c)
  <2> DEFINE K == {k \in Keys \ Locked : stored[k] # None}
  <2>1. PICK p \in Procs : Ask(c, Change(p, K, Same(None)))
    BY <1>4 DEF ResetAll
  <2>2. Same(None) \in Rows /\ K \in SUBSET Keys
    BY DEF Same, Rows
  <2> HIDE DEF K
  <2> QED BY <1>a, <2>1, <2>2
<1>5. CASE Write(c)
  <2> DEFINE e == NoRequest(req[c].proc)
             r == [e EXCEPT !.mine = ver']
  <2>1. req[c].proc \in Procs /\ e \in Requests
    BY <1>0, EmptyRequest DEF Requests
  <2>2. /\ ver' \in Nat /\ ver' >= ver /\ news' \in [Procs -> Nat]
    BY <1>0, <1>5 DEF Write
  <2>3. r \in Requests /\ r.mine <= ver'
    BY <2>1, <2>2 DEF Requests
  <2>4. stored' \in Rows
    BY <1>0, <1>5, ChangedRows DEF Write
  <2>5. /\ ~Busy(c) /\ Goto(c, "refresh") /\ req' = [req EXCEPT ![c] = r]
        /\ UNCHANGED <<snaps, wired, backlog, lock, failures, read>>
    BY <1>0, <1>5 DEF Write, Busy, IInv, TypeOK
  <2> HIDE DEF r
  <2> QED BY <2>2, <2>3, <2>4, <2>5, ClientStep DEF snaps
<1>6. CASE WriteFails(c) \/ Answer(c)
  <2>1. NoRequest(AnyProc) \in Requests /\ NoRequest(AnyProc).mine = 0
    BY SomeProc, EmptyRequest
  <2>2. ~Busy(c) /\ Forget(c) /\ UNCHANGED <<table, snaps, wires, backlog, lock, failures, read>>
    BY <1>6 DEF WriteFails, Answer, Busy
  <2> DEFINE r == NoRequest(AnyProc)
  <2>3. /\ req' = [req EXCEPT ![c] = r] /\ Goto(c, "idle")
        /\ UNCHANGED <<snaps, wired, backlog, lock, failures, read>>
    BY <2>2 DEF Forget, wires
  <2>4. /\ stored' \in Rows /\ ver' \in Nat /\ ver' >= ver /\ r.mine <= ver'
        /\ news' \in [Procs -> Nat] /\ seen' = seen
    BY <1>0, <2>1, <2>2 DEF table, wires, snaps
  <2> HIDE DEF r
  <2>5. r \in Requests
    BY <2>1 DEF r
  <2> QED BY <2>2, <2>3, <2>4, <2>5, ClientStep
<1> QED BY <1>1, <1>2, <1>3, <1>4, <1>5, <1>6 DEF Request

\* Every step keeps the invariant and takes no snapshot back.
LEMMA NextInv ==
  ASSUME IInv, [Next]_vars
  PROVE  IInv' /\ \A p \in Procs : seen'[p] >= seen[p]
<1>0. \A p \in Procs : seen[p] \in Nat
  BY DEF IInv, TypeOK
<1>1. CASE \E c \in Clients : Request(c)
  BY <1>0, <1>1, RequestStep
<1>2. CASE \E a \in Actors : Refresh(a)
  BY <1>0, <1>2, AcquireStep, SelectStep, InstallStep, ReadFailsStep DEF Refresh
<1>3. CASE (\E p \in Procs : Around(p)) \/ UNCHANGED vars
  BY <1>0, <1>3, AroundStep, SomeProc
<1> QED BY <1>1, <1>2, <1>3 DEF Next

-----------------------------------------------------------------------------
(* The theorems.                                                           *)

\* The lock, the reads and the snapshots relate as the code relies on, always: the
\* inductive invariant.
THEOREM Inductive == Spec => []IInv
<1>1. IInv /\ [Next]_vars => IInv'
  BY NextInv
<1> QED BY InitInv, <1>1, PTL DEF Spec

\* A request whose refresh did not fail is answered from a snapshot with its own write
\* (_after_write).
THEOREM OwnWriteSeen == Spec => []WriterSeesOwnWrite
<1>1. IInv => WriterSeesOwnWrite
  BY DEF IInv
<1> QED BY <1>1, Inductive, PTL

\* No refresh replaces a snapshot by an older one (RuntimeConfig.refresh).
THEOREM SnapshotsAdvance == Spec => NeverGoesBack
<1> DEFINE Advances == \A p \in Procs : seen'[p] >= seen[p]
<1>1. IInv /\ [Next]_vars => [Advances]_vars
  BY NextInv
<1>2. []IInv /\ [][Next]_vars => [][Advances]_vars
  BY <1>1, PTL
<1> QED BY <1>2, Inductive, PTL DEF Spec, NeverGoesBack
=============================================================================
