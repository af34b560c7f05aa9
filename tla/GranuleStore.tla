----------------------------- MODULE GranuleStore -----------------------------
(***************************************************************************)
(* The life of a granule in PostgreSQL as the service drives it: dedup,    *)
(* insert, supersession, legacy links, retraction, forgetting, freezing,   *)
(* hard deletion and garbage collection, issued by concurrent workers      *)
(* whose reads and writes interleave and whose messages are redelivered    *)
(* when a worker is lost.                                                  *)
(*                                                                         *)
(* A granule is its row of table memories; identifiers are numbered in the *)
(* order the rows are inserted.  Content is represented by its hash.  One  *)
(* namespace is modelled: every uniqueness check of the code is made       *)
(* inside one namespace.  valid_to is NULL exactly while the status is     *)
(* asserted, so the status stands for both.  Metadata, confidence and the  *)
(* project decide no branch here and are left out.                         *)
(***************************************************************************)
EXTENDS Naturals

CONSTANTS MaxId,          \* bound: rows ever inserted
          Hashes,         \* distinct contents
          Users,
          None,           \* content_hash IS NULL, or no user
          Clients,        \* worker slots executing memory tasks
          Ops,            \* the operations callers issue
          DedupSettings,  \* values the setting dedup_enabled takes over time
          PurgeAllowed    \* gc_purge_enabled and gc_mode = 'hard'

OnOff == {"on", "off"}
OpNames == {"store", "version", "link", "retract", "forget", "freeze", "delete", "gc"}

ASSUME StoreAssumption == /\ MaxId \in Nat
                          /\ None \notin Hashes \cup Users
                          /\ Ops \subseteq OpNames
                          /\ DedupSettings \subseteq OnOff
                          /\ PurgeAllowed \in BOOLEAN

VARIABLES next,           \* next identifier
          status,         \* memories.status; "unborn" and "gone" mean no row
          content_hash,
          supersedes,     \* 0 stands for NULL
          superseded_by,
          frozen,         \* the rows with frozen = true
          user_id,
          pc,             \* where each worker is
          job             \* the task each worker executes and what it has read

rows == <<next, status, content_hash, supersedes, superseded_by, frozen, user_id>>
vars == <<rows, pc, job>>

-----------------------------------------------------------------------------
Ids == 1..MaxId
Null == 0
Statuses == {"unborn", "asserted", "superseded", "retracted", "gone"}
Points == {"idle", "storeBegin", "storeExact", "storeSearch", "confirmRead", "confirmWrite",
           "storeInsert", "storeFetch", "verRead", "verTwin", "verBegin", "verOpen",
           "linkWrite", "retractRead", "retractWrite", "forgetScan", "forgetApply",
           "freezeWrite", "deleteWrite", "gcSelect", "gcPurge", "done"}

\* g: the granule the task is about; old: the granule a legacy link closes;
\* h: the content; u: the user; set: the rows a statement saw; flag: the value
\* to freeze with, or whether the store computed a hash
Jobs == [op : OpNames \cup {"none"}, g : 0..MaxId, old : 0..MaxId,
         h : Hashes \cup {None}, u : Users \cup {None}, set : SUBSET Ids, flag : OnOff]

Blank(op) == [op |-> op, g |-> Null, old |-> Null, h |-> None, u |-> None,
              set |-> {}, flag |-> "off"]

StartOf(op) == CASE op = "store"   -> "storeBegin"
                 [] op = "version" -> "verRead"
                 [] op = "link"    -> "linkWrite"
                 [] op = "retract" -> "retractRead"
                 [] op = "forget"  -> "forgetScan"
                 [] op = "freeze"  -> "freezeWrite"
                 [] op = "delete"  -> "deleteWrite"
                 [] op = "gc"      -> "gcSelect"
                 [] OTHER          -> "idle"

TypeOK == /\ next \in 1..(MaxId + 1)
          /\ status \in [Ids -> Statuses]
          /\ content_hash \in [Ids -> Hashes \cup {None}]
          /\ supersedes \in [Ids -> 0..MaxId]
          /\ superseded_by \in [Ids -> 0..MaxId]
          /\ frozen \in SUBSET Ids
          /\ user_id \in [Ids -> Users \cup {None}]
          /\ pc \in [Clients -> Points]
          /\ job \in [Clients -> Jobs]

Init == /\ next = 1
        /\ status = [g \in Ids |-> "unborn"]
        /\ content_hash = [g \in Ids |-> None]
        /\ supersedes = [g \in Ids |-> Null]
        /\ superseded_by = [g \in Ids |-> Null]
        /\ frozen = {}
        /\ user_id = [g \in Ids |-> None]
        /\ pc = [c \in Clients |-> "idle"]
        /\ job = [c \in Clients |-> Blank("none")]

Known == 1..(next - 1)                       \* identifiers callers have seen
Exists(g) == g \in Ids /\ status[g] \in {"asserted", "superseded", "retracted"}

\* SELECT_MEMORY_BY_CONTENT_HASH: the live granules with this content
Twins(h) == {g \in Ids : status[g] = "asserted" /\ content_hash[g] = h}

\* The partial unique index: rows without a hash are outside it (the variant: no
\* index)
IndexAcceptsAnything(h) == TRUE
IndexAccepts(h) == h = None \/ Twins(h) = {}

\* The statuses a closing statement may start from (the variant: any)
ClosableEver(g) == status[g] \in {"asserted", "superseded", "retracted"}
Closable(g) == status[g] = "asserted"

\* An open supersession holds the lock of the row it closes and the key of the
\* row it inserts; other writers wait for them
RowLocked(g) == \E c \in Clients : pc[c] = "verOpen" /\ job[c].g = g
KeyLocked(h) == \E c \in Clients : pc[c] = "verOpen" /\ job[c].h = h

At(c, p) == pc[c] = p
Goto(c, p) == pc' = [pc EXCEPT ![c] = p]
Note(c, j) == job' = [job EXCEPT ![c] = j]

InsertRow(h, u, prev) ==
  /\ next \in Ids
  /\ next' = next + 1
  /\ content_hash' = [content_hash EXCEPT ![next] = h]
  /\ user_id' = [user_id EXCEPT ![next] = u]
  /\ supersedes' = [supersedes EXCEPT ![next] = prev]
  /\ UNCHANGED frozen                        \* frozen starts FALSE

-----------------------------------------------------------------------------
(* store: exact lookup, semantic search, then confirm or insert.           *)

StoreBegin(c) == /\ At(c, "storeBegin")
                 /\ \E on \in DedupSettings :
                      /\ Note(c, [job[c] EXCEPT !.flag = on])
                      /\ Goto(c, IF on = "on" THEN "storeExact" ELSE "storeInsert")
                 /\ UNCHANGED rows

\* dedup.check reads the setting again: switched off meanwhile, it answers
\* INSERT with the hash it computed
StoreExact(c) == /\ At(c, "storeExact")
                 /\ \/ "off" \in DedupSettings /\ Goto(c, "storeInsert") /\ UNCHANGED job
                    \/ "on" \in DedupSettings /\ Twins(job[c].h) = {}
                       /\ Goto(c, "storeSearch") /\ UNCHANGED job
                    \/ "on" \in DedupSettings /\ \E g \in Twins(job[c].h) :
                         Goto(c, "confirmRead") /\ Note(c, [job[c] EXCEPT !.g = g])
                 /\ UNCHANGED rows

\* The best semantic match is some live granule of the same user, or none
StoreSearch(c) == /\ At(c, "storeSearch")
                  /\ \/ Goto(c, "storeInsert") /\ UNCHANGED job
                     \/ \E g \in Ids : /\ status[g] = "asserted" /\ user_id[g] = job[c].u
                                       /\ Goto(c, "confirmRead")
                                       /\ Note(c, [job[c] EXCEPT !.g = g])
                  /\ UNCHANGED rows

ConfirmRead(c) == /\ At(c, "confirmRead")
                  /\ Goto(c, IF Exists(job[c].g) THEN "confirmWrite" ELSE "done")
                  /\ UNCHANGED <<rows, job>>

\* UPDATE_MEMORY merges metadata and confidence whatever the status is
ConfirmWrite(c) == /\ At(c, "confirmWrite") /\ ~RowLocked(job[c].g)
                   /\ Goto(c, "done")
                   /\ UNCHANGED <<rows, job>>

HashToStore(c) == IF job[c].flag = "on" THEN job[c].h ELSE None

StoreInsert(c) == /\ At(c, "storeInsert")
                  /\ ~KeyLocked(HashToStore(c))
                  /\ IndexAccepts(HashToStore(c))
                  /\ InsertRow(HashToStore(c), job[c].u, Null)
                  /\ status' = [status EXCEPT ![next] = "asserted"]
                  /\ UNCHANGED superseded_by
                  /\ Goto(c, "storeFetch") /\ Note(c, [job[c] EXCEPT !.g = next])

\* Somebody inserted the same content after the lookup: unique violation
StoreRejected(c) == /\ At(c, "storeInsert")
                    /\ ~KeyLocked(HashToStore(c))
                    /\ ~IndexAccepts(HashToStore(c))
                    /\ Goto(c, "done") /\ UNCHANGED <<rows, job>>

StoreFetch(c) == /\ At(c, "storeFetch")
                 /\ Goto(c, "done") /\ UNCHANGED <<rows, job>>

-----------------------------------------------------------------------------
(* create_version: read, twin check, then one transaction whose effects    *)
(* become visible at commit.                                               *)

VersionRead(c) ==
  /\ At(c, "verRead")
  /\ LET g == job[c].g
         refused == ~Exists(g) \/ status[g] # "asserted" \/ content_hash[g] = job[c].h
     IN Goto(c, IF refused THEN "done" ELSE "verTwin")
  /\ UNCHANGED <<rows, job>>

VersionTwin(c) == /\ At(c, "verTwin")
                  /\ Goto(c, IF Twins(job[c].h) \subseteq {job[c].g} THEN "verBegin" ELSE "done")
                  /\ UNCHANGED <<rows, job>>

\* INSERT_MEMORY_VERSION and SUPERSEDE_MEMORY succeed: the transaction stays
\* open holding the key and the row lock
VersionBegin(c) == /\ At(c, "verBegin")
                   /\ ~KeyLocked(job[c].h) /\ ~RowLocked(job[c].g)
                   /\ Exists(job[c].g) /\ IndexAccepts(job[c].h) /\ Closable(job[c].g)
                   /\ Goto(c, "verOpen") /\ UNCHANGED <<rows, job>>

\* No old row, a twin inserted after the check, or the old row closed meanwhile
VersionRolledBack(c) == /\ At(c, "verBegin")
                        /\ ~KeyLocked(job[c].h) /\ ~RowLocked(job[c].g)
                        /\ ~(Exists(job[c].g) /\ IndexAccepts(job[c].h) /\ Closable(job[c].g))
                        /\ Goto(c, "done") /\ UNCHANGED <<rows, job>>

VersionCommit(c) ==
  /\ At(c, "verOpen")
  /\ InsertRow(job[c].h, user_id[job[c].g], job[c].g)
  /\ status' = [status EXCEPT ![job[c].g] = "superseded", ![next] = "asserted"]
  /\ superseded_by' = [superseded_by EXCEPT ![job[c].g] = next]
  /\ Goto(c, "done") /\ UNCHANGED job

-----------------------------------------------------------------------------
(* update(supersedes=old): the row is linked to old, and old is closed if  *)
(* it is still asserted.                                                   *)

Link(c) ==
  /\ At(c, "linkWrite") /\ ~RowLocked(job[c].g) /\ ~RowLocked(job[c].old)
  /\ LET g == job[c].g  old == job[c].old IN
     \/ /\ ~Exists(g) \/ ~Exists(old)        \* no row, or a foreign key violation
        /\ UNCHANGED rows
     \/ /\ Exists(g) /\ Exists(old)
        /\ supersedes' = [supersedes EXCEPT ![g] = old]
        /\ \/ /\ Closable(old)
              /\ status' = [status EXCEPT ![old] = "superseded"]
              /\ superseded_by' = [superseded_by EXCEPT ![old] = g]
           \/ ~Closable(old) /\ UNCHANGED <<status, superseded_by>>
        /\ UNCHANGED <<next, content_hash, frozen, user_id>>
  /\ Goto(c, "done") /\ UNCHANGED job

-----------------------------------------------------------------------------
(* retract and forget.                                                     *)

RetractRead(c) == /\ At(c, "retractRead")
                  /\ Goto(c, IF Exists(job[c].g) THEN "retractWrite" ELSE "done")
                  /\ UNCHANGED <<rows, job>>

Close(S) == /\ status' = [g \in Ids |-> IF g \in S THEN "retracted" ELSE status[g]]
            /\ UNCHANGED <<next, content_hash, supersedes, superseded_by, frozen, user_id>>

RetractWrite(c) == /\ At(c, "retractWrite") /\ ~RowLocked(job[c].g)
                   /\ Close({g \in {job[c].g} : Closable(g)})
                   /\ Goto(c, "done") /\ UNCHANGED job

\* FORGET_MEMORIES is one UPDATE: it sees the rows committed when it starts ...
ForgetScan(c) == /\ At(c, "forgetScan")
                 /\ Note(c, [job[c] EXCEPT !.set =
                              {g \in Ids : status[g] = "asserted" /\ user_id[g] = job[c].u}])
                 /\ Goto(c, "forgetApply") /\ UNCHANGED rows

\* ... waits for the ones another transaction has locked, and closes those
\* that are asserted still; rows committed meanwhile are not looked at
ForgetApply(c) == /\ At(c, "forgetApply")
                  /\ \A g \in job[c].set : ~RowLocked(g)
                  /\ Close({g \in job[c].set : Closable(g)})
                  /\ Goto(c, "done") /\ UNCHANGED job

-----------------------------------------------------------------------------
(* freeze, delete and garbage collection.                                  *)

Freeze(c) == /\ At(c, "freezeWrite") /\ ~RowLocked(job[c].g)
             /\ \/ ~Exists(job[c].g) /\ UNCHANGED frozen
                \/ Exists(job[c].g) /\ job[c].flag = "on" /\ frozen' = frozen \cup {job[c].g}
                \/ Exists(job[c].g) /\ job[c].flag = "off" /\ frozen' = frozen \ {job[c].g}
             /\ Goto(c, "done")
             /\ UNCHANGED <<next, status, content_hash, supersedes, superseded_by, user_id, job>>

\* DELETE, with the foreign keys of the version links ON DELETE SET NULL
Erase(S) ==
  /\ status' = [g \in Ids |-> IF g \in S THEN "gone" ELSE status[g]]
  /\ supersedes' = [g \in Ids |-> IF g \in S \/ supersedes[g] \in S THEN Null ELSE supersedes[g]]
  /\ superseded_by' =
       [g \in Ids |-> IF g \in S \/ superseded_by[g] \in S THEN Null ELSE superseded_by[g]]
  /\ UNCHANGED <<next, content_hash, frozen, user_id>>

\* Deleting touches the row and every row that refers to it
Touched(S) == {g \in Ids : g \in S \/ supersedes[g] \in S \/ superseded_by[g] \in S}

Delete(c) == /\ At(c, "deleteWrite")
             /\ \A g \in Touched({job[c].g}) : ~RowLocked(g)
             /\ Erase({g \in {job[c].g} : Exists(g)})
             /\ Goto(c, "done") /\ UNCHANGED job

Purgeable(g) == status[g] = "superseded" /\ superseded_by[g] # Null /\ g \notin frozen

\* SELECT_GC_SUPERSEDED: those of the candidates that are older than the
\* retention; time is not modelled, so any of them may be
GcSelect(c) == /\ At(c, "gcSelect")
               /\ \E S \in SUBSET {g \in Ids : Purgeable(g)} :
                    IF S = {} \/ ~PurgeAllowed
                    THEN Goto(c, "done") /\ UNCHANGED job
                    ELSE Goto(c, "gcPurge") /\ Note(c, [job[c] EXCEPT !.set = S])
               /\ UNCHANGED rows

\* Variant: the candidates are deleted as selected
GcPurgeNoRecheck(c) == /\ At(c, "gcPurge")
                       /\ LET S == {g \in job[c].set : Exists(g)} IN
                            /\ \A g \in Touched(S) : ~RowLocked(g)
                            /\ Erase(S)
                       /\ Goto(c, "done") /\ UNCHANGED job

\* DELETE_GC_SUPERSEDED checks the candidates again
GcPurge(c) == /\ At(c, "gcPurge")
              /\ LET S == {g \in job[c].set : Purgeable(g)} IN
                   /\ \A g \in Touched(S) : ~RowLocked(g)
                   /\ Erase(S)
              /\ Goto(c, "done") /\ UNCHANGED job

-----------------------------------------------------------------------------
(* The task queue: acks_late, so a lost worker's task starts over; a task  *)
(* that raises or hits its time limit is over; its transaction rolls back. *)

Form(op, G, Olds, H, U, F) ==
  [op : {op}, g : G, old : Olds, h : H, u : U, set : {{}}, flag : F]

Tasks(op) ==
  CASE op = "store"   -> Form(op, {Null}, {Null}, Hashes, Users, {"off"})
    [] op = "version" -> Form(op, Known, {Null}, Hashes, {None}, {"off"})
    [] op = "link"    -> Form(op, Known, Known, {None}, {None}, {"off"})
    [] op = "forget"  -> Form(op, {Null}, {Null}, {None}, Users, {"off"})
    [] op = "freeze"  -> Form(op, Known, {Null}, {None}, {None}, OnOff)
    [] op = "gc"      -> Form(op, {Null}, {Null}, {None}, {None}, {"off"})
    [] OTHER          -> Form(op, Known, {Null}, {None}, {None}, {"off"})

Submit(c, op) == /\ At(c, "idle")
                 /\ \E j \in Tasks(op) : Note(c, j)
                 /\ Goto(c, StartOf(op)) /\ UNCHANGED rows

Acknowledge(c) == /\ At(c, "done")
                  /\ Note(c, Blank("none"))
                  /\ Goto(c, "idle") /\ UNCHANGED rows

\* What the message still says once the worker is lost
Fresh(j) == IF j.op = "store" THEN [j EXCEPT !.g = Null, !.flag = "off"]
                              ELSE [j EXCEPT !.set = {}]

Redeliver(c) == /\ ~At(c, "idle")
                /\ Note(c, Fresh(job[c]))
                /\ Goto(c, StartOf(job[c].op)) /\ UNCHANGED rows

Fail(c) == /\ pc[c] \notin {"idle", "done"}
           /\ Goto(c, "done") /\ UNCHANGED <<rows, job>>

Store(c) == \/ StoreBegin(c) \/ StoreExact(c) \/ StoreSearch(c) \/ ConfirmRead(c)
            \/ ConfirmWrite(c) \/ StoreInsert(c) \/ StoreRejected(c) \/ StoreFetch(c)
Version(c) == \/ VersionRead(c) \/ VersionTwin(c) \/ VersionBegin(c)
              \/ VersionRolledBack(c) \/ VersionCommit(c)
Withdrawal(c) == RetractRead(c) \/ RetractWrite(c) \/ ForgetScan(c) \/ ForgetApply(c)
Upkeep(c) == Freeze(c) \/ Delete(c) \/ GcSelect(c) \/ GcPurge(c)
Queue(c) == (\E op \in Ops : Submit(c, op)) \/ Acknowledge(c) \/ Redeliver(c) \/ Fail(c)

Step(c) == Store(c) \/ Version(c) \/ Link(c) \/ Withdrawal(c) \/ Upkeep(c) \/ Queue(c)

Next == \E c \in Clients : Step(c)

Spec == Init /\ [][Next]_vars

-----------------------------------------------------------------------------
(* Why the store keeps its promises: the parts of the inductive invariant. *)

VersionPoints == {"verRead", "verTwin", "verBegin", "verOpen"}

\* A worker is only ever inside the operation its message asks for
TasksMatch ==
  \A c \in Clients : /\ job[c].op \in Ops \cup {"none"}
                     /\ job[c].op = "version" => job[c].h \in Hashes
                     /\ pc[c] \in VersionPoints => job[c].op = "version"
                     /\ pc[c] = "linkWrite" => job[c].op = "link"

\* While a supersession is open nobody closes the old granule under it or
\* inserts its content
OpenIsSafe ==
  \A c \in Clients : pc[c] = "verOpen" =>
     /\ job[c].g \in Ids /\ job[c].h \in Hashes
     /\ status[job[c].g] = "asserted" /\ Twins(job[c].h) = {}

OpenAreApart ==
  \A c, d \in Clients : pc[c] = "verOpen" /\ pc[d] = "verOpen" /\ c # d =>
     job[c].g # job[d].g /\ job[c].h # job[d].h

\* Rows are born in order, and links only name rows that were born
BornInOrder ==
  \A g \in Ids : /\ status[g] = "unborn" <=> g >= next
                 /\ supersedes[g] < next /\ superseded_by[g] < next

OnlySupersededHaveHeirs ==
  \A g \in Ids : status[g] # "superseded" => superseded_by[g] = Null

\* No row names an identifier nobody has inserted, and an erased row names none
UnbornAndGoneAreBare ==
  \A g \in Ids : status[g] \in {"unborn", "gone"} => supersedes[g] = Null

-----------------------------------------------------------------------------
(* Properties.                                                             *)

\* Exact dedup: two live granules never carry the same content hash, whatever
\* stores, supersessions and redeliveries race past the lookups
\* (dedup.check, the twin check of create_version, index of migration 020).
OneActivePerHash ==
  \A g, k \in Ids : /\ status[g] = "asserted" /\ status[k] = "asserted"
                    /\ content_hash[g] = content_hash[k] /\ content_hash[g] # None
                    => g = k

\* A version names its predecessor exactly when the predecessor names it as its
\* heir: two supersessions of one granule never both succeed, and no crash or
\* deletion leaves half a link (create_version's transaction, ON DELETE SET NULL).
VersionLinksAgree ==
  \A g, k \in Ids : supersedes[g] = k <=> superseded_by[k] = g

\* Following superseded_by always comes to an end: GET_HISTORY, which has no
\* guard against cycles, returns.
HistoryTerminates ==
  \A S \in SUBSET Ids : S # {} => \E g \in S : superseded_by[g] \notin S

\* The heir of a granule was inserted after it: the history is in order.
HeirIsNewer ==
  \A g \in Ids : superseded_by[g] # Null => superseded_by[g] > g

\* A closed granule is never reopened, closed a second time in another way, or
\* given another heir, whichever closers race (the status guards of
\* SUPERSEDE_MEMORY, RETRACT_MEMORY and FORGET_MEMORIES).
ClosedIsFinal ==
  [][\A g \in Ids : status[g] \in {"superseded", "retracted"} =>
        /\ status'[g] \in {status[g], "gone"}
        /\ superseded_by'[g] \in {superseded_by[g], Null}]_vars

\* Garbage collection removes only a replaced granule that is not frozen at
\* that moment, even when it was frozen after the candidates were selected.
PurgeIsSafe ==
  [][\A g \in Ids : status[g] # "gone" /\ status'[g] = "gone" =>
        \/ \E c \in Clients : At(c, "deleteWrite") /\ job[c].g = g
        \/ status[g] = "superseded" /\ superseded_by[g] # Null /\ g \notin frozen]_vars

\* The promise of the store to its callers.
Ledger == INSTANCE FactLedger WITH state <- status, fact <- content_hash, heir <- superseded_by

\* Every step of every worker is a step of the ledger or invisible to it.
ImplementsLedger == Ledger!Spec

\* The inductive invariant behind the theorems of GranuleStoreProofs.
IInv == /\ TypeOK /\ TasksMatch /\ OpenIsSafe /\ OpenAreApart /\ BornInOrder
        /\ OnlySupersededHaveHeirs /\ UnbornAndGoneAreBare /\ OneActivePerHash

\* ... and the part that holds when nobody uses legacy links.
LinkInv == "link" \notin Ops => VersionLinksAgree /\ HeirIsNewer
=============================================================================
