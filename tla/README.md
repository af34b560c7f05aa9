# Verification of Selti

TLA+ models of the Selti memory server (`src/memory_server`), their model checking with TLC
and their proofs with TLAPS. Selti keeps *granules* (short facts) for language-model agents:
rows in PostgreSQL, vectors in Qdrant, caches and queues in Redis, written and read by Celery
workers on behalf of a web process.

Contents: 1 the system, 2 the plan, 3 modules and code, 4 runs and bounds, 5 fairness,
6 proofs, 7 what the checks found, 8 what is not modelled.

## 1. The system

### Processes

A web process (uvicorn with four workers, `Dockerfile:44`) takes tool and REST calls and turns
nearly all of them into Celery tasks. Celery workers run one task at a time each. A task is
acknowledged late (`tasks/base.py:40-50`): a worker that is lost makes its task start over, a
task that raises or runs into its time limit is over. Beat issues periodic tasks. All
processes share PostgreSQL, Qdrant and Redis and nothing else.

### Components

| component | state | operations | talks to | what makes it correct |
|---|---|---|---|---|
| Granule store (`memory/service.py`, `memory/pg_repository.py`, `memory/dedup.py`, `db/queries.py`) | table `memories`: status, content hash, version links, frozen | store, create_version, update, retract, forget, freeze, delete, gc | PostgreSQL | one live granule per content; closed stays closed; version links agree; purges are safe |
| Granule upkeep (`service.py:196-238`, `640-760`, `880-895`) | `memories`: metadata, importance, frozen, confidence | edit, freeze, retract with a reason, nightly decay, repeated store, version | PostgreSQL | what a fact was told last is in its last row, or it is known what lost it |
| Vector index (`memory/repository.py`, `memory/qdrant_store.py`) | points with a status in the payload | the second half of each write above | Qdrant, after PostgreSQL has committed | a live granule is never hidden by its own point; missing points have a known cause |
| Circuit breaker (`vector/circuit_breaker.py`) | failure count and open time, per process | every Qdrant call | Qdrant | an open breaker skips calls and does not turn them into lies |
| Project context (`service.py:1042-1232`, `tasks/context_tasks.py`, `tasks/lifecycle_tasks.py`) | table `project_contexts`, Redis copy and dirty flag | mark, read, refresh, hourly rebuild | PostgreSQL, Redis | an answer is current or marked stale, but for writes whose flag was lost for a known cause |
| Runtime settings (`settings_store.py`, `runtime_config.py`, `api/settings.py`) | table `app_settings`, one snapshot per process, refresh lock | set, reset, reset-all, apply profile, refresh, listen | PostgreSQL with NOTIFY | validated values are what is stored; snapshots catch up and never go back |
| Task bridge (`tools/task_bridge.py`, `tasks/signals.py`) | completion events in Redis, results in the Celery backend | send, wait, notify | Celery, Redis | every caller gets its result or a timeout, a lost event only delays |
| Composition root (`state.py`, `tasks/async_bridge.py`, `celery_app.py`) | lazily built singletons, three locks | the getters | all | built once, no getter waits for a lock it holds |
| Relations and their life cycle (`pg_repository.py`, migration 026) | table `memory_relations`: weight, pruned_at, dedup marks | link, reinforce, prune, restore, rewire at supersession | PostgreSQL | pruned edges stay out of searches, restored ones come back, no edge to a closed granule |
| Linker (`memory/linker.py`, `tasks/linker_tasks.py`) | verdict queue and verdict cache in Redis | link a new granule, co-occurrence, name reconciliation, model and human verdicts | PostgreSQL, Redis, a language model | no verdict is lost, none is applied to closed granules, a human verdict wins |
| Search and activation (`service.py:356-640`, `1398-1549`, `memory/search_fusion.py`, `memory/activation.py`) | none | hybrid, dense and activation search, two traversals | PostgreSQL, Qdrant | nothing outdated is served, whatever lags or fails |
| Batch import (`tasks/memory_tasks.py:597-777`, `dedup.py:144-280`) | none of its own | check a batch, insert the rest | PostgreSQL, Qdrant, embedding service | every entry is stored, results name their rows, also after a redelivery |
| Clusters and the pruning campaign (`service.py`, `pg_repository.py`, `linker.py`) | `memories.cluster_id`, table `clusters`, l1c edges | regroup a namespace, prune old co-occurrence edges | Qdrant, PostgreSQL, map | near granules are together, bridges are spared |
| Map (`memory/map_service.py`, `map_layout.py`, `galactic_layout.py`, `tasks/map_tasks.py`) | table `map_layout`, Redis snapshots, meta, dirty mark, locks | build a snapshot, lay out, mark dirty | PostgreSQL, Redis | a snapshot is never served past its version; a change is never lost to a layout under way; granules of one cluster sit together |
| Namespaces, projects, hashes (`namespace_repository.py`, `project_repository.py`, `hash_repository.py`) | small tables, one cache | upsert, get, delete, list | PostgreSQL | registration is idempotent |
| Embedding and model clients (`embedding/`, `llm_client.py`) | none | network calls with retries | outside | a failure is an exception of the task |
| Tools, REST, web interface, plugin, migrations, monitoring | - | forwarding, rendering, one-off scripts, configuration | - | - |

### What is hard here

* Reads and writes of one operation are separate statements and nothing but one partial unique
  index and row locks orders the workers: every check may be outdated when it is acted upon.
* Every write touches two stores without a transaction around them; each Qdrant call may work,
  fail with or without effect, or be skipped by the breaker, which reports success.
* A lost worker's task runs again although part of its work is committed.
* Caches have flags and copies in Redis that are written best-effort and expire by themselves.
* Settings are validated on a snapshot that another process may have outdated, and are spread
  by notices that are dropped while connections are down or a refresh is running.
* A map is computed from rows read long before it is stored, under a version that does not show
  every change, while marks, build locks and layout locks expire on their own.
* A model is asked about two texts for seconds; meanwhile granules are closed and people decide.
* A coroutine that a time limit leaves behind goes on when its worker runs the next task.

The list of the places where each of these bites is under "hazards" in `PROJECT.json`, with the
properties that guard them.

## 2. The plan

| step | modules | abstract specification | theorems | state |
|---|---|---|---|---|
| 1 | GranuleStore | FactLedger | invariant, dedup, closing, purging, links, refinement | done |
| 2 | ContextCache | - | invariant, a refresh is fresh, honest answers, flagged lags | done |
| 3 | VectorSync, composed with FactLedger | - | invariant, three properties | done |
| 4 | RuntimeSettings | - | invariant, own writes, snapshots advance | done |
| 5 | EdgeGraph: relations against versions and campaigns | - | invariant, what is left behind is explained, edges follow heirs | done |
| 6 | LinkerFlow: queue, cache, model and human verdicts | - | no queued pair is lost, a decision by hand stands | done |
| 7 | MapCache, Clusters and Seating, joined in Atlas | - | layouts alone, staleness explained; the campaign is exact, leftovers explained, the steady stay together; kin sit together, the halo is lonely; the composition covers its parts | done |
| 8 | ProcessState, TaskBridge with IngestTask, BeatSchedule, Registry, joined in Serving | - | process: locks innermost, parts made once; bridge: tasks and wake-ups kept; batch: stored, results named; Registry: typing, repository, own writes, spaces, misses explained | done; BeatSchedule has a liveness property only |
| 9 | Search | - | invariant, nothing outdated, the start is served | done |
| 10 | Upkeep, joined with EdgeGraph in Heritage | - | losses are excused | done |
| 11 | the order of BeatSchedule's entries, the type invariants that are left | - | one each | next |

VectorSync takes its PostgreSQL side from FactLedger, which GranuleStore is proved to implement.
IngestTask extends TaskBridge: the batch is the body of its task. The other parts of Serving, and
those of Atlas and of Heritage, share no state: one of them is watched per behaviour (`scene`, `view`, `part`), so that
one run asks the questions of all without multiplying their states.

## 3. Modules and code

Every definition that models code is mapped to its lines in `PROJECT.json` ("map"). Definitions
whose comment starts with "Variant" are plausible bugs of a mapped definition; no specification
uses them. They are put in its place to see that the property they belong to then fails.

**FactLedger** is what the store promises: facts are recorded once (`Record`), replaced by one
indivisible step (`Revise`), adopted by an existing granule (`Adopt`), withdrawn (`Withdraw`)
and erased (`Erase`). No workers, no locks.

**GranuleStore** is the store in PostgreSQL. A granule is its row; identifiers are numbered in
order of insertion, content is its hash, time is left out (retention may or may not have
passed). Each worker has a place (`pc`) in the operation its message (`job`) names. Every
statement, or group of statements in one transaction, is an action:

| code | actions |
|---|---|
| `MemoryService.store`, `DedupService.check` | StoreBegin, StoreExact, StoreSearch, ConfirmRead, ConfirmWrite, StoreInsert, StoreRejected, StoreFetch |
| `create_version` | VersionRead, VersionTwin, VersionBegin (insert and close inside the transaction, locks held), VersionCommit, VersionRolledBack |
| `update(supersedes=...)` | Link |
| `retract`, `forget` | RetractRead, RetractWrite, ForgetScan and ForgetApply (one READ COMMITTED update: what it saw and what it closes) |
| `freeze`, `delete`, `gc_superseded` | Freeze, Delete, GcSelect, GcPurge; `Erase` carries ON DELETE SET NULL |
| Celery | Submit, Acknowledge, Redeliver, Fail |

The setting `dedup_enabled` may change between two statements (`DedupSettings`).

**ContextCache** is one project's snapshot: table, Redis copy, dirty flag. The content of a
section is the number of committed writes it reflects. Writers write and mark (retract marks
first, forget does not mark at all), readers take copy, table or a fresh computation, a rebuild
reads section by section, saves, caches and takes the flag down. Every Redis call may fail,
both keys expire, workers are lost and their tasks start over.

Nothing in the code keeps writers and rebuilds apart, so the flag of a write may be lost. The
history variable `lapsed` says of which writes, and each place where it grows is one cause:

| cause | code | action |
|---|---|---|
| no mark is to come: forget, delete, a version that starts over after its commit; a retraction whose mark a rebuild has served before the row is closed | `service.py:841-862`, `:713-737`, `:788` | Commit, Refused |
| the mark fails and is ignored | `service.py:1074` | Mark |
| the flag is taken down by a process that has not read the write: a rebuild, or the read that refills the copy from the table | `service.py:1146`, `:1184` | ClearFlag |
| a snapshot is stored while the flag is down, or while another process is on its way to take it down | `service.py:1179`, `:1219` | RebuildSave, SaveCache (`Overtakes`) |
| the flag runs out | `service.py:1070` | FlagExpires |

Of a reader, `passed` says that its look at the flag failed (`service.py:1085`: counted as not
stale), or that the flag of the copy it holds went down before it looked. `HonestAnswer` and
`LagIsFlagged` allow for these and for nothing else; leaving any of the causes out of the record makes
TLC find one of the two violated.

**VectorSync** is every write as a commit (an action of FactLedger) followed by its Qdrant
calls. A call works, is skipped when the worker's breaker is open, or raises, with or without
effect. `blamed` is a history variable: live granules an indexing call failed, a worker left
behind or a forgetting swept. The breaker itself comes from a library: how it counts and when
it opens is taken from the way `circuit_breaker.py` uses it, and its recovery time is left out
(an open breaker may let any call through). The safety properties do not depend on it.
Forgetting scrolls one page of points. Freezing asks nothing of Qdrant and stays in GranuleStore:
here garbage collection may find any of its candidates frozen.

**RuntimeSettings** is the table, the snapshots, the refresh lock, the notices and the
connections that carry them. The keys are the three thresholds that constrain each other; a
change is validated on the snapshot of the process that got the request, at the moment of the
request, and written later. A refresh takes the lock, reads, installs; a background refresh and
a client's refresh are the same actions of different actors. `seen` and `ver` are history
variables that number the writes.

**EdgeGraph** is table `relations`. A granule is its state and its heir, an edge its ends, type,
owner, `inherited_from` and whether its faded weight is under the pruning floor. `create_version`
is three statements of one transaction (VersionBegin, RewireSource, RewireTarget), each with its
own READ COMMITTED view and the locks it has taken; `Victim` is the deadlock detector, `Lose` a
lost worker. Beside them run what people add and delete (AddRelation, DeleteRelation), the link
sync and its batch, the linker's writes, the name reconciler, reinforcement, the pruning
campaign (PruneSelect, PruneApply), restoring, closing, deletion with its cascade and the
orphans' clean-up. `stray` is history: edges that came to a granule its version had left behind.

**Upkeep** is one fact and its versions: rows 1 to `rows`, the last one live until it is closed. A task is
one of three hands with something to do (`plan`). Edit, freeze, retract and decay are one statement; a
repeated store (ConfirmFinds, ConfirmReads, ConfirmWrites) reads the row and writes all of its metadata
and a raised confidence back; a version reads the row (VersionReads), inserts (VersionInserts, which
takes importance from the row as it is by then), closes (VersionCloses) and commits. Values are the
task that wrote them, confidence is a level. `due` is history: what the fact was told last, as if the
tasks had come one after the other; `excused` is what may differ, and comes from three causes alone:
the task wrote back what somebody changed after it had read, it wrote to a row that has an heir, or a
redelivered task repeats itself. **Heritage** joins Upkeep and EdgeGraph.

**LinkerFlow** is `memory/linker.py` with its tasks: the task of a new granule (LinkBegin, LinkNear,
LinkPush), the walk over sessions (Meet, MeetInsert, MeetMark) shared by that task and the campaign,
the worker of the verdict queue (WorkPop to WorkReturn), the person (Say to SayPut) and the review
(PeekRead, PeekCheck). Scores are two sets of pairs, a text is a version number, the key of the
cache is taken from the texts as they were read. A reply is link, contradiction, none, nonsense or
silence. A task that dies after its push but before its acknowledgement is delivered again and
queues its pairs twice (`Over`); `lrem` takes the first equal item and may fail, the item then stays
(SayTake); the person passes over items that do not mention the pair (`Onward`); the process of a
verdict by hand may die with an item in its hand (SayLost). `judged` and `excused` are history: why
a queued pair need not be looked for any more.

**MapCache** is the map. The graph is two counters, changes the version hash shows and changes it
does not. A request (browser or task) goes through `meta`, the ETag, the snapshot, the build lock,
the rows and the store; a layout (hourly, nightly, galactic) through its gate, lock, rows,
computation, write and the marks it clears. Locks have an owner the code does not look at.

**Clusters** is `refresh_clusters` and `run_prune_cooccurrence_history`. A refresh searches chunk by
chunk, then runs `assign_clusters_from_pairs` statement by statement in one READ COMMITTED
transaction with row and key locks (Clear, Cleared, Norm, UpsertRows, Label, SweepEmpty, Commit).
The campaign reads a page, judges it and writes, with a cursor over (created_at, id). Searches
are taken to be exact: Qdrant's index is approximate, and pairs it misses are outside the model.

**Seating** is `layout_galaxy` with the algorithms of `galactic_layout.py`. A run counts (Scale), reads
granules, edges and rows (ReadNodes, ReadEdges, ReadRows), computes and writes one transaction
(BeginSeating with the rows its DELETE sees, SeatAll, or Refuse when a granule has been deleted).
Groups, associations, anchors, centroids and barycentres are those of the code (`GroupOf`, `Anchor`,
`Centroid`, `Barycentre`); a seat is what its coordinates are drawn around, not the coordinates, so
that the place of a group in the bulge or on an arm, and how members push each other, are left out.
`mixed` is history: clusters that may sit apart, and every cause of it is needed (without any one of
them TLC finds `KinSitTogether` violated). The TRUNCATE of a database before migration 025 is left out.

**ProcessState** is `SeltiState`: a coroutine is the stack of getters it is in, parts count how often
they were made, two locks have holders. The connection may be refused, `QdrantClient` may raise,
a coroutine left behind by a time limit (`async_bridge.py:58`) is one that simply does not go on.

**TaskBridge** is one call: client (look, block on the event, chunk, last look) and worker (take,
body, store, notify, acknowledge) with lost workers, the hard limit, failing pushes and expiring
events. **IngestTask** extends it with `ingest_batch` as the body: validation, exact round, round
within the batch, round by meaning, registration of namespaces, one insert, links. Nothing
retries by itself: `retry_with_backoff` has no caller.

**BeatSchedule** is `RuntimeScheduler`: its tick, its look at the settings every `sync_every`, a
schedule that replaces all entries, a database that is away (defaults are used then) and restarts.

**Registry** is `register_project` (three looks and one write, each a statement of its own), cards made
and changed in workers, the two caches of `ProjectRepository`, namespaces and resource hashes. A
reader of hashes is a client of `list_hashes`: it goes through the pages (`Page` rows, an offset, the
youngest first) as far as it likes, others write and delete between two pages, and its next pass asks
since the youngest row it was given. `lost` is a history: the rows it has been led past, and those a
statement of an earlier moment changed behind its back. Two statements have never the same moment,
so the order of a list is definite; in PostgreSQL rows of one microsecond come in any order, and a page
boundary between them is one more way to be led past a row.

**Search** is one request against everything that moves beside it: dense channel, text channel, rows,
graph, the bump of the access fields. A candidate is fused by its position, in each channel, among
the rows FETCH_MEMORIES_BY_IDS returned, which come in any order; what floating point decides (MMR
after its first pick, PageRank, cosine) is any choice. The fused order decides who is on a page and the
access fields are what a request writes; no property is about either.

**Serving** joins ProcessState, IngestTask, BeatSchedule and Registry; **Atlas** joins MapCache,
Clusters and Seating.

The type invariants name the domains for the reader; no run lists them. Those of GranuleStore,
ContextCache, VectorSync, RuntimeSettings, EdgeGraph, MapCache, Clusters and Registry are proved,
alone or as part of an inductive invariant; the proofs about LinkerFlow, Seating, Upkeep and
IngestTask type what they need by predicates of their own (`Typed`, `SeatTypes`, `Shape`,
`HashesTyped`). `SeatingTypeOK` is not proved: its weights are sums made by a fold, about which
induction over data would be needed.

Three definitions are stated so that they can be reasoned about: reachability of clusters and groups
is the least closed set instead of a closure by steps, ranks and order of insertion in a batch are
counted (`Rank`), and `SteadyTogether` looks at sets of near granules that are large enough for a
cluster (`MinMembers`).

## 4. Runs and bounds

| run | question | bounds | result |
|---|---|---|---|
| store_race | do store, version, link, retract and forget keep dedup and the ledger while dedup is switched? | 2 workers, 2 rows, 2 contents, 2 users | holds |
| versions | do supersession, retraction, freezing, deletion and gc keep links and purges right? | 2 workers, 3 rows, 2 contents | holds |
| link_cycle | does a history always end? | 2 rows | violated |
| context_race | is a refresh fresh; does an unmarked answer, or an unflagged store, lack a write only for a cause on record? | 2 workers, 2 sections, 1 write each, 1 failed call or lost worker, both keys expire, all operations | holds |
| context_served | is every raised flag taken down? | 2 workers, 1 section, 1 write, 1 failed call or lost worker, the copy expires | holds |
| vector_sync | do points agree with rows as far as the code provides for? | 2 workers, 2 rows, breaker opens at 1 failure, 1 raising call, lost workers | holds |
| settings | do snapshots advance, hold the own write and catch up? | 2 processes, 1 client, 2 writes, 1 failed read, 1 breaking connection | holds |
| edges | do edges follow versions, and is what is left behind explained? is what a fact was told kept, and a loss explained? | 4 granules, 2 edges, 2 transactions, one name, one type; 3 tasks in 165 plans, 3 rows, 2 levels, 1 lost worker | holds |
| verdicts | is every queued pair accounted for, does a decision by hand stand, does the queue empty, what stays a candidate of the campaign? | 3 granules, 1 worker, 1 person, 8 workloads with 0-2 disturbances, pages of 1 | holds |
| atlas | the map: is what is served current, are layouts alone, has every granule a place? the clusters: together, labels, bridges, campaign; the places: cluster by cluster, halo | 2 granules, 2 requests, 3 layouts, 6 workloads; 5 granules, 2 refreshes, 4 edges, 9 worlds; 5 granules, 2 clusters, 5 edges, 2 tasks, 7 skies | holds |
| search | is nothing outdated served? | 4 granules, 2 corpora, 2 changes, 1 failing channel | holds |
| serving | do getters, calls, batches, the schedule and the registries keep what they promise? | 2 coroutines with 2 calls; 2 tasks, 2 workers, 1 fault, 4 pairs of batches; 2 entries, a day of 4, 2 changes, 2 cuts; 4 visitors, 12 sets of errands, 4 registers, pages of 1 | holds |

Bounds: `MaxId` rows, `MaxEdges` relations, `MaxWrites` writes, `MaxFailures` and `MaxFaults` failing
calls, `MaxBacklog` waiting refreshes, `MaxAsks`, `MaxOutages`, `MaxChanges`, `MaxCuts`, `MaxExpiries`,
`MaxEdits`, `MaxBreaks` and the counts in a workload (`may`). Two workers are enough because every
conflict in the code is between two statements; three rows are what a middle version needs. With
two rows a version and its predecessor exist, with two contents a twin and another one do. Two
sections let a rebuild read one before and one after a write. Three tasks on one fact are two
that write back and one whose change is between them. Two edges are what a dedup by the
unique index needs, four granules two versions with an heir each. Three granules give a queue item
two candidates, one decided and one not. Five members make a chain of four with a neighbour in
another namespace and a search that returns fewer (`TopK`) than there are. Two members of one
cluster, one of another, a free one tied to both and one that is to come give every rule of the
placement a case; the barycentre is taken of one neighbour instead of three (`TopSeated`). Four visitors are three
who write and one who looks; pages of one row put every boundary between two rows. The failure bounds are there to keep the runs small, and the
theorems below hold without them. The breaker's threshold is 1 so that an open breaker occurs;
`settings` locks two of the three keys by the environment, so that the one that is left has the
values of a row, another one and none.

The modules with many dials (LinkerFlow, MapCache, Clusters, Seating, EdgeGraph, IngestTask, Registry, Search)
take a menu: each element says who comes and what may go wrong in one behaviour. All combinations
at once are out of reach; the elements of the MC modules pair each fault with the operations it
meets, and every action fires under at least one of them.

Deadlock is checked in store_race, versions, link_cycle, the two context runs and vector_sync. In the
others a bounded number of events lets everything stop.

context_served leaves out the expiry of the flag on purpose, which would take it down by itself, and
forget, which raises none.

## 5. Fairness

* ContextCache, `FlagIsServed`: a task that is taken is carried on (weak fairness of `Move`: workers
  have time limits and redelivery), and the hourly message is delivered again and again
  whatever else the workers do (strong fairness of `Submit(w, "beat")`: beat sends it every
  hour and the queue is served in order).
* RuntimeSettings, `CatchesUp`: a snapshot grows old (the clock runs), somebody reads a setting
  then (`Get`; a process in which nobody reads settings has no use for them), and a refresh that
  waits for the lock, has it or has read goes on (an asyncio lock is handed out in order).
  Nothing is assumed of notices, connections, clients or reads that fail.
* LinkerFlow, `QueueDrains` and `SessionsSettle`: messages are delivered, beat starts worker and
  campaign again and again, and a person who has begun goes on. Nobody has to decide by hand,
  the model may stay silent for ever, and a granule without a vector need never get one: no task
  looks for such granules, only the script `migrations/backfill_qdrant.py`, run by hand.
* MapCache, `NightPlaces`: a layout that has begun goes on or is killed, and Redis drops a key whose
  time is over. Clusters, `CampaignEnds`: a campaign that has begun goes on; nothing is assumed of
  refreshes, and edges may change all the while.
* Serving. `GettersEnd`: a coroutine goes on whenever it can again and again (strong fairness, as
  asyncio.Lock serves its waiters in turn and a wait for the database ends with a connection or an
  error). `CallsEnd`: time passes for the client; workers may stand still for ever. `BeatKeepsGoing`:
  the clock runs and beat ticks.

The remaining runs have safety properties only.

## 6. Proofs

All are checked by TLAPS for every value of the constants that satisfies the module's assumption:
any number of workers, rows, contents, users, processes, failures and writes.

**GranuleStoreProofs.** The invariant `IInv` joins typing, `TasksMatch` (a worker is inside the
operation its message names), `OpenIsSafe` and `OpenAreApart` (while a supersession is open its
granule stays asserted, nobody inserts its content, and two open ones share neither), `BornInOrder`,
`OnlySupersededHaveHeirs`, `UnbornAndGoneAreBare` and `OneActivePerHash`. Dedup alone is not
inductive: the commit of a supersession relies on locks taken earlier. Proved: `DedupHolds`,
`ClosedForever`, `PurgesAreSafe`; `VersionLinksHold` and `HeirsAreNewer`, for histories without
legacy links (`"link" \notin Ops`; with them both are false, section 7); and `Refinement`: every
step is a step of FactLedger or a stutter.

**VectorSyncProofs.** `UpsertsAreFirst` (a granule that waits for its point was inserted by one
worker and nobody else writes that point), `MarksAreLate` (a mark is on its way only when its row is
closed), `PurgesAreLate`, `BornFirst`. From these `NeverHidden`, `MissingExplained` and
`NoLateUpsert`. The rows are reasoned about through two shapes of step, one that brings a new live
row and one that brings none, so that each action needs only to be recognised as one.

**RuntimeSettingsProofs.** `LockHeld` (whoever refreshes holds the lock of its process) makes
`ReadIsNewer` inductive: nobody installs between a read and its installation. Hence
`SnapshotsAdvance` and, as the read of a writer comes after its write, `OwnWriteSeen`.

**ServingProofs: the bridge.** About the bridge with batches as the bodies of its tasks
(`BatchSpec`). Each step of a batch is a step of the bridge or none (`BatchSteps`): what a body does
matters only where it ends. `TaskKept` is inductive with `AtWork` (who is at work has a task) and
`Stored` (a task is announced and acknowledged only after its answer is stored).
`LostWakeupHasCause` needs `HasAsked` and `Known`: a client asks to be woken before it waits, and until
the event is pushed its worker knows of whoever asked.

**The batch.** `AllDecided`: at each stage what is decided of an entry is right for the rows there
are, or open. An insert gives every new entry a row of its own (`NewRows`, by the ranks of the new
entries), every repetition the row of its original (`Originals`, `Results`), and rows are only added
(`RowsStay`), so that what is decided or answered stays right whatever other workers insert, and
when the task is delivered again. Hence `BatchesStored` and `ResultsNamed`.

**The registry.** `Base` is typing and `Roles` (which errand a visitor at a given step has). On it
stand `Looks` (who is about to bind a folder saw no repository on the card, or its own), `Locks` (a
card that is being created is locked and not there yet), `Writes` (the card a writer remembers is no
younger than the table's, and once it has dropped its entries its process caches none older by slug,
as a process runs one task at a time) and `SpacesAgree`. `RepositoryKept` rests on `Looks` and
`Locks`, `OwnWritesSeen` on `Writes`, `SpacesAgreed` is inductive with `Base`. `HashInv` says what a
reader of hashes may still hope for (`Awaited`): what it does not know and what is not on record stands
at or behind its offset, and is of the pass it is in. A page takes away what it gives (`PageRead`), a
change keeps the others in their places or puts them on record (`NotedRow`); `LaterMovesNobodyUp` says
that only a deletion or an earlier date can do that. From it `MissesExplained`. `ServingCovers`: a
behaviour of Serving is one of the process, of the bridge with its batches and of the registry.

**The process.** A coroutine is a stack of getters. `Nested`: only the innermost one is inside its
lock; a getter returns or raises into one that holds none (`ReturnedStack`, `RaisedStack`, through
the one shape `Below`). `LocksAreInnermost` and `InsideHolds` tie the locks to the stacks, and a step
of a coroutine keeps out of locks, takes a free one or lets its own go (`LocksKept`). Hence
`LocksInnermost`: who holds a lock awaits the database and no lock, so no circle of coroutines can
form, which is the safety half of `GettersEnd` (the run checks that getters do end); and
`PartsMadeOnce`: a part is made only after a second look, and the pool only by who has its lock.

**The search.** A granule that was closed before the request stays closed (`call.old` and the rows
part for good), and the last thing every kind of request reads of a granule is its row; so
`OutdatedNeverServed`, whichever index, text or graph it came from. `StartServed` follows the start
from the ranking (`Ensured`) to the cards.

**HeritageProofs: the edges.** `EdgeBase` is typing, `Keyed` (no row names a granule that is not
there) and `Separate` (two open versions share no granule). Every statement about rows is a `Quiet`
step: each row stays, is deleted, restyled, made, or finds the bearer of its name (`RowStep`), and
what comes to a granule that has been left is noted. The steps of a version, of `update` and of the
deletions are shown one by one. `Calm`: a row that is no stray and has an end that is being closed
was there before the step, in the same place; hence `Chosen`: what a version will not move has come
since it looked. Hence `LeftBehindExplained`, and `EdgesFollowHeirs` from the same shapes.

**The upkeep.** `IInv` is `Shape` (typing, and a task that has begun is about a row there is),
`Fresh` (a task that goes on with the last row holds it as it is, up to what was written since it
read), `Alone` (one supersession at a time holds a row, and it is the last) and the property. The
property alone is not inductive: a write-back is harmless exactly where nothing was written since
the read. `WriteKeeps`, `QuietKeeps` and `ReadKeeps` are the three shapes a step can have. Hence
`LossIsExcused`. `HeritageCovers` carries both to the composition.

**LinkerProofs.** Every queued pair has a place: the queue, a worker's hand or the person's. A hand
is full only where the code says so (`HandsMatch`), a candidate a worker has put aside is judged,
given up or dead (`WorkedOff`), and the person judges a pair before taking it out of the queue
(`SaidFirst`), and takes only items that mention it (`Ahead`). Duplicates in the queue do no harm,
as what is kept is a set of pairs; hence `NoPairLost`. `DecisionsInv`: a decision that stands is in
the cache under the texts there are and not as the model's (`Stands`); no worker that has read the
cache is left to decide the pair otherwise (`Heeds`), because none was deciding when it was made; a
worker's question is under the key of its pair (`Asks`), and only a person decides as one
(`Decides`). Hence `DecisionStands`.

**AtlasProofs: the map.** `MapInv` is typing, `Stamped` (nothing is stamped with a version the graph
has not reached, and what is about to be stored was read since its version was taken), `Owned` (who
computes a layout with DrL has its lock, which lives longer than a run may) and `StaleHasCause`.
Hence `LayoutsAlone`, `StaleExplained`, `MapTyped`.

**The clusters.** `CampInv`: the campaign has judged every old edge up to its cursor. That it is
exact at its end needs that a page has a last element (`LastOf`, by well-founded induction over the
numbers of elements that follow). `RefreshInv` holds per refresh: it is at a namespace exactly while
it has begun (`Placed`), granules it has cleared have no label but by a second refresh of the
namespace (`GoneFrom`, `AloneIs`), and what stood still from its first search is as it was
(`SteadyIn`). Hence `CampaignIsExact`, `LeftoverExplained`, `SteadyStayTogether`.

**The places.** `SeatsInv` says of each run what it knows of the granules it has read (`Known`,
`Looked`), which rows it has deleted (`Wiped`), that the groups it computed are the clusters as it
read them (`Grouped`) and which seats it holds ready (`Held`), each up to what has changed since;
`KinSitTogether` names those changes. A first version of the property was false: a granule that
leaves its cluster, is seated alone and comes back parts it (the sky `Wavering`), which the attempt
to prove it showed; leaving is now among the causes. Hence `KinStayTogether` and `HaloStaysLonely`.

**AtlasCovers** carries these to the composition: whatever part is watched, a behaviour of Atlas is
one of MapCache, of Clusters and of Seating.

**ContextCacheProofs.** What a request found committed stays committed, and what a refresh has read
is at least as new; hence `RefreshFresh`. `FlagIsTold` proves
what `AnswersAreHonest` and `LagsAreFlagged` follow from, with no premise beyond the bounds being
numbers. Beside `LagIsFlagged` itself, five facts
make it inductive. `ReadsArePast`: nothing is read or stored that is not there, so a new write is missing
everywhere. `NothingHidden`: who is about to take the flag down has read what the stores have, or
what it has not is on record; so clearing loses only what the clearer itself has not read.
`OwedIsKnown`: a mark that is to come belongs to a write after the request, or the request knew of it;
so a reader that finds the flag down lacks nothing that was over. `ReadersAreTold` carries this
from the copy to the answer, and `TasksApart` keeps each kind of task to its own steps. `QuietStep`
does the steps that neither write nor store nor take the flag down, `CommitsAreTold`,
`SavesAreTold` and `FlagGoesDown` the others.

Only model-checked: all liveness (`FlagIsServed`, `CatchesUp`, `QueueDrains`, `SessionsSettle`,
`NightPlaces`, `CampaignEnds`, `GettersEnd`, `CallsEnd`, `BeatKeepsGoing`), which is out of this
prover's reach, and the violation. Every invariant and every action property of a passing run is
stated by a theorem.

## 7. What the checks found

Shown by a run: link_cycle. `update(supersedes=...)` checks neither self-reference nor order, so a
granule can be its own heir, and GET_HISTORY, whose recursion has no guard, does not end.

Met while modelling, each confirmed by a counterexample or read off an action, without a run of
its own:

Store and index
* `forget_soft` is one READ COMMITTED update. A version committed while it waits for the row of its
  predecessor is outside its snapshot and stays live.
* A granule stored between the retracting update and the scroll of Qdrant stays live and loses its
  point. No task repairs it, only `migrations/backfill_qdrant.py`, run by hand: the reconciliation
  `purge_memories` mentions does not exist.
* A legacy link may replace the predecessor a version names, so that links disagree, and a purged
  middle version leaves its predecessor superseded without an heir.
* Batches: with dedup off rows are unhashed, and a redelivered batch is stored twice. A repetition
  inside a batch is looked up by hash alone: it may name the row of another namespace, or none when
  the first occurrence was itself dropped (`memory_tasks.py:760-766`). `ResultsNameTheirRows` names both.

* A repeated store writes all metadata of the row back as it has read it, and a version copies metadata and
  confidence as read before the embedding was computed: edits, a reason of retraction, decay and
  raises in between are undone. `update` and `freeze` address a row: on a closed one they succeed and
  the live version never hears of it. A version drops `frozen` on purpose.
* Nightly decay is not idempotent under redelivery, although `tasks/lifecycle_tasks.py:9` says of all its
  tasks that a repetition is a no-op: a second run lowers every confidence again.

Context
Each is a cause that `HonestAnswer` and `LagIsFlagged` name (the table in section 3): without it on
record, TLC shows the stale answer or the unflagged lag.
* `_cache_context` deletes the dirty flag although a write came after the rebuild had read; the
  project is served stale, not marked as such, until the next write.
* Of two overlapping rebuilds the one that read first may save last, over a newer snapshot and after
  its flag.
* When the copy of a context has expired, the read that restores it from the stale table also
  takes the flag down (`service.py:1146`); the flag itself expires after the hour in which the
  rebuild is due.
* `forget` and `delete` of a granule do not mark the context of its project; a failed mark is ignored,
  and so is a failed look at the flag. A retraction marks before it writes.

Settings and schedule
* A notice during a refresh is dropped although that refresh has already read the table, so the old
  value lives on for up to the time to live.
* Two changes, each valid on its own, together break the order of the thresholds. Resetting a
  threshold is not validated at all: verdict raised, synonym raised, verdict reset to its default.
* `_after_write` reads the old concurrency after the write: when the refresh of the notice was
  faster, old and new are equal and no worker is told. Reset-all tells none in any case.
* `load_effective_values_sync` answers with the defaults when the database is away, so beat falls
  back to default schedules although its comment says the last values are kept; a slot that is due
  in the moment of a rebuild is skipped, and a restart forgets the age of every interval.

Edges and linker
* The immunity of frozen ends is checked when the campaign chooses its edges, not when it writes
  (`pg_repository.py:707`): a granule frozen in between loses them.
* An edge that comes to a granule while its version is being made stays behind (`stray`).
* A pair popped from the queue is lost with its worker, or with the process of a verdict by hand; a task
  that is delivered again queues its pairs a second time; a human decision given while the model is
  being asked is overruled, and an edge is written between granules closed meanwhile.
* A model's reply that omits a candidate caches `none` for it.
* A candidate of the campaign over sessions that has no vector is not marked, and the selection takes
  the youngest first: a page of such granules (`linker_reconciler_batch` of them) keeps every older
  one of its session away until they get vectors or are closed. `SessionsSettle` allows for exactly
  this.

Map and clusters
* A snapshot whose rows were read before `bump_dirty` swept is stored after it, under the version of
  the new state (`StaleHasCause` says that this is the only way). The build lock is deleted without a
  look at its owner.
* A layout deletes the dirty mark although edges came meanwhile, and its marker is computed after it:
  the next run is a noop. A change of clusters alone does not show in `layout_stale`.
* `layout_map` moves granules whose place was set by hand; only `galactic_layout` spares them.
* The halo is for granules that are fully isolated, says `docs/GALACTIC_LAYOUT.md:44`. An increment also
  puts a free granule there whose only neighbours get their first row in the same run, and it stays
  there until a forced run. `HaloIsLonely` says what does hold.
* A forced run beside another run of `galactic_layout` ends well although the other's rows stay: one map
  of two layouts (`late`). A granule that joins a cluster with its seat draws later members towards it.
* `refresh_clusters` returns without a bump when Qdrant stops in a later namespace. Overlapping
  refreshes of a namespace leave labels on granules that are gone.

Processes, calls, registries
* SoftTimeLimitExceeded leaves the coroutine pending on the persistent loop, with the lock it holds
  (`async_bridge.py:58`); `except Exception` in the getter of the settings swallows it.
* A hard limit or a killed worker sends no completion event: the caller waits for its chunk.
  The error path of the wait loops without a pause while Redis is away.
* The verification of Qdrant's dimension is skipped for good after a first request that failed.
* A folder rebinds its project to another repository without a question, and two projects may share a
  folder. `_invalidate_cache` finds the id through the other cache: a card whose entry by slug was
  evicted first stays stale by id. Registration in the web process drops no worker's cache.
  `list_all` of namespaces returns the cached ones only once there are some.
* `list_hashes` with a project always fails (`hash_tasks.py:183`). `updated_at` is the beginning of a
  statement, so a reader that polls can miss a change that waited; and pages are counted off from the
  youngest row (at most 500, 50 by default), so one that stops after a page, or whose list loses a row
  between two pages, misses others for good (`MissedHasCause` names these three).

Search
* The rank a candidate is fused with is its position among the rows that were fetched, not the one its
  channel gave it: FETCH_MEMORIES_BY_IDS has no ORDER BY, so ranks vary between two calls and pages of
  one query may overlap; `truncated` is true on the last page.
* Neighbours that activation adds are served without having their access fields bumped.

## 8. What is not modelled

* Of the store: projects and namespaces of granules (every
  uniqueness check is inside one namespace).
* Of the vector index: payload fields other than the status, batches, further scroll pages, the
  backfill script, the approximation of the nearest neighbour index.
* Of the context: the choice and rendering of its text.
* Of the settings: creating and editing profiles, the broadcast of the worker concurrency, type and
  range checks of single values.
* Of the linker: the clean-up of old session edges that runs once, statistics, the wording of
  prompts and the parsing of replies beyond the kinds of outcome.
* Of the map: geometry (DrL, relaxation, spectral order, spirals, bulge) and of search: everything that floating point
  decides; of clusters: names and coherence.
* Of the registries: links, technologies and plain readers; of hashes: size and metadata.
* Embedding and model clients, the Redis client: their failures are failures of the calls above.
* Tools and REST handlers that only forward, the web interface, the editor plugin, migrations
  beyond the constraints they set, scripts and monitoring.
