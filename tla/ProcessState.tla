----------------------------- MODULE ProcessState -----------------------------
(***************************************************************************)
(* SeltiState: what one process makes once and shares - the connection     *)
(* pool, the Redis and Qdrant clients, the runtime settings and the        *)
(* services built of them.  Getters make a part at the first request; they *)
(* are coroutines of one event loop, call each other, and hold a lock      *)
(* across the calls that wait for the database.  Web requests run side by  *)
(* side; in a worker a coroutine left behind by a time limit goes on when  *)
(* the loop is run for the next task (async_bridge.run_async).             *)
(*                                                                         *)
(* A coroutine is the stack of the getters it is in.                       *)
(***************************************************************************)
EXTENDS Naturals, Sequences, SequencesExt

CONSTANTS Callers,       \* coroutines
          Asked,         \* the getters that are called from outside
          MaxAsks,       \* bound: calls per coroutine
          MaxOutages,    \* bound: times the database goes away
          QdrantFaults,  \* whether QdrantClient may refuse to be made
          Nobody         \* the holder of a free lock

Clients == {"redis", "redisBytes"}
Repositories == {"settings", "hash", "namespace", "project"}
Services == {"memory", "map", "linker"}
Parts == {"pool", "qdrant", "embedding", "runtime"} \cup Clients \cup Repositories \cup Services

ASSUME ProcessAssumption == /\ Asked \subseteq Parts \cup {"runtimeSync"}
                            /\ MaxAsks \in Nat /\ MaxOutages \in Nat
                            /\ QdrantFaults \in BOOLEAN
                            /\ Nobody \notin Callers

VARIABLES made,      \* how often each part was made since the process started
          bound,     \* _runtime_config_bound
          holder,    \* who holds _pool_lock and _services_lock
          stack,     \* the getters each coroutine is in, the innermost last
          asks,      \* calls each coroutine has made
          database,  \* "up" or "down"
          outages,
          closing    \* how far aclose has come

processVars == <<made, bound, holder, stack, asks, database, outages, closing>>

\* _pool_lock guards the pool and the Redis clients, _services_lock the rest
LockOf(f) == IF f \in Clients \cup {"pool"} THEN "pool" ELSE "services"

\* What a getter awaits before it takes its lock, in this order
Prerequisites(f) == CASE f \in Repositories -> <<"pool">>
                      [] f = "runtime"      -> <<"settings">>
                      [] f \in Services     -> <<"pool", "runtime">>
                      [] OTHER              -> << >>

\* at: "look" (at the cached part), "need" (the prerequisites, then the lock),
\* "inside" (awaits the database with the lock held); had: prerequisites asked;
\* lacks: get_settings_repository raised
Frames == [getter : Parts, at : {"look", "need", "inside"}, had : 0..2, lacks : BOOLEAN]
Frame(f) == [getter |-> f, at |-> "look", had |-> 0, lacks |-> FALSE]

Exists(f) == made[f] > 0
Cached(f) == IF f = "runtime" THEN Exists("runtime") /\ bound ELSE Exists(f)
Make(fs) == made' = [f \in Parts |-> IF f \in fs THEN made[f] + 1 ELSE made[f]]
Fresh(fs) == {f \in fs : ~Exists(f)}
Top(c) == Last(stack[c])

ProcessInit == /\ made = [f \in Parts |-> 0]
               /\ bound = FALSE
               /\ holder = [l \in {"pool", "services"} |-> Nobody]
               /\ stack = [c \in Callers |-> << >>]
               /\ asks = [c \in Callers |-> 0]
               /\ database = "up" /\ outages = 0 /\ closing = 0

-----------------------------------------------------------------------------
(* How a getter ends.                                                      *)

Returned(s) ==
  LET rest == Front(s)
  IN  IF rest = << >> THEN << >> ELSE [rest EXCEPT ![Len(rest)].had = @ + 1]

\* An exception passes through the getters up to get_runtime_config, which goes
\* on without the repository, or to the caller
Raised(s) ==
  LET catching == {i \in 1..(Len(s) - 1) : s[i].getter = "runtime"}
  IN  IF catching = {} THEN << >>
      ELSE LET i == CHOOSE i \in catching : \A j \in catching : j <= i
           IN  [SubSeq(s, 1, i) EXCEPT ![i].had = @ + 1, ![i].lacks = TRUE]

Return(c) == stack' = [stack EXCEPT ![c] = Returned(@)]
Raise(c) == stack' = [stack EXCEPT ![c] = Raised(@)]
GoTo(c, p) == stack' = [stack EXCEPT ![c][Len(stack[c])].at = p]

In(c, p) == stack[c] # << >> /\ Top(c).at = p

-----------------------------------------------------------------------------
(* Steps of a coroutine: from one await to the next.                       *)

Ask(c, f) ==
  /\ closing = 0 /\ stack[c] = << >> /\ asks[c] < MaxAsks /\ f # "runtimeSync"
  /\ asks' = [asks EXCEPT ![c] = @ + 1]
  /\ stack' = [stack EXCEPT ![c] = <<Frame(f)>>]
  /\ UNCHANGED <<made, bound, holder, database, outages, closing>>

\* get_runtime_config_sync: whatever there is, or one without a database
AskSync(c) ==
  /\ closing = 0 /\ stack[c] = << >> /\ asks[c] < MaxAsks
  /\ asks' = [asks EXCEPT ![c] = @ + 1]
  /\ Make(Fresh({"runtime"}))
  /\ UNCHANGED <<stack, bound, holder, database, outages, closing>>

Look(c) == /\ In(c, "look")
           /\ \/ Cached(Top(c).getter) /\ Return(c)
              \/ ~Cached(Top(c).getter) /\ GoTo(c, "need")
           /\ UNCHANGED <<made, bound, holder, asks, database, outages, closing>>

Lacking(c) == In(c, "need") /\ Top(c).had < Len(Prerequisites(Top(c).getter))
Wanted(c) == Prerequisites(Top(c).getter)[Top(c).had + 1]

\* Variant: get_runtime_config asks for the repository with its lock held
DescendHolding(c) ==
  /\ Lacking(c)
  /\ stack' = [stack EXCEPT ![c] = Append(@, Frame(Wanted(c)))]
  /\ IF Top(c).getter = "runtime"
     THEN holder["services"] = Nobody /\ holder' = [holder EXCEPT !["services"] = c]
     ELSE UNCHANGED holder
  /\ UNCHANGED <<made, bound, asks, database, outages, closing>>

Descend(c) ==
  /\ Lacking(c)
  /\ stack' = [stack EXCEPT ![c] = Append(@, Frame(Wanted(c)))]
  /\ UNCHANGED <<made, bound, holder, asks, database, outages, closing>>

\* The lock of the getter is free and everything it needs has been asked for
Entering(c, f) == /\ In(c, "need") /\ ~Lacking(c)
                  /\ Top(c).getter = f /\ holder[LockOf(f)] = Nobody
Await(c, f) == GoTo(c, "inside") /\ holder' = [holder EXCEPT ![LockOf(f)] = c]
Pass(c) == Return(c) /\ UNCHANGED holder

EnterPool(c) ==
  /\ Entering(c, "pool")
  /\ IF Exists("pool") THEN Pass(c) ELSE Await(c, "pool")
  /\ UNCHANGED <<made, bound, asks, database, outages, closing>>

\* create_pool: the lock is let go whatever comes
Connect(c) ==
  /\ In(c, "inside") /\ Top(c).getter = "pool"
  /\ \/ database = "up" /\ Make({"pool"}) /\ Return(c)
     \/ database = "down" /\ UNCHANGED made /\ Raise(c)
  /\ holder' = [holder EXCEPT !["pool"] = Nobody]
  /\ UNCHANGED <<bound, asks, database, outages, closing>>

EnterRuntime(c) ==
  /\ Entering(c, "runtime")
  /\ Make(Fresh({"runtime"}))
  /\ IF ~Top(c).lacks /\ ~bound THEN Await(c, "runtime") ELSE Pass(c)
  /\ UNCHANGED <<bound, asks, database, outages, closing>>

\* RuntimeConfig.start: a read that fails keeps the defaults and raises nothing,
\* the listener is started all the same
Start(c) ==
  /\ In(c, "inside") /\ Top(c).getter = "runtime"
  /\ bound' = TRUE
  /\ Return(c)
  /\ holder' = [holder EXCEPT !["services"] = Nobody]
  /\ UNCHANGED <<made, asks, database, outages, closing>>

EnterSimple(c) ==
  \E f \in Clients \cup Repositories :
    /\ Entering(c, f)
    /\ Make(Fresh({f})) /\ Pass(c)
    /\ UNCHANGED <<bound, asks, database, outages, closing>>

\* The parts a service makes on its way: get_qdrant and get_embedding_client wait
\* for nothing
PartsOf(f) == CASE f = "memory" -> {"memory", "qdrant", "namespace", "project", "embedding"}
                [] f = "map"    -> {"map", "project"}
                [] f = "linker" -> {"linker", "qdrant"}

EnterService(c) ==
  \E f \in Services :
    /\ Entering(c, f)
    /\ IF Exists(f) THEN UNCHANGED made ELSE Make(Fresh(PartsOf(f)))
    /\ Pass(c)
    /\ UNCHANGED <<bound, asks, database, outages, closing>>

\* QdrantClient raises before anything else is made
QdrantRefused(c) ==
  /\ QdrantFaults /\ ~Exists("qdrant")
  /\ \E f \in {"memory", "linker"} : Entering(c, f) /\ ~Exists(f)
  /\ Raise(c)
  /\ UNCHANGED <<made, bound, holder, asks, database, outages, closing>>

\* get_qdrant and get_embedding_client from outside: one step
EnterAtOnce(c) ==
  \E f \in {"qdrant", "embedding"} :
    /\ In(c, "need") /\ Top(c).getter = f
    /\ Make(Fresh({f})) /\ Pass(c)
    /\ UNCHANGED <<bound, asks, database, outages, closing>>

Proceed(c) == \/ Look(c) \/ Descend(c)
              \/ EnterPool(c) \/ Connect(c) \/ EnterRuntime(c) \/ Start(c)
              \/ EnterSimple(c) \/ EnterService(c) \/ QdrantRefused(c) \/ EnterAtOnce(c)

-----------------------------------------------------------------------------
(* The database and the end of the process.                                *)

Outage == /\ \/ database = "up" /\ outages < MaxOutages
                /\ database' = "down" /\ outages' = outages + 1
             \/ database = "down" /\ database' = "up" /\ UNCHANGED outages
          /\ UNCHANGED <<made, bound, holder, stack, asks, closing>>

\* aclose drops a group of parts, then the next
CloseOrder == <<{"runtime", "settings"}, {"embedding"}, {"qdrant"}, {"redis"}, {"redisBytes"},
                {"pool"}, {"memory", "map", "hash", "namespace", "project", "linker"}>>

\* The event loop has nothing else to do: requests are drained, the last task is over
Close == /\ closing < Len(CloseOrder) /\ \A c \in Callers : stack[c] = << >>
         /\ closing' = closing + 1
         /\ made' = [f \in Parts |-> IF f \in CloseOrder[closing'] THEN 0 ELSE made[f]]
         /\ bound' = FALSE
         /\ UNCHANGED <<holder, stack, asks, database, outages>>

ProcessNext == \/ \E c \in Callers : \/ Proceed(c)
                                     \/ "runtimeSync" \in Asked /\ AskSync(c)
                                     \/ \E f \in Asked : Ask(c, f)
               \/ Outage \/ Close

-----------------------------------------------------------------------------
(* Properties.                                                             *)

ProcessTypeOK == /\ made \in [Parts -> Nat]
                 /\ bound \in BOOLEAN
                 /\ holder \in [{"pool", "services"} -> Callers \cup {Nobody}]
                 /\ stack \in [Callers -> Seq(Frames)]
                 /\ asks \in [Callers -> 0..MaxAsks]
                 /\ database \in {"up", "down"} /\ outages \in 0..MaxOutages
                 /\ closing \in 0..Len(CloseOrder)

\* Every getter ends: locks are never taken inside each other (the comments in
\* get_runtime_config and get_memory_service on the startup that hung).
GettersEnd == \A c \in Callers : stack[c] # << >> ~> stack[c] = << >>
=============================================================================
