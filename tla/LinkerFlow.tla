----------------------------- MODULE LinkerFlow -----------------------------
(***************************************************************************)
(* The linker: the task that links a new granule, the campaign over        *)
(* sessions, the queue of undecided pairs, the worker that asks a language *)
(* model about them, and the person who decides them by hand.              *)
(*                                                                         *)
(* The scores of pairs are two sets of pairs, Near (the automatic zone)    *)
(* and Grey (the zone of verdicts); every other pair is in no zone.  A     *)
(* text is a version number, which stands for its content hash.            *)
(***************************************************************************)
EXTENDS Integers, Sequences, FiniteSets, SequencesExt

CONSTANTS Granules,            \* numbers: the larger is the younger
          Near, Grey, Similar, \* sets of pairs; Similar passes the gate of sessions
          NsOf,                \* namespace of a granule
          CrossAllowed,        \* <<namespace, namespace, link type>>
          Replies,             \* verdicts in play: <<kind, link type>>
          Workers,             \* those that may run l2_verdicts
          TopK, Batch, MaxAttempts, Cap, Rows, \* settings linker_*
          Menus                \* workloads

VARIABLES menu,      \* the workload of this behaviour
          left,      \* what it may still do: close, edit, fault, say, expire
          live, text,\* PostgreSQL: memories
          done,      \* PostgreSQL: memories.metadata.l1c_done
          edges,     \* PostgreSQL: relations
          vector,    \* Qdrant: granules that have a vector
          pending,   \* Celery: messages link_new_granule not yet acknowledged
          queue,     \* Redis: linker:l2q, the head first
          cache,     \* Redis: linker:vdc
          walk,      \* the task link_new_granule and the campaign co_occurrence
          worker,    \* the tasks l2_verdicts
          human,     \* the task linker_manual_verdict
          peeked,    \* what linker_review has read
          queued, judged, excused, \* history of pairs
          settled    \* history: pairs a person has decided while no model was being asked

pg == <<live, text, done, edges, vector, pending>>
redis == <<queue, cache>>
tasks == <<walk, worker, human, peeked>>
history == <<queued, judged, excused, settled>>
vars == <<menu, left, pg, redis, tasks, history>>

Session == menu.session \* granules of one project, namespace and session
Pairs == {{a, b} : a, b \in Granules} \ {{a} : a \in Granules}
Modes == {"llm", "manual", "off"}
Counts == [close : Nat, edit : Nat, fault : Nat, say : Nat, expire : Nat]

ASSUME LinkerAssumption ==
  /\ Granules \subseteq Nat
  /\ Near \subseteq Pairs /\ Grey \subseteq Pairs /\ Near \cap Grey = {} /\ Similar \subseteq Pairs
  /\ \A r \in Replies : r[1] \in {"link", "contradiction", "duplicate", "none"}
  /\ TopK \in Nat /\ {Batch, MaxAttempts, Cap, Rows} \subseteq Nat \ {0}
  /\ Menus \subseteq [mode : Modes, new : SUBSET Granules, bare : SUBSET Granules,
                      session : SUBSET Granules, peek : BOOLEAN, campaign : BOOLEAN, may : Counts]

Items == [g : Granules, cands : SUBSET Granules, att : 0..MaxAttempts]
NoItem == [g |-> -1, cands |-> {}, att |-> 0]
KeyDirected(a, b) == <<<<a, text[a]>>, <<b, text[b]>>>>
Key(a, b) == [x \in {a, b} |-> text[x]]
Verdict(k, t, who) == [kind |-> k, type |-> t, by |-> who]
None == Verdict("none", "none", "silence")
Said(who) == {Verdict(r[1], r[2], who) : r \in Replies}
Blank == [pc |-> "idle", left |-> 0, item |-> NoItem, at |-> <<>>, cands |-> {},
          known |-> <<>>, ask |-> {}, back |-> <<>>]
Silent == [pc |-> "idle", s |-> -1, c |-> -1, v |-> None, key |-> <<>>, todo |-> <<>>, item |-> NoItem]
Still == [pc |-> "idle", g |-> -1, with |-> {}, rows |-> <<>>]

\* the pairs of an item, each with its direction
PairsOf(item) == {<<item.g, c>> : c \in item.cands}
InQueue == UNION {PairsOf(item) : item \in ToSet(queue)}
Holds(w) == PairsOf(worker[w].item) \cup UNION {PairsOf(item) : item \in ToSet(worker[w].back)}
InHand == UNION {Holds(w) : w \in Workers}

TypeOK == /\ menu \in Menus /\ left \in Counts
          /\ live \subseteq Granules /\ text \in [Granules -> Nat]
          /\ done \subseteq Session /\ vector \subseteq Granules /\ pending \subseteq Granules
          /\ \A e \in edges : {e.src, e.dst} \in Pairs
          /\ \A i \in 1..Len(queue) : queue[i] \in Items /\ queue[i].att < MaxAttempts
          /\ \A w \in Workers : /\ worker[w].item \in Items \cup {NoItem}
                                /\ worker[w].ask \subseteq worker[w].cands
                                /\ worker[w].left \in 0..Batch
                                /\ ToSet(worker[w].back) \subseteq Items
          /\ \A p \in DOMAIN walk : walk[p].with \subseteq Granules
          /\ (queued \cup judged \cup excused) \subseteq Granules \X Granules

Init == /\ menu \in Menus /\ left = menu.may
        /\ live = Granules /\ text = [g \in Granules |-> 0]
        /\ done = {} /\ edges = {} /\ vector = Granules \ menu.bare /\ pending = menu.new
        /\ queue = <<>> /\ cache = <<>>
        /\ walk = [p \in {"link", "campaign"} |-> Still]
        /\ worker = [w \in Workers |-> Blank]
        /\ human = Silent /\ peeked = NoItem
        /\ queued = {} /\ judged = {} /\ excused = {} /\ settled = {}

Spend(what) == left[what] > 0 /\ left' = [left EXCEPT ![what] = @ - 1]

\* INSERT ... ON CONFLICT (source, target, link_type) DO NOTHING
Edge(s, d, t, who) == [src |-> s, dst |-> d, type |-> t, by |-> who]
Insert(E) == edges' = edges \cup {e \in E : \A f \in edges : <<f.src, f.dst, f.type>> # <<e.src, e.dst, e.type>>}

-----------------------------------------------------------------------------
(* Granules and their vectors change beside the linker.                    *)

Close(g) == /\ g \in live /\ Spend("close") /\ live' = live \ {g}
            /\ UNCHANGED <<menu, text, done, edges, vector, pending, redis, tasks, history>>

Edit(g) == /\ g \in live /\ Spend("edit") /\ text' = [text EXCEPT ![g] = @ + 1]
           /\ settled' = {p \in settled : g \notin p}
           /\ UNCHANGED <<menu, live, done, edges, vector, pending, redis, tasks, queued, judged, excused>>

\* a granule that was stored without a vector gets one later (the next upsert of
\* it, or a script run by hand), or never: no task looks for such granules
Index(g) == /\ g \notin vector /\ vector' = vector \cup {g}
            /\ UNCHANGED <<menu, left, live, text, done, edges, pending, redis, tasks, history>>

\* linker_verdict_cache_ttl
Expire(k) == /\ k \in DOMAIN cache /\ Spend("expire")
             /\ cache' = [x \in DOMAIN cache \ {k} |-> cache[x]]
             /\ settled' = {p \in settled : \A a, b \in p : a # b => Key(a, b) # k}
             /\ UNCHANGED <<menu, pg, queue, tasks, queued, judged, excused>>

-----------------------------------------------------------------------------
(* Sessions.  _process_cooccurrence serves the task of a new granule and   *)
(* the campaign; p says which one.                                         *)

Goto(p, w) == walk' = [walk EXCEPT ![p] = w]
At(p, pc) == walk[p].pc = pc
\* what p does after the session of a granule: link_new_granule goes on to
\* its neighbours by meaning, the campaign to its next row
After(p) == IF p = "link" THEN [walk[p] EXCEPT !.pc = "ann", !.with = {}]
            ELSE IF walk[p].rows = <<>> THEN Still
            ELSE [pc |-> "meet", g |-> Head(walk[p].rows), with |-> {}, rows |-> Tail(walk[p].rows)]

Newest(S, n) == {g \in S : Cardinality({h \in S : h > g}) < n}
Neighbours(g) == Newest((Session \cap live) \ {g}, Cap)
Passed(g, N) == {h \in N \cap vector : {g, h} \in Similar}
Meets(g, h) == \E e \in edges : e.type = "related_to" /\ {e.src, e.dst} = {g, h}

\* SELECT_COOCCURRENCE_NEIGHBORS and the gate
Meet(p) == /\ At(p, "meet")
           /\ LET g == walk[p].g
                  N == Neighbours(g)
              IN \/ /\ N = {} \/ g \notin vector
                    /\ Goto(p, After(p)) /\ UNCHANGED left
                 \/ /\ N # {} /\ Spend("fault") /\ Goto(p, After(p))
                 \/ /\ N # {} /\ g \in vector /\ UNCHANGED left
                    /\ Goto(p, [walk[p] EXCEPT !.pc = IF Passed(g, N) = {} THEN "mark" ELSE "insert",
                                               !.with = Passed(g, N)])
           /\ UNCHANGED <<menu, pg, redis, worker, human, peeked, history>>

\* INSERT_COOCCURRENCE_LINKS; an edge in either direction is only reinforced
MeetInsert(p) == /\ At(p, "insert")
                 /\ LET g == walk[p].g
                    IN Insert({Edge(g, h, "related_to", "l1c") :
                                 h \in {x \in walk[p].with : ~Meets(g, x)}})
                 /\ Goto(p, [walk[p] EXCEPT !.pc = "mark"])
                 /\ UNCHANGED <<menu, left, live, text, done, vector, pending, redis, worker, human, peeked, history>>

MarkedIfLinked(p) == IF walk[p].with = {} THEN done ELSE done \cup {walk[p].g}
Marked(p) == done \cup {walk[p].g}
MeetMark(p) == /\ At(p, "mark")
               /\ done' = Marked(p)
               /\ Goto(p, After(p))
               /\ UNCHANGED <<menu, left, live, text, edges, vector, pending, redis, worker, human, peeked, history>>

\* SELECT_COOCCURRENCE_CANDIDATES
Candidates == {g \in (Session \cap live) \ done :
                 /\ \A e \in edges : e.by = "l1c" => g \notin {e.src, e.dst}
                 /\ (Session \cap live) \ {g} # {}}

Campaign == /\ menu.campaign /\ At("campaign", "idle") /\ Candidates # {}
            /\ LET rows == SetToSortSeq(Newest(Candidates, Rows), LAMBDA a, b : a > b)
               IN Goto("campaign", [pc |-> "meet", g |-> Head(rows), with |-> {}, rows |-> Tail(rows)])
            /\ UNCHANGED <<menu, left, pg, redis, worker, human, peeked, history>>

-----------------------------------------------------------------------------
(* link_new_granule: sessions, then neighbours by meaning, then the queue. *)

Ack(g) == pending' = pending \ {g}

\* The task is over and its message acknowledged, unless its process dies before:
\* then the task starts again, although what it has written stands
Over(g) == /\ Goto("link", Still)
           /\ \/ Ack(g) /\ UNCHANGED left
              \/ Spend("fault") /\ UNCHANGED pending

LinkBegin(g) ==
  /\ g \in pending /\ At("link", "idle")
  /\ IF g \in live
     THEN /\ Goto("link", [Still EXCEPT !.pc = IF g \in Session THEN "meet" ELSE "ann", !.g = g])
          /\ UNCHANGED pending
     ELSE Ack(g) /\ UNCHANGED walk
  /\ UNCHANGED <<menu, left, live, text, done, edges, vector, redis, worker, human, peeked, history>>

\* L1a and the choice of pairs for L2.  The index may not know yet that a
\* granule was closed
LinkNear ==
  /\ At("link", "ann")
  /\ LET g == walk["link"].g
     IN \/ /\ g \notin vector
           /\ Over(g) /\ UNCHANGED edges
        \/ /\ g \in vector
           /\ \E stale \in SUBSET (vector \ live) :
                LET hits == ((vector \cap live) \cup stale) \ {g}
                    grey == {h \in hits : {g, h} \in Grey}
                IN /\ Insert({Edge(g, h, "related_to", "l1a") : h \in {x \in hits : {g, x} \in Near}})
                   /\ IF grey = {} \/ menu.mode = "off" \/ TopK = 0
                      THEN Over(g)
                      ELSE /\ \E best \in SUBSET grey :
                                /\ Cardinality(best) = IF Cardinality(grey) < TopK THEN Cardinality(grey) ELSE TopK
                                /\ Goto("link", [walk["link"] EXCEPT !.pc = "push", !.with = best])
                           /\ UNCHANGED <<left, pending>>
  /\ UNCHANGED <<menu, live, text, done, vector, redis, worker, human, peeked, history>>

\* lpush; when it fails the pairs are given up
LinkPush ==
  /\ At("link", "push")
  /\ LET item == [g |-> walk["link"].g, cands |-> walk["link"].with, att |-> 0]
     IN \/ /\ queue' = <<item>> \o queue /\ queued' = queued \cup PairsOf(item)
           /\ Over(item.g)
        \/ /\ Spend("fault") /\ Goto("link", Still) /\ Ack(item.g)
           /\ UNCHANGED <<queue, queued>>
  /\ UNCHANGED <<menu, live, text, done, edges, vector, cache, worker, human, peeked, judged, excused, settled>>

\* The worker process dies: the message stays and the task starts again; a
\* campaign starts again with its next beat
WalkLost(p) == /\ walk[p].pc # "idle" /\ Spend("fault") /\ Goto(p, Still)
               /\ UNCHANGED <<menu, pg, redis, worker, human, peeked, history>>

-----------------------------------------------------------------------------
(* run_l2_verdicts.                                                        *)

Set(w, r) == worker' = [worker EXCEPT ![w] = r]
On(w, pc) == worker[w].pc = pc
Next0(w) == [Blank EXCEPT !.pc = "pop", !.left = worker[w].left, !.back = worker[w].back]

WorkStart(w) == /\ menu.mode = "llm" /\ On(w, "idle") /\ queue # <<>>
                /\ Set(w, [Blank EXCEPT !.pc = "pop", !.left = Batch])
                /\ UNCHANGED <<menu, left, pg, redis, walk, human, peeked, history>>

Uncounted(item) == item
Attempt(item) == [item EXCEPT !.att = @ + 1]

\* rpop; the batch ends when it is used up, the queue is empty or Redis fails
WorkPop(w) ==
  /\ On(w, "pop")
  /\ \/ /\ worker[w].left > 0 /\ queue # <<>>
        /\ queue' = Front(queue)
        /\ Set(w, [worker[w] EXCEPT !.pc = "read", !.left = @ - 1, !.item = Attempt(Last(queue))])
        /\ UNCHANGED left
     \/ /\ worker[w].left = 0 \/ queue = <<>>
        /\ Set(w, [worker[w] EXCEPT !.pc = "return"]) /\ UNCHANGED <<left, queue>>
     \/ /\ worker[w].left > 0 /\ Spend("fault")
        /\ Set(w, [worker[w] EXCEPT !.pc = "return"]) /\ UNCHANGED queue
  /\ UNCHANGED <<menu, pg, cache, walk, human, peeked, history>>

\* The live participants, and what the cache says of each pair; a cache that
\* cannot be read knows nothing
WorkRead(w) ==
  /\ On(w, "read")
  /\ LET item == worker[w].item
         cands == item.cands \cap live
         at == [c \in cands |-> Key(item.g, c)]
         Known(keys) == [c \in {x \in cands : at[x] \in keys} |-> cache[at[c]]]
         Go(keys) == Set(w, [worker[w] EXCEPT !.pc = IF cands \subseteq DOMAIN Known(keys) THEN "apply" ELSE "ask",
                                              !.at = at, !.cands = cands, !.known = Known(keys),
                                              !.ask = cands \ DOMAIN Known(keys)])
     IN \/ /\ item.g \notin live \/ cands = {}
           /\ Set(w, Next0(w)) /\ UNCHANGED left
           /\ UNCHANGED settled
        \/ /\ item.g \in live /\ cands # {} /\ Go(DOMAIN cache)
           /\ UNCHANGED <<left, settled>>
        \/ /\ item.g \in live /\ cands # {} /\ Spend("fault") /\ Go({})
           /\ settled' = settled \ {{item.g, c} : c \in cands}
  /\ UNCHANGED <<menu, pg, redis, walk, human, peeked, queued, judged, excused>>

\* A reply that names at least one verdict; a candidate it leaves out gets none,
\* and that is cached as well.  A reply may name only foreign ids
Cached(w, verdicts, kept) ==
  LET keys == {worker[w].at[c] : c \in kept}
  IN [k \in DOMAIN cache \cup keys |->
        IF k \in keys THEN verdicts[CHOOSE c \in kept : worker[w].at[c] = k] ELSE cache[k]]
Told(w, verdicts) == [c \in worker[w].cands |-> IF c \in worker[w].ask THEN verdicts[c]
                                                 ELSE worker[w].known[c]]
Heard(w, verdicts) == Set(w, [worker[w] EXCEPT !.pc = "apply", !.ask = {}, !.known = Told(w, verdicts)])

WorkAnswer(w) ==
  /\ On(w, "ask")
  /\ \E said \in [worker[w].ask -> Said("model") \cup {None}] :
       /\ Heard(w, said)
       /\ \/ cache' = Cached(w, said, worker[w].ask) /\ UNCHANGED left
          \/ \E kept \in SUBSET worker[w].ask :
               kept # worker[w].ask /\ Spend("fault") /\ cache' = Cached(w, said, kept)
  /\ UNCHANGED <<menu, pg, queue, walk, human, peeked, history>>

\* VerdictParseError: none for all of them, and nothing is cached
WorkGarbage(w) ==
  /\ On(w, "ask")
  /\ Heard(w, [c \in worker[w].ask |-> Verdict("none", "none", "garbage")])
  /\ UNCHANGED <<menu, left, pg, cache, queue, walk, human, peeked, history>>

GoesBack(item) == item.att < MaxAttempts

\* The model cannot be reached: the item is to go back, up to a number of times
WorkTransport(w) ==
  /\ On(w, "ask")
  /\ LET item == worker[w].item
     IN IF GoesBack(item)
        THEN /\ Set(w, [Next0(w) EXCEPT !.back = Append(worker[w].back, item)]) /\ UNCHANGED excused
        ELSE /\ Set(w, Next0(w)) /\ excused' = excused \cup PairsOf(item)
  /\ UNCHANGED <<menu, left, pg, redis, walk, human, peeked, queued, judged, settled>>

\* validate_link_type, and related_to for a type the pair of namespaces rejects
LinkType(s, c, t) == IF t # "none" /\ (NsOf[s] = NsOf[c] \/ <<NsOf[s], NsOf[c], t>> \in CrossAllowed)
                     THEN t ELSE "related_to"

\* _apply_verdict
Verdicted(s, c, v) ==
  CASE v.kind = "link" -> {Edge(s, c, LinkType(s, c, v.type), v.by)}
    [] v.kind = "contradiction" -> {Edge(s, c, "contradicts", v.by)}
    [] OTHER -> {}

WorkApply(w) ==
  /\ On(w, "apply")
  /\ \E c \in worker[w].cands :
       LET g == worker[w].item.g
           rest == worker[w].cands \ {c}
       IN /\ Insert(Verdicted(g, c, worker[w].known[c]))
          /\ judged' = judged \cup {<<g, c>>}
          /\ Set(w, IF rest = {} THEN Next0(w) ELSE [worker[w] EXCEPT !.cands = rest])
  /\ UNCHANGED <<menu, left, live, text, done, vector, pending, redis, walk, human, peeked, queued, excused, settled>>

\* lpush of the items that go back, after the loop
WorkReturn(w) ==
  /\ On(w, "return")
  /\ IF worker[w].back = <<>>
     THEN Set(w, Blank) /\ UNCHANGED queue
     ELSE /\ queue' = <<Head(worker[w].back)>> \o queue
          /\ Set(w, [worker[w] EXCEPT !.back = Tail(@)])
  /\ UNCHANGED <<menu, left, pg, cache, walk, human, peeked, history>>

\* The process dies, or a statement or a Redis command raises: what the worker
\* holds is nowhere else
WorkLost(w) ==
  /\ worker[w].pc # "idle" /\ Spend("fault")
  /\ excused' = excused \cup Holds(w)
  /\ Set(w, Blank)
  /\ UNCHANGED <<menu, pg, redis, walk, human, peeked, queued, judged, settled>>

-----------------------------------------------------------------------------
(* apply_manual_verdict and _consume_l2_pair.                              *)

Person(r) == human' = r
Is(pc) == human.pc = pc

\* peek_l2 shows no order to decide in: any two live granules may be decided
Say(s, c) ==
  /\ Is("idle") /\ s # c /\ {s, c} \subseteq live /\ Spend("say")
  /\ \E v \in Said("human") :
       Person([Silent EXCEPT !.pc = "edge", !.s = s, !.c = c, !.v = v, !.key = Key(s, c)])
  /\ UNCHANGED <<menu, pg, redis, walk, worker, peeked, history>>

SayEdge == /\ Is("edge")
           /\ Insert(Verdicted(human.s, human.c, human.v))
           /\ judged' = judged \cup {<<human.s, human.c>>, <<human.c, human.s>>}
           /\ Person([human EXCEPT !.pc = "cache"])
           /\ UNCHANGED <<menu, left, live, text, done, vector, pending, redis, walk, worker, peeked, queued, excused, settled>>

\* Workers that have read the cache of this pair and have not yet written its edge
Deciding(pair) == \E w \in Workers : /\ worker[w].pc \in {"ask", "apply"}
                                     /\ \E c \in worker[w].cands : {worker[w].item.g, c} = pair

SayCache == /\ Is("cache")
            /\ \/ /\ cache' = [k \in DOMAIN cache \cup {human.key} |-> IF k = human.key THEN human.v ELSE cache[k]]
                  /\ settled' = LET pair == {human.s, human.c}
                                IN IF Deciding(pair) \/ human.key # Key(human.s, human.c)
                                   THEN settled ELSE settled \cup {pair}
                  /\ UNCHANGED left
               \/ Spend("fault") /\ UNCHANGED <<cache, settled>>
            /\ Person([human EXCEPT !.pc = "list"])
            /\ UNCHANGED <<menu, pg, queue, walk, worker, peeked, queued, judged, excused>>

Other(item) == IF item.g = human.s THEN human.c ELSE human.s
Mentions(item) == item.g \in {human.s, human.c} /\ Other(item) \in item.cands
\* Items that do not mention the pair are passed by
Onward(todo) == LET n == SelectInSeq(todo, Mentions)
                IN IF n = 0 THEN <<>> ELSE SubSeq(todo, n, Len(todo))

SayList == /\ Is("list")
           /\ \/ Person([human EXCEPT !.pc = "take", !.todo = Onward(queue)]) /\ UNCHANGED left
              \/ Spend("fault") /\ Person(Silent)
           /\ UNCHANGED <<menu, pg, redis, walk, worker, peeked, history>>

\* The next item as it was listed.  lrem takes the first one that equals it, if it
\* is still there; when it fails the item stays and the next one follows
NoSiblings(item) == [item EXCEPT !.cands = {}]
Siblings(item) == [item EXCEPT !.cands = @ \ {Other(item)}]
SayTake ==
  /\ Is("take")
  /\ IF human.todo = <<>> THEN Person(Silent) /\ UNCHANGED <<left, queue>>
     ELSE LET item == Head(human.todo)
              kept == Siblings(item)
              pass == [human EXCEPT !.todo = Onward(Tail(@))]
          IN \/ /\ queue' = RemoveFirst(queue, item) /\ UNCHANGED left
                /\ Person(IF kept.cands = {} THEN pass ELSE [pass EXCEPT !.item = kept, !.pc = "put"])
             \/ Spend("fault") /\ Person(pass) /\ UNCHANGED queue
  /\ UNCHANGED <<menu, pg, cache, walk, worker, peeked, history>>

\* rpush of what is left of the item
SayPut == /\ Is("put")
          /\ \/ queue' = Append(queue, human.item) /\ UNCHANGED <<left, excused>>
             \/ Spend("fault") /\ excused' = excused \cup PairsOf(human.item) /\ UNCHANGED queue
          /\ Person([human EXCEPT !.pc = "take", !.item = NoItem])
          /\ UNCHANGED <<menu, pg, cache, walk, worker, peeked, queued, judged, settled>>

\* The process of the verdict dies, with what it has taken from the queue; the
\* task is delivered again, or its time was over
SayLost ==
  /\ human.pc # "idle" /\ Spend("fault")
  /\ excused' = excused \cup PairsOf(human.item)
  /\ \/ Person(Silent)
     \/ /\ {human.s, human.c} \subseteq live
        /\ Person([Silent EXCEPT !.pc = "edge", !.s = human.s, !.c = human.c, !.v = human.v,
                                 !.key = Key(human.s, human.c)])
  /\ UNCHANGED <<menu, pg, redis, walk, worker, peeked, queued, judged, settled>>

\* peek_l2: lindex -1, then lrem of an item that has gone stale
PeekRead == /\ menu.peek /\ peeked = NoItem /\ queue # <<>> /\ peeked' = Last(queue)
            /\ UNCHANGED <<menu, left, pg, redis, walk, worker, human, history>>

Stale(item) == item.g \notin live \/ item.cands \cap live = {}
PeekCheck == /\ peeked # NoItem
             /\ queue' = IF Stale(peeked) THEN RemoveFirst(queue, peeked) ELSE queue
             /\ peeked' = NoItem
             /\ UNCHANGED <<menu, left, pg, cache, walk, worker, human, history>>

-----------------------------------------------------------------------------
Aside == \/ \E g \in Granules : Close(g) \/ Edit(g) \/ Index(g)
         \/ \E k \in DOMAIN cache : Expire(k)
MeetStep(p) == Meet(p) \/ MeetInsert(p) \/ MeetMark(p)
LinkStep == (\E g \in Granules : LinkBegin(g)) \/ LinkNear \/ LinkPush
WorkStep(w) == \/ WorkStart(w) \/ WorkPop(w) \/ WorkRead(w) \/ WorkAnswer(w) \/ WorkGarbage(w)
               \/ WorkTransport(w) \/ WorkApply(w) \/ WorkReturn(w)
PersonStep == SayEdge \/ SayCache \/ SayList \/ SayTake \/ SayPut
Peek == PeekRead \/ PeekCheck

Next == \/ Aside \/ Campaign \/ LinkStep
        \/ \E p \in DOMAIN walk : MeetStep(p) \/ WalkLost(p)
        \/ \E w \in Workers : WorkStep(w) \/ WorkLost(w)
        \/ \E s, c \in Granules : Say(s, c)
        \/ PersonStep \/ SayLost \/ Peek

\* Celery delivers every message and beat starts the worker and the campaign
\* again and again.  Nobody has to decide by hand, and no vector has to come
Fairness == /\ WF_vars(LinkStep) /\ WF_vars(Campaign) /\ WF_vars(PersonStep)
            /\ \A p \in {"link", "campaign"} : WF_vars(MeetStep(p))
            /\ \A w \in Workers : WF_vars(WorkStep(w))

Spec == Init /\ [][Next]_vars /\ Fairness

-----------------------------------------------------------------------------
\* A pair that entered the queue is still there or in the hands of the worker
\* or of the person who took its item out, unless it was decided, an end of it
\* was closed, its attempts were used up, or the hands that held it were lost
\* (run_l2_verdicts puts items back only after its loop; _consume_l2_pair
\* removes an item before it writes back what is left of it).
PairsAccounted == \A p \in queued : \/ p \in InQueue \cup InHand \cup PairsOf(human.item)
                                    \/ p \in judged \cup excused
                                    \/ ~({p[1], p[2]} \subseteq live)

\* Once a person has decided a pair that no worker was deciding at that moment,
\* no edge of the model comes between its ends while the decision is cached and
\* readable and both texts stay as they are, whichever end the queue names
\* first (apply_manual_verdict: a later worker does not overrule a person).
SettledByHand == [][\A e \in edges' \ edges : e.by = "model" => {e.src, e.dst} \notin settled]_vars

\* With a language model the queue runs empty: attempts are counted, so even a
\* model that never answers does not keep an item in it.
QueueDrains == menu.mode = "llm" => <>[](queue = <<>>)

\* A full page of younger granules, none of which the campaign can mark
Starved(g) == Cardinality({h \in Candidates \ vector : h > g}) >= Rows

\* The campaign over sessions comes to an end of its candidates, those included
\* that have no neighbour close enough or whose vector comes late: what stays one
\* for ever has no vector, or stands behind a page of younger ones that have
\* none (SELECT_COOCCURRENCE_CANDIDATES takes the youngest first, and a granule
\* without a vector is not marked).
SessionsSettle == menu.campaign => <>[](\A g \in Candidates : g \notin vector \/ Starved(g))
=============================================================================
