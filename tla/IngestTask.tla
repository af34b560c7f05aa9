------------------------------ MODULE IngestTask ------------------------------
(***************************************************************************)
(* The batch import as the body of a task: ingest_batch checks a batch     *)
(* against what is stored (exactly, within the batch, by meaning), makes   *)
(* the namespaces it needs and inserts the rest in one statement.  Other   *)
(* batches run at the same time, the worker may be lost or run out of time *)
(* between any two steps, and a lost worker's batch is run again.          *)
(*                                                                         *)
(* An entry is a namespace and a content; Malformed content is refused.    *)
(* The plan of a worker pairs every entry with what is done about it and   *)
(* the row its result names.                                               *)
(***************************************************************************)
EXTENDS TaskBridge, Sequences, FiniteSets

CONSTANTS Batches,     \* the menu: the batch of each task, who waits for it, the setting
          Malformed,   \* a content that is not a non-empty string
          Near         \* unordered pairs of contents that mean the same

\* A batch is a list of entries
Listed(f) == {f[x] : x \in DOMAIN f}
ASSUME BatchAssumption == \A m \in Batches, t \in Tasks : m.of[t] \in Seq(Listed(m.of[t]))

VARIABLES batch,   \* the entries of each task
          dedup,   \* dedup_enabled, "on" or "off"
          rows,    \* memories
          known,   \* namespaces in the cache of each worker process
          plan,    \* what each worker is about to do
          stage,   \* how far the body has come
          answer   \* the results of each task that succeeded

ingestVars == <<batch, dedup, rows, known, plan, stage, answer>>
Steps == {"none", "check", "search", "register", "insert", "link"}

IngestInit == /\ \E m \in Batches : batch = m.of /\ patient = m.waited /\ dedup = m.dedup
              /\ rows = << >>
              /\ known = [w \in Workers |-> {}]
              /\ plan = [w \in Workers |-> << >>]
              /\ stage = [w \in Workers |-> "none"]
              /\ answer = [t \in Tasks |-> << >>]

Entries(w) == batch[task[w]]
Working(w, s) == at[w] = "body" /\ stage[w] = s
MoveOn(w, s) == stage' = [stage EXCEPT ![w] = s] /\ UNCHANGED bridgeVars
Plan(w, p) == plan' = [plan EXCEPT ![w] = p]
Doing(what, id) == [what |-> what, id |-> id]

SameKey(x, y) == x.space = y.space /\ x.content = y.content

\* A row whose hash the unique index holds
Indexed(e) == {k \in DOMAIN rows : rows[k].hashed /\ SameKey(rows[k], e)}

Begin(w) == /\ \E t \in Tasks : Take(w, t)
            /\ stage' = [stage EXCEPT ![w] = "check"]
            /\ UNCHANGED <<batch, dedup, rows, known, plan, answer>>

-----------------------------------------------------------------------------
(* check_batch: the first two rounds read the rows once.                   *)

\* Variant: a repetition is recognized by its hash alone
RepeatedAnywhere(es, i) == \E j \in 1..(i - 1) : es[j].content = es[i].content

\* An entry that the batch has had before
Repeated(es, i) == \E j \in 1..(i - 1) : SameKey(es[j], es[i])

\* Other entries are counted as invalid and left out
Valid(e) == e.content # Malformed

\* user_facts are updated, other namespaces skipped: one name here.  A repetition
\* within the batch has no row to name yet
DecideExactly(es, i) ==
  IF ~Valid(es[i]) THEN Doing("invalid", 0)
  ELSE IF Indexed(es[i]) # {} THEN Doing("skip", CHOOSE k \in Indexed(es[i]) : TRUE)
  ELSE Doing(IF Repeated(es, i) THEN "repeat" ELSE "open", 0)

\* dedup_enabled decides; without it every valid entry is inserted, unhashed
CheckExactly(w) ==
  /\ Working(w, "check")
  /\ LET es == Entries(w)
     IN  \/ /\ dedup = "on"
            /\ Plan(w, [i \in DOMAIN es |-> DecideExactly(es, i)])
            /\ MoveOn(w, "search")
         \/ /\ dedup = "off"
            /\ Plan(w, [i \in DOMAIN es |-> Doing(IF Valid(es[i]) THEN "plain" ELSE "invalid", 0)])
            /\ MoveOn(w, "register")
  /\ UNCHANGED <<batch, dedup, rows, known, answer>>

Alike(a, b) == a = b \/ {a, b} \in Near
LikeIn(rs, e) == {k \in DOMAIN rs : rs[k].space = e.space /\ Alike(rs[k].content, e.content)}
AlikeRows(e) == LikeIn(rows, e)

\* By meaning: an open entry is dropped for a row that is like it.  A row whose
\* vector is not written yet, a failed search or another entity name: inserted.
SearchSimilar(w) ==
  /\ Working(w, "search")
  /\ \E found \in [DOMAIN plan[w] -> 0..Len(rows)] :
       /\ \A i \in DOMAIN found :
            IF plan[w][i].what = "open" THEN found[i] \in AlikeRows(Entries(w)[i]) \cup {0}
                                        ELSE found[i] = 0
       /\ Plan(w, [i \in DOMAIN found |->
                     IF plan[w][i].what # "open" THEN plan[w][i]
                     ELSE IF found[i] = 0 THEN Doing("insert", 0) ELSE Doing("skip", found[i])])
  /\ MoveOn(w, "register")
  /\ UNCHANGED <<batch, dedup, rows, known, answer>>

-----------------------------------------------------------------------------
(* The insert.                                                             *)

NewEntries(w) == {i \in DOMAIN plan[w] : plan[w][i].what \in {"insert", "plain"}}

\* get_or_create: INSERT ... ON CONFLICT, so that whoever comes second gets the row
Register(w) ==
  /\ Working(w, "register")
  /\ known' = [known EXCEPT ![w] = @ \cup {Entries(w)[i].space : i \in NewEntries(w)}]
  /\ MoveOn(w, IF NewEntries(w) = {} THEN "link" ELSE "insert")
  /\ UNCHANGED <<batch, dedup, rows, plan, answer>>

\* The new rows in the order of the batch, and the row of each entry
Rank(S, i) == Cardinality({j \in S : j <= i})
Inserted(w) == [k \in 1..Cardinality(NewEntries(w)) |->
                  LET i == CHOOSE j \in NewEntries(w) : Rank(NewEntries(w), j) = k
                  IN  [space |-> Entries(w)[i].space, content |-> Entries(w)[i].content,
                       hashed |-> plan[w][i].what = "insert"]]
RowOf(w, i) == Len(rows) + Rank(NewEntries(w), i)

\* The index refuses the whole batch when another one was faster
Clash(w) == \E i \in NewEntries(w) : plan[w][i].what = "insert" /\ Indexed(Entries(w)[i]) # {}

\* Variant: repetitions are left without a row
LinkNothing(w, i) == 0

\* Repetitions are looked up by hash, the last row inserted for it wins
LinkRepeat(w, i) ==
  LET same == {j \in NewEntries(w) : plan[w][j].what = "insert"
                                     /\ Entries(w)[j].content = Entries(w)[i].content}
  IN  IF same = {} THEN 0 ELSE RowOf(w, CHOOSE j \in same : \A k \in same : k <= j)

InsertBatch(w) ==
  /\ Working(w, "insert") /\ ~Clash(w)
  /\ rows' = rows \o Inserted(w)
  /\ Plan(w, [i \in DOMAIN plan[w] |->
                CASE plan[w][i].what \in {"insert", "plain"} -> Doing("insert", RowOf(w, i))
                  [] plan[w][i].what = "repeat" -> Doing("skip", LinkRepeat(w, i))
                  [] OTHER -> plan[w][i]])
  /\ MoveOn(w, "link")
  /\ UNCHANGED <<batch, dedup, known, answer>>

\* The body raises: the index, the embedding service, a connection
Raises(w) ==
  /\ \/ Working(w, "insert") /\ Clash(w) /\ UNCHANGED faults
     \/ (Working(w, "search") \/ Working(w, "register")) /\ Fault
  /\ at' = [at EXCEPT ![w] = "store"] /\ outcome' = [outcome EXCEPT ![w] = "failure"]
  /\ stage' = [stage EXCEPT ![w] = "none"] /\ Plan(w, << >>)
  /\ UNCHANGED <<clientVars, queue, task, waiters, backend, event, cause, batch, dedup, rows, known, answer>>

\* soft_time_limit, or Qdrant fails after the statement: the rows are there and the
\* task has failed
RaisesLate(w) ==
  /\ Working(w, "insert") /\ ~Clash(w) /\ Fault
  /\ rows' = rows \o Inserted(w)
  /\ at' = [at EXCEPT ![w] = "store"] /\ outcome' = [outcome EXCEPT ![w] = "failure"]
  /\ stage' = [stage EXCEPT ![w] = "none"] /\ Plan(w, << >>)
  /\ UNCHANGED <<clientVars, queue, task, waiters, backend, event, cause, batch, dedup, known, answer>>

\* sync_links_batch may fail unnoticed; the body returns
Returns(w) == /\ Working(w, "link")
              /\ BodyEnds(w, "success")
              /\ stage' = [stage EXCEPT ![w] = "none"]
              /\ UNCHANGED <<batch, dedup, rows, known, plan, answer>>

\* The results travel with the success
Store(w) ==
  /\ StoreResult(w)
  /\ answer' = [answer EXCEPT ![task[w]] = IF @ = << >> THEN plan[w] ELSE @]
  /\ Plan(w, << >>)
  /\ UNCHANGED <<batch, dedup, rows, known, stage>>

\* A lost worker's batch leaves nothing behind but its rows
Forgotten(w) == /\ Lost(w) \/ HardLimit(w)
                /\ Plan(w, << >>) /\ known' = [known EXCEPT ![w] = {}]
                /\ stage' = [stage EXCEPT ![w] = "none"]
                /\ UNCHANGED <<batch, dedup, rows, answer>>

Body(w) == \/ CheckExactly(w) \/ SearchSimilar(w) \/ Register(w)
           \/ InsertBatch(w) \/ Raises(w) \/ RaisesLate(w) \/ Returns(w)

BatchNext ==
  \/ \E t \in Tasks : /\ Send(t) \/ Client(t) \/ BlpopFails(t) \/ EventExpires(t)
                      /\ UNCHANGED ingestVars
  \/ \E w \in Workers : \/ Begin(w) \/ Body(w) \/ Store(w) \/ Forgotten(w)
                        \/ (Notify(w) \/ NobodyWaits(w) \/ Ack(w)) /\ UNCHANGED ingestVars

batchVars == <<bridgeVars, ingestVars>>
BatchSpec == BridgeInit /\ IngestInit /\ [][BatchNext]_batchVars

-----------------------------------------------------------------------------
(* Properties.                                                             *)

IngestTypeOK == /\ rows \in Seq([space : STRING, content : STRING, hashed : BOOLEAN])
                /\ stage \in [Workers -> Steps]

Names(rs, e, r) == r.id # 0 /\ r.id \in LikeIn(rs, e)

\* When a batch has succeeded, every valid entry of it is stored: there is a row of
\* its namespace with its content or one like it, whichever batches ran beside it and
\* however often it was started over (ingest_batch, check_batch).
BatchIsStored ==
  \A t \in Tasks : \A i \in DOMAIN answer[t] :
    Valid(batch[t][i]) => AlikeRows(batch[t][i]) # {}

\* The result of an entry names its row.  The exceptions: an entry that repeats an
\* earlier one which was itself dropped for a row like it, and one whose content the
\* batch also has in another namespace.
ResultIsRight(rs, es, p, i) ==
  \/ ~Valid(es[i]) \/ Names(rs, es[i], p[i])
  \/ \E j \in 1..(i - 1) : SameKey(es[j], es[i]) /\ ~Repeated(es, j) /\ p[j].what = "skip"
  \/ /\ Repeated(es, i)
     /\ \E j \in DOMAIN es : es[j].content = es[i].content /\ es[j].space # es[i].space
ResultsNameTheirRows ==
  \A t \in Tasks : \A i \in DOMAIN answer[t] : ResultIsRight(rows, batch[t], answer[t], i)

-----------------------------------------------------------------------------
(* Why: the parts of the inductive invariant.                              *)

\* What is decided about an entry before the insert
DecidedWell(rs, es, i, d, s) ==
  /\ d.what \in {"invalid", "skip", "repeat"} \cup (IF s = "search" THEN {"open"} ELSE {"insert", "plain"})
  /\ d.what = "invalid" => ~Valid(es[i])
  /\ d.what = "skip" => Names(rs, es[i], d)
  /\ d.what = "repeat" => Repeated(es, i)

\* Results that may be given for a batch
Settled(rs, es, p) ==
  /\ DOMAIN p \subseteq DOMAIN es
  /\ \A i \in DOMAIN p : /\ Valid(es[i]) => LikeIn(rs, es[i]) # {}
                         /\ ResultIsRight(rs, es, p, i)

\* A batch with the check within it is never inserted unhashed
PlanIsRight(w) ==
  /\ at[w] = "body" /\ stage[w] \in {"search", "register", "insert"} =>
       /\ DOMAIN plan[w] = DOMAIN Entries(w)
       /\ \A i \in DOMAIN plan[w] : /\ DecidedWell(rows, Entries(w), i, plan[w][i], stage[w])
                                    /\ plan[w][i].what # (IF dedup = "on" THEN "plain" ELSE "repeat")
  /\ (at[w] = "body" /\ stage[w] = "link") \/ at[w] = "store" => Settled(rows, Entries(w), plan[w])

ListsAreLists == /\ rows \in Seq(Listed(rows))
                 /\ \A t \in Tasks : batch[t] \in Seq(Listed(batch[t]))
                 /\ plan = [w \in Workers |-> plan[w]] /\ stage = [w \in Workers |-> stage[w]]
                 /\ answer = [t \in Tasks |-> answer[t]]

IngestInv == /\ ListsAreLists
             /\ \A w \in Workers : PlanIsRight(w)
             /\ \A t \in Tasks : Settled(rows, batch[t], answer[t])
=============================================================================
