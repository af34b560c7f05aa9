------------------------------- MODULE Upkeep -------------------------------
(***************************************************************************)
(* What people and campaigns tell about one fact beside its content:       *)
(* metadata, importance, confidence, frozen.  Editing, freezing and decay  *)
(* are one statement each; a repeated store (_confirm_existing) and        *)
(* create_version read the row, go on, and write back what they have read. *)
(*                                                                         *)
(* The rows of the fact are its versions, 1 is the oldest, the last one is *)
(* live until it is closed.  importance stands for all columns that        *)
(* INSERT_MEMORY_VERSION copies from the row itself (project, cluster);    *)
(* confidence is a level that a repetition raises, the night lowers, and a *)
(* version costs.                                                          *)
(***************************************************************************)
EXTENDS Naturals

CONSTANTS Keys,     \* keys of metadata; Reason is the one retract writes
          Reason, NoKey, Original, \* no such key; what the first row was stored with
          Hands,    \* the tasks
          Top,      \* bound: levels of confidence
          MaxRow,   \* bound: versions
          Losses,   \* bound: workers lost
          Plans     \* what the tasks are asked to do in one behaviour

VARIABLES plan,
          held,     \* the columns of each row
          rows, closed, \* how many rows there are; the last one is not asserted any more
          step, at,   \* where each task is, and the row it is about
          saw,      \* the columns it goes on with
          left,     \* workers that may still be lost
          since,    \* history: what was written to the row after the task read it
          did,      \* history: the task has committed before
          due, excused \* history: what the fact was told last; what it may have lost, and why is known

Columns == {"importance", "frozen", "confidence"}
Things == Keys \cup Columns
Kinds == {"edit", "retract", "decay", "confirm", "version", "none"}
Points == {"idle", "begin", "decay", "read", "write", "insert", "close", "commit", "done"}

ASSUME UpkeepAssumption ==
  /\ Reason \in Keys /\ Keys \cap Columns = {} /\ NoKey # Original
  /\ Hands \cap {NoKey, Original} = {}
  /\ Top \in Nat /\ MaxRow \in Nat \ {0} /\ Losses \in Nat
  /\ Plans \subseteq [Hands -> [kind : Kinds, gives : SUBSET (Things \ {"confidence"}), freeze : BOOLEAN]]
  /\ \A p \in Plans, w \in Hands : p[w].kind \in {"confirm", "version"} => p[w].gives \subseteq Keys \cup {"importance"}

fact == <<held, rows, closed>>
task == <<step, at, saw>>
story == <<since, did, due, excused>>
upkeepVars == <<plan, fact, task, left, story>>

UpkeepTypeOK ==
  /\ plan \in Plans
  /\ rows \in 1..MaxRow /\ closed \in BOOLEAN /\ left \in 0..Losses
  /\ step \in [Hands -> Points] /\ at \in [Hands -> 0..MaxRow]
  /\ \A r \in 1..rows : held[r].confidence \in 0..Top /\ held[r].frozen \in BOOLEAN
  /\ since \in [Hands -> SUBSET Things] /\ did \in [Hands -> BOOLEAN]
  /\ excused \in SUBSET Things

\* memories defaults: confidence 1.0, not frozen; metadata as the caller gave it
Stored(present) == [x \in Things |-> IF x = "confidence" THEN Top ELSE IF x = "frozen" THEN FALSE
                                     ELSE IF x \in Keys \ present THEN NoKey ELSE Original]

UpkeepInit ==
  /\ plan \in Plans
  /\ \E present \in SUBSET (Keys \ {Reason}) : due = Stored(present)
  /\ held = [r \in 1..MaxRow |-> due] /\ saw = [w \in Hands |-> due]
  /\ rows = 1 /\ closed = FALSE /\ left = Losses
  /\ step = [w \in Hands |-> "idle"] /\ at = [w \in Hands |-> 0]
  /\ since = [w \in Hands |-> {}] /\ did = [w \in Hands |-> FALSE] /\ excused = {}

Is(w, kind) == plan[w].kind = kind
Gives(w) == plan[w].gives
Asserted(r) == r = rows /\ ~closed
Stands(w, p) == step[w] = p
Goes(w, p) == step' = [step EXCEPT ![w] = p]

\* An open supersession has closed the row and holds it until it commits
Locked(r) == \E w \in Hands : Stands(w, "commit") /\ at[w] = r

\* What a task gives, where it gives it
Given(w, x) == IF x = "frozen" THEN plan[w].freeze ELSE w

\* UPDATE_MEMORY: metadata || $2, COALESCE for the columns (the variant: metadata
\* is what was given)
Replaced(old, new, S) == [x \in Things |-> IF x \in S THEN new[x] ELSE IF x \in Keys THEN NoKey ELSE old[x]]
Updated(old, new, S) == [x \in Things |-> IF x \in S THEN new[x] ELSE old[x]]

Raise(c) == IF c < Top THEN c + 1 ELSE c
Lower(c) == IF c > 0 THEN c - 1 ELSE c

-----------------------------------------------------------------------------
(* History.  A task that has committed before only repeats itself: it tells *)
(* nothing new, and what it overwrites is excused.                          *)

\* The row r is written at S
Writes(r, row, S) ==
  /\ held' = [held EXCEPT ![r] = row]
  /\ since' = [v \in Hands |-> IF at[v] = r THEN since[v] \cup S ELSE since[v]]

\* w has told the fact S as new says, and may have undone what is in lost
Tells(w, new, S, lost) ==
  /\ due' = [x \in Things |-> IF x \in S /\ ~did[w] THEN new[x] ELSE due[x]]
  /\ excused' = IF did[w] THEN excused \cup S \cup lost
                ELSE IF at[w] = rows THEN (excused \ (S \ {"confidence"})) \cup lost
                ELSE excused \cup S
  /\ did' = [did EXCEPT ![w] = TRUE]

Ends(w) == /\ Goes(w, "done")
           /\ UNCHANGED <<plan, fact, at, saw, left, story>>

-----------------------------------------------------------------------------
\* Callers know the rows there have been; a repeated store knows none, it looks
\* its row up
Begin(w) == /\ Stands(w, "idle") /\ ~Is(w, "none")
            /\ \E r \in 1..rows : /\ Is(w, "confirm") => Asserted(r)
                                  /\ at' = [at EXCEPT ![w] = r]
            /\ Goes(w, "begin")
            /\ UNCHANGED <<plan, fact, saw, left, story>>

\* update() without content and freeze(): one statement that asks for no status
Edit(w) == /\ Stands(w, "begin") /\ Is(w, "edit") /\ ~Locked(at[w])
           /\ LET new == [x \in Things |-> Given(w, x)]
              IN /\ Writes(at[w], Updated(held[at[w]], new, Gives(w)), Gives(w))
                 /\ Tells(w, new, Gives(w), {})
           /\ Goes(w, "done")
           /\ UNCHANGED <<plan, rows, closed, at, saw, left>>

\* RETRACT_MEMORY looks at the status
Withdraw(w) == /\ Stands(w, "begin") /\ Is(w, "retract") /\ Asserted(at[w]) /\ ~Locked(at[w])
              /\ closed' = TRUE
              /\ LET new == [x \in Things |-> w]
                 IN /\ Writes(at[w], Updated(held[at[w]], new, {Reason}), {Reason})
                    /\ Tells(w, new, {Reason}, {})
              /\ Goes(w, "done")
              /\ UNCHANGED <<plan, rows, at, saw, left>>
WithdrawLate(w) == Stands(w, "begin") /\ Is(w, "retract") /\ ~Asserted(at[w]) /\ Ends(w)

\* DECAY_CONFIDENCE sees the rows of its snapshot and looks at them again when
\* it has waited
DecaySees(w) == /\ Stands(w, "begin") /\ Is(w, "decay") /\ ~closed
                /\ at' = [at EXCEPT ![w] = rows] /\ Goes(w, "decay")
                /\ UNCHANGED <<plan, fact, saw, left, story>>
DecayWrites(w) ==
  /\ Stands(w, "decay") /\ Asserted(at[w]) /\ ~Locked(at[w])
  /\ LET row == held[at[w]]
         Less(c) == [x \in Things |-> Lower(c)]
         down == IF row["frozen"] THEN {} ELSE {"confidence"}
         meant == IF due["frozen"] THEN {} ELSE {"confidence"}
     IN /\ Writes(at[w], Updated(row, Less(row["confidence"]), down), down)
        /\ Tells(w, Less(due["confidence"]), meant,
                 IF row["frozen"] = due["frozen"] THEN {} ELSE {"confidence"})
  /\ Goes(w, "done")
  /\ UNCHANGED <<plan, rows, closed, at, saw, left>>
DecayNothing(w) == /\ \/ Stands(w, "begin") /\ Is(w, "decay") /\ closed
                      \/ Stands(w, "decay") /\ ~Asserted(at[w])
                   /\ Ends(w)

\* A store whose content is there: it finds the row, reads it, and writes its
\* metadata back with what the caller gives
ConfirmFinds(w) == /\ Stands(w, "begin") /\ Is(w, "confirm") /\ Asserted(at[w])
                   /\ Goes(w, "read") /\ UNCHANGED <<plan, fact, at, saw, left, story>>
ConfirmGone(w) == Stands(w, "begin") /\ Is(w, "confirm") /\ ~Asserted(at[w]) /\ Ends(w)
Reads(w, p) == /\ saw' = [saw EXCEPT ![w] = held[at[w]]]
               /\ since' = [since EXCEPT ![w] = {}]
               /\ Goes(w, p)
               /\ UNCHANGED <<plan, fact, at, left, did, due, excused>>
ConfirmReads(w) == Stands(w, "read") /\ Reads(w, "write")
ConfirmWrites(w) ==
  /\ Stands(w, "write") /\ ~Locked(at[w])
  /\ LET back == {x \in Keys \ Gives(w) : saw[w][x] # NoKey}
         Confirmed(old) == [x \in Things |-> IF x \in Gives(w) THEN w
                                             ELSE IF x = "confidence" THEN Raise(old[x]) ELSE old[x]]
         S == Gives(w) \cup {"confidence"}
     IN /\ Writes(at[w], Updated(held[at[w]], Confirmed(saw[w]), S \cup back), S \cup back)
        /\ Tells(w, Confirmed(due), S, since[w] \cap (back \cup {"confidence"}))
  /\ Goes(w, "done")
  /\ UNCHANGED <<plan, rows, closed, at, saw, left>>

\* create_version: the old row must be asserted when it is read and when it is
\* closed; the new row takes metadata and confidence as they were read, the
\* columns as they are, and is not frozen
VersionReads(w) == Stands(w, "begin") /\ Is(w, "version") /\ Asserted(at[w]) /\ Reads(w, "insert")
VersionLate(w) == Stands(w, "begin") /\ Is(w, "version") /\ ~Asserted(at[w]) /\ Ends(w)
Inherited(w, old) == [x \in Things |-> IF x \in Gives(w) THEN w
                                       ELSE IF x = "confidence" THEN Lower(old[x])
                                       ELSE IF x = "frozen" THEN FALSE ELSE old[x]]
VersionInserts(w) ==
  /\ Stands(w, "insert") /\ rows < MaxRow
  /\ saw' = [saw EXCEPT ![w] = Updated(saw[w], held[at[w]], {"importance"})]
  /\ since' = [since EXCEPT ![w] = @ \ {"importance"}]
  /\ Goes(w, "close")
  /\ UNCHANGED <<plan, fact, at, left, did, due, excused>>
VersionCloses(w) == /\ Stands(w, "close") /\ ~Locked(at[w])
                    /\ Goes(w, IF Asserted(at[w]) THEN "commit" ELSE "done")
                    /\ UNCHANGED <<plan, fact, at, saw, left, story>>
VersionCommits(w) ==
  /\ Stands(w, "commit") /\ rows < MaxRow
  /\ held' = [held EXCEPT ![rows + 1] = Inherited(w, saw[w])]
  /\ rows' = rows + 1
  /\ LET S == Gives(w) \cup {"confidence", "frozen"}
     IN Tells(w, Inherited(w, due), S, since[w] \ (Gives(w) \cup {"frozen"}))
  /\ Goes(w, "done")
  /\ UNCHANGED <<plan, closed, at, saw, left, since>>

\* The task of a lost worker begins again
Lost(w) == /\ step[w] \notin {"idle", "begin"} /\ left > 0
           /\ left' = left - 1 /\ Goes(w, "begin")
           /\ UNCHANGED <<plan, fact, at, saw, story>>

Confirm(w) == ConfirmFinds(w) \/ ConfirmGone(w) \/ ConfirmReads(w) \/ ConfirmWrites(w)
Revise(w) == VersionReads(w) \/ VersionLate(w) \/ VersionInserts(w) \/ VersionCloses(w) \/ VersionCommits(w)
Decay(w) == DecaySees(w) \/ DecayWrites(w) \/ DecayNothing(w)
UpkeepNext == \E w \in Hands : \/ Begin(w) \/ Edit(w) \/ Withdraw(w) \/ WithdrawLate(w)
                               \/ Decay(w) \/ Confirm(w) \/ Revise(w) \/ Lost(w)

UpkeepSpec == UpkeepInit /\ [][UpkeepNext]_upkeepVars

-----------------------------------------------------------------------------
\* What the fact was told last is what its last row says, unless it is known why
\* not: a task wrote back what it had read before (a repeated store only keys
\* that were there when it read), it wrote to a row that had an heir by then, or
\* a redelivered task repeated itself.
LossHasCause == \A x \in Things : held[rows][x] # due[x] => x \in excused
=============================================================================
