----------------------------- MODULE BeatSchedule -----------------------------
(***************************************************************************)
(* The beat process: RuntimeScheduler sends the periodic tasks and looks   *)
(* at the settings every sync_every seconds.  A schedule that has changed  *)
(* replaces all entries, and each of them starts from now.  Nothing of the *)
(* schedule is kept on disk.                                               *)
(*                                                                         *)
(* Time is counted in units; a day has Day of them.  The value of an entry *)
(* is its period, of a crontab its slot in the day.                        *)
(***************************************************************************)
EXTENDS Naturals

CONSTANTS Jobs,          \* the entries of SCHEDULE_TASKS
          Crontabs,      \* those that are crontabs
          Defaults,      \* the default value of each (get_default)
          Day,
          SyncEvery,     \* units between two looks at the settings
          MaxChanges,    \* bound: changes by users
          MaxCuts        \* bound: times the database or beat goes away

ASSUME BeatAssumption == /\ Crontabs \subseteq Jobs /\ Defaults \in [Jobs -> 1..Day]
                         /\ Day \in Nat \ {0} /\ SyncEvery \in 1..Day
                         /\ MaxChanges \in Nat /\ MaxCuts \in Nat

VARIABLES stored,     \* app_settings
          reachable,  \* whether the database answers
          current,    \* _current_raw, and the entries made of it
          clock, age, \* of the day; since each entry was last sent or made
          owed,       \* entries whose time has come
          sent,       \* entries sent by the last tick
          sinceSync,  \* since the last look at the settings
          changes, cuts

beatVars == <<stored, reachable, current, clock, age, owed, sent, sinceSync, changes, cuts>>
Capped(n) == IF n < Day THEN n + 1 ELSE Day

BeatInit == /\ stored = Defaults /\ reachable = TRUE /\ current = Defaults
            /\ clock = 0 /\ age = [e \in Jobs |-> 0]
            /\ owed = {} /\ sent = {} /\ sinceSync = 0
            /\ changes = 0 /\ cuts = 0

\* load_effective_values_sync: without the database, the defaults
Effective == IF reachable THEN stored ELSE Defaults

SyncDue == sinceSync >= SyncEvery

\* Variant: the entries are made anew at every look
ReplacedAlways == SyncDue

\* sync: a schedule that reads as before is left alone
Replaced == SyncDue /\ Effective # current

\* tick: the look at the settings, then what is due; new entries are not due yet
BeatTick ==
  /\ current' = IF SyncDue THEN Effective ELSE current
  /\ sent' = IF Replaced THEN {} ELSE owed
  /\ age' = [e \in Jobs |-> IF Replaced \/ e \in owed THEN 0 ELSE age[e]]
  /\ owed' = {}
  /\ sinceSync' = IF SyncDue THEN 0 ELSE sinceSync
  /\ UNCHANGED <<stored, reachable, clock, changes, cuts>>

\* is_due of an interval and of a crontab
TimePasses ==
  /\ clock' = (clock % Day) + 1
  /\ age' = [e \in Jobs |-> Capped(age[e])]
  /\ owed' = owed \cup {e \in Crontabs : clock' = current[e]}
                  \cup {e \in Jobs \ Crontabs : age'[e] >= current[e]}
  /\ sinceSync' = Capped(sinceSync)
  /\ sent' = {}
  /\ UNCHANGED <<stored, reachable, current, changes, cuts>>

\* PUT /api/settings: schedule.*
Reschedule == /\ changes < MaxChanges /\ changes' = changes + 1
              /\ \E e \in Jobs, v \in 1..Day : stored' = [stored EXCEPT ![e] = v]
              /\ UNCHANGED <<reachable, current, clock, age, owed, sent, sinceSync, cuts>>

Cut == /\ \/ reachable /\ cuts < MaxCuts /\ cuts' = cuts + 1
          \/ ~reachable /\ UNCHANGED cuts
       /\ reachable' = ~reachable
       /\ UNCHANGED <<stored, current, clock, age, owed, sent, sinceSync, changes>>

\* setup_schedule of a new process
Restart == /\ cuts < MaxCuts /\ cuts' = cuts + 1
           /\ current' = Effective
           /\ age' = [e \in Jobs |-> 0] /\ owed' = {} /\ sent' = {} /\ sinceSync' = 0
           /\ UNCHANGED <<stored, reachable, clock, changes>>

BeatNext == BeatTick \/ TimePasses \/ Reschedule \/ Cut \/ Restart

-----------------------------------------------------------------------------
(* Properties.                                                             *)

BeatTypeOK == /\ stored \in [Jobs -> 1..Day] /\ current \in [Jobs -> 1..Day]
              /\ reachable \in BOOLEAN
              /\ clock \in 0..Day /\ age \in [Jobs -> 0..Day]
              /\ owed \subseteq Jobs /\ sent \subseteq Jobs
              /\ sinceSync \in 0..Day
              /\ changes \in 0..MaxChanges /\ cuts \in 0..MaxCuts

\* Every entry is sent again and again once users, the database and beat itself have
\* settled, although entries are thrown away and made anew on the way (sync: "new
\* entries start from now", which must not happen at every look).
EntriesKeepComing == \A e \in Jobs : []<>(e \in sent)
=============================================================================
