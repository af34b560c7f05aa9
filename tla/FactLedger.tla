------------------------------ MODULE FactLedger ------------------------------
(***************************************************************************)
(* What the granule store promises its callers, without clients, locks,    *)
(* retries or crashes: facts are recorded once, a revision replaces its    *)
(* predecessor in one indivisible step, a closed fact stays closed, and    *)
(* an erased one never comes back.  GranuleStore is shown to implement it. *)
(***************************************************************************)
EXTENDS Naturals

CONSTANTS MaxId, Hashes, None

VARIABLES next,    \* the identifier the next granule gets
          state,   \* the life of every identifier
          fact,    \* what it says; None when the row carries no content hash
          heir     \* the granule that replaced it, 0 when there is none

ledger == <<next, state, fact, heir>>

Ids == 1..MaxId
States == {"unborn", "asserted", "superseded", "retracted", "gone"}

LedgerTypeOK == /\ next \in 1..(MaxId + 1)
                /\ state \in [Ids -> States]
                /\ fact \in [Ids -> Hashes \cup {None}]
                /\ heir \in [Ids -> 0..MaxId]

Init == /\ next = 1
        /\ state = [g \in Ids |-> "unborn"]
        /\ fact = [g \in Ids |-> None]
        /\ heir = [g \in Ids |-> 0]

Live(f) == \E g \in Ids : state[g] = "asserted" /\ fact[g] = f

\* A new fact is recorded unless it is live already; a row without a hash
\* escapes the comparison.
Record(f) == /\ next \in Ids
             /\ f # None => ~Live(f)
             /\ next' = next + 1
             /\ state' = [state EXCEPT ![next] = "asserted"]
             /\ fact' = [fact EXCEPT ![next] = f]
             /\ UNCHANGED heir

\* A revision: the old granule closes exactly when its heir appears.
Revise(g, f) == /\ next \in Ids /\ g # next
                /\ state[g] = "asserted"
                /\ f # None /\ ~Live(f)
                /\ next' = next + 1
                /\ state' = [state EXCEPT ![g] = "superseded", ![next] = "asserted"]
                /\ fact' = [fact EXCEPT ![next] = f]
                /\ heir' = [heir EXCEPT ![g] = next]

\* An existing granule takes over a live one.
Adopt(g, old) == /\ state[old] = "asserted"
                 /\ state[g] \in {"asserted", "superseded", "retracted"}
                 /\ state' = [state EXCEPT ![old] = "superseded"]
                 /\ heir' = [heir EXCEPT ![old] = g]
                 /\ UNCHANGED <<next, fact>>

Withdraw(S) == /\ \A g \in S : state[g] = "asserted"
               /\ state' = [g \in Ids |-> IF g \in S THEN "retracted" ELSE state[g]]
               /\ UNCHANGED <<next, fact, heir>>

\* Erasing rows also forgets who their heirs were and whose heirs they were.
Erase(S) == /\ \A g \in S : state[g] \in {"asserted", "superseded", "retracted"}
            /\ state' = [g \in Ids |-> IF g \in S THEN "gone" ELSE state[g]]
            /\ heir' = [g \in Ids |-> IF g \in S \/ heir[g] \in S THEN 0 ELSE heir[g]]
            /\ UNCHANGED <<next, fact>>

Next == \/ \E f \in Hashes \cup {None} : Record(f)
        \/ \E g \in Ids, f \in Hashes : Revise(g, f)
        \/ \E g, old \in Ids : Adopt(g, old)
        \/ \E S \in SUBSET Ids : Withdraw(S) \/ Erase(S)

Spec == Init /\ [][Next]_ledger

=============================================================================
