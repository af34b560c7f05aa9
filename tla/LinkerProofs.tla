---------------------------- MODULE LinkerProofs ----------------------------
(***************************************************************************)
(* What the verdict queue keeps for any number of granules, workers and    *)
(* replies, whatever fails: a queued pair is accounted for, and a decision *)
(* by hand stands.                                                         *)
(*                                                                         *)
(* Every pair has a place: the queue, a worker's hand, the person's hand.  *)
(* A hand is full only where the code says so (HandsMatch), a candidate a  *)
(* worker has put aside is judged or dead (WorkedOff), and what a person   *)
(* takes out of the queue is judged before (SaidFirst) and mentions the    *)
(* pair (Ahead).                                                           *)
(*                                                                         *)
(* A decision by hand is cached before it counts.  From then on nobody who *)
(* has yet to ask the model or to apply its answer can decide otherwise    *)
(* (DecisionsInv).                                                         *)
(***************************************************************************)
EXTENDS LinkerFlow, SequenceTheorems, WellFoundedInduction, TLAPS

Steps == {"idle", "pop", "read", "ask", "apply", "return"}
Says == {"idle", "edge", "cache", "list", "take", "put"}
Listed == [g : Int, cands : SUBSET Granules, att : Int]

\* The task of a new granule, a worker's hand and a person's, as records
IsWalk(r) == /\ DOMAIN r = {"pc", "g", "with", "rows"} /\ r.g \in Int /\ r.with \subseteq Granules
IsHand(r) == /\ DOMAIN r = {"pc", "left", "item", "at", "cands", "known", "ask", "back"}
             /\ r.pc \in Steps /\ r.item \in Listed /\ r.back \in Seq(Listed)
             /\ r.cands \subseteq r.item.cands
IsPerson(r) == /\ DOMAIN r = {"pc", "s", "c", "v", "key", "todo", "item"}
               /\ r.pc \in Says /\ r.item \in Listed /\ r.todo \in Seq(Listed)

Walks == /\ live \subseteq Granules /\ vector \subseteq Granules
         /\ DOMAIN walk = {"link", "campaign"} /\ IsWalk(walk["link"])
Typed == /\ queue \in Seq(Listed) /\ peeked \in Listed
         /\ DOMAIN worker = Workers /\ \A w \in Workers : IsHand(worker[w])
         /\ IsPerson(human)

\* A hand is empty before an item is popped and after it was dealt with
Matches(r) == /\ r.pc \in {"idle", "pop", "return"} => r.item.cands = {}
              /\ r.pc = "idle" => r.back = <<>>
HandsMatch == /\ \A w \in Workers : Matches(worker[w])
              /\ human.pc # "put" => human.item.cands = {}

\* Nobody has to care for a pair that was decided or given up, or has an end closed
Gone(p, out, alive) == p \in out \/ ~({p[1], p[2]} \subseteq alive)
Out == judged \cup excused
\* A candidate that a worker has put aside is gone
SetAside(r, out, alive) ==
  r.pc \in {"ask", "apply"} =>
    \A c \in r.item.cands : c \in r.cands \/ Gone(<<r.item.g, c>>, out, alive)
WorkedOff == \A w \in Workers : SetAside(worker[w], Out, live)

\* The person's pair is judged, both ways, before it is taken out of the queue,
\* and what is to be taken out mentions it
SaidFirst == human.pc \in {"cache", "list", "take", "put"} =>
               {<<human.s, human.c>>, <<human.c, human.s>>} \subseteq judged
Ahead == human.pc \in {"take", "put"} /\ human.todo # <<>> => Mentions(Head(human.todo))

PlacesInv == Typed /\ HandsMatch /\ WorkedOff /\ SaidFirst /\ Ahead /\ PairsAccounted

\* A decision that stands is cached under the texts there are, not as the model's,
\* and nobody who has read the cache is to decide otherwise
TextsOf(p, t) == [x \in p |-> t[x]]
Stands(p, t, known) == TextsOf(p, t) \in DOMAIN known /\ known[TextsOf(p, t)].by # "model"
Heeds(r, p) ==
  r.pc \in {"ask", "apply"} =>
    \A c \in r.cands : {r.item.g, c} = p =>
      c \notin r.ask /\ c \in DOMAIN r.known /\ r.known[c].by # "model"
\* A worker asks about its candidates, under keys of their pairs
Asks(r) == r.pc \in {"ask", "apply"} =>
             /\ r.ask \subseteq r.cands /\ (r.pc = "apply" => r.ask = {})
             /\ \A c \in r.ask : DOMAIN r.at[c] = {r.item.g, c}
Decides(r) == r.pc # "idle" => r.v.by = "human" /\ DOMAIN r.key = {r.s, r.c} /\ {r.s, r.c} \in Pairs

DecisionsInv == /\ DOMAIN text = Granules /\ settled \subseteq Pairs
                /\ \A p \in settled : /\ Stands(p, text, cache)
                                      /\ \A w \in Workers : Heeds(worker[w], p)
                /\ \A w \in Workers : Asks(worker[w])
                /\ Decides(human)

-----------------------------------------------------------------------------
(* Sequences as the queue uses them.                                       *)

LEMMA AtFront ==
  ASSUME NEW S, NEW q \in Seq(S), NEW x \in S
  PROVE  <<x>> \o q \in Seq(S) /\ ToSet(<<x>> \o q) = {x} \cup ToSet(q)
<1>1. /\ <<x>> \in Seq(S) /\ Len(<<x>>) = 1 /\ <<x>>[1] = x
  OBVIOUS
<1>2. /\ <<x>> \o q \in Seq(S) /\ Len(<<x>> \o q) = 1 + Len(q)
      /\ (<<x>> \o q)[1] = x /\ \A i \in 1..Len(q) : (<<x>> \o q)[i + 1] = q[i]
  BY <1>1, ConcatProperties
<1>3. ASSUME NEW i \in 1..(1 + Len(q)) PROVE i = 1 \/ \E j \in 1..Len(q) : i = j + 1
  <2>1. i # 1 => i - 1 \in 1..Len(q) /\ i = (i - 1) + 1
    BY LenProperties
  <2> QED
    BY <2>1
<1>4. \A j \in 1..Len(q) : j + 1 \in 1..(1 + Len(q))
  BY LenProperties
<1>5. 1 \in 1..(1 + Len(q))
  BY LenProperties
<1>6. DOMAIN q = 1..Len(q) /\ DOMAIN (<<x>> \o q) = 1..(1 + Len(q))
  BY <1>2, LenProperties
<1>7. ToSet(q) \subseteq ToSet(<<x>> \o q) /\ x \in ToSet(<<x>> \o q)
  <2>1. x \in ToSet(<<x>> \o q)
    BY <1>2, <1>5, <1>6, Zenon DEF ToSet
  <2>2. ASSUME NEW i \in 1..Len(q) PROVE q[i] \in ToSet(<<x>> \o q)
    <3>1. i + 1 \in DOMAIN (<<x>> \o q) /\ (<<x>> \o q)[i + 1] = q[i]
      BY <1>2, <1>4, <1>6
    <3> QED
      BY <3>1, Zenon DEF ToSet
  <2> QED
    BY <1>6, <2>1, <2>2, Zenon DEF ToSet
<1>8. ToSet(<<x>> \o q) \subseteq {x} \cup ToSet(q)
  BY <1>2, <1>3, <1>6 DEF ToSet
<1> QED
  BY <1>2, <1>7, <1>8

LEMMA AtEnd ==
  ASSUME NEW S, NEW q \in Seq(S), NEW x \in S
  PROVE  Append(q, x) \in Seq(S) /\ ToSet(Append(q, x)) = ToSet(q) \cup {x}
<1>1. /\ Append(q, x) \in Seq(S) /\ Len(Append(q, x)) = Len(q) + 1
      /\ \A i \in 1..Len(q) : Append(q, x)[i] = q[i]
      /\ Append(q, x)[Len(q) + 1] = x
  BY AppendProperties
<1>2. /\ DOMAIN q = 1..Len(q) /\ DOMAIN Append(q, x) = 1..(Len(q) + 1) /\ Len(q) \in Nat
  BY <1>1, LenProperties
<1>3. \A i \in 1..(Len(q) + 1) : i = Len(q) + 1 \/ i \in 1..Len(q)
  BY <1>2
<1>4. Len(q) + 1 \in 1..(Len(q) + 1) /\ \A i \in 1..Len(q) : i \in 1..(Len(q) + 1)
  BY <1>2
<1>5. ToSet(q) \subseteq ToSet(Append(q, x)) /\ x \in ToSet(Append(q, x))
  BY <1>1, <1>2, <1>4 DEF ToSet
<1>6. ToSet(Append(q, x)) \subseteq ToSet(q) \cup {x}
  BY <1>1, <1>2, <1>3 DEF ToSet
<1> QED
  BY <1>1, <1>5, <1>6

LEMMA OffEnd ==
  ASSUME NEW S, NEW q \in Seq(S), q # <<>>
  PROVE  /\ Front(q) \in Seq(S) /\ Last(q) \in S
         /\ ToSet(q) = ToSet(Front(q)) \cup {Last(q)}
<1>1. Len(q) \in Nat /\ DOMAIN q = 1..Len(q) /\ Len(q) # 0 /\ \A i \in 1..Len(q) : q[i] \in S
  BY LenProperties, EmptySeq, ElementOfSeq
<1>2. \A i \in 1..(Len(q) - 1) : q[i] \in S
  BY <1>1
<1>3. Front(q) = [i \in 1..(Len(q) - 1) |-> q[i]]
  BY <1>1 DEF Front
<1>4. Front(q) \in Seq(S) /\ DOMAIN Front(q) = 1..(Len(q) - 1)
  BY <1>1, <1>2, <1>3, IsASeq
<1>5. \A i \in 1..Len(q) : i \in 1..(Len(q) - 1) \/ i = Len(q)
  <2>1. \A n \in Nat : \A i \in 1..n : i \in 1..(n - 1) \/ i = n
    OBVIOUS
  <2> QED
    BY <1>1, <2>1
<1>6. Len(q) \in 1..Len(q) /\ \A i \in 1..(Len(q) - 1) : i \in 1..Len(q)
  BY <1>1
<1>7. \A i \in 1..(Len(q) - 1) : Front(q)[i] = q[i]
  BY <1>3
<1>8. ToSet(Front(q)) \subseteq ToSet(q) /\ Last(q) \in ToSet(q)
  BY <1>1, <1>4, <1>6, <1>7 DEF ToSet, Last
<1>9. ToSet(q) \subseteq ToSet(Front(q)) \cup {Last(q)}
  BY <1>1, <1>4, <1>5, <1>7 DEF ToSet, Last
<1> QED
  BY <1>1, <1>4, <1>6, <1>8, <1>9 DEF Last

LEMMA OffFront ==
  ASSUME NEW S, NEW q \in Seq(S), q # <<>>
  PROVE  /\ Tail(q) \in Seq(S) /\ Head(q) \in S
         /\ ToSet(q) = {Head(q)} \cup ToSet(Tail(q))
<1>1. /\ Head(q) \in S /\ Tail(q) \in Seq(S) /\ <<Head(q)>> \o Tail(q) = q
  BY HeadTailProperties
<1> QED
  BY <1>1, AtFront

LEMMA LeastOf == ASSUME NEW T \in SUBSET Nat, T # {} PROVE Min(T) \in T
<1> DEFINE Less == {p \in Nat \X Nat : p[1] < p[2]}
<1>1. IsWellFoundedOn(Less, Nat)
  BY NatLessThanWellFounded DEF OpToRel
<1>2. PICK c \in T : \A d \in T : ~(<<d, c>> \in Less)
  <2> HIDE DEF Less
  <2> QED
    BY <1>1, WFMin
<1>3. ASSUME NEW d \in T, ~(c =< d) PROVE FALSE
  <2>1. <<d, c>> \in Nat \X Nat /\ <<d, c>>[1] < <<d, c>>[2]
    BY <1>3
  <2> QED
    BY <1>2, <2>1
<1> QED
  BY <1>2, <1>3 DEF Min

\* Taking out the first item that equals another takes nothing else
LEMMA TakenOut ==
  ASSUME NEW S, NEW q \in Seq(S), NEW x
  PROVE  /\ RemoveFirst(q, x) \in Seq(S)
         /\ ToSet(q) \subseteq ToSet(RemoveFirst(q, x)) \cup {x}
<1>1. CASE ~ \E i \in 1..Len(q) : q[i] = x
  BY <1>1 DEF RemoveFirst
<1>2. CASE \E i \in 1..Len(q) : q[i] = x
  <2> DEFINE n == Min({i \in 1..Len(q) : q[i] = x})
  <2>1. n \in {i \in 1..Len(q) : q[i] = x}
    <3>1. {i \in 1..Len(q) : q[i] = x} \in SUBSET Nat /\ {i \in 1..Len(q) : q[i] = x} # {}
      BY <1>2
    <3> QED
      BY <3>1, LeastOf
  <2>2. RemoveFirst(q, x) = SubSeq(q, 1, n - 1) \o SubSeq(q, n + 1, Len(q))
    BY <1>2, <2>1 DEF RemoveFirst, RemoveAt, SelectInSeq
  <2> HIDE DEF n
  <2>3. /\ Len(q) \in Nat /\ DOMAIN q = 1..Len(q) /\ n \in 1..Len(q) /\ q[n] = x
        /\ \A i \in 1..Len(q) : q[i] \in S
    BY <2>1, LenProperties, ElementOfSeq
  <2> DEFINE before == SubSeq(q, 1, n - 1)
             after == SubSeq(q, n + 1, Len(q))
  <2>4. /\ before \in Seq(S) /\ Len(before) = n - 1
        /\ \A i \in 1..(n - 1) : before[i] = q[i]
    <3>1. \A i \in 1..(n - 1) : q[i] \in S
      BY <2>3
    <3> QED
      BY <2>3, <3>1, SubSeqProperties
  <2>6. /\ after \in Seq(S) /\ Len(after) = Len(q) - n
        /\ \A i \in 1..(Len(q) - n) : after[i] = q[n + i]
    <3>1. \A i \in (n + 1)..Len(q) : q[i] \in S
      BY <2>3
    <3>2. n + 1 \in Int /\ Len(q) \in Int
      BY <2>3
    <3> HIDE DEF before
    <3>3. /\ after \in Seq(S) /\ Len(after) = IF n + 1 <= Len(q) THEN Len(q) - (n + 1) + 1 ELSE 0
          /\ \A i \in 1..(Len(q) - (n + 1) + 1) : after[i] = q[(n + 1) + i - 1]
      BY <3>1, <3>2, SubSeqProperties
    <3>4. \A m, k \in Nat : /\ (IF k + 1 <= m THEN m - (k + 1) + 1 ELSE 0) = (IF k <= m THEN m - k ELSE 0)
                            /\ m - (k + 1) + 1 = m - k
                            /\ \A i \in 1..(m - k) : (k + 1) + i - 1 = k + i
      OBVIOUS
    <3>5. n \in Nat /\ n <= Len(q)
      BY <2>3
    <3>6. (IF n + 1 <= Len(q) THEN Len(q) - (n + 1) + 1 ELSE 0) = Len(q) - n
      BY <2>3, <3>4, <3>5
    <3> HIDE DEF after
    <3> QED
      BY <2>3, <3>3, <3>4, <3>5, <3>6, Zenon
  <2> HIDE DEF before, after
  <2>5. before \o after \in Seq(S) /\ ToSet(before \o after) = ToSet(before) \cup ToSet(after)
    <3>1. before \o after \in Seq(S)
      BY <2>4, <2>6, ConcatProperties
    <3>2. Range(before \o after) = Range(before) \cup Range(after)
      BY <2>4, <2>6, RangeConcatenation, Zenon
    <3> QED
      BY <3>1, <3>2, Zenon DEF ToSet, Range
  <2>7. ASSUME NEW i \in 1..Len(q), i # n PROVE q[i] \in ToSet(before) \cup ToSet(after)
    <3>1. CASE i < n
      <4>1. i \in 1..(n - 1) /\ DOMAIN before = 1..(n - 1)
        BY <2>3, <2>4, <3>1, LenProperties
      <4> QED
        BY <2>4, <4>1 DEF ToSet
    <3>2. CASE i > n
      <4>1. /\ i - n \in 1..(Len(q) - n) /\ n + (i - n) = i
            /\ DOMAIN after = 1..(Len(q) - n)
        BY <2>3, <2>6, <3>2, LenProperties
      <4>2. after[i - n] = q[i]
        BY <2>6, <4>1
      <4> QED
        BY <4>1, <4>2 DEF ToSet
    <3> QED
      BY <2>3, <2>7, <3>1, <3>2
  <2>8. RemoveFirst(q, x) = before \o after
    BY <2>2 DEF before, after
  <2>9. ASSUME NEW i \in 1..Len(q) PROVE q[i] \in ToSet(before \o after) \cup {x}
    <3>1. CASE i = n
      BY <2>3, <3>1
    <3>2. CASE i # n
      BY <2>5, <2>7, <3>2
    <3> QED
      BY <3>1, <3>2
  <2>10. ToSet(q) = {q[i] : i \in 1..Len(q)}
    BY <2>3 DEF ToSet
  <2> QED
    BY <2>5, <2>8, <2>9, <2>10, Zenon
<1> QED
  BY <1>1, <1>2

LEMMA PassedBy ==
  ASSUME NEW S, NEW q \in Seq(S)
  PROVE  /\ Onward(q) \in Seq(S)
         /\ Onward(q) # <<>> => Mentions(Head(Onward(q)))
<1> DEFINE I == {i \in 1..Len(q) : Mentions(q[i])}
           n == Min(I)
<1>1. Onward(q) = IF I = {} THEN <<>> ELSE SubSeq(q, n, Len(q))
  <2>1. CASE I = {}
    BY <2>1 DEF Onward, SelectInSeq
  <2>2. CASE I # {}
    <3>1. n \in I
      <4>1. I \in SUBSET Nat
        OBVIOUS
      <4> HIDE DEF I
      <4> QED
        BY <2>2, <4>1, LeastOf
    <3> QED
      BY <2>2, <3>1 DEF Onward, SelectInSeq
  <2> QED
    BY <2>1, <2>2
<1>2. CASE I = {}
  BY <1>1, <1>2
<1>3. CASE I # {}
  <2>1. n \in I
    <3>1. I \in SUBSET Nat
      OBVIOUS
    <3> HIDE DEF I
    <3> QED
      BY <1>3, <3>1, LeastOf
  <2>4. n \in 1..Len(q) /\ Mentions(q[n])
    BY <2>1
  <2>2. Onward(q) = SubSeq(q, n, Len(q))
    BY <1>1, <1>3
  <2> HIDE DEF n, I
  <2>3. Len(q) \in Nat /\ \A i \in n..Len(q) : q[i] \in S
    BY <2>4, LenProperties, ElementOfSeq
  <2>5. SubSeq(q, n, Len(q)) \in Seq(S) /\ SubSeq(q, n, Len(q))[1] = q[n]
    <3>1. n + 1 - 1 = n /\ 1 \in 1..(Len(q) - n + 1)
      BY <2>3, <2>4
    <3> QED
      BY <2>3, <2>4, <3>1, SubSeqProperties
  <2>6. SubSeq(q, n, Len(q)) # <<>> => Head(SubSeq(q, n, Len(q))) = q[n]
    BY <2>5, HeadTailProperties
  <2> QED
    BY <2>2, <2>4, <2>5, <2>6
<1> QED
  BY <1>2, <1>3

-----------------------------------------------------------------------------
(* The task of a new granule holds neighbours that there are.              *)

LEMMA WalksInit == Init => Walks
BY LinkerAssumption DEF Init, Walks, IsWalk, Still

LEMMA WalksNext == Walks /\ [Next]_vars => Walks'
<1> SUFFICES ASSUME Walks, [Next]_vars PROVE Walks'
  OBVIOUS
<1> USE DEF Walks
<1>1. ASSUME UNCHANGED <<live, vector, walk>> PROVE Walks'
  BY <1>1 DEF IsWalk
<1>2. ASSUME NEW g \in Granules, Close(g) \/ Edit(g) \/ Index(g) PROVE Walks'
  BY <1>2 DEF Close, Edit, Index, tasks, IsWalk
<1>3. ASSUME NEW q \in DOMAIN walk, NEW x, Goto(q, x), UNCHANGED <<live, vector>>,
             q = "link" => IsWalk(x)
      PROVE  Walks'
  BY <1>3 DEF Goto
<1>4. IsWalk(Still)
  BY DEF IsWalk, Still
<1>5. IsWalk(After("link"))
  BY DEF IsWalk, After
<1>6. ASSUME NEW q \in DOMAIN walk, Meet(q) PROVE Walks'
  <2> DEFINE g == walk[q].g
             N == Neighbours(g)
             x == [walk[q] EXCEPT !.pc = IF Passed(g, N) = {} THEN "mark" ELSE "insert",
                                  !.with = Passed(g, N)]
  <2>1. UNCHANGED <<live, vector>>
    BY <1>6 DEF Meet, pg
  <2>2. Goto(q, After(q)) \/ Goto(q, x)
    BY <1>6 DEF Meet
  <2>3. Passed(g, N) \subseteq Granules
    BY DEF Passed
  <2>4. q = "link" => IsWalk(x)
    BY <2>3 DEF IsWalk
  <2> QED
    BY <1>3, <1>5, <2>1, <2>2, <2>4
<1>7. ASSUME NEW q \in DOMAIN walk, MeetInsert(q) PROVE Walks'
  <2>1. q = "link" => IsWalk([walk[q] EXCEPT !.pc = "mark"])
    BY DEF IsWalk
  <2> QED
    BY <1>3, <1>7, <2>1 DEF MeetInsert
<1>8. ASSUME NEW q \in DOMAIN walk, MeetMark(q) PROVE Walks'
  BY <1>3, <1>5, <1>8 DEF MeetMark
<1>9. ASSUME NEW q \in DOMAIN walk, WalkLost(q) PROVE Walks'
  BY <1>3, <1>4, <1>9 DEF WalkLost, pg
<1>10. ASSUME Campaign PROVE Walks'
  <2>1. UNCHANGED <<live, vector>>
    BY <1>10 DEF Campaign, pg
  <2>2. PICK x : Goto("campaign", x)
    BY <1>10 DEF Campaign
  <2> QED
    BY <1>3, <2>1, <2>2
<1>11. ASSUME NEW g \in Granules, LinkBegin(g) PROVE Walks'
  <2>1. UNCHANGED <<live, vector>>
    BY <1>11 DEF LinkBegin
  <2>2. IsWalk([Still EXCEPT !.pc = IF g \in Session THEN "meet" ELSE "ann", !.g = g])
    BY LinkerAssumption DEF IsWalk, Still
  <2>3. CASE Goto("link", [Still EXCEPT !.pc = IF g \in Session THEN "meet" ELSE "ann", !.g = g])
    BY <1>3, <2>1, <2>2, <2>3
  <2>4. CASE UNCHANGED walk
    BY <1>1, <2>1, <2>4
  <2> QED
    BY <1>11, <2>3, <2>4 DEF LinkBegin
<1>12. ASSUME LinkNear PROVE Walks'
  <2>1. UNCHANGED <<live, vector>>
    BY <1>12 DEF LinkNear
  <2>2. \/ Goto("link", Still)
        \/ \E best \in SUBSET Granules : Goto("link", [walk["link"] EXCEPT !.pc = "push", !.with = best])
    BY <1>12 DEF LinkNear, Over
  <2>3. CASE Goto("link", Still)
    BY <1>3, <1>4, <2>1, <2>3
  <2>4. ASSUME NEW best \in SUBSET Granules, Goto("link", [walk["link"] EXCEPT !.pc = "push", !.with = best])
        PROVE  Walks'
    <3>1. IsWalk([walk["link"] EXCEPT !.pc = "push", !.with = best])
      BY DEF IsWalk
    <3> QED
      BY <1>3, <2>1, <2>4, <3>1
  <2> QED
    BY <2>2, <2>3, <2>4
<1>13. ASSUME LinkPush PROVE Walks'
  BY <1>3, <1>4, <1>13 DEF LinkPush, Over
<1>14. ASSUME NEW w \in Workers, WorkStep(w) \/ WorkLost(w) PROVE UNCHANGED <<live, vector, walk>>
  BY <1>14 DEF WorkStep, WorkStart, WorkPop, WorkRead, WorkAnswer, WorkGarbage, WorkTransport,
               WorkApply, WorkReturn, WorkLost, pg
<1>15. ASSUME PersonStep \/ SayLost \/ Peek PROVE UNCHANGED <<live, vector, walk>>
  BY <1>15 DEF PersonStep, SayEdge, SayCache, SayList, SayTake, SayPut, SayLost, Peek,
               PeekRead, PeekCheck, pg, tasks
<1>16. ASSUME NEW a \in Granules, NEW b \in Granules, Say(a, b) PROVE UNCHANGED <<live, vector, walk>>
  BY <1>16 DEF Say, pg
<1>17. ASSUME NEW k \in DOMAIN cache, Expire(k) PROVE UNCHANGED <<live, vector, walk>>
  BY <1>17 DEF Expire, pg, tasks
<1>18. CASE UNCHANGED vars
  BY <1>1, <1>18 DEF vars, pg, tasks
<1> QED
  BY <1>1, <1>2, <1>6, <1>7, <1>8, <1>9, <1>10, <1>11, <1>12, <1>13, <1>14, <1>15, <1>16, <1>17, <1>18
  DEF Next, Aside, LinkStep, MeetStep

-----------------------------------------------------------------------------
(* Every pair keeps a place.                                               *)

HoldsOf(r) == PairsOf(r.item) \cup UNION {PairsOf(item) : item \in ToSet(r.back)}
Queued(q) == UNION {PairsOf(item) : item \in ToSet(q)}
Places == InQueue \cup InHand \cup PairsOf(human.item)

\* What is decided, given up or closed stays so
Grows == live' \subseteq live /\ judged \subseteq judged' /\ excused \subseteq excused'

LEMMA GoneStays == ASSUME Grows, NEW p, Gone(p, Out, live) PROVE Gone(p, Out', live')
BY DEF Grows, Gone, Out

LEMMA AsideStays == ASSUME Grows, NEW r, SetAside(r, Out, live) PROVE SetAside(r, Out', live')
BY GoneStays DEF SetAside

LEMMA AllPlaced ==
  ASSUME PairsAccounted, Grows,
         \A p \in queued' : p \in queued \/ p \in Places',
         \A p \in Places : p \in Places' \/ Gone(p, Out', live')
  PROVE  PairsAccounted'
<1> SUFFICES ASSUME NEW p \in queued' PROVE p \in Places' \/ Gone(p, Out', live')
  BY DEF PairsAccounted, Places, Gone, Out
<1>1. CASE p \in queued
  BY <1>1, GoneStays DEF PairsAccounted, Places, Gone, Out
<1> QED
  BY <1>1

\* One worker turns to something else
LEMMA WorkerMoves ==
  ASSUME PlacesInv, Grows, NEW w \in Workers, NEW r, Set(w, r), IsHand(r), Matches(r),
         SetAside(r, Out', live'), UNCHANGED <<human, peeked, queued>>, queue' \in Seq(Listed),
         \A p \in Queued(queue) : p \in Queued(queue') \/ p \in HoldsOf(r),
         \A p \in HoldsOf(worker[w]) :
           p \in HoldsOf(r) \/ p \in Queued(queue') \/ Gone(p, Out', live')
  PROVE  PlacesInv'
<1>1. DOMAIN worker' = Workers /\ \A v \in Workers : worker'[v] = IF v = w THEN r ELSE worker[v]
  BY DEF Set, PlacesInv, Typed
<1>2. Typed'
  BY <1>1 DEF PlacesInv, Typed
<1>3. HandsMatch'
  BY <1>1 DEF PlacesInv, HandsMatch
<1>4. WorkedOff'
  BY <1>1, AsideStays DEF PlacesInv, WorkedOff
<1>5. SaidFirst' /\ Ahead'
  BY DEF PlacesInv, SaidFirst, Ahead, Grows, Mentions, Other
<1>6. ASSUME NEW p \in Places PROVE p \in Places' \/ Gone(p, Out', live')
  <2>1. InQueue' = Queued(queue') /\ InQueue = Queued(queue)
    BY DEF InQueue, Queued
  <2>2. InHand = UNION {HoldsOf(worker[v]) : v \in Workers}
    BY DEF InHand, Holds, HoldsOf
  <2>3. InHand' = UNION {HoldsOf(worker'[v]) : v \in Workers}
    BY DEF InHand, Holds, HoldsOf
  <2>4. HoldsOf(r) \subseteq InHand'
    BY <1>1, <2>3
  <2>5. ASSUME NEW v \in Workers, v # w, p \in HoldsOf(worker[v]) PROVE p \in InHand'
    BY <1>1, <2>3, <2>5
  <2> QED
    BY <1>6, <2>1, <2>2, <2>4, <2>5 DEF Places
<1>7. PairsAccounted'
  BY <1>6, AllPlaced DEF PlacesInv
<1> QED
  BY <1>2, <1>3, <1>4, <1>5, <1>7 DEF PlacesInv

\* The person goes on
LEMMA PersonMoves ==
  ASSUME PlacesInv, Grows, NEW r, Person(r), IsPerson(r), r.pc # "put" => r.item.cands = {},
         SaidFirst', Ahead', UNCHANGED <<worker, peeked, queued>>, queue' \in Seq(Listed),
         \A p \in Queued(queue) :
           p \in Queued(queue') \/ p \in PairsOf(r.item) \/ Gone(p, Out', live'),
         \A p \in PairsOf(human.item) :
           p \in PairsOf(r.item) \/ p \in Queued(queue') \/ Gone(p, Out', live')
  PROVE  PlacesInv'
<1>1. Typed'
  BY DEF PlacesInv, Typed, Person
<1>2. HandsMatch'
  BY DEF PlacesInv, HandsMatch, Person
<1>3. WorkedOff'
  BY AsideStays DEF PlacesInv, WorkedOff
<1>4. InQueue' = Queued(queue') /\ InQueue = Queued(queue) /\ InHand' = InHand
  BY DEF InQueue, Queued, InHand, Holds
<1>5. \A p \in Places : p \in Places' \/ Gone(p, Out', live')
  BY <1>4 DEF Places, Person
<1>6. PairsAccounted'
  BY <1>5, AllPlaced DEF PlacesInv
<1> QED
  BY <1>1, <1>2, <1>3, <1>6 DEF PlacesInv

\* Nobody's hand changes
LEMMA OthersMove ==
  ASSUME PlacesInv, Grows, UNCHANGED <<worker, human>>, peeked' \in Listed, queue' \in Seq(Listed),
         queued' \subseteq queued \cup Queued(queue'),
         \A p \in Queued(queue) : p \in Queued(queue') \/ Gone(p, Out', live')
  PROVE  PlacesInv'
<1>1. Typed' /\ HandsMatch'
  BY DEF PlacesInv, Typed, HandsMatch
<1>2. SaidFirst' /\ Ahead'
  BY DEF PlacesInv, SaidFirst, Ahead, Grows, Mentions, Other
<1>3. WorkedOff'
  BY AsideStays DEF PlacesInv, WorkedOff
<1>4. InQueue' = Queued(queue') /\ InQueue = Queued(queue) /\ InHand' = InHand
  BY DEF InQueue, Queued, InHand, Holds
<1>5. \A p \in Places : p \in Places' \/ Gone(p, Out', live')
  BY <1>4 DEF Places
<1>6. PairsAccounted'
  BY <1>4, <1>5, AllPlaced DEF PlacesInv, Places
<1> QED
  BY <1>1, <1>2, <1>3, <1>6 DEF PlacesInv

\* The changes the queue can see
LEMMA QueueChanges ==
  ASSUME NEW q \in Seq(Listed), NEW x \in Listed
  PROVE  /\ <<x>> \o q \in Seq(Listed) /\ Queued(<<x>> \o q) = PairsOf(x) \cup Queued(q)
         /\ Append(q, x) \in Seq(Listed) /\ Queued(Append(q, x)) = PairsOf(x) \cup Queued(q)
         /\ RemoveFirst(q, x) \in Seq(Listed)
         /\ Queued(q) \subseteq Queued(RemoveFirst(q, x)) \cup PairsOf(x)
         /\ q # <<>> => /\ Front(q) \in Seq(Listed) /\ Last(q) \in Listed
                        /\ Queued(q) = Queued(Front(q)) \cup PairsOf(Last(q))
                        /\ Tail(q) \in Seq(Listed) /\ Head(q) \in Listed
                        /\ Queued(q) = PairsOf(Head(q)) \cup Queued(Tail(q))
<1>1. <<x>> \o q \in Seq(Listed) /\ Queued(<<x>> \o q) = PairsOf(x) \cup Queued(q)
  BY AtFront DEF Queued
<1>2. Append(q, x) \in Seq(Listed) /\ Queued(Append(q, x)) = PairsOf(x) \cup Queued(q)
  BY AtEnd DEF Queued
<1>3. RemoveFirst(q, x) \in Seq(Listed) /\ Queued(q) \subseteq Queued(RemoveFirst(q, x)) \cup PairsOf(x)
  BY TakenOut DEF Queued
<1>4. ASSUME q # <<>>
      PROVE  /\ Front(q) \in Seq(Listed) /\ Last(q) \in Listed
             /\ Queued(q) = Queued(Front(q)) \cup PairsOf(Last(q))
  BY <1>4, OffEnd DEF Queued
<1>5. ASSUME q # <<>>
      PROVE  /\ Tail(q) \in Seq(Listed) /\ Head(q) \in Listed
             /\ Queued(q) = PairsOf(Head(q)) \cup Queued(Tail(q))
  BY <1>5, OffFront DEF Queued
<1> QED
  BY <1>1, <1>2, <1>3, <1>4, <1>5

-----------------------------------------------------------------------------
LEMMA Attempted ==
  ASSUME NEW x \in Listed
  PROVE  Attempt(x) \in Listed /\ PairsOf(Attempt(x)) = PairsOf(x)
<1>1. Attempt(x) = [g |-> x.g, cands |-> x.cands, att |-> x.att + 1]
  BY DEF Attempt, Listed
<1>2. x.g \in Int /\ x.cands \in SUBSET Granules /\ x.att + 1 \in Int
  BY DEF Listed
<1> QED
  BY <1>1, <1>2 DEF Listed, PairsOf

LEMMA BlankHand ==
  /\ IsHand(Blank) /\ Blank.pc = "idle" /\ Blank.item.cands = {} /\ Blank.back = <<>>
  /\ HoldsOf(Blank) = {}
<1>1. <<>> \in Seq(Listed) /\ ToSet(<<>>) = {}
  BY EmptySeq DEF ToSet
<1>2. NoItem \in Listed /\ NoItem.cands = {} /\ PairsOf(NoItem) = {}
  BY DEF NoItem, Listed, PairsOf
<1>3. Blank.item = NoItem /\ Blank.back = <<>> /\ Blank.pc = "idle" /\ Blank.cands = {}
  BY DEF Blank
<1>4. DOMAIN Blank = {"pc", "left", "item", "at", "cands", "known", "ask", "back"}
  BY DEF Blank
<1>5. HoldsOf(Blank) = {}
  BY <1>1, <1>2, <1>3 DEF HoldsOf
<1> QED
  BY <1>1, <1>2, <1>3, <1>4, <1>5 DEF IsHand, Steps

LEMMA NextHand ==
  ASSUME NEW w \in Workers, Typed
  PROVE  /\ IsHand(Next0(w)) /\ Matches(Next0(w)) /\ Next0(w).item.cands = {}
         /\ Next0(w).back = worker[w].back /\ Next0(w).pc = "pop"
         /\ HoldsOf(worker[w]) = PairsOf(worker[w].item) \cup HoldsOf(Next0(w))
<1>1. /\ Next0(w).pc = "pop" /\ Next0(w).item = NoItem /\ Next0(w).back = worker[w].back
      /\ Next0(w).cands = {}
      /\ DOMAIN Next0(w) = {"pc", "left", "item", "at", "cands", "known", "ask", "back"}
  BY DEF Next0, Blank
<1>2. NoItem \in Listed /\ NoItem.cands = {} /\ PairsOf(NoItem) = {}
  BY DEF NoItem, Listed, PairsOf
<1>3. worker[w].back \in Seq(Listed)
  BY DEF Typed, IsHand
<1>4. HoldsOf(worker[w]) = PairsOf(worker[w].item) \cup HoldsOf(Next0(w))
  BY <1>1, <1>2 DEF HoldsOf
<1> QED
  BY <1>1, <1>2, <1>3, <1>4 DEF IsHand, Steps, Matches

\* What run_l2_verdicts does keeps every pair
LEMMA WorkKeeps ==
  ASSUME PlacesInv, NEW w \in Workers, WorkStep(w) \/ WorkLost(w)
  PROVE  PlacesInv'
<1> DEFINE r0 == worker[w]
<1>1. /\ IsHand(r0) /\ Matches(r0) /\ SetAside(r0, Out, live) /\ queue \in Seq(Listed)
      /\ Typed
  BY DEF PlacesInv, Typed, HandsMatch, WorkedOff
<1>2. \A r : r.pc \notin {"ask", "apply"} => SetAside(r, Out', live')
  BY DEF SetAside
<1>3. CASE WorkStart(w)
  <2> DEFINE r == [Blank EXCEPT !.pc = "pop", !.left = Batch]
  <2>1. Set(w, r) /\ UNCHANGED <<live, judged, excused, human, peeked, queued, queue>> /\ r0.pc = "idle"
    BY <1>3 DEF WorkStart, On, pg, redis, history
  <2>2. /\ r.pc = "pop" /\ r.item = Blank.item /\ r.back = Blank.back /\ r.cands = Blank.cands
        /\ DOMAIN r = DOMAIN Blank
    BY DEF Blank
  <2>3. IsHand(r) /\ Matches(r)
    BY <2>2, BlankHand DEF IsHand, Matches, Steps
  <2>4. HoldsOf(r0) = {}
    <3>1. r0.item.cands = {} /\ r0.back = <<>>
      BY <1>1, <2>1 DEF Matches
    <3> QED
      BY <3>1 DEF HoldsOf, PairsOf, ToSet
  <2>5. Grows
    BY <2>1 DEF Grows
  <2> HIDE DEF r, r0
  <2> QED
    BY <1>1, <1>2, <2>1, <2>2, <2>3, <2>4, <2>5, WorkerMoves DEF r0
<1>4. CASE WorkPop(w)
  <2>1. UNCHANGED <<live, judged, excused, human, peeked, queued>> /\ r0.pc = "pop"
    BY <1>4 DEF WorkPop, On, pg, history
  <2>2. Grows
    BY <2>1 DEF Grows
  <2>3. r0.item.cands = {}
    BY <1>1, <2>1 DEF Matches
  <2>4. PairsOf(r0.item) = {}
    BY <2>3 DEF PairsOf
  <2>5. CASE queue # <<>> /\ queue' = Front(queue)
             /\ Set(w, [worker[w] EXCEPT !.pc = "read", !.left = @ - 1, !.item = Attempt(Last(queue))])
    <3> DEFINE item == Attempt(Last(queue))
               r == [worker[w] EXCEPT !.pc = "read", !.left = @ - 1, !.item = item]
    <3>1. Last(queue) \in Listed /\ Queued(queue) = Queued(queue') \cup PairsOf(Last(queue))
          /\ queue' \in Seq(Listed)
      <4>1. NoItem \in Listed
        BY DEF NoItem, Listed
      <4> QED
        BY <1>1, <2>5, <4>1, QueueChanges
    <3>2. item \in Listed /\ PairsOf(item) = PairsOf(Last(queue))
      BY <3>1, Attempted
    <3> HIDE DEF item
    <3>3. /\ DOMAIN r = DOMAIN r0 /\ r.pc = "read" /\ r.item = item /\ r.back = r0.back
          /\ r.cands = r0.cands
      BY <1>1 DEF IsHand
    <3>4. r0.cands = {}
      BY <1>1, <2>3 DEF IsHand
    <3>5. IsHand(r) /\ Matches(r)
      BY <1>1, <3>2, <3>3, <3>4 DEF IsHand, Matches, Steps
    <3>6. HoldsOf(r0) \subseteq HoldsOf(r) /\ PairsOf(Last(queue)) \subseteq HoldsOf(r)
      BY <2>4, <3>2, <3>3 DEF HoldsOf
    <3>7. Set(w, r)
      BY <2>5 DEF item
    <3> HIDE DEF r, r0
    <3> QED
      BY <1>2, <2>1, <2>2, <3>1, <3>3, <3>5, <3>6, <3>7, WorkerMoves DEF r0
  <2>6. CASE queue' = queue /\ Set(w, [worker[w] EXCEPT !.pc = "return"])
    <3> DEFINE r == [worker[w] EXCEPT !.pc = "return"]
    <3>1. /\ DOMAIN r = DOMAIN r0 /\ r.pc = "return" /\ r.item = r0.item /\ r.back = r0.back
          /\ r.cands = r0.cands
      BY <1>1 DEF IsHand
    <3>2. IsHand(r) /\ Matches(r)
      BY <1>1, <2>3, <3>1 DEF IsHand, Matches, Steps
    <3>3. HoldsOf(r0) = HoldsOf(r)
      BY <3>1 DEF HoldsOf
    <3>4. Set(w, r)
      BY <2>6
    <3> HIDE DEF r, r0
    <3> QED
      BY <1>1, <1>2, <2>1, <2>2, <2>6, <3>1, <3>2, <3>3, <3>4, WorkerMoves DEF r0
  <2> QED
    BY <1>4, <2>5, <2>6 DEF WorkPop
<1>5. CASE WorkRead(w)
  <2> DEFINE item == r0.item
             cands == item.cands \cap live
  <2>1. UNCHANGED <<live, judged, excused, human, peeked, queued, queue>>
    BY <1>5 DEF WorkRead, pg, redis
  <2>2. Grows /\ Out' = Out
    BY <2>1 DEF Grows, Out
  <2>3. CASE (item.g \notin live \/ cands = {}) /\ Set(w, Next0(w))
    <3>1. \A p \in PairsOf(item) : Gone(p, Out', live')
      BY <2>1, <2>3 DEF PairsOf, Gone
    <3> QED
      BY <1>1, <1>2, <2>1, <2>2, <2>3, <3>1, NextHand, WorkerMoves DEF r0
  <2>4. ASSUME NEW at, NEW known, NEW ask, NEW pc \in {"ask", "apply"},
               Set(w, [worker[w] EXCEPT !.pc = pc, !.at = at, !.cands = cands, !.known = known, !.ask = ask])
        PROVE  PlacesInv'
    <3> DEFINE r == [worker[w] EXCEPT !.pc = pc, !.at = at, !.cands = cands, !.known = known, !.ask = ask]
    <3>1. /\ DOMAIN r = DOMAIN r0 /\ r.pc = pc /\ r.item = r0.item /\ r.back = r0.back
          /\ r.cands = cands
      BY <1>1 DEF IsHand
    <3>2. IsHand(r) /\ Matches(r)
      BY <1>1, <2>4, <3>1 DEF IsHand, Matches, Steps
    <3>3. HoldsOf(r0) = HoldsOf(r)
      BY <3>1 DEF HoldsOf
    <3>4. SetAside(r, Out', live')
      BY <2>1, <3>1 DEF SetAside, Gone
    <3>5. Set(w, r)
      BY <2>4
    <3> HIDE DEF r, r0
    <3> QED
      BY <1>1, <2>1, <2>2, <3>2, <3>3, <3>4, <3>5, WorkerMoves DEF r0
  <2> QED
    BY <1>5, <2>3, <2>4 DEF WorkRead
<1>6. ASSUME NEW verdicts, Heard(w, verdicts), UNCHANGED <<live, judged, excused, human, peeked, queued, queue>>,
             r0.pc = "ask"
      PROVE  PlacesInv'
  <2> DEFINE r == [worker[w] EXCEPT !.pc = "apply", !.ask = {}, !.known = Told(w, verdicts)]
  <2>1. /\ DOMAIN r = DOMAIN r0 /\ r.pc = "apply" /\ r.item = r0.item /\ r.back = r0.back
        /\ r.cands = r0.cands
    BY <1>1 DEF IsHand
  <2>2. IsHand(r) /\ Matches(r)
    BY <1>1, <2>1 DEF IsHand, Matches, Steps
  <2>3. HoldsOf(r0) = HoldsOf(r)
    BY <2>1 DEF HoldsOf
  <2>4. Grows /\ Out' = Out
    BY <1>6 DEF Grows, Out
  <2>5. SetAside(r, Out', live')
    BY <1>1, <1>6, <2>1, <2>4 DEF SetAside
  <2>6. Set(w, r)
    BY <1>6 DEF Heard
  <2> HIDE DEF r, r0
  <2> QED
    BY <1>1, <1>6, <2>2, <2>3, <2>4, <2>5, <2>6, WorkerMoves DEF r0
<1>7. CASE WorkAnswer(w) \/ WorkGarbage(w)
  <2>1. UNCHANGED <<live, judged, excused, human, peeked, queued, queue>> /\ r0.pc = "ask"
    BY <1>7 DEF WorkAnswer, WorkGarbage, On, pg, history
  <2>2. \E verdicts : Heard(w, verdicts)
    BY <1>7 DEF WorkAnswer, WorkGarbage
  <2> QED
    BY <1>6, <2>1, <2>2
<1>8. CASE WorkTransport(w)
  <2> DEFINE item == r0.item
  <2>1. UNCHANGED <<live, judged, human, peeked, queued, queue>>
    BY <1>8 DEF WorkTransport, pg, redis
  <2>2. CASE Set(w, [Next0(w) EXCEPT !.back = Append(worker[w].back, item)]) /\ UNCHANGED excused
    <3> DEFINE r == [Next0(w) EXCEPT !.back = Append(worker[w].back, item)]
    <3>1. /\ DOMAIN r = DOMAIN Next0(w) /\ r.pc = "pop" /\ r.item = Next0(w).item
          /\ r.back = Append(r0.back, item) /\ r.cands = Next0(w).cands
      BY <1>1, NextHand DEF IsHand
    <3>2. Append(r0.back, item) \in Seq(Listed) /\ Queued(Append(r0.back, item)) = PairsOf(item) \cup Queued(r0.back)
      BY <1>1, QueueChanges DEF IsHand
    <3>3. IsHand(r) /\ Matches(r)
      BY <1>1, <3>1, <3>2, NextHand DEF IsHand, Matches, Steps
    <3>4. HoldsOf(r0) \subseteq HoldsOf(r)
      BY <3>1, <3>2 DEF HoldsOf, Queued
    <3>5. Grows
      BY <2>1, <2>2 DEF Grows
    <3>6. Set(w, r)
      BY <2>2
    <3> HIDE DEF r, r0
    <3> QED
      BY <1>1, <1>2, <2>1, <3>1, <3>3, <3>4, <3>5, <3>6, WorkerMoves DEF r0
  <2>3. CASE Set(w, Next0(w)) /\ excused' = excused \cup PairsOf(item)
    <3>1. Grows
      BY <2>1, <2>3 DEF Grows
    <3>2. \A p \in PairsOf(item) : Gone(p, Out', live')
      BY <2>3 DEF Gone, Out
    <3> QED
      BY <1>1, <1>2, <2>1, <2>3, <3>1, <3>2, NextHand, WorkerMoves DEF r0
  <2> QED
    BY <1>8, <2>2, <2>3 DEF WorkTransport
<1>9. CASE WorkApply(w)
  <2>1. UNCHANGED <<live, excused, human, peeked, queued, queue>> /\ r0.pc = "apply"
    BY <1>9 DEF WorkApply, On, redis
  <2>2. PICK c \in r0.cands :
          LET g == r0.item.g
              rest == r0.cands \ {c}
          IN /\ judged' = judged \cup {<<g, c>>}
             /\ Set(w, IF rest = {} THEN Next0(w) ELSE [worker[w] EXCEPT !.cands = rest])
    BY <1>9 DEF WorkApply
  <2> DEFINE g == r0.item.g
             rest == r0.cands \ {c}
  <2>3. Grows
    BY <2>1, <2>2 DEF Grows
  <2>4. \A d \in r0.item.cands : d \in rest \/ Gone(<<g, d>>, Out', live')
    <3>1. \A d \in r0.item.cands : d \in r0.cands \/ Gone(<<g, d>>, Out', live')
      BY <1>1, <2>1, <2>3, GoneStays DEF SetAside
    <3>2. Gone(<<g, c>>, Out', live')
      BY <2>2 DEF Gone, Out
    <3> QED
      BY <3>1, <3>2
  <2>5. CASE rest = {}
    <3>1. \A p \in PairsOf(r0.item) : Gone(p, Out', live')
      BY <2>4, <2>5 DEF PairsOf
    <3>2. Set(w, Next0(w))
      BY <2>2, <2>5
    <3> QED
      BY <1>1, <1>2, <2>1, <2>3, <3>1, <3>2, NextHand, WorkerMoves DEF r0
  <2>6. CASE rest # {}
    <3> DEFINE r == [worker[w] EXCEPT !.cands = rest]
    <3>1. /\ DOMAIN r = DOMAIN r0 /\ r.pc = "apply" /\ r.item = r0.item /\ r.back = r0.back
          /\ r.cands = rest
      BY <1>1, <2>1 DEF IsHand
    <3>2. IsHand(r) /\ Matches(r)
      BY <1>1, <3>1 DEF IsHand, Matches, Steps
    <3>3. HoldsOf(r0) = HoldsOf(r)
      BY <3>1 DEF HoldsOf
    <3>4. SetAside(r, Out', live')
      BY <2>4, <3>1 DEF SetAside
    <3>5. Set(w, r)
      BY <2>2, <2>6
    <3> HIDE DEF r, r0
    <3> QED
      BY <1>1, <2>1, <2>3, <3>2, <3>3, <3>4, <3>5, WorkerMoves DEF r0
  <2> QED
    BY <2>5, <2>6
<1>10. CASE WorkReturn(w)
  <2>1. UNCHANGED <<live, judged, excused, human, peeked, queued>> /\ r0.pc = "return"
    BY <1>10 DEF WorkReturn, On, pg, history
  <2>2. Grows
    BY <2>1 DEF Grows
  <2>3. r0.item.cands = {} /\ PairsOf(r0.item) = {}
    BY <1>1, <2>1 DEF Matches, PairsOf
  <2>4. CASE r0.back = <<>>
    <3>1. HoldsOf(r0) = {}
      BY <2>3, <2>4 DEF HoldsOf, ToSet
    <3>2. Set(w, Blank) /\ UNCHANGED queue
      BY <1>10, <2>4 DEF WorkReturn
    <3>3. Matches(Blank)
      BY BlankHand DEF Matches
    <3> QED
      BY <1>1, <1>2, <2>1, <2>2, <3>1, <3>2, <3>3, BlankHand, WorkerMoves DEF r0
  <2>5. CASE r0.back # <<>>
    <3> DEFINE r == [worker[w] EXCEPT !.back = Tail(@)]
    <3>1. queue' = <<Head(r0.back)>> \o queue /\ Set(w, r)
      BY <1>10, <2>5 DEF WorkReturn
    <3>2. /\ DOMAIN r = DOMAIN r0 /\ r.pc = "return" /\ r.item = r0.item /\ r.back = Tail(r0.back)
          /\ r.cands = r0.cands
      BY <1>1, <2>1 DEF IsHand
    <3>3. /\ Head(r0.back) \in Listed /\ Tail(r0.back) \in Seq(Listed)
          /\ Queued(r0.back) = PairsOf(Head(r0.back)) \cup Queued(Tail(r0.back))
      <4>1. r0.back \in Seq(Listed) /\ r0.item \in Listed
        BY <1>1 DEF IsHand
      <4> QED
        BY <2>5, <4>1, QueueChanges
    <3>4. queue' \in Seq(Listed) /\ Queued(queue') = PairsOf(Head(r0.back)) \cup Queued(queue)
      BY <1>1, <3>1, <3>3, QueueChanges
    <3>5. IsHand(r) /\ Matches(r)
      BY <1>1, <2>3, <3>2, <3>3 DEF IsHand, Matches, Steps
    <3>6. HoldsOf(r0) = Queued(r0.back) /\ Queued(Tail(r0.back)) \subseteq HoldsOf(r)
      BY <2>3, <3>2 DEF HoldsOf, Queued
    <3> HIDE DEF r, r0
    <3> QED
      BY <1>2, <2>1, <2>2, <3>1, <3>2, <3>3, <3>4, <3>5, <3>6, WorkerMoves DEF r0
  <2> QED
    BY <2>4, <2>5
<1>11. CASE WorkLost(w)
  <2>1. UNCHANGED <<live, judged, human, peeked, queued, queue>> /\ Set(w, Blank)
       /\ excused' = excused \cup Holds(w)
    BY <1>11 DEF WorkLost, pg, redis
  <2>2. Grows
    BY <2>1 DEF Grows
  <2>3. \A p \in HoldsOf(r0) : Gone(p, Out', live')
    BY <2>1 DEF Holds, HoldsOf, Gone, Out
  <2>4. Matches(Blank)
    BY BlankHand DEF Matches
  <2> QED
    BY <1>1, <1>2, <2>1, <2>2, <2>3, <2>4, BlankHand, WorkerMoves DEF r0
<1> QED
  BY <1>3, <1>4, <1>5, <1>7, <1>8, <1>9, <1>10, <1>11 DEF WorkStep

-----------------------------------------------------------------------------
LEMMA Kept ==
  ASSUME NEW x \in Listed
  PROVE  Siblings(x) = [g |-> x.g, cands |-> x.cands \ {Other(x)}, att |-> x.att]
BY DEF Siblings, Listed

LEMMA SilentHand == /\ IsPerson(Silent) /\ Silent.pc = "idle" /\ Silent.item.cands = {}
                    /\ Silent.todo = <<>>
<1>1. NoItem \in Listed /\ NoItem.cands = {}
  BY DEF NoItem, Listed
<1>2. <<>> \in Seq(Listed)
  BY EmptySeq
<1> QED
  BY <1>1, <1>2 DEF IsPerson, Silent, Says

\* What apply_manual_verdict and _consume_l2_pair do keeps every pair
LEMMA PersonKeeps ==
  ASSUME PlacesInv,
         PersonStep \/ SayLost \/ \E a, b \in Granules : Say(a, b)
  PROVE  PlacesInv'
<1> DEFINE h == human
<1>1. /\ IsPerson(h) /\ queue \in Seq(Listed)
      /\ h.pc # "put" => h.item.cands = {}
  BY DEF PlacesInv, Typed, HandsMatch
<1>2. h.pc # "put" => PairsOf(h.item) = {}
  BY <1>1 DEF PairsOf
<1>3. CASE \E a, b \in Granules : Say(a, b)
  <2>1. PICK a, b \in Granules : Say(a, b)
    BY <1>3
  <2>2. PICK v : Person([Silent EXCEPT !.pc = "edge", !.s = a, !.c = b, !.v = v, !.key = Key(a, b)])
    BY <2>1 DEF Say
  <2> DEFINE r == [Silent EXCEPT !.pc = "edge", !.s = a, !.c = b, !.v = v, !.key = Key(a, b)]
  <2>3. UNCHANGED <<live, judged, excused, worker, peeked, queued, queue>> /\ h.pc = "idle"
    BY <2>1 DEF Say, Is, pg, redis, history
  <2>4. /\ DOMAIN r = DOMAIN Silent /\ r.pc = "edge" /\ r.item = Silent.item /\ r.todo = Silent.todo
    BY DEF Silent
  <2>5. IsPerson(r) /\ r.item.cands = {}
    BY <2>4, SilentHand DEF IsPerson, Says
  <2>6. Person(r) /\ human'.pc = "edge"
    BY <2>2, <2>4 DEF Person
  <2>7. Grows /\ SaidFirst' /\ Ahead'
    BY <2>3, <2>6 DEF Grows, SaidFirst, Ahead
  <2> HIDE DEF r
  <2> QED
    BY <1>1, <1>2, <2>3, <2>5, <2>6, <2>7, PersonMoves
<1>4. CASE SayEdge
  <2> DEFINE r == [human EXCEPT !.pc = "cache"]
  <2>1. /\ UNCHANGED <<live, excused, worker, peeked, queued, queue>> /\ h.pc = "edge"
        /\ judged' = judged \cup {<<human.s, human.c>>, <<human.c, human.s>>} /\ Person(r)
    BY <1>4 DEF SayEdge, Is, redis
  <2>2. /\ DOMAIN r = DOMAIN h /\ r.pc = "cache" /\ r.item = h.item /\ r.todo = h.todo
        /\ r.s = h.s /\ r.c = h.c
    BY <1>1 DEF IsPerson
  <2>3. IsPerson(r) /\ r.item.cands = {}
    BY <1>1, <2>1, <2>2 DEF IsPerson, Says
  <2>4. Grows /\ SaidFirst' /\ Ahead'
    BY <2>1, <2>2 DEF Grows, SaidFirst, Ahead, Person
  <2> HIDE DEF r
  <2> QED
    BY <1>1, <1>2, <2>1, <2>3, <2>4, PersonMoves
<1>5. CASE SayCache
  <2> DEFINE r == [human EXCEPT !.pc = "list"]
  <2>1. /\ UNCHANGED <<live, judged, excused, worker, peeked, queued, queue>> /\ h.pc = "cache"
        /\ Person(r)
    BY <1>5 DEF SayCache, Is, pg
  <2>2. /\ DOMAIN r = DOMAIN h /\ r.pc = "list" /\ r.item = h.item /\ r.todo = h.todo
        /\ r.s = h.s /\ r.c = h.c
    BY <1>1 DEF IsPerson
  <2>3. IsPerson(r) /\ r.item.cands = {}
    BY <1>1, <2>1, <2>2 DEF IsPerson, Says
  <2>4. Grows /\ SaidFirst' /\ Ahead'
    BY <2>1, <2>2 DEF Grows, SaidFirst, Ahead, Person, PlacesInv
  <2> HIDE DEF r
  <2> QED
    BY <1>1, <1>2, <2>1, <2>3, <2>4, PersonMoves
<1>6. ASSUME Person(Silent), UNCHANGED <<live, judged, excused, worker, peeked, queued, queue>>, h.pc # "put"
      PROVE  PlacesInv'
  <2>1. Grows /\ SaidFirst' /\ Ahead'
    BY <1>6, SilentHand DEF Grows, SaidFirst, Ahead, Person
  <2> QED
    BY <1>1, <1>2, <1>6, <2>1, SilentHand, PersonMoves
\* the next item is the first that mentions the pair
<1>7. ASSUME NEW q \in Seq(Listed), NEW r, Person(r), r.todo = Onward(q),
             DOMAIN r = DOMAIN h, r.s = h.s, r.c = h.c
      PROVE  r.todo \in Seq(Listed) /\ Ahead'
  <2>1. Onward(q) \in Seq(Listed) /\ (Onward(q) # <<>> => Mentions(Head(Onward(q))))
    BY PassedBy
  <2> QED
    BY <1>7, <2>1 DEF Ahead, Mentions, Other, Person
<1>8. CASE SayList
  <2>1. UNCHANGED <<live, judged, excused, worker, peeked, queued, queue>> /\ h.pc = "list"
    BY <1>8 DEF SayList, Is, pg, redis, history
  <2>2. CASE Person(Silent)
    BY <1>6, <2>1, <2>2
  <2>3. CASE Person([human EXCEPT !.pc = "take", !.todo = Onward(queue)])
    <3> DEFINE r == [human EXCEPT !.pc = "take", !.todo = Onward(queue)]
    <3>1. /\ DOMAIN r = DOMAIN h /\ r.pc = "take" /\ r.item = h.item /\ r.todo = Onward(queue)
          /\ r.s = h.s /\ r.c = h.c /\ Person(r)
      BY <1>1, <2>3 DEF IsPerson
    <3> HIDE DEF r
    <3>2. r.todo \in Seq(Listed) /\ Ahead'
      BY <1>1, <1>7, <3>1
    <3>3. IsPerson(r) /\ r.item.cands = {}
      BY <1>1, <2>1, <3>1, <3>2 DEF IsPerson, Says
    <3>4. Grows /\ SaidFirst'
      BY <2>1, <3>1 DEF Grows, SaidFirst, Person, PlacesInv
    <3> QED
      BY <1>1, <1>2, <2>1, <3>1, <3>2, <3>3, <3>4, PersonMoves
  <2> QED
    BY <1>8, <2>2, <2>3 DEF SayList
<1>9. CASE SayTake
  <2>1. UNCHANGED <<live, judged, excused, worker, peeked, queued>> /\ h.pc = "take"
    BY <1>9 DEF SayTake, Is, pg, history
  <2>2. CASE h.todo = <<>>
    BY <1>6, <1>9, <2>1, <2>2 DEF SayTake
  <2>3. CASE h.todo # <<>>
    <3> DEFINE item == Head(h.todo)
               kept == Siblings(item)
               pass == [human EXCEPT !.todo = Onward(Tail(@))]
               put == [pass EXCEPT !.item = kept, !.pc = "put"]
    <3>1. \/ /\ queue' = RemoveFirst(queue, item)
             /\ Person(IF kept.cands = {} THEN pass ELSE put)
          \/ Person(pass) /\ UNCHANGED queue
      BY <1>9, <2>3 DEF SayTake
    <3>2. item \in Listed /\ Tail(h.todo) \in Seq(Listed) /\ Mentions(item)
      <4>1. h.todo \in Seq(Listed) /\ h.item \in Listed
        BY <1>1 DEF IsPerson
      <4> QED
        BY <2>1, <2>3, <4>1, QueueChanges DEF PlacesInv, Ahead
    <3>3. kept = [g |-> item.g, cands |-> item.cands \ {Other(item)}, att |-> item.att]
      BY <3>2, Kept
    <3>4. kept \in Listed
      BY <3>2, <3>3 DEF Listed
    <3>5. \A p \in PairsOf(item) : p \in PairsOf(kept) \/ Gone(p, Out', live')
      <4>1. {<<human.s, human.c>>, <<human.c, human.s>>} \subseteq judged
        BY <2>1 DEF PlacesInv, SaidFirst
      <4>2. <<item.g, Other(item)>> \in judged
        BY <3>2, <4>1 DEF Mentions, Other
      <4> QED
        BY <2>1, <3>3, <4>2 DEF PairsOf, Gone, Out
    <3>6. /\ DOMAIN pass = DOMAIN h /\ pass.pc = "take" /\ pass.item = h.item
          /\ pass.todo = Onward(Tail(h.todo)) /\ pass.s = h.s /\ pass.c = h.c
      BY <1>1, <2>1 DEF IsPerson
    <3>7. /\ DOMAIN put = DOMAIN h /\ put.pc = "put" /\ put.item = kept
          /\ put.todo = Onward(Tail(h.todo)) /\ put.s = h.s /\ put.c = h.c
      BY <1>1, <2>1 DEF IsPerson
    <3>8. Onward(Tail(h.todo)) \in Seq(Listed)
      BY <3>2, PassedBy
    <3> HIDE DEF item, kept, pass, put
    <3>9. IsPerson(pass) /\ pass.item.cands = {} /\ IsPerson(put)
      BY <1>1, <2>1, <3>4, <3>6, <3>7, <3>8 DEF IsPerson, Says
    <3>10. Grows
      BY <2>1 DEF Grows
    <3>11. /\ RemoveFirst(queue, item) \in Seq(Listed)
           /\ Queued(queue) \subseteq Queued(RemoveFirst(queue, item)) \cup PairsOf(item)
      BY <1>1, <3>2, QueueChanges
    <3>12. PairsOf(h.item) = {}
      BY <1>2, <2>1
    <3>13. SaidFirst' \/ ~(Person(pass) \/ Person(put))
      BY <2>1, <3>6, <3>7 DEF SaidFirst, Person, PlacesInv
    <3>14. CASE Person(pass) /\ UNCHANGED queue
      <4>1. Ahead'
        BY <1>7, <3>2, <3>6, <3>14
      <4> QED
        BY <1>1, <2>1, <3>9, <3>10, <3>12, <3>13, <3>14, <4>1, PersonMoves
    <3>15. CASE Person(pass) /\ queue' = RemoveFirst(queue, item) /\ kept.cands = {}
      <4>1. Ahead'
        BY <1>7, <3>2, <3>6, <3>15
      <4>2. PairsOf(kept) = {}
        BY <3>15 DEF PairsOf
      <4> QED
        BY <2>1, <3>5, <3>9, <3>10, <3>11, <3>12, <3>13, <3>15, <4>1, <4>2, PersonMoves
    <3>16. CASE Person(put) /\ queue' = RemoveFirst(queue, item)
      <4>1. Ahead'
        BY <1>7, <3>2, <3>7, <3>16
      <4> QED
        BY <2>1, <3>5, <3>7, <3>9, <3>10, <3>11, <3>12, <3>13, <3>16, <4>1, PersonMoves
    <3> QED
      BY <3>1, <3>14, <3>15, <3>16
  <2> QED
    BY <2>2, <2>3
<1>10. CASE SayPut
  <2> DEFINE r == [human EXCEPT !.pc = "take", !.item = NoItem]
  <2>1. UNCHANGED <<live, judged, worker, peeked, queued>> /\ h.pc = "put" /\ Person(r)
    BY <1>10 DEF SayPut, Is, pg
  <2>2. /\ DOMAIN r = DOMAIN h /\ r.pc = "take" /\ r.item = NoItem /\ r.todo = h.todo
        /\ r.s = h.s /\ r.c = h.c
    BY <1>1 DEF IsPerson
  <2>3. IsPerson(r) /\ r.item.cands = {}
    <3>1. NoItem \in Listed /\ NoItem.cands = {}
      BY DEF NoItem, Listed
    <3> QED
      BY <1>1, <2>2, <3>1 DEF IsPerson, Says
  <2>4. SaidFirst' /\ Ahead'
    BY <2>1, <2>2 DEF SaidFirst, Ahead, Person, PlacesInv, Mentions, Other
  <2>5. CASE queue' = Append(queue, human.item) /\ UNCHANGED excused
    <3>1. queue' \in Seq(Listed) /\ Queued(queue') = PairsOf(h.item) \cup Queued(queue)
      BY <1>1, <2>5, QueueChanges DEF IsPerson
    <3>2. Grows
      BY <2>1, <2>5 DEF Grows
    <3> HIDE DEF r
    <3> QED
      BY <2>1, <2>3, <2>4, <3>1, <3>2, PersonMoves
  <2>6. CASE excused' = excused \cup PairsOf(human.item) /\ UNCHANGED queue
    <3>1. Grows /\ \A p \in PairsOf(h.item) : Gone(p, Out', live')
      BY <2>1, <2>6 DEF Grows, Gone, Out
    <3> HIDE DEF r
    <3> QED
      BY <1>1, <2>1, <2>3, <2>4, <2>6, <3>1, PersonMoves
  <2> QED
    BY <1>10, <2>5, <2>6 DEF SayPut
<1>11. CASE SayLost
  <2>1. /\ UNCHANGED <<live, judged, worker, peeked, queued, queue>>
        /\ excused' = excused \cup PairsOf(human.item)
    BY <1>11 DEF SayLost, pg, redis
  <2>2. Grows /\ \A p \in PairsOf(h.item) : Gone(p, Out', live')
    BY <2>1 DEF Grows, Gone, Out
  <2> DEFINE again == [Silent EXCEPT !.pc = "edge", !.s = human.s, !.c = human.c, !.v = human.v,
                                     !.key = Key(human.s, human.c)]
  <2>3. ASSUME NEW r, r = Silent \/ r = again, Person(r) PROVE PlacesInv'
    <3>1. /\ DOMAIN again = DOMAIN Silent /\ again.pc = "edge" /\ again.item = Silent.item
          /\ again.todo = Silent.todo
      BY DEF Silent
    <3> HIDE DEF again
    <3>2. IsPerson(r) /\ r.item.cands = {} /\ r.pc \in {"idle", "edge"}
      BY <2>3, <3>1, SilentHand DEF IsPerson, Says
    <3>3. SaidFirst' /\ Ahead'
      BY <2>3, <3>2 DEF SaidFirst, Ahead, Person
    <3> QED
      BY <1>1, <2>1, <2>2, <2>3, <3>2, <3>3, PersonMoves
  <2> QED
    BY <1>11, <2>3 DEF SayLost
<1> QED
  BY <1>3, <1>4, <1>5, <1>8, <1>9, <1>10, <1>11 DEF PersonStep

-----------------------------------------------------------------------------
LEMMA PlacesInit == Init => PlacesInv
<1> SUFFICES ASSUME Init PROVE PlacesInv
  OBVIOUS
<1>1. /\ queue = <<>> /\ peeked = NoItem /\ worker = [w \in Workers |-> Blank] /\ human = Silent
      /\ queued = {}
  BY DEF Init
<1>2. queue \in Seq(Listed) /\ peeked \in Listed
  BY <1>1, EmptySeq DEF NoItem, Listed
<1>3. \A w \in Workers : /\ IsHand(worker[w]) /\ Matches(worker[w])
                         /\ SetAside(worker[w], Out, live)
  BY <1>1, BlankHand DEF Matches, SetAside
<1>4. SaidFirst /\ Ahead /\ human.item.cands = {}
  BY <1>1, SilentHand DEF SaidFirst, Ahead
<1> QED
  BY <1>1, <1>2, <1>3, <1>4, SilentHand DEF PlacesInv, Typed, HandsMatch, WorkedOff, PairsAccounted

LEMMA PlacesNext == PlacesInv /\ Walks /\ [Next]_vars => PlacesInv'
<1> SUFFICES ASSUME PlacesInv, Walks, [Next]_vars PROVE PlacesInv'
  OBVIOUS
<1>0. queue \in Seq(Listed) /\ peeked \in Listed
  BY DEF PlacesInv, Typed
<1>1. ASSUME UNCHANGED <<worker, human, peeked, queue, queued, judged, excused>>, live' \subseteq live
      PROVE  PlacesInv'
  <2>1. Grows
    BY <1>1 DEF Grows
  <2> QED
    BY <1>0, <1>1, <2>1, OthersMove
<1>2. CASE Aside
  <2>1. ASSUME NEW g \in Granules, Close(g) \/ Edit(g) \/ Index(g) PROVE PlacesInv'
    BY <1>1, <2>1 DEF Close, Edit, Index, redis, tasks, history
  <2>2. ASSUME NEW k \in DOMAIN cache, Expire(k) PROVE PlacesInv'
    BY <1>1, <2>2 DEF Expire, pg, tasks
  <2> QED
    BY <1>2, <2>1, <2>2 DEF Aside
<1>3. CASE Campaign
  BY <1>1, <1>3 DEF Campaign, pg, redis, history
<1>4. ASSUME NEW q \in DOMAIN walk, MeetStep(q) \/ WalkLost(q) PROVE PlacesInv'
  BY <1>1, <1>4 DEF MeetStep, Meet, MeetInsert, MeetMark, WalkLost, pg, redis, history
<1>5. ASSUME (\E g \in Granules : LinkBegin(g)) \/ LinkNear PROVE PlacesInv'
  BY <1>1, <1>5 DEF LinkBegin, LinkNear, redis, history
<1>6. CASE LinkPush
  <2> DEFINE item == [g |-> walk["link"].g, cands |-> walk["link"].with, att |-> 0]
  <2>1. UNCHANGED <<live, worker, human, peeked, judged, excused>>
    BY <1>6 DEF LinkPush
  <2>2. CASE UNCHANGED <<queue, queued>>
    BY <1>1, <2>1, <2>2
  <2>3. CASE queue' = <<item>> \o queue /\ queued' = queued \cup PairsOf(item)
    <3>1. item \in Listed
      BY DEF Walks, IsWalk, Listed
    <3> HIDE DEF item
    <3>2. queue' \in Seq(Listed) /\ Queued(queue') = PairsOf(item) \cup Queued(queue)
      BY <1>0, <2>3, <3>1, QueueChanges
    <3>3. Grows
      BY <2>1 DEF Grows
    <3> QED
      BY <1>0, <2>1, <2>3, <3>2, <3>3, OthersMove
  <2> QED
    BY <1>6, <2>2, <2>3 DEF LinkPush
<1>7. ASSUME NEW w \in Workers, WorkStep(w) \/ WorkLost(w) PROVE PlacesInv'
  BY <1>7, WorkKeeps
<1>8. CASE PersonStep \/ SayLost \/ \E a, b \in Granules : Say(a, b)
  BY <1>8, PersonKeeps
<1>9. CASE Peek
  <2>1. UNCHANGED <<live, worker, human, queued, judged, excused>>
    BY <1>9 DEF Peek, PeekRead, PeekCheck, pg, history
  <2>2. Grows
    BY <2>1 DEF Grows
  <2>3. CASE PeekRead
    <3>1. UNCHANGED queue /\ peeked' = Last(queue) /\ queue # <<>>
      BY <2>3 DEF PeekRead, redis
    <3>2. peeked' \in Listed
      BY <1>0, <3>1, QueueChanges
    <3> QED
      BY <1>0, <2>1, <2>2, <3>1, <3>2, OthersMove
  <2>4. CASE PeekCheck
    <3>1. peeked' = NoItem /\ NoItem \in Listed
      BY <2>4 DEF PeekCheck, NoItem, Listed
    <3>2. CASE ~Stale(peeked)
      <4>1. UNCHANGED queue
        BY <2>4, <3>2 DEF PeekCheck
      <4> QED
        BY <1>0, <2>1, <2>2, <3>1, <4>1, OthersMove
    <3>3. CASE Stale(peeked)
      <4>1. queue' = RemoveFirst(queue, peeked)
        BY <2>4, <3>3 DEF PeekCheck
      <4>2. /\ queue' \in Seq(Listed)
            /\ Queued(queue) \subseteq Queued(queue') \cup PairsOf(peeked)
        BY <1>0, <4>1, QueueChanges
      <4>3. \A p \in PairsOf(peeked) : Gone(p, Out', live')
        BY <2>1, <3>3 DEF Stale, PairsOf, Gone
      <4> QED
        BY <2>1, <2>2, <3>1, <4>2, <4>3, OthersMove
    <3> QED
      BY <3>2, <3>3
  <2> QED
    BY <1>9, <2>3, <2>4 DEF Peek
<1>10. CASE UNCHANGED vars
  BY <1>1, <1>10 DEF vars, pg, redis, tasks, history
<1> QED
  BY <1>2, <1>3, <1>4, <1>5, <1>6, <1>7, <1>8, <1>9, <1>10 DEF Next, LinkStep

\* A pair that entered the verdict queue is in it, in the hands of a worker or of
\* the person, decided, given up for a cause the code has, or has an end closed
\* (run_l2_verdicts, _consume_l2_pair, peek_l2), for any number of workers and
\* failures.
THEOREM NoPairLost == Spec => []PairsAccounted
<1>1. Walks /\ PlacesInv /\ [Next]_vars => Walks' /\ PlacesInv'
  BY WalksNext, PlacesNext
<1>2. PlacesInv => PairsAccounted
  BY DEF PlacesInv
<1> QED
  BY <1>1, <1>2, WalksInit, PlacesInit, PTL DEF Spec

-----------------------------------------------------------------------------
(* A decision by hand stands.                                              *)

LEMMA KeyIsTexts == ASSUME NEW a, NEW b PROVE Key(a, b) = TextsOf({a, b}, text)
BY DEF Key, TextsOf

\* The worker turns to something else and lets the cache be
LEMMA WorkerHeeds ==
  ASSUME DecisionsInv, Typed, NEW w \in Workers, NEW r, Set(w, r), UNCHANGED <<text, cache, human>>,
         settled' \subseteq settled, \A p \in settled' : Heeds(r, p), Asks(r)
  PROVE  DecisionsInv'
<1>1. \A v \in Workers : worker'[v] = IF v = w THEN r ELSE worker[v]
  BY DEF Set, Typed
<1> QED
  BY <1>1 DEF DecisionsInv

LEMMA DecisionsInit == Init => DecisionsInv
<1> SUFFICES ASSUME Init PROVE DecisionsInv
  OBVIOUS
<1>1. /\ text = [g \in Granules |-> 0] /\ settled = {} /\ worker = [w \in Workers |-> Blank]
      /\ human = Silent
  BY DEF Init
<1> QED
  BY <1>1, BlankHand, SilentHand DEF DecisionsInv, Asks, Decides

\* What the worker of the queue does
LEMMA WorkHeeds ==
  ASSUME DecisionsInv, Typed, NEW w \in Workers, WorkStep(w) \/ WorkLost(w)
  PROVE  DecisionsInv'
<1> DEFINE r0 == worker[w]
<1>1. IsHand(r0) /\ Asks(r0) /\ \A p \in settled : Heeds(r0, p)
  BY DEF Typed, DecisionsInv
<1>2. ASSUME NEW r, r.pc \notin {"ask", "apply"}, Set(w, r), UNCHANGED <<text, cache, human, settled>>
      PROVE  DecisionsInv'
  BY <1>2, WorkerHeeds DEF Heeds, Asks
<1>3. Next0(w).pc = "pop" /\ Blank.pc = "idle"
  BY DEF Next0, Blank
<1>4. CASE WorkStart(w) \/ WorkPop(w) \/ WorkTransport(w) \/ WorkReturn(w) \/ WorkLost(w)
  <2>1. UNCHANGED <<text, cache, human, settled>>
    BY <1>4 DEF WorkStart, WorkPop, WorkTransport, WorkReturn, WorkLost, pg, redis, history
  <2>2. CASE WorkStart(w)
    <3>1. [Blank EXCEPT !.pc = "pop", !.left = Batch].pc = "pop"
      BY DEF Blank
    <3> QED
      BY <1>2, <2>1, <2>2, <3>1 DEF WorkStart
  <2>3. CASE WorkPop(w)
    <3>1. /\ [worker[w] EXCEPT !.pc = "read", !.left = @ - 1, !.item = Attempt(Last(queue))].pc = "read"
          /\ [worker[w] EXCEPT !.pc = "return"].pc = "return"
      BY <1>1 DEF IsHand
    <3> QED
      BY <1>2, <2>1, <2>3, <3>1 DEF WorkPop
  <2>4. CASE WorkTransport(w)
    <3>1. [Next0(w) EXCEPT !.back = Append(worker[w].back, r0.item)].pc = "pop"
      BY <1>3 DEF Next0, Blank
    <3> QED
      BY <1>2, <1>3, <2>1, <2>4, <3>1 DEF WorkTransport
  <2>5. CASE WorkReturn(w)
    <3>1. [worker[w] EXCEPT !.back = Tail(@)].pc = r0.pc /\ r0.pc = "return"
      BY <1>1, <2>5 DEF IsHand, WorkReturn, On
    <3> QED
      BY <1>2, <1>3, <2>1, <2>5, <3>1 DEF WorkReturn
  <2>6. CASE WorkLost(w)
    BY <1>2, <1>3, <2>1, <2>6 DEF WorkLost
  <2> QED
    BY <1>4, <2>2, <2>3, <2>4, <2>5, <2>6
<1>5. CASE WorkRead(w)
  <2> DEFINE g == r0.item.g
             cands == r0.item.cands \cap live
             at == [c \in cands |-> Key(g, c)]
             Known(keys) == [c \in {x \in cands : at[x] \in keys} |-> cache[at[c]]]
             r(keys) == [worker[w] EXCEPT !.pc = IF cands \subseteq DOMAIN Known(keys) THEN "apply" ELSE "ask",
                                          !.at = at, !.cands = cands, !.known = Known(keys),
                                          !.ask = cands \ DOMAIN Known(keys)]
  <2>1. UNCHANGED <<text, cache, human>>
    BY <1>5 DEF WorkRead, pg, redis
  <2>2. \/ Set(w, Next0(w)) /\ UNCHANGED settled
        \/ Set(w, r(DOMAIN cache)) /\ UNCHANGED settled
        \/ Set(w, r({})) /\ settled' = settled \ {{g, c} : c \in cands}
    BY <1>5 DEF WorkRead
  <2>3. CASE Set(w, Next0(w)) /\ UNCHANGED settled
    BY <1>2, <1>3, <2>1, <2>3
  <2>4. ASSUME NEW keys
        PROVE  /\ r(keys).cands = cands /\ r(keys).item = r0.item /\ r(keys).known = Known(keys)
               /\ r(keys).ask = cands \ DOMAIN Known(keys) /\ r(keys).at = at
               /\ r(keys).pc = "apply" => cands \subseteq DOMAIN Known(keys)
    BY <1>1 DEF IsHand
  <2>5. \A c \in cands : at[c] = TextsOf({g, c}, text)
    BY KeyIsTexts
  <2>6. ASSUME NEW keys PROVE Asks(r(keys))
    <3>1. \A c \in cands : DOMAIN at[c] = {g, c}
      BY <2>5 DEF TextsOf
    <3> HIDE DEF at, cands, Known, r
    <3> QED
      BY <2>4, <3>1 DEF Asks
  <2>7. CASE Set(w, r(DOMAIN cache)) /\ UNCHANGED settled
    <3>1. ASSUME NEW p \in settled, NEW c \in cands, {g, c} = p
          PROVE  c \in DOMAIN Known(DOMAIN cache) /\ Known(DOMAIN cache)[c].by # "model"
      <4>1. at[c] = TextsOf(p, text) /\ Stands(p, text, cache)
        BY <2>5, <3>1 DEF DecisionsInv
      <4> HIDE DEF at, cands
      <4> QED
        BY <3>1, <4>1 DEF Stands
    <3> HIDE DEF at, cands, Known, r
    <3>2. \A p \in settled : Heeds(r(DOMAIN cache), p)
      BY <2>4, <3>1 DEF Heeds
    <3> QED
      BY <2>1, <2>6, <2>7, <3>2, WorkerHeeds
  <2>8. CASE Set(w, r({})) /\ settled' = settled \ {{g, c} : c \in cands}
    <3> HIDE DEF at, cands, Known, r
    <3>1. \A p \in settled' : Heeds(r({}), p)
      BY <2>4, <2>8 DEF Heeds
    <3> QED
      BY <2>1, <2>6, <2>8, <3>1, WorkerHeeds
  <2> HIDE DEF at, cands, Known, r
  <2> QED
    BY <2>2, <2>3, <2>7, <2>8
\* the answer is about what was asked
<1>6. ASSUME NEW said, DOMAIN said = r0.ask, Heard(w, said), UNCHANGED <<text, human, settled>>, r0.pc = "ask",
             \A p \in settled : Stands(p, text, cache')
      PROVE  DecisionsInv'
  <2> DEFINE r == [worker[w] EXCEPT !.pc = "apply", !.ask = {}, !.known = Told(w, said)]
  <2>1. /\ r.cands = r0.cands /\ r.item = r0.item /\ r.ask = {} /\ r.known = Told(w, said)
    BY <1>1 DEF IsHand
  <2>2. Set(w, r)
    BY <1>6 DEF Heard
  <2>3. ASSUME NEW p \in settled PROVE Heeds(r, p)
    <3>1. ASSUME NEW c \in r0.cands, {r0.item.g, c} = p
          PROVE  c \in DOMAIN Told(w, said) /\ Told(w, said)[c].by # "model"
      <4>1. c \notin r0.ask /\ c \in DOMAIN r0.known /\ r0.known[c].by # "model"
        BY <1>1, <1>6, <3>1 DEF Heeds
      <4> QED
        BY <3>1, <4>1 DEF Told
    <3> HIDE DEF r, r0
    <3> QED
      BY <2>1, <3>1 DEF Heeds
  <2>4. Asks(r)
    BY <2>1 DEF Asks
  <2> HIDE DEF r
  <2>5. \A v \in Workers : worker'[v] = IF v = w THEN r ELSE worker[v]
    BY <2>2 DEF Set, Typed
  <2> QED
    BY <1>6, <2>3, <2>4, <2>5 DEF DecisionsInv
<1>7. CASE WorkGarbage(w)
  <2>1. UNCHANGED <<text, cache, human, settled>> /\ r0.pc = "ask"
    BY <1>7 DEF WorkGarbage, On, pg, history
  <2>2. Heard(w, [c \in r0.ask |-> Verdict("none", "none", "garbage")])
    BY <1>7 DEF WorkGarbage
  <2>3. DOMAIN [c \in r0.ask |-> Verdict("none", "none", "garbage")] = r0.ask
    OBVIOUS
  <2>4. \A p \in settled : Stands(p, text, cache')
    BY <2>1 DEF DecisionsInv
  <2> QED
    BY <1>6, <2>1, <2>2, <2>3, <2>4
<1>8. CASE WorkAnswer(w)
  <2>1. UNCHANGED <<text, human, settled>> /\ r0.pc = "ask"
    BY <1>8 DEF WorkAnswer, On, pg, history
  <2>2. PICK said : /\ DOMAIN said = r0.ask /\ Heard(w, said)
                    /\ \E kept \in SUBSET r0.ask : cache' = Cached(w, said, kept)
    BY <1>8 DEF WorkAnswer
  <2>3. PICK kept \in SUBSET r0.ask : cache' = Cached(w, said, kept)
    BY <2>2
  <2>4. ASSUME NEW p \in settled PROVE Stands(p, text, cache')
    <3> DEFINE k == TextsOf(p, text)
               keys == {r0.at[c] : c \in kept}
    <3>1. k \in DOMAIN cache /\ cache[k].by # "model" /\ DOMAIN k = p
      BY DEF DecisionsInv, Stands, TextsOf
    <3>2. k \notin keys
      <4> SUFFICES ASSUME NEW c \in kept, k = r0.at[c] PROVE FALSE
        OBVIOUS
      <4>1. c \in r0.ask /\ c \in r0.cands /\ DOMAIN r0.at[c] = {r0.item.g, c}
        BY <1>1, <2>1 DEF Asks
      <4> HIDE DEF k, r0
      <4> QED
        BY <1>1, <2>1, <3>1, <4>1 DEF Heeds
    <3>3. k \in DOMAIN cache' /\ cache'[k] = cache[k]
      <4> HIDE DEF k
      <4> QED
        BY <2>3, <3>1, <3>2 DEF Cached
    <3> QED
      BY <3>1, <3>3 DEF Stands
  <2> QED
    BY <1>6, <2>1, <2>2, <2>4
<1>9. CASE WorkApply(w)
  <2>1. UNCHANGED <<text, cache, human, settled>> /\ r0.pc = "apply"
    BY <1>9 DEF WorkApply, On, redis
  <2>2. \E c \in r0.cands :
           \/ Set(w, Next0(w))
           \/ Set(w, [worker[w] EXCEPT !.cands = r0.cands \ {c}])
    BY <1>9 DEF WorkApply
  <2>3. CASE Set(w, Next0(w))
    BY <1>2, <1>3, <2>1, <2>3
  <2>4. ASSUME NEW c \in r0.cands, Set(w, [worker[w] EXCEPT !.cands = r0.cands \ {c}])
        PROVE  DecisionsInv'
    <3> DEFINE r == [worker[w] EXCEPT !.cands = r0.cands \ {c}]
    <3>1. /\ r.cands = r0.cands \ {c} /\ r.item = r0.item /\ r.ask = r0.ask /\ r.known = r0.known
          /\ r.pc = r0.pc /\ r.at = r0.at
      BY <1>1 DEF IsHand
    <3>2. Set(w, r)
      BY <2>4
    <3> HIDE DEF r, r0
    <3>3. Asks(r)
      BY <1>1, <2>1, <3>1 DEF Asks
    <3>4. \A p \in settled : Heeds(r, p)
      BY <1>1, <2>1, <3>1 DEF Heeds
    <3> QED
      BY <2>1, <3>2, <3>3, <3>4, WorkerHeeds
  <2> QED
    BY <2>2, <2>3, <2>4
<1> QED
  BY <1>4, <1>5, <1>7, <1>8, <1>9 DEF WorkStep

\* What the person does
LEMMA PersonHeeds ==
  ASSUME DecisionsInv, Typed,
         PersonStep \/ SayLost \/ \E a, b \in Granules : Say(a, b)
  PROVE  DecisionsInv'
<1> DEFINE h == human
<1>1. IsPerson(h) /\ Decides(h)
  BY DEF Typed, DecisionsInv
<1>2. ASSUME NEW r, Person(r), Decides(r), UNCHANGED <<text, cache, worker, settled>>
      PROVE  DecisionsInv'
  BY <1>2 DEF DecisionsInv, Person
<1>3. Decides(Silent)
  BY SilentHand DEF Decides
<1>4. ASSUME NEW r, Person(r), UNCHANGED <<text, cache, worker, settled>>, h.pc # "idle",
             r.v = h.v, r.key = h.key, r.s = h.s, r.c = h.c
      PROVE  DecisionsInv'
  BY <1>1, <1>2, <1>4 DEF Decides
\* a decision that is begun
<1>5. ASSUME NEW a \in Granules, NEW b \in Granules, a # b, NEW v, v.by = "human",
             UNCHANGED <<text, cache, worker, settled>>,
             Person([Silent EXCEPT !.pc = "edge", !.s = a, !.c = b, !.v = v, !.key = Key(a, b)])
      PROVE  DecisionsInv'
  <2> DEFINE r == [Silent EXCEPT !.pc = "edge", !.s = a, !.c = b, !.v = v, !.key = Key(a, b)]
  <2>1. r.s = a /\ r.c = b /\ r.v = v /\ r.key = Key(a, b)
    BY DEF Silent
  <2>2. DOMAIN Key(a, b) = {a, b}
    BY DEF Key
  <2>3. {a, b} \in Pairs
    <3>1. {a, b} \in {{x, y} : x, y \in Granules}
      OBVIOUS
    <3>2. {a, b} \notin {{x} : x \in Granules}
      BY <1>5
    <3> QED
      BY <3>1, <3>2 DEF Pairs
  <2> HIDE DEF r
  <2>4. Decides(r)
    BY <1>5, <2>1, <2>2, <2>3 DEF Decides
  <2> QED
    BY <1>2, <1>5, <2>4 DEF r
<1>6. ASSUME NEW a \in Granules, NEW b \in Granules, Say(a, b) PROVE DecisionsInv'
  <2>1. UNCHANGED <<text, cache, worker, settled>> /\ a # b
    BY <1>6 DEF Say, pg, redis, history
  <2>2. PICK v \in Said("human") : Person([Silent EXCEPT !.pc = "edge", !.s = a, !.c = b, !.v = v, !.key = Key(a, b)])
    BY <1>6 DEF Say
  <2>3. v.by = "human"
    BY DEF Said, Verdict
  <2> QED
    BY <1>5, <2>1, <2>2, <2>3
<1>7. CASE SayEdge
  <2> DEFINE r == [human EXCEPT !.pc = "cache"]
  <2>1. UNCHANGED <<text, cache, worker, settled>> /\ h.pc = "edge" /\ Person(r)
    BY <1>7 DEF SayEdge, Is, redis
  <2>2. r.v = h.v /\ r.key = h.key /\ r.s = h.s /\ r.c = h.c
    BY <1>1 DEF IsPerson
  <2> QED
    BY <1>4, <2>1, <2>2
<1>8. CASE SayCache
  <2> DEFINE r == [human EXCEPT !.pc = "list"]
             pair == {human.s, human.c}
  <2>1. UNCHANGED <<text, worker>> /\ h.pc = "cache" /\ Person(r)
    BY <1>8 DEF SayCache, Is, pg
  <2>2. r.v = h.v /\ r.key = h.key /\ r.s = h.s /\ r.c = h.c
    BY <1>1 DEF IsPerson
  <2>3. CASE UNCHANGED <<cache, settled>>
    BY <1>4, <2>1, <2>2, <2>3
  <2>4. CASE /\ cache' = [k \in DOMAIN cache \cup {human.key} |-> IF k = human.key THEN human.v ELSE cache[k]]
             /\ settled' = IF Deciding(pair) \/ human.key # Key(human.s, human.c)
                           THEN settled ELSE settled \cup {pair}
    <3>1. h.v.by = "human" /\ pair \in Pairs
      BY <1>1, <2>1 DEF Decides
    <3>2. ASSUME NEW p, p \in settled \/ TextsOf(p, text) = human.key PROVE Stands(p, text, cache')
      <4>1. \/ TextsOf(p, text) \in DOMAIN cache /\ cache[TextsOf(p, text)].by # "model"
            \/ TextsOf(p, text) = human.key
        BY <3>2 DEF DecisionsInv, Stands
      <4> HIDE DEF pair
      <4> QED
        BY <2>4, <3>1, <4>1 DEF Stands
    <3>3. ASSUME pair \in settled', pair \notin settled
          PROVE  TextsOf(pair, text) = human.key /\ \A w \in Workers : Heeds(worker[w], pair)
      <4>1. ~Deciding(pair) /\ human.key = Key(human.s, human.c)
        BY <2>4, <3>3
      <4>2. TextsOf(pair, text) = human.key
        BY <4>1, KeyIsTexts
      <4> HIDE DEF pair
      <4> QED
        BY <4>1, <4>2 DEF Deciding, Heeds
    <3>4. settled' \subseteq settled \cup {pair}
      BY <2>4
    <3>5. Decides(human')
      BY <1>1, <2>1, <2>2 DEF Decides, Person
    <3> HIDE DEF pair
    <3>6. ASSUME NEW p \in settled'
          PROVE  Stands(p, text, cache') /\ \A w \in Workers : Heeds(worker[w], p)
      BY <3>2, <3>3, <3>4 DEF DecisionsInv
    <3> QED
      BY <2>1, <3>1, <3>4, <3>5, <3>6 DEF DecisionsInv
  <2> QED
    BY <1>8, <2>3, <2>4 DEF SayCache
<1>9. CASE SayList
  <2> DEFINE r == [human EXCEPT !.pc = "take", !.todo = Onward(queue)]
  <2>1. UNCHANGED <<text, cache, worker, settled>> /\ h.pc = "list" /\ (Person(Silent) \/ Person(r))
    BY <1>9 DEF SayList, Is, pg, redis, history
  <2>2. r.v = h.v /\ r.key = h.key /\ r.s = h.s /\ r.c = h.c
    BY <1>1 DEF IsPerson
  <2> HIDE DEF r
  <2> QED
    BY <1>2, <1>3, <1>4, <2>1, <2>2
<1>10. CASE SayTake
  <2> DEFINE kept == Siblings(Head(human.todo))
             pass == [human EXCEPT !.todo = Onward(Tail(@))]
             put == [pass EXCEPT !.item = kept, !.pc = "put"]
  <2>1. UNCHANGED <<text, cache, worker, settled>> /\ h.pc = "take"
        /\ (Person(Silent) \/ Person(pass) \/ Person(put))
    BY <1>10 DEF SayTake, Is, pg, history
  <2>2. pass.v = h.v /\ pass.key = h.key /\ pass.s = h.s /\ pass.c = h.c
    BY <1>1 DEF IsPerson
  <2>3. put.v = h.v /\ put.key = h.key /\ put.s = h.s /\ put.c = h.c
    BY <1>1 DEF IsPerson
  <2> HIDE DEF pass, put
  <2> QED
    BY <1>2, <1>3, <1>4, <2>1, <2>2, <2>3
<1>11. CASE SayPut
  <2> DEFINE r == [human EXCEPT !.pc = "take", !.item = NoItem]
  <2>1. UNCHANGED <<text, cache, worker, settled>> /\ h.pc = "put" /\ Person(r)
    BY <1>11 DEF SayPut, Is, pg
  <2>2. r.v = h.v /\ r.key = h.key /\ r.s = h.s /\ r.c = h.c
    BY <1>1 DEF IsPerson
  <2> QED
    BY <1>4, <2>1, <2>2
<1>12. CASE SayLost
  <2>1. UNCHANGED <<text, cache, worker, settled>> /\ h.pc # "idle"
    BY <1>12 DEF SayLost, pg, redis
  <2>2. CASE Person(Silent)
    BY <1>2, <1>3, <2>1, <2>2
  <2>3. CASE Person([Silent EXCEPT !.pc = "edge", !.s = human.s, !.c = human.c, !.v = human.v,
                                   !.key = Key(human.s, human.c)])
    <3>1. {h.s, h.c} \in Pairs /\ h.v.by = "human"
      BY <1>1, <2>1 DEF Decides
    <3>2. h.s \in Granules /\ h.c \in Granules /\ h.s # h.c
      <4>1. \A x, y : {x, y} \in Pairs => x \in Granules /\ y \in Granules /\ x # y
        <5> SUFFICES ASSUME NEW x, NEW y, {x, y} \in Pairs PROVE x \in Granules /\ y \in Granules /\ x # y
          OBVIOUS
        <5>1. PICK a, b \in Granules : {x, y} = {a, b}
          BY DEF Pairs
        <5>2. x \in Granules /\ y \in Granules
          BY <5>1
        <5>3. {x, y} \notin {{z} : z \in Granules}
          BY DEF Pairs
        <5> QED
          BY <5>2, <5>3
      <4> QED
        BY <3>1, <4>1
    <3> HIDE DEF h
    <3> QED
      BY <1>5, <2>1, <2>3, <3>1, <3>2 DEF h
  <2> QED
    BY <1>12, <2>2, <2>3 DEF SayLost
<1> QED
  BY <1>6, <1>7, <1>8, <1>9, <1>10, <1>11, <1>12 DEF PersonStep

LEMMA DecisionsNext == DecisionsInv /\ Typed /\ [Next]_vars => DecisionsInv'
<1> SUFFICES ASSUME DecisionsInv, Typed, [Next]_vars PROVE DecisionsInv'
  OBVIOUS
<1>1. ASSUME UNCHANGED <<text, cache, worker, human, settled>> PROVE DecisionsInv'
  BY <1>1 DEF DecisionsInv
<1>2. ASSUME NEW g \in Granules, Edit(g) PROVE DecisionsInv'
  <2>1. /\ text' = [text EXCEPT ![g] = @ + 1] /\ settled' = {p \in settled : g \notin p}
        /\ UNCHANGED <<cache, worker, human>>
    BY <1>2 DEF Edit, redis, tasks
  <2>2. ASSUME NEW p \in settled' PROVE TextsOf(p, text') = TextsOf(p, text)
    <3>1. p \subseteq Granules /\ g \notin p
      BY <2>1, <2>2 DEF DecisionsInv, Pairs
    <3>2. \A x \in p : text'[x] = text[x]
      BY <2>1, <3>1 DEF DecisionsInv
    <3> QED
      BY <3>2 DEF TextsOf
  <2>3. DOMAIN text' = Granules /\ settled' \subseteq settled
    BY <2>1 DEF DecisionsInv
  <2>4. ASSUME NEW p \in settled' PROVE Stands(p, text', cache')
    BY <2>1, <2>2, <2>3, <2>4 DEF DecisionsInv, Stands
  <2> QED
    BY <2>1, <2>3, <2>4 DEF DecisionsInv
<1>3. ASSUME NEW k \in DOMAIN cache, Expire(k) PROVE DecisionsInv'
  <2>1. /\ cache' = [x \in DOMAIN cache \ {k} |-> cache[x]]
        /\ settled' = {p \in settled : \A a, b \in p : a # b => Key(a, b) # k}
        /\ UNCHANGED <<text, worker, human>>
    BY <1>3 DEF Expire, pg, tasks
  <2>2. ASSUME NEW p \in settled' PROVE Stands(p, text, cache')
    <3>1. p \in settled /\ Stands(p, text, cache) /\ p \in Pairs
      BY <2>1, <2>2 DEF DecisionsInv
    <3>2. PICK a, b \in Granules : p = {a, b}
      BY <3>1 DEF Pairs
    <3>3. a # b
      BY <3>1, <3>2 DEF Pairs
    <3>4. TextsOf(p, text) # k
      BY <2>1, <2>2, <3>2, <3>3, KeyIsTexts
    <3> QED
      BY <2>1, <3>1, <3>4 DEF Stands
  <2> QED
    BY <2>1, <2>2 DEF DecisionsInv
<1>4. ASSUME NEW g \in Granules, Close(g) \/ Index(g) PROVE DecisionsInv'
  BY <1>1, <1>4 DEF Close, Index, redis, tasks, history
<1>5. CASE Campaign
  BY <1>1, <1>5 DEF Campaign, pg, redis, history
<1>6. ASSUME NEW q \in DOMAIN walk, MeetStep(q) \/ WalkLost(q) PROVE DecisionsInv'
  BY <1>1, <1>6 DEF MeetStep, Meet, MeetInsert, MeetMark, WalkLost, pg, redis, history
<1>7. CASE LinkStep
  BY <1>1, <1>7 DEF LinkStep, LinkBegin, LinkNear, LinkPush, redis, history
<1>8. ASSUME NEW w \in Workers, WorkStep(w) \/ WorkLost(w) PROVE DecisionsInv'
  BY <1>8, WorkHeeds
<1>9. CASE PersonStep \/ SayLost \/ \E a, b \in Granules : Say(a, b)
  BY <1>9, PersonHeeds
<1>10. CASE Peek
  BY <1>1, <1>10 DEF Peek, PeekRead, PeekCheck, pg, redis, history
<1>11. CASE UNCHANGED vars
  BY <1>1, <1>11 DEF vars, pg, redis, tasks, history
<1> QED
  BY <1>2, <1>3, <1>4, <1>5, <1>6, <1>7, <1>8, <1>9, <1>10, <1>11 DEF Next, Aside

LEMMA VerdictEdges ==
  ASSUME NEW a, NEW b, NEW v, NEW e \in Verdicted(a, b, v)
  PROVE  e.src = a /\ e.dst = b /\ e.by = v.by
BY DEF Verdicted, Edge

\* Only a worker that applies a verdict of the model writes an edge of the model
LEMMA ModelEdges ==
  ASSUME DecisionsInv, Typed, [Next]_vars, NEW e \in edges' \ edges, e.by = "model"
  PROVE  {e.src, e.dst} \notin settled
<1>1. ASSUME UNCHANGED edges PROVE FALSE
  BY <1>1
<1>2. \A E : Insert(E) => e \in E
  BY DEF Insert
<1>3. ASSUME NEW q \in DOMAIN walk, MeetInsert(q) PROVE FALSE
  <2>1. \E N : Insert({Edge(walk[q].g, h, "related_to", "l1c") : h \in N})
    BY <1>3 DEF MeetInsert
  <2>2. e.by = "l1c"
    BY <1>2, <2>1 DEF Edge
  <2> QED
    BY <2>2
<1>4. ASSUME LinkNear, ~UNCHANGED edges PROVE FALSE
  <2>1. \E N : Insert({Edge(walk["link"].g, h, "related_to", "l1a") : h \in N})
    BY <1>4 DEF LinkNear
  <2>2. e.by = "l1a"
    BY <1>2, <2>1 DEF Edge
  <2> QED
    BY <2>2
<1>5. ASSUME SayEdge PROVE FALSE
  <2>1. e \in Verdicted(human.s, human.c, human.v) /\ human.pc = "edge"
    BY <1>2, <1>5 DEF SayEdge, Is
  <2>2. e.by = "human"
    BY <2>1, VerdictEdges DEF DecisionsInv, Decides
  <2> QED
    BY <2>2
<1>6. ASSUME NEW w \in Workers, WorkApply(w) PROVE {e.src, e.dst} \notin settled
  <2>1. PICK c \in worker[w].cands : e \in Verdicted(worker[w].item.g, c, worker[w].known[c])
    BY <1>2, <1>6 DEF WorkApply
  <2>2. e.src = worker[w].item.g /\ e.dst = c /\ worker[w].known[c].by = "model"
    BY <2>1, VerdictEdges
  <2>3. worker[w].pc = "apply"
    BY <1>6 DEF WorkApply, On
  <2> QED
    BY <2>2, <2>3 DEF DecisionsInv, Heeds
<1>7. CASE Aside \/ Campaign \/ Peek
  BY <1>1, <1>7 DEF Aside, Close, Edit, Index, Expire, Campaign, Peek, PeekRead, PeekCheck, pg
<1>8. ASSUME NEW q \in DOMAIN walk, Meet(q) \/ MeetMark(q) \/ WalkLost(q) PROVE FALSE
  BY <1>1, <1>8 DEF Meet, MeetMark, WalkLost, pg
<1>9. ASSUME (\E g \in Granules : LinkBegin(g)) \/ LinkPush PROVE FALSE
  BY <1>1, <1>9 DEF LinkBegin, LinkPush
<1>10. ASSUME NEW w \in Workers, WorkStep(w) \/ WorkLost(w), ~WorkApply(w) PROVE FALSE
  BY <1>1, <1>10 DEF WorkStep, WorkStart, WorkPop, WorkRead, WorkAnswer, WorkGarbage, WorkTransport,
                     WorkReturn, WorkLost, pg
<1>11. ASSUME SayCache \/ SayList \/ SayTake \/ SayPut \/ SayLost \/ \E a, b \in Granules : Say(a, b)
       PROVE  FALSE
  BY <1>1, <1>11 DEF SayCache, SayList, SayTake, SayPut, SayLost, Say, pg
<1>12. CASE UNCHANGED vars
  BY <1>1, <1>12 DEF vars, pg
<1> QED
  BY <1>1, <1>3, <1>4, <1>5, <1>6, <1>7, <1>8, <1>9, <1>10, <1>11, <1>12
  DEF Next, LinkStep, MeetStep, PersonStep

\* While a decision of a person is cached and readable under the texts there are,
\* no edge of the model comes between the two granules (apply_manual_verdict:
\* a later worker does not overrule a person), whoever else runs or fails.
THEOREM DecisionStands == Spec => SettledByHand
<1>1. PlacesInv => Typed
  BY DEF PlacesInv
<1>2. Walks /\ PlacesInv /\ DecisionsInv /\ [Next]_vars => Walks' /\ PlacesInv' /\ DecisionsInv'
  BY <1>1, WalksNext, PlacesNext, DecisionsNext
<1>3. PlacesInv /\ DecisionsInv /\ [Next]_vars
        => [\A e \in edges' \ edges : e.by = "model" => {e.src, e.dst} \notin settled]_vars
  BY <1>1, ModelEdges
<1>4. Init => Walks /\ PlacesInv /\ DecisionsInv
  BY WalksInit, PlacesInit, DecisionsInit
<1> QED
  BY <1>2, <1>3, <1>4, PTL DEF Spec, SettledByHand
=============================================================================
