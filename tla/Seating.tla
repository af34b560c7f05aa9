------------------------------- MODULE Seating -------------------------------
(***************************************************************************)
(* Where galactic_layout seats the granules of the map.                    *)
(*                                                                         *)
(* A run reads granules, edges and rows in three statements, computes, and *)
(* writes one transaction; it takes no lock, so runs may overlap.  A seat  *)
(* is known by what its coordinates are drawn around: the place of a group *)
(* in one run, the seats of members or neighbours, the granule's own draw  *)
(* in the halo.  Which arm or bulge place a group gets, and how the        *)
(* members push each other, is left out.                                   *)
(*                                                                         *)
(* A group is a cluster, or an association: free granules an edge path     *)
(* joins.  Clusters are numbers below those of associations, which is the  *)
(* order of their indices.                                                 *)
(***************************************************************************)
EXTENDS Integers, Sequences, FiniteSetsExt

CONSTANTS Grains,     \* granules, numbers
          Keys,       \* clusters, numbers
          Seaters,    \* galactic_layout tasks
          TopSeated,  \* of how many neighbours the barycentre is taken
          Skies       \* what there is at the start, and what may happen

VARIABLES sky, hope,  \* the element of Skies, and what is left of its counts
          status,     \* PostgreSQL: whether a granule is live, closed, deleted or not there yet
          kin,        \* PostgreSQL: memories.cluster_id, 0 for NULL
          ties,       \* PostgreSQL: relations between granules
          seat,       \* PostgreSQL: map_layout
          crew,       \* the tasks
          begun,      \* history: runs so far
          mixed       \* history: clusters one of whose members came with its seat

heavens == <<status, kin, ties>>
seatingVars == <<sky, hope, heavens, seat, crew, begun, mixed>>

Standings == {"live", "closed", "gone", "unborn"}
Ways == {"group", "satellite", "halo", "hand", "drl"}
Hopes == [run : Nat, force : Nat, status : Nat, kin : Nat, tie : Nat, hand : Nat, drl : Nat, kill : Nat]

Sky == [status : [Grains -> Standings], kin : [Grains -> Keys \cup {0}],
        ties : Seq([from : Grains, to : Grains, weight : Nat]), there : SUBSET Nat, laid : SUBSET Grains,
        most : [nodes : Nat, edges : Nat, clusters : Nat], restless : SUBSET Grains, may : Hopes]

ASSUME SeatingAssumption ==
  /\ Grains \subseteq Nat \ {0} /\ Keys \subseteq Nat \ {0}
  /\ IsFiniteSet(Grains) /\ IsFiniteSet(Keys) /\ Keys # {} /\ TopSeated \in Nat \ {0}
  /\ Skies \subseteq Sky /\ \A k \in Skies : k.there \subseteq DOMAIN k.ties

\* at: what the coordinates are drawn around; birth: the run that inserted the row
NoSeat == [way |-> "none", at |-> {}, birth |-> 0, manual |-> FALSE]
Spot(kind, n, run) == <<kind, n, run>>
Seat(way, at, run) == [way |-> way, at |-> at, birth |-> run, manual |-> FALSE]
Spots == {"centre", "beside", "slot", "halo", "hand", "drl"} \X Nat \X Nat
SeatRows == [way : Ways \cup {"none"}, at : SUBSET Spots, birth : Nat, manual : BOOLEAN]

Resting0 == [pc |-> "idle", force |-> FALSE, id |-> 0, grains |-> {}, kin |-> [n \in Grains |-> 0], ties |-> {},
             seats |-> [n \in Grains |-> NoSeat], group |-> [n \in Grains |-> 0], doomed |-> {},
             still |-> {}, loose |-> {}, seated |-> {}, moved |-> {}, late |-> FALSE]

SeatPoints == {"idle", "scale", "nodes", "edges", "rows", "delete", "insert"}
Sittings == [pc : SeatPoints, force : BOOLEAN, id : Nat, grains : SUBSET Grains, kin : [Grains -> Keys \cup {0}],
             ties : SUBSET Nat, seats : [Grains -> SeatRows], group : [Grains -> Nat], doomed : SUBSET Grains,
             still : SUBSET Nat, loose : SUBSET Grains, seated : SUBSET Grains, moved : SUBSET Keys, late : BOOLEAN]

\* laid: the granules an earlier run has seated
Laid == [n \in Grains |-> IF n \notin sky.laid THEN NoSeat
                          ELSE IF kin[n] # 0 THEN Seat("group", {Spot("centre", kin[n], 0)}, 0)
                          ELSE Seat("halo", {Spot("halo", n, 0)}, 0)]
SeatingInit ==
  /\ sky \in Skies /\ hope = sky.may
  /\ status = sky.status /\ kin = sky.kin /\ ties = sky.there
  /\ seat = Laid
  /\ crew = [p \in Seaters |-> Resting0] /\ begun = 0 /\ mixed = {}

SeatingTypeOK ==
  /\ sky \in Sky /\ hope \in Hopes /\ begun \in Nat /\ mixed \subseteq Keys
  /\ status \in [Grains -> Standings] /\ kin \in [Grains -> Keys \cup {0}] /\ ties \subseteq DOMAIN sky.ties
  /\ seat \in [Grains -> SeatRows] /\ crew \in [Seaters -> Sittings]

Hopeful(what) == hope[what] > 0 /\ hope' = [hope EXCEPT ![what] = @ - 1]
Awake == {n \in Grains : status[n] = "live"}
Ends(e) == {sky.ties[e].from, sky.ties[e].to}

\* The history of every run follows the graph: edges, unclustered granules and
\* rows that were there all the time
Kept0(e) == e \in ties' /\ \A n \in Ends(e) : status'[n] = "live"
Watched(c) == [c EXCEPT !.still = {e \in @ : Kept0(e)},
                        !.loose = {n \in @ : status'[n] = "live" /\ kin'[n] = 0},
                        !.seated = {n \in @ : status'[n] = "live" /\ seat'[n] # NoSeat}]
Crew(c) == crew' = [p \in Seaters |-> Watched(c[p])]
Step0(p, c) == crew' = [crew EXCEPT ![p] = c]
\* A granule becomes one of a cluster, with the seat it has, and leaves another
Joins(n, k) == /\ mixed' = IF seat[n] # NoSeat /\ k # 0 THEN mixed \cup {k} ELSE mixed
               /\ Crew([p \in Seaters |-> [crew[p] EXCEPT !.moved = @ \cup ({k, kin[n]} \ {0})]])

-----------------------------------------------------------------------------
(* Granules, labels and edges change; a person moves a granule; a run of   *)
(* layout_map lays everything out anew, whatever the source of a row.      *)

Rises(n) == /\ status[n] \in {"unborn", "closed"} /\ Hopeful("status")
            /\ status' = [status EXCEPT ![n] = "live"]
            /\ UNCHANGED <<sky, kin, ties, seat, begun>> /\ Joins(n, kin[n])
Sets(n) == /\ status[n] = "live" /\ Hopeful("status")
           /\ status' = [status EXCEPT ![n] = "closed"]
           /\ UNCHANGED <<sky, kin, ties, seat, begun, mixed>> /\ Crew(crew)
\* ON DELETE CASCADE takes row and edges along
Vanishes(n) == /\ status[n] = "closed" /\ Hopeful("status")
               /\ status' = [status EXCEPT ![n] = "gone"] /\ seat' = [seat EXCEPT ![n] = NoSeat]
               /\ ties' = {e \in ties : n \notin Ends(e)}
               /\ UNCHANGED <<sky, kin, begun, mixed>> /\ Crew(crew)
Relabels(n, k) == /\ status[n] \in {"live", "closed"} /\ kin[n] # k /\ Hopeful("kin")
                  /\ kin' = [kin EXCEPT ![n] = k]
                  /\ UNCHANGED <<sky, status, ties, seat, begun>> /\ Joins(n, k)
Ties(e) == /\ Hopeful("tie") /\ \A n \in Ends(e) : status[n] \in {"live", "closed"}
           /\ ties' = IF e \in ties THEN ties \ {e} ELSE ties \cup {e}
           /\ UNCHANGED <<sky, status, kin, seat, begun, mixed>> /\ Crew(crew)
\* memory_store with a position
MovesByHand(n) == /\ status[n] = "live" /\ Hopeful("hand")
                  /\ seat' = [seat EXCEPT ![n] = [@ EXCEPT !.way = "hand", !.at = {Spot("hand", n, hope.hand)},
                                                           !.manual = TRUE]]
                  /\ mixed' = mixed \cup ({kin[n]} \ {0})
                  /\ UNCHANGED <<sky, heavens, begun>> /\ Crew(crew)
Relaid == /\ Hopeful("drl") /\ begun' = begun + 1
          /\ seat' = [n \in Grains |-> IF n \notin Awake THEN seat[n]
                                       ELSE [way |-> "drl", at |-> {Spot("drl", n, begun')}, manual |-> seat[n].manual,
                                             birth |-> IF seat[n] = NoSeat THEN begun' ELSE seat[n].birth]]
          /\ mixed' = Keys
          /\ UNCHANGED <<sky, heavens>> /\ Crew([p \in Seaters |-> [crew[p] EXCEPT !.late = TRUE]])

-----------------------------------------------------------------------------
(* What a run computes from what it has read: c is the run.                *)

\* assign_groups: union-find over edges with both ends free; an association is
\* known by its least granule
FreeOf(c) == {n \in c.grains : c.kin[n] = 0}
Beside(c, n) == (UNION {Ends(e) : e \in {x \in c.ties : n \in Ends(x)}}) \ {n}
Enclosed(c, S) == \A m \in S : Beside(c, m) \cap FreeOf(c) \subseteq S
Linked(c, n) == {m \in FreeOf(c) : \A S \in SUBSET FreeOf(c) : n \in S /\ Enclosed(c, S) => m \in S}
GroupOf(c, n) == IF c.kin[n] # 0 THEN c.kin[n]
                 ELSE IF Linked(c, n) = {n} THEN 0 ELSE Max(Keys) + Min(Linked(c, n))
GroupsOf(c) == {c.group[n] : n \in c.grains} \ {0}
GroupMembers(c, g) == {n \in c.grains : c.group[n] = g}

Weigh(E) == MapThenSumSet(LAMBDA e : sky.ties[e].weight, E)

\* _satellite_anchors: edges in both directions; the first group they weigh most for
\* Variant: as they are directed
TowardsOnly(c, n, g) == {e \in c.ties : sky.ties[e].from = n /\ c.group[sky.ties[e].to] = g}
Towards(c, n, g) == {e \in c.ties : n \in Ends(e) /\ \E m \in Ends(e) \ {n} : c.group[m] = g}
AnchorsOf(c, n) == {g \in GroupsOf(c) : Towards(c, n, g) # {}}
Anchor(c, n) == Min({g \in AnchorsOf(c, n) :
                       \A h \in AnchorsOf(c, n) : Weigh(Towards(c, n, g)) >= Weigh(Towards(c, n, h))})

Halo(c, n) == Seat("halo", {Spot("halo", n, 0)}, c.id)
Centre(c, g) == {Spot("centre", g, c.id)}
\* layout_full
FullSeat(c, n) == LET g == c.group[n]
                  IN  IF g # 0 THEN Seat("group", Centre(c, g), c.id)
                      ELSE IF AnchorsOf(c, n) # {} THEN Seat("satellite", Centre(c, Anchor(c, n)), c.id)
                      ELSE Halo(c, n)

\* layout_increment: the centroid of the members that have rows ...
HasSeat(c, n) == c.seats[n] # NoSeat
\* Variant: every group is new
NoMembers(c, g) == {}
SeatedMembers(c, g) == {n \in GroupMembers(c, g) : HasSeat(c, n)}
Centroid(c, g) == UNION {c.seats[n].at : n \in SeatedMembers(c, g)}
\* ... or, for a group without any, one place beside the group it is tied to
\* most of those that have some, or its slot on an arm
Between(c, g, h) == {e \in c.ties : \E m, n \in Ends(e) : c.group[m] = g /\ c.group[n] = h}
Settled(c, g) == {h \in GroupsOf(c) \ {g} : SeatedMembers(c, h) # {} /\ Between(c, g, h) # {}}
NewPlace(c, g) == IF Settled(c, g) # {} THEN {Spot("beside", g, c.id)} ELSE {Spot("slot", g, 0)}
\* The neighbours with rows that weigh most; equal ones in any order
TiesToSeated(c, n) == {e \in c.ties : n \in Ends(e) /\ \E m \in Ends(e) \ {n} : HasSeat(c, m)}
Foremost(E) == {T \in SUBSET E : /\ Cardinality(T) = Min({TopSeated, Cardinality(E)})
                                 /\ \A e \in T, f \in E \ T : sky.ties[e].weight >= sky.ties[f].weight}
Barycentre(c, n, T) == UNION {c.seats[m].at : m \in (UNION {Ends(e) : e \in T}) \ {n}}
IncrementSeats(c, n) ==
  LET g == c.group[n]
  IN  IF g # 0 THEN {Seat("group", IF SeatedMembers(c, g) # {} THEN Centroid(c, g) ELSE NewPlace(c, g), c.id)}
      ELSE IF TiesToSeated(c, n) # {}
      THEN {Seat("satellite", Barycentre(c, n, T), c.id) : T \in Foremost(TiesToSeated(c, n))}
      ELSE {Halo(c, n)}

Todo(c) == IF c.force THEN c.grains ELSE {n \in c.grains : ~HasSeat(c, n)}
Computed(c, n) == IF c.force THEN {FullSeat(c, n)} ELSE IncrementSeats(c, n)
\* Every way to seat the granules of S
Plain(c, S) == {n \in S : \E s \in Computed(c, n) : Computed(c, n) = {s}}
Plans(c, S) ==
  LET torn == S \ Plain(c, S)
  IN  {[n \in S |-> IF n \in torn THEN f[n] ELSE CHOOSE s \in Computed(c, n) : TRUE] :
         f \in {g \in [torn -> UNION {Computed(c, n) : n \in torn}] : \A n \in torn : g[n] \in Computed(c, n)}}

-----------------------------------------------------------------------------
(* A run.                                                                  *)

Seating(p, pc) == crew[p].pc = pc

\* Tasks are alike: one that is idle stands for all that are
StartSeating(p, force) ==
  /\ Seating(p, "idle") /\ p = (CHOOSE q \in Seaters : Seating(q, "idle"))
  /\ Hopeful(IF force THEN "force" ELSE "run")
  /\ begun' = begun + 1
  /\ Step0(p, [Resting0 EXCEPT !.pc = "scale", !.force = force, !.id = begun + 1])
  /\ UNCHANGED <<sky, heavens, seat, mixed>>

\* galactic_max_nodes, galactic_max_edges, galactic_max_clusters
TooLarge == \/ Cardinality(Awake) > sky.most.nodes
            \/ Cardinality(ties) > sky.most.edges
            \/ Cardinality({kin[n] : n \in Grains} \ {0}) > sky.most.clusters
Scale(p) == /\ Seating(p, "scale")
            /\ Step0(p, IF TooLarge THEN Resting0 ELSE [crew[p] EXCEPT !.pc = "nodes"])
            /\ UNCHANGED <<sky, hope, heavens, seat, begun, mixed>>

ReadNodes(p) == /\ Seating(p, "nodes")
                /\ Step0(p, [crew[p] EXCEPT !.pc = "edges", !.grains = Awake, !.kin = kin, !.moved = {},
                                            !.still = {e \in ties : Ends(e) \subseteq Awake},
                                            !.loose = {n \in Awake : kin[n] = 0},
                                            !.seated = {n \in Awake : seat[n] # NoSeat}])
                /\ UNCHANGED <<sky, hope, heavens, seat, begun, mixed>>
\* Edges between granules that are live now and were when the nodes were read
ReadEdges(p) == /\ Seating(p, "edges")
                /\ Step0(p, [crew[p] EXCEPT !.pc = "rows",
                                            !.ties = {e \in ties : Ends(e) \subseteq Awake \cap crew[p].grains}])
                /\ UNCHANGED <<sky, hope, heavens, seat, begun, mixed>>
ReadRows(p) == /\ Seating(p, "rows")
               /\ LET c == [crew[p] EXCEPT !.seats = [n \in Grains |-> IF n \in crew[p].grains THEN seat[n] ELSE NoSeat],
                                           !.group = [n \in Grains |-> IF n \in crew[p].grains THEN GroupOf(crew[p], n) ELSE 0]]
                  IN  Step0(p, IF Todo(c) = {} THEN Resting0 ELSE [c EXCEPT !.pc = "delete", !.late = FALSE])
               /\ UNCHANGED <<sky, hope, heavens, seat, begun, mixed>>

\* The transaction begins.  A forced run deletes the rows its statement sees;
\* it waits for those another has deleted, and leaves what is then manual
Doomed == {n \in Grains : seat[n] # NoSeat /\ ~seat[n].manual}
BeginSeating(p) == /\ Seating(p, "delete")
                   /\ Step0(p, [crew[p] EXCEPT !.pc = "insert", !.doomed = IF crew[p].force THEN Doomed ELSE {},
                                !.seats = IF crew[p].force THEN seat ELSE @,
                                !.late = IF crew[p].force THEN FALSE ELSE @])
                   /\ UNCHANGED <<sky, hope, heavens, seat, begun, mixed>>
Deleted(c) == {n \in c.doomed : seat[n] # NoSeat /\ ~seat[n].manual /\ seat[n].birth = c.seats[n].birth}
Unseated(c) == {n \in Todo(c) : seat[n] = NoSeat \/ n \in Deleted(c)}

\* A granule that has been deleted fails the INSERT and with it the transaction
Refused(c) == \E n \in Todo(c) : status[n] = "gone"
\* ON CONFLICT DO NOTHING; the history knows which clusters may now sit apart
Disturbed(c) == IF c.late THEN Keys
                ELSE IF c.force THEN c.moved \cup ({kin[n] : n \in {m \in Grains : seat[m].manual}} \ {0})
                ELSE mixed \cup (c.moved \cap {kin[n] : n \in Unseated(c)})
SeatAll(p) ==
  LET c == crew[p]
  IN  /\ Seating(p, "insert") /\ ~Refused(c)
      /\ \E plan \in Plans(c, Unseated(c)) :
           seat' = [n \in Grains |-> IF n \in Unseated(c) THEN plan[n]
                                     ELSE IF n \in Deleted(c) THEN NoSeat ELSE seat[n]]
      /\ mixed' = Disturbed(c)
      /\ UNCHANGED <<sky, hope, heavens, begun>>
      /\ Crew([q \in Seaters |-> IF q = p THEN Resting0 ELSE [crew[q] EXCEPT !.late = TRUE]])
Refuse(p) == /\ Seating(p, "insert") /\ Refused(crew[p])
             /\ Step0(p, Resting0)
             /\ UNCHANGED <<sky, hope, heavens, seat, begun, mixed>>

\* The task fails, or its worker is lost and the message comes again
SeatingLost(p) == /\ ~Seating(p, "idle") /\ Hopeful("kill")
                  /\ \/ Step0(p, Resting0)
                     \/ Step0(p, [Resting0 EXCEPT !.pc = "scale", !.force = crew[p].force, !.id = crew[p].id])
                  /\ UNCHANGED <<sky, heavens, seat, begun, mixed>>

Seats(p) == Scale(p) \/ ReadNodes(p) \/ ReadEdges(p) \/ ReadRows(p) \/ BeginSeating(p) \/ SeatAll(p) \/ Refuse(p)
HeavenMoves == \/ Relaid
               \/ \E n \in sky.restless : Rises(n) \/ Sets(n) \/ Vanishes(n) \/ MovesByHand(n)
                                    \/ \E k \in Keys \cup {0} : Relabels(n, k)
               \/ \E e \in DOMAIN sky.ties : Ties(e)
SeatingNext == \/ HeavenMoves
               \/ \E p \in Seaters : Seats(p) \/ SeatingLost(p) \/ \E force \in BOOLEAN : StartSeating(p, force)

-----------------------------------------------------------------------------
\* The members of a cluster sit at one place, in whatever order they came and
\* were seated: they part only when a granule joins, or comes back to, the
\* cluster with the seat it has, when one joins or leaves while a run is under
\* way, when a person or layout_map moves one, or when a run is overtaken by the
\* writes of another.
KinSitTogether ==
  \A a, b \in Awake : /\ kin[a] = kin[b] /\ kin[a] \notin mixed \cup {0}
                      /\ NoSeat \notin {seat[a], seat[b]}
                      => seat[a].at = seat[b].at

\* A granule goes into the halo only when nothing holds it: an edge to another
\* granule that stood from the reads to the write holds both of its ends in a forced run; in an
\* increment it holds a granule whose neighbour has a row already, or is as free
\* as itself.  (A free granule seated in the same increment as the cluster of its
\* only neighbour does go into the halo, and stays there.)
HaloIsLonely ==
  [][\A p \in Seaters : crew[p].pc = "insert" /\ seat' # seat /\ crew'[p].pc = "idle" =>
       \A n \in Grains : seat'[n].way = "halo" /\ seat'[n] # seat[n] =>
         \A e \in crew[p].still : n \in Ends(e) /\ Ends(e) # {n} =>
           ~crew[p].force /\ Ends(e) \cap (crew[p].seated \cup crew[p].loose) \subseteq {n}]_seatingVars
=============================================================================
