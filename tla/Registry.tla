-------------------------------- MODULE Registry --------------------------------
(***************************************************************************)
(* The registries of projects, of namespaces and of resources.  Plugins    *)
(* register a project by slug, folder and repository in the web process,   *)
(* statement by statement without a transaction; people create and change  *)
(* cards in worker tasks, one at a time in a process, each with a          *)
(* transaction and two caches, by slug and by id, that expire on their     *)
(* own.  Namespaces are registered by whoever uses them first.  Hashes of  *)
(* resources are kept so that a reader can ask, page by page, what has     *)
(* changed since.  Each statement has a moment of its own.                 *)
(*                                                                         *)
(* A card is its folder, its repository and the number of writes it has    *)
(* seen; links and technologies, written in the same transaction, are left *)
(* out.                                                                    *)
(***************************************************************************)
EXTENDS Naturals, FiniteSets

CONSTANTS Slugs, Spaces, Sources, Processes,   \* worker processes
          Visitors,                   \* who ask for one thing each
          Folders, Repos,             \* what a card says
          Errands,                    \* menu: what each of them asks for
          Registers,                  \* menu: the cards there are at first
          Nothing,
          Page,                       \* rows of one answer to a reader of hashes
          MaxExpiries                 \* bound: entries that leave a cache

\* A row of projects: folder, repository and the number of its writes
Cards == [path : Folders \cup {Nothing}, repo : Repos \cup {Nothing}, writes : Nat \ {0}]
OfProject == {"register", "create", "update", "resolve", "find"}

ASSUME RegistryAssumption ==
  /\ MaxExpiries \in Nat /\ Page \in Nat \ {0}
  /\ Registers \subseteq [Slugs -> Cards \cup {Nothing}]
  /\ Nothing \notin Cards \cup Slugs \cup Visitors
  /\ \A e \in Errands, v \in Visitors : e[v].does \in OfProject =>
        /\ e[v].slug \in Slugs
        /\ e[v].path \in Folders \cup {Nothing} /\ e[v].repo \in Repos \cup {Nothing}
  /\ \A e \in Errands, v \in Visitors : e[v].does \in {"create", "update", "resolve", "find", "space"} => e[v].in \in Processes
  /\ \A e \in Errands, v \in Visitors : e[v].does = "space" => e[v].space \in Spaces

ASSUME SpacesFinite == IsFiniteSet(Spaces)
ASSUME SourcesFinite == IsFiniteSet(Sources)

VARIABLES errand,    \* of each visitor: does, slug, path, repo, space, in (its process)
          cards,     \* projects
          locked,    \* the transaction that holds the row of a slug, committed or not
          spaces,    \* namespaces: the id of each, 0 for none
          step,      \* of each visitor; in the end its answer
          seen,      \* the card a visitor has read, the slug it found by folder
          bySlug, byId,    \* in each process: the state of the card it keeps, 0 for none
          spaceCache,      \* in each process
          expiries,
          hashes,          \* resource_hashes
          now, began,      \* statements that have begun; the number of each visitor's, now() to it
          reader            \* of each reader: what it believes of the sources, since when it
                            \* asks, the youngest date and the number of rows of the pass it is
                            \* in and, for the record, rows it will not be told of

hashVars == <<hashes, now, began, reader>>
registryVars == <<errand, cards, locked, spaces, step, seen, bySlug, byId, spaceCache, expiries, hashVars>>

Paces == {"start", "path", "insert", "rebind", "bind", "commit", "drop", "card", "newSpace", "hashing", "again", "paging",
          "matched", "moved", "rebound", "created", "updated", "found", "done", "missing", "conflict",
          "refused", "failed"}
Taken == {s \in Slugs : cards[s] # Nothing}

RegistryInit ==
  /\ errand \in Errands /\ cards \in Registers
  /\ locked = [s \in Slugs |-> Nothing]
  /\ spaces = [u \in Spaces |-> 0]
  /\ step = [v \in Visitors |-> "start"]
  /\ seen = [v \in Visitors |-> Nothing]
  /\ bySlug = [p \in Processes |-> [s \in Slugs |-> 0]] /\ byId = bySlug
  /\ spaceCache = [p \in Processes |-> [u \in Spaces |-> 0]]
  /\ expiries = 0
  /\ hashes = [r \in Sources |-> Nothing] /\ now = 0 /\ began = [v \in Visitors |-> 0]
  /\ reader = [v \in Visitors |-> [of |-> hashes, since |-> 0, top |-> 0, offset |-> 0, lost |-> {}]]

RegistryTypeOK ==
  /\ errand \in Errands
  /\ cards \in [Slugs -> Cards \cup {Nothing}]
  /\ step \in [Visitors -> Paces]
  /\ seen \in [Visitors -> Cards \cup Slugs \cup {Nothing}]
  /\ bySlug \in [Processes -> [Slugs -> Nat]] /\ byId \in [Processes -> [Slugs -> Nat]]
  /\ spaces \in [Spaces -> Nat] /\ spaceCache \in [Processes -> [Spaces -> Nat]]

Comes(v, what) == step[v] = "start" /\ errand[v].does = what
Turns(v, to) == step' = [step EXCEPT ![v] = to]
Written(s, path, repo) ==
  cards' = [cards EXCEPT ![s] = [path |-> path, repo |-> repo,
                                 writes |-> IF s \in Taken THEN cards[s].writes + 1 ELSE 1]]
CachesRest == UNCHANGED <<bySlug, byId, spaceCache, expiries>>

-----------------------------------------------------------------------------
(* register_project: three looks and one write, each a statement.          *)

\* Variant: the repository of a slug is not looked at
NobodysRepo(card, repo) == FALSE

\* A slug with another repository is somebody else's
OthersRepo(card, repo) == card.repo \notin {Nothing, repo}

LooksBySlug(v) ==
  LET e == errand[v]
      card == cards[e.slug]
      elsewhere == card # Nothing => OthersRepo(card, e.repo)
  IN  /\ Comes(v, "register")
      /\ seen' = [seen EXCEPT ![v] = card]
      /\ \/ elsewhere /\ e.path # Nothing /\ Turns(v, "path")
         \/ card = Nothing /\ e.path = Nothing /\ Turns(v, "insert")
         \/ card # Nothing /\ elsewhere /\ e.path = Nothing /\ Turns(v, "conflict")
         \/ /\ ~elsewhere
            /\ Turns(v, IF card.path = e.path /\ card.repo = e.repo THEN "matched" ELSE "bind")
      /\ UNCHANGED <<errand, cards, locked, spaces>> /\ CachesRest

\* The folder may belong to another slug
LooksByPath(v) ==
  LET owners == {s \in Taken \ {errand[v].slug} : cards[s].path = errand[v].path}
  IN  /\ step[v] = "path"
      /\ \/ /\ owners = {} /\ UNCHANGED seen
            /\ Turns(v, IF seen[v] = Nothing THEN "insert" ELSE "conflict")
         \/ /\ Turns(v, "rebind")
            /\ \E s \in owners : seen' = [seen EXCEPT ![v] = s]
      /\ UNCHANGED <<errand, cards, locked, spaces>> /\ CachesRest

\* The repository of the folder, whatever it was
Rebinds(v) ==
  /\ step[v] = "rebind" /\ locked[seen[v]] = Nothing
  /\ Written(seen[v], cards[seen[v]].path, errand[v].repo) /\ Turns(v, "rebound")
  /\ UNCHANGED <<errand, locked, spaces, seen>> /\ CachesRest

\* The slug is unique, so the loser of a race is told of a conflict
Inserts(v) ==
  /\ step[v] = "insert" /\ locked[errand[v].slug] = Nothing
  /\ IF errand[v].slug \in Taken
     THEN Turns(v, "conflict") /\ UNCHANGED cards
     ELSE Written(errand[v].slug, errand[v].path, errand[v].repo) /\ Turns(v, "created")
  /\ UNCHANGED <<errand, locked, spaces, seen>> /\ CachesRest

\* Folder and repository of the slug, as they were when it was looked at or not
Binds(v) ==
  /\ step[v] = "bind" /\ locked[errand[v].slug] = Nothing
  /\ Written(errand[v].slug, errand[v].path, errand[v].repo)
  /\ Turns(v, IF seen[v].path = errand[v].path THEN "matched" ELSE "moved")
  /\ UNCHANGED <<errand, locked, spaces, seen>> /\ CachesRest

-----------------------------------------------------------------------------
(* create_card, update_card and the caches of a worker process.            *)

Rests(p) == {v \in Visitors : /\ errand[v].in = p
                              /\ step[v] \in {"commit", "drop", "card", "newSpace"}} = {}

\* INSERT or UPDATE holds the row until the end of the transaction
CardBegins(v) ==
  LET s == errand[v].slug
  IN  /\ Comes(v, "create") \/ Comes(v, "update")
      /\ Rests(errand[v].in) /\ locked[s] = Nothing
      /\ IF (errand[v].does = "create") = (s \in Taken)
         THEN Turns(v, IF s \in Taken THEN "conflict" ELSE "missing") /\ UNCHANGED locked
         ELSE Turns(v, "commit") /\ locked' = [locked EXCEPT ![s] = v]
      /\ UNCHANGED <<errand, cards, spaces, seen>> /\ CachesRest

\* The lists may be refused: nothing is written then.  What an update does not give stays
CardCommits(v) ==
  LET e == errand[v]
      Kept(given, old) == IF given = Nothing THEN old ELSE given
  IN  /\ step[v] = "commit" /\ locked' = [locked EXCEPT ![e.slug] = Nothing]
      /\ \/ Turns(v, "failed") /\ UNCHANGED <<cards, seen>>
         \/ /\ Turns(v, "drop")
            /\ IF e.does = "create" THEN Written(e.slug, e.path, e.repo)
               ELSE Written(e.slug, Kept(e.path, cards[e.slug].path), Kept(e.repo, cards[e.slug].repo))
            /\ seen' = [seen EXCEPT ![v] = cards'[e.slug]]
      /\ UNCHANGED <<errand, spaces>> /\ CachesRest

\* Variant: the caches are left to expire
DropsNothing(p, s) == UNCHANGED <<bySlug, byId>>

\* _invalidate_cache finds the id in the cache by slug: an entry that is only in the other
\* one stays
Drops(p, s) ==
  /\ bySlug' = [bySlug EXCEPT ![p][s] = 0]
  /\ byId' = IF bySlug[p][s] = 0 THEN byId ELSE [byId EXCEPT ![p][s] = 0]

CardDrops(v) ==
  /\ step[v] = "drop"
  /\ \/ Drops(errand[v].in, errand[v].slug) /\ Turns(v, "card")
     \/ Turns(v, "failed") /\ UNCHANGED <<bySlug, byId>>    \* the time limit
  /\ UNCHANGED <<errand, cards, locked, spaces, seen, spaceCache, expiries>>

CardAnswers(v) ==
  /\ step[v] = "card" /\ Turns(v, IF errand[v].does = "create" THEN "created" ELSE "updated")
  /\ UNCHANGED <<errand, cards, locked, spaces, seen>> /\ CachesRest

\* get_by_slug, of resolve_id, and get_by_id: what is read goes into both caches
Resolves(v) ==
  LET p == errand[v].in
      s == errand[v].slug
      own == IF errand[v].does = "resolve" THEN bySlug ELSE byId
  IN  /\ Comes(v, "resolve") \/ Comes(v, "find")
      /\ Rests(p)
      /\ IF own[p][s] = 0 /\ s \in Taken
         THEN /\ bySlug' = [bySlug EXCEPT ![p][s] = cards[s].writes]
              /\ byId' = [byId EXCEPT ![p][s] = cards[s].writes]
         ELSE UNCHANGED <<bySlug, byId>>
      /\ Turns(v, IF own[p][s] = 0 /\ s \notin Taken THEN "missing" ELSE "found")
      /\ UNCHANGED <<errand, cards, locked, spaces, seen, spaceCache, expiries>>

\* By age or to make room
Expires(p, s) ==
  /\ expiries < MaxExpiries /\ expiries' = expiries + 1
  /\ \/ bySlug[p][s] # 0 /\ bySlug' = [bySlug EXCEPT ![p][s] = 0] /\ UNCHANGED byId
     \/ byId[p][s] # 0 /\ byId' = [byId EXCEPT ![p][s] = 0] /\ UNCHANGED bySlug
  /\ UNCHANGED <<errand, cards, locked, spaces, step, seen, spaceCache>>

-----------------------------------------------------------------------------
(* get_or_create of a namespace.                                           *)

UsesSpace(v) ==
  LET p == errand[v].in
      u == errand[v].space
  IN  /\ Comes(v, "space") /\ Rests(p)
      /\ \/ spaceCache[p][u] # 0 /\ Turns(v, "done") /\ UNCHANGED spaceCache
         \/ /\ spaceCache[p][u] = 0 /\ spaces[u] # 0 /\ Turns(v, "done")
            /\ spaceCache' = [spaceCache EXCEPT ![p][u] = spaces[u]]
         \/ /\ spaceCache[p][u] = 0 /\ spaces[u] = 0 /\ Turns(v, "newSpace")
            /\ UNCHANGED spaceCache
      /\ UNCHANGED <<errand, cards, locked, spaces, seen, bySlug, byId, expiries>>

NewId == 1 + Cardinality({u \in Spaces : spaces[u] # 0})

\* ON CONFLICT answers with the row that is there
AddsSpace(v) ==
  LET u == errand[v].space
      id == IF spaces[u] = 0 THEN NewId ELSE spaces[u]
  IN  /\ step[v] = "newSpace" /\ Turns(v, "done")
      /\ spaces' = [spaces EXCEPT ![u] = id]
      /\ spaceCache' = [spaceCache EXCEPT ![errand[v].in][u] = id]
      /\ UNCHANGED <<errand, cards, locked, seen, bySlug, byId, expiries>>

-----------------------------------------------------------------------------
(* The hashes of resources: one statement each.  now() is the moment a     *)
(* statement begins, before it waits for the row.                          *)

RegistriesRest == UNCHANGED <<errand, cards, locked, spaces, seen, bySlug, byId, spaceCache, expiries>>

\* A hash of another form is refused before anything is asked of PostgreSQL
HashBegins(v) ==
  /\ Comes(v, "hash")
  /\ IF errand[v].hash = Nothing THEN Turns(v, "refused") /\ UNCHANGED <<now, began>>
     ELSE Turns(v, "hashing") /\ now' = now + 1 /\ began' = [began EXCEPT ![v] = now + 1]
  /\ UNCHANGED <<hashes, reader>> /\ RegistriesRest

\* ORDER BY updated_at DESC: the rows before this one
Ahead(r) == Cardinality({q \in Sources : hashes[q] # Nothing /\ hashes[q].at > hashes[r].at})

\* History.  When rows go away or get an earlier date, others move up, and a reader
\* between two pages is led past those that come to stand before its offset
MovedUp(u) == {r \in Sources : /\ step[u] = "paging" /\ hashes[r] # Nothing /\ hashes'[r] = hashes[r]
                               /\ Ahead(r) >= reader[u].offset /\ Ahead(r)' < reader[u].offset}
\* The row r changes; late are those who have been given a row of a later moment than
\* that of the statement that changes it
Noted(r, late) ==
  reader' = [u \in Visitors |-> [reader[u] EXCEPT !.lost = (@ \ {r}) \cup MovedUp(u)
                                                           \cup (IF u \in late THEN {r} ELSE {})]]

\* Variant: the row keeps its age
KeepsAge(v, old) == IF old = Nothing THEN began[v] ELSE old.at
\* The same hash again leaves updated_at as it is
UpdatedAt(v, old) == IF old # Nothing /\ old.hash = errand[v].hash THEN old.at ELSE began[v]
HashWrites(v) ==
  LET r == errand[v].source
      row == [hash |-> errand[v].hash, at |-> UpdatedAt(v, hashes[r])]
  IN  /\ step[v] = "hashing" /\ Turns(v, "done")
      /\ hashes' = [hashes EXCEPT ![r] = row]
      /\ IF row = hashes[r] THEN UNCHANGED reader
         ELSE Noted(r, {u \in Visitors : began[v] < reader[u].top})
      /\ UNCHANGED <<now, began>> /\ RegistriesRest

HashDeletes(v) ==
  LET r == errand[v].source
  IN  /\ Comes(v, "unhash") /\ Turns(v, IF hashes[r] = Nothing THEN "missing" ELSE "done")
      /\ hashes' = [hashes EXCEPT ![r] = Nothing] /\ Noted(r, {})
      /\ UNCHANGED <<now, began>> /\ RegistriesRest

\* A reader asks for one source ...
HashGets(v) ==
  /\ Comes(v, "hashOf") /\ Turns(v, IF hashes[errand[v].source] = Nothing THEN "missing" ELSE "done")
  /\ reader' = [reader EXCEPT ![v].of[errand[v].source] = hashes[errand[v].source]]
  /\ UNCHANGED <<hashes, now, began>> /\ RegistriesRest

\* ... or for all, and then for what is not older than the youngest row of its last
\* pass, in pages: LIMIT and OFFSET.  It may stop before the last page.  With a
\* project it gets an error: resolve_id is looked up on a coroutine
ListedSince(t) == {r \in Sources : hashes[r] # Nothing /\ hashes[r].at >= t}
PageOf(t, offset) == {r \in ListedSince(t) : Ahead(r) \in offset..(offset + Page - 1)}
Youngest(t) == IF ListedSince(t) = {} THEN {t} ELSE {hashes[r].at : r \in {q \in ListedSince(t) : Ahead(q) = 0}}

HashLists(v) ==
  LET q == reader[v]
      offset == IF step[v] = "paging" THEN q.offset ELSE 0
      page == PageOf(q.since, offset)
      of == [r \in Sources |-> IF r \in page THEN hashes[r] ELSE q.of[r]]
      unread == {r \in ListedSince(q.since) : Ahead(r) >= offset + Page}
  IN  /\ Comes(v, "hashes") \/ step[v] \in {"again", "paging"}
      /\ IF errand[v].project THEN Turns(v, "failed") /\ UNCHANGED reader
         ELSE \E top \in IF step[v] = "paging" THEN {q.top} ELSE Youngest(q.since) :
                \/ /\ Cardinality(page) = Page /\ Turns(v, "paging")
                   /\ reader' = [reader EXCEPT ![v] =
                        [of |-> of, since |-> q.since, top |-> top, offset |-> offset + Page, lost |-> q.lost \ page]]
                \/ /\ Turns(v, "again")
                   /\ reader' = [reader EXCEPT ![v] =
                        [of |-> of, since |-> top, top |-> top, offset |-> 0, lost |-> (q.lost \ page) \cup unread]]
      /\ UNCHANGED <<hashes, now, began>> /\ RegistriesRest

RegistryWork ==
  \/ \E v \in Visitors :
       \/ LooksBySlug(v) \/ LooksByPath(v) \/ Rebinds(v) \/ Inserts(v) \/ Binds(v)
       \/ CardBegins(v) \/ CardCommits(v) \/ CardDrops(v) \/ CardAnswers(v)
       \/ Resolves(v) \/ UsesSpace(v) \/ AddsSpace(v)
  \/ \E p \in Processes, s \in Slugs : Expires(p, s)
HashWork == \E v \in Visitors : HashBegins(v) \/ HashWrites(v) \/ HashDeletes(v) \/ HashGets(v) \/ HashLists(v)

RegistryNext == (RegistryWork /\ UNCHANGED hashVars) \/ HashWork

RegistrySpec == RegistryInit /\ [][RegistryNext]_registryVars

-----------------------------------------------------------------------------
(* Properties.                                                             *)

\* A process that changed a card does not resolve its slug to the card as it was before
\* (_invalidate_cache), although its caches lose entries one by one.  By id it may.
OwnWriteSeen ==
  \A v \in Visitors : step[v] \in {"card", "updated"} =>
    bySlug[errand[v].in][errand[v].slug] \notin 1..(seen[v].writes - 1)

\* A repository is taken from a project by a person, through its folder, or by one who
\* looked while the project had another one or none, that is in a race
\* (register_project: 409).
BindingKept ==
  [][\A s \in Taken : cards[s].repo \notin {Nothing, cards'[s].repo} =>
       \E v \in Visitors : /\ step'[v] # step[v]
                           /\ \/ errand[v].does = "update"
                              \/ step[v] = "rebind"
                              \/ step[v] = "bind" /\ seen[v].repo # cards[s].repo]_registryVars

\* A reader that asks for what has changed since the youngest row it was given misses a
\* change only if the statement that made it had begun before that row's and waited, if the
\* row is gone, or if it was led past the row: it stopped before the last page, or rows
\* before it were deleted or got an earlier date between two pages (LIST_RESOURCE_HASHES
\* orders by updated_at and counts rows off from the youngest).
MissedHasCause ==
  \A v \in Visitors : step[v] = "again" =>
    \A r \in Sources \ ListedSince(reader[v].since) :
      hashes[r] \in {Nothing, reader[v].of[r]} \/ r \in reader[v].lost

\* Processes that register a namespace at the same time end with the same id.
SpacesAgree == \A p \in Processes, u \in Spaces : spaceCache[p][u] \in {0, spaces[u]}
=============================================================================
