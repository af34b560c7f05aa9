------------------------------ MODULE MCServing ------------------------------
(* Serving on small instances. *)
EXTENDS Serving

E(s, c) == [space |-> s, content |-> c]

\* One call that is waited for, and another import of the same content
Waited == [of |-> [t1 |-> <<E("x", "a")>>, t2 |-> <<E("x", "a")>>], waited |-> {"t1"}, dedup |-> "on"]
\* Two batches with a content in common, one entry repeated and one without content
Overlap == [of |-> [t1 |-> <<E("x", "a"), E("x", "a"), E("x", "")>>, t2 |-> <<E("x", "a"), E("y", "b")>>],
            waited |-> {}, dedup |-> "on"]
\* The same content in two namespaces, one of them twice, and one that means the same
TwoSpaces == [of |-> [t1 |-> <<E("x", "a"), E("y", "a"), E("x", "a")>>, t2 |-> <<E("x", "b")>>],
              waited |-> {}, dedup |-> "on"]
\* Without dedup
Unchecked == [of |-> [t1 |-> <<E("x", "a")>>, t2 |-> <<E("x", "a")>>], waited |-> {"t2"}, dedup |-> "off"]
MenuOfBatches == {Waited, Overlap, TwoSpaces, Unchecked}
NearPairs == {{"a", "b"}}

BeatDefaults == [e \in Jobs |-> IF e = "nightly" THEN 3 ELSE 2]

\* What is done with the hashes of resources
Hash(s, h) == [does |-> "hash", source |-> s, hash |-> h, in |-> "w1"]
Unhash(s) == [does |-> "unhash", source |-> s, in |-> "w1"]
HashOf(s) == [does |-> "hashOf", source |-> s, in |-> "w1"]
Hashes(p) == [does |-> "hashes", project |-> p, in |-> "w2"]
\* What plugins register, and what people do in a worker process
Plugin(s, p, r) == [does |-> "register", slug |-> s, path |-> p, repo |-> r, space |-> "u", in |-> "web"]
Person(d, s, p, r, i) == [does |-> d, slug |-> s, path |-> p, repo |-> r, space |-> "u", in |-> i]
Four(e1, e2, e3, e4) == [v1 |-> e1, v2 |-> e2, v3 |-> e3, v4 |-> e4]
Of(e1, e2, e3) == Four(e1, e2, e3, [does |-> "nothing", in |-> "web"])
No == Nothing
MenuOfErrands == {
  \* one slug from several sides
  Of(Plugin("a", "x", "r"), Plugin("a", "y", "q"), Person("create", "a", "x", No, "w1")),
  \* one folder from two slugs while its card is changed
  Of(Plugin("a", "x", "r"), Plugin("b", "x", "q"), Person("update", "a", No, "q", "w1")),
  Of(Plugin("a", No, "r"), Plugin("a", No, No), Plugin("b", "x", No)),
  \* a look that is old when the folder is bound
  Of(Plugin("a", "y", "r"), Person("update", "a", No, "q", "w1"), Person("resolve", "a", No, No, "w1")),
  \* the caches of one process and of two
  Of(Person("update", "a", "y", No, "w1"), Person("resolve", "a", No, No, "w1"), Person("find", "a", No, No, "w1")),
  Of(Person("update", "a", "y", No, "w1"), Person("resolve", "a", No, No, "w1"), Person("update", "a", No, "r", "w2")),
  \* one reader, and who changes what it reads page by page
  Four(Hash("f", "h1"), Hash("f", "h2"), Hash("g", "h1"), Hashes(FALSE)),
  Four(Hash("f", "h1"), Hash("g", "h1"), Unhash("g"), Hashes(FALSE)),
  Four(Hash("f", "h1"), Hash("f", "h1"), Unhash("f"), Hashes(FALSE)),
  Of(Hash("f", "h1"), HashOf("f"), Hashes(TRUE)),
  Of(Hash("g", No), Hash("f", "h1"), Hashes(FALSE)),
  \* one namespace, used first in two processes
  Of(Person("space", "a", No, No, "w1"), Person("space", "a", No, No, "w2"), Person("create", "a", No, "r", "w1"))}
MenuOfRegisters == {[a |-> x, b |-> y] : x \in {No, [path |-> "x", repo |-> No, writes |-> 1]},
                                         y \in {No, [path |-> "x", repo |-> "r", writes |-> 1]}}
=============================================================================
