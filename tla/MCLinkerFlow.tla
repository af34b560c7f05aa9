---------------------------- MODULE MCLinkerFlow ----------------------------
(* LinkerFlow on small instances. *)
EXTENDS LinkerFlow, TLC

P(a, b) == {{a, b}}
Zero == [close |-> 0, edit |-> 0, fault |-> 0, say |-> 0, expire |-> 0]
Load(mode, new, peek, may) == [mode |-> mode, new |-> new, bare |-> {}, session |-> {}, peek |-> peek,
                               campaign |-> FALSE, may |-> may]

\* the pairs 1-2 and 1-3 wait for a verdict, 2-3 is linked at once
GreyPairs == P(1, 2) \cup P(1, 3)
NearPairs == P(2, 3)
SimilarPairs == P(1, 2)
TwoReplies == {<<"link", "solves">>, <<"none", "none">>}
OneNamespace == [g \in Granules |-> "code"]

\* the model and a person, with a fault, an edit or a change beside; the
\* campaign over a session whose youngest granule has no vector, beside a new one
\* or alone; the queue in manual mode; no verdicts at all
AllMenus ==
  {Load("llm", {1}, FALSE, [Zero EXCEPT !.say = 1, !.edit = 1]),
   Load("llm", {1, 2}, FALSE, [Zero EXCEPT !.say = 1]),
   Load("llm", {1}, TRUE, [Zero EXCEPT !.fault = 1, !.close = 1]),
   Load("llm", {1}, FALSE, [Zero EXCEPT !.fault = 1, !.say = 1]),
   Load("llm", {2, 3}, FALSE, [Zero EXCEPT !.say = 1, !.expire = 1]),
   Load("manual", {1, 2}, TRUE, [Zero EXCEPT !.say = 1, !.fault = 1, !.close = 1]),
   [mode |-> "off", new |-> {2}, bare |-> {1, 3}, session |-> Granules, peek |-> FALSE, campaign |-> TRUE,
    may |-> [Zero EXCEPT !.fault = 2, !.close = 1]],
   [mode |-> "off", new |-> {}, bare |-> {3}, session |-> Granules, peek |-> FALSE, campaign |-> TRUE,
    may |-> [Zero EXCEPT !.close = 1]]}
=============================================================================
