------------------------------ MODULE MCSearch ------------------------------
(* Search on small instances. *)
EXTENDS Search

\* Both channels know most, in other orders; a path with a symmetric edge, beside it a
\* pair the path does not lead to
Mixed == [dense |-> <<3, 1, 2>>, fts |-> <<3, 2, 4>>,
          arcs |-> {<<1, 2>>, <<2, 3>>}, symmetric |-> {<<2, 3>>}]
\* The text finds nothing the index does not; two components
Apart == [dense |-> <<4, 2, 3, 1>>, fts |-> <<4>>,
          arcs |-> {<<1, 2>>, <<4, 3>>}, symmetric |-> {<<1, 2>>}]
MenuOfCorpora == {Mixed, Apart}
=============================================================================
