---------------------------- MODULE MCGraphQuery ----------------------------
(* Instances of GraphQuery for TLC: patterns of one to three levels,       *)
(* over two indexes whose nodes have the same id.                          *)
EXTENDS GraphQuery

CONSTANTS short, long, n1

MCTextLen == [t \in Text |-> IF t = short THEN 500 ELSE 2012]

MCPatterns ==
  LET level(name, t) == [index |-> name, text |-> t]
  IN  {<<level("actors", long)>>,
       <<level("actors", NoFilter), level("movies", short)>>,
       <<level("actors", long), level("actors", NoFilter)>>,
       <<level("movies", long), level("actors", NoFilter), level("movies", NoFilter)>>}
=============================================================================
