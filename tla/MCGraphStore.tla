---------------------------- MODULE MCGraphStore ----------------------------
(* Instances of GraphStore for TLC.  A page holds two nodes with long texts *)
(* and one reference; the second reference makes one of them move.          *)
EXTENDS GraphStoreRefinement, TLC

CONSTANTS short, long, n1, n2, n3

MCTextLen == [t \in Text |-> IF t = short THEN 500 ELSE 2012]
NodeSymmetry == Permutations(NodeId)
=============================================================================
