---------------------------- MODULE MCPageStore -----------------------------
(* Instances of PageStore for TLC: records of two sizes, of which a page   *)
(* holds two small ones or one large one.                                  *)
EXTENDS PageStoreRefinement

CONSTANTS small, large

MCSize == [c \in Chunk |-> IF c = small THEN 1500 ELSE 3000]
=============================================================================
