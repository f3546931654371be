---------------------------- MODULE MCPageCrash -----------------------------
(* Instances of PageCrash for TLC. *)
EXTENDS PageCrash, TLC

CONSTANTS r1, r2, r3, r4

MCSize == [c \in Chunk |-> 3000]
RecordSymmetry == Permutations(Chunk)
=============================================================================
