----------------------------- MODULE MCInserts ------------------------------
(* Instances of Inserts for TLC.  A page holds two nodes with short texts or *)
(* one with a long text.                                                     *)
EXTENDS Inserts, TLC

CONSTANTS short, long, w1, w2, n1, n2, o1, o2, o3

MCTextLen == [t \in Text |-> IF t = short THEN 2012 ELSE 4000]
MCNode(id, text) ==
  [rec |-> "NODE", id |-> id, text |-> text, out |-> <<>>, in |-> <<>>]

\* The file after the index and some nodes were inserted, and then without one
\* of the nodes, whose page is free.
EmptyFile == [disk |-> [p \in Page |-> NoPage],
              schema |-> [first_index |-> 0, free_page |-> 0,
                          cnt_free |-> 0, last_page_num |-> 0]]
Filled(old) ==
  FoldLeft(LAMBDA f, r : AddNode(f, GetIndex(f, Name), r),
           AddIndex(EmptyFile, NewIndex(Name)), old)
Without(f, id) ==
  LET ix == GetIndex(f, Name) IN DeleteNodeById(f, ix, NodeSlot(f, ix, id))

MCOld == Filled(<<MCNode(o1, long), MCNode(o2, long), MCNode(o3, long)>>)
MCStart == {MCOld} \cup {Without(MCOld, id) : id \in {o2}}

WriterSymmetry == Permutations(Writer)
MCEmpty == {Filled(<<>>)}
=============================================================================
