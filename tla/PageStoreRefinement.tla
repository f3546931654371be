------------------------ MODULE PageStoreRefinement -------------------------
(***************************************************************************)
(* The page store implements RecordLists: allocating, freeing and reusing  *)
(* pages and every relocation of `shrink` are invisible to whoever follows *)
(* the lists.                                                              *)
(***************************************************************************)
EXTENDS PageStore, Bags

\* What `find` meets when it follows the list that starts at page h.
Content(h) ==
  [kind |-> disk[h].type,
   recs |-> FoldLeft(LAMBDA recs, p : recs \o disk[p].chunks,
                     <<>>, PagesFrom(disk, h))]

ListBag ==
  FoldSet(LAMBDA h, bag : bag (+) SetToBag({Content(h)}), EmptyBag, Heads)

Abstract == INSTANCE RecordLists WITH lists <- ListBag

\* Every step of page.c, inside shrink too, leaves the records that a reader
\* of the lists finds as they were, or does to one record what the caller asked
\* for: no record is lost, duplicated or reordered, no list is split or merged.
RefinesRecordLists == Abstract!Spec

-----------------------------------------------------------------------------
\* What the rest of shrink's loops will leave behind.
Outcome == ShrunkFrom(disk, schema, last, free_num)

\* The steps of shrink end in what the operator Shrunk computes, which lets a
\* larger model take the whole function as one step of a call.
ShrinkAgrees ==
  [][pc = "shrink" =>
       IF pc' = "shrink" THEN Outcome' = Outcome
       ELSE Outcome = [disk |-> disk', schema |-> schema']]_vars
=============================================================================
