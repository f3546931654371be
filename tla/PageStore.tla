----------------------------- MODULE PageStore ------------------------------
(***************************************************************************)
(* The page store as one process drives it: schema.c adds, replaces and    *)
(* deletes chunks of page lists through page.c.  Every call is one step,   *)
(* except that the loops of `shrink` take one step per iteration.          *)
(*                                                                         *)
(* The callers name a list by its head page.  This module lets them name   *)
(* any page that IS the head of a list; whether the head numbers that      *)
(* schema.c keeps in its index records still are heads is a question for   *)
(* the module that models those records.                                   *)
(***************************************************************************)
EXTENDS PageFile

VARIABLES
  disk,      \* the pages of the file
  schema,    \* schema_t in memory, from init_db to the end of the query
  saved,     \* the copy of it in page 0
  pc,        \* "idle", or "shrink" inside shrink()
  last,      \* shrink's local `last`
  free_num   \* shrink's local `free_num`

vars == <<disk, schema, saved, pc, last, free_num>>

\* The highest page that can hold live data: while shrink runs, the pages
\* above `last` have been moved away or are free.
Bound == IF pc = "shrink" THEN last ELSE schema.last_page_num

Live == {p \in Page : p <= Bound /\ disk[p].type \in Kind}
FreePages == {p \in Page : p <= Bound /\ disk[p].type = "FREE"}
Heads == {p \in Live : disk[p].prev = 0}

\* The head pages a caller can add a record of kind k to; 0 starts a list.
\* All INDEX pages are in the one list that schema->first_index heads.
HeadsFor(k) ==
  IF k = "INDEX" THEN {schema.first_index}
  ELSE {0} \cup {h \in Heads : disk[h].type = k}

-----------------------------------------------------------------------------
\* init_db on an empty file.
Init ==
  /\ disk = [p \in Page |-> NoPage]
  /\ schema = [first_index |-> 0, free_page |-> 0,
               cnt_free |-> 0, last_page_num |-> 0]
  /\ saved = schema
  /\ pc = "idle"
  /\ last = 0
  /\ free_num = 0

\* init_db on an existing file: a query starts from what page 0 holds.
Reopen ==
  /\ pc = "idle"
  /\ schema' = saved
  /\ UNCHANGED <<disk, saved, pc, last, free_num>>

\* add_node, add_link, add_index: the record fits into the list's first page.
\* add_index ends with a `save`.
AddToHead(k, h, c) ==
  /\ pc = "idle"
  /\ h # 0
  /\ Fits(disk[h], c)
  /\ disk' = [disk EXCEPT ![h] = WithChunk(@, c)]
  /\ saved' = IF k = "INDEX" THEN schema ELSE saved
  /\ UNCHANGED <<schema, pc, last, free_num>>

\* The allocated page becomes the first of list h, with one record.
NewHeadDisk(d, sch, k, h, c) ==
  LET page == [AllocPage(d, sch) EXCEPT !.type = k, !.next = h, !.prev = 0]
  IN  [SetPrev(AllocDisk(d, sch), h, AllocNum(sch))
         EXCEPT ![AllocNum(sch)] = WithChunk(page, c)]

\* Mistake: the `save` at the end of add_index is missing.
AddInNewHeadUnsaved(k, h, c) ==
  LET n == AllocNum(schema)
      allocated == AllocSchema(disk, schema)
  IN  /\ pc = "idle"
      /\ h # 0 => ~ Fits(disk[h], c)
      /\ n <= MaxPage
      /\ disk' = NewHeadDisk(disk, schema, k, h, c)
      /\ schema' = IF k = "INDEX" THEN [allocated EXCEPT !.first_index = n]
                   ELSE allocated
      /\ saved' = allocated
      /\ UNCHANGED <<pc, last, free_num>>

\* The same when there is no list yet, or its first page is too full: a page
\* from get_free_page, which saves, goes in front; add_index then records it
\* as schema->first_index and saves again.
AddInNewHead(k, h, c) ==
  LET n == AllocNum(schema)
      allocated == AllocSchema(disk, schema)
  IN  /\ pc = "idle"
      /\ h # 0 => ~ Fits(disk[h], c)
      /\ n <= MaxPage
      /\ disk' = NewHeadDisk(disk, schema, k, h, c)
      /\ schema' = IF k = "INDEX" THEN [allocated EXCEPT !.first_index = n]
                   ELSE allocated
      /\ saved' = schema'
      /\ UNCHANGED <<pc, last, free_num>>

\* save_index, add_link_to_node, set_node_attribute: a record is rewritten in
\* place when the new encoding fits.
Replace(p, i, c) ==
  /\ pc = "idle"
  /\ ReplacementFits(disk[p], i, c)
  /\ disk' = [disk EXCEPT ![p] = WithReplaced(@, i, c)]
  /\ UNCHANGED <<schema, saved, pc, last, free_num>>

\* delete_chunk of one record of several in its page.
DeleteOne(p, i) ==
  /\ pc = "idle"
  /\ Len(disk[p].chunks) > 1
  /\ disk' = [disk EXCEPT ![p] = WithoutChunk(@, i)]
  /\ UNCHANGED <<schema, saved, pc, last, free_num>>

\* delete_chunk of the last record of a page: free_page, and shrink when due.
DeleteLast(p) ==
  /\ pc = "idle"
  /\ Len(disk[p].chunks) = 1
  /\ disk' = FreedDisk(disk, schema, p)
  /\ schema' = FreedSchema(disk, schema, p)
  /\ saved' = schema'
  /\ IF ShrinkDue(schema')
     THEN /\ pc' = "shrink"
          /\ last' = schema'.last_page_num
          /\ free_num' = schema'.free_page
     ELSE UNCHANGED <<pc, last, free_num>>

-----------------------------------------------------------------------------
(* shrink: `last` runs down from the end of the file, `free_num` along the *)
(* free list; every used page met is moved into the next free page below.  *)

InLoop == pc = "shrink" /\ last > 0 /\ free_num # 0

\* Mistake: `last` is decremented only when a page was moved.
ShrinkStaysOnFree ==
  /\ InLoop
  /\ disk[last].type = "FREE"
  /\ UNCHANGED vars

ShrinkPassFree ==
  /\ InLoop
  /\ disk[last].type = "FREE"
  /\ last' = last - 1
  /\ UNCHANGED <<disk, schema, saved, pc, free_num>>

ShrinkNextFree ==
  /\ InLoop
  /\ disk[last].type # "FREE"
  /\ free_num > last
  /\ free_num' = disk[free_num].next
  /\ UNCHANGED <<disk, schema, saved, pc, last>>

ShrinkMove ==
  /\ InLoop
  /\ disk[last].type # "FREE"
  /\ free_num <= last
  /\ disk' = MovedDisk(disk, last, free_num)
  /\ schema' = MovedSchema(disk, schema, last, free_num)
  /\ free_num' = disk[free_num].next
  /\ last' = last - 1
  /\ UNCHANGED <<saved, pc>>

ShrinkTruncate ==
  /\ pc = "shrink"
  /\ last = 0 \/ free_num = 0
  /\ disk' = TruncatedDisk(disk, schema)
  /\ schema' = TruncatedSchema(schema)
  /\ saved' = schema'
  /\ pc' = "idle"
  /\ last' = 0
  /\ free_num' = 0

Shrink == ShrinkPassFree \/ ShrinkNextFree \/ ShrinkMove \/ ShrinkTruncate

Next ==
  \/ Reopen
  \/ \E k \in Kind, c \in Chunk : \E h \in HeadsFor(k) :
        AddToHead(k, h, c) \/ AddInNewHead(k, h, c)
  \/ \E p \in Live : \E i \in DOMAIN disk[p].chunks : \E c \in Chunk :
        Replace(p, i, c)
  \/ \E p \in Live : \E i \in DOMAIN disk[p].chunks : DeleteOne(p, i)
  \/ \E p \in Live : DeleteLast(p)
  \/ Shrink

\* The loops of shrink run to their end: nothing in them waits.
Spec == Init /\ [][Next]_vars /\ WF_vars(Shrink)

-----------------------------------------------------------------------------
TypeOK ==
  /\ disk \in [Page -> Header]
  /\ schema \in Schema
  /\ saved \in Schema
  /\ pc \in {"idle", "shrink"}
  /\ last \in PageNum
  /\ free_num \in PageNum

\* The free list is exact whenever page.c is not inside shrink: following it
\* from schema->free_page visits every FREE page of the file once, and no other
\* page, and cnt_free counts them.  (get_free_page, free_page, shrink.)
FreeListExact ==
  pc = "idle" =>
    LET s == PagesFrom(disk, schema.free_page)
    IN  /\ ToSet(s) = FreePages
        /\ Len(s) = schema.cnt_free
        /\ schema.cnt_free = Cardinality(FreePages)

\* Between any two page writes outside a single relocation, two neighbouring
\* pages of a list name each other and hold records of the same kind, and no
\* link of a live page leads to a free, cut off or moved page.  (free_page,
\* get_free_page's callers and shrink each rewrite up to three headers.)
LinksMutual ==
  \A p \in Live :
    /\ disk[p].next # 0 => /\ disk[p].next \in Live
                           /\ disk[disk[p].next].prev = p
                           /\ disk[disk[p].next].type = disk[p].type
    /\ disk[p].prev # 0 => /\ disk[p].prev \in Live
                           /\ disk[disk[p].prev].next = p

\* No page is lost to the counters: in the file, and in what is left of it
\* while shrink runs, live pages and cnt_free free ones add up to last_page_num.
PagesAccounted ==
  /\ \A p \in Page : p <= Bound => p \in Live \cup FreePages
  /\ Cardinality(Live) + schema.cnt_free = schema.last_page_num

\* Every page that holds records is on exactly one list, forwards and
\* backwards, of pages of its own type - also between the relocations of
\* shrink, which patch both neighbours of a page that moves.
ListsExact ==
  LET list == [h \in Heads |-> PagesFrom(disk, h)]
  IN  /\ \A p \in Live :
           Cardinality({h \in Heads : p \in ToSet(list[h])}) = 1
      /\ \A h \in Heads :
           /\ ToSet(list[h]) \subseteq {p \in Live : disk[p].type = disk[h].type}
           /\ \A j \in 2 .. Len(list[h]) :
                disk[list[h][j]].prev = list[h][j-1]

\* schema->first_index always reaches all the index pages: it follows the head
\* when the head is freed or relocated.
IndexListReachable ==
  ToSet(PagesFrom(disk, schema.first_index)) = {p \in Live : disk[p].type = "INDEX"}

\* free_space is what the records of a page leave of it, over any history of
\* additions, in-place replacements and deletions, and pages without records
\* do not stay in a list.
SpaceExact ==
  \A p \in Live :
    LET used == FoldLeft(LAMBDA n, c : n + Size[c] + LenSize, 0, disk[p].chunks)
    IN  /\ disk[p].free_space = Capacity - used
        /\ disk[p].free_space >= 0
        /\ disk[p].chunks # <<>>

\* Whenever a query may end, page 0 holds the schema that the process has in
\* memory and is about to throw away.
SavedAtRest == pc = "idle" => saved = schema

\* At rest fewer than half of the pages are free: the compaction of free_page
\* keeps the file from being mostly empty.
FewFreeAtRest ==
  pc = "idle" => \/ schema.cnt_free = 0
                 \/ schema.cnt_free < schema.last_page_num \div 2

\* The truncation at the end of shrink cuts off no page that holds records,
\* and leaves no hole: the live pages are exactly those below the cut.
TruncationExact ==
  (pc = "shrink" /\ ~ InLoop) => Live = 1 .. CutAt(schema)

\* shrink, once entered, ends.
ShrinkEnds == (pc = "shrink") ~> (pc = "idle")
=============================================================================
