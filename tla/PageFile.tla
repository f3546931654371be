------------------------------ MODULE PageFile ------------------------------
(***************************************************************************)
(* The page file of the graph database (server_dir/src/page.c): what is    *)
(* stored in a page, and what each function of page.c writes.              *)
(*                                                                         *)
(* The file is a sequence of pages of PAGE_SIZE bytes.  Page 0 holds the   *)
(* schema_t record (`save`); pages 1, 2, ... hold chunks and are linked    *)
(* into lists by the next/prev page numbers of their headers, 0 ending a   *)
(* list.  Every non-zero page number is a position in the file, so         *)
(* header->this_page is the number a page is read by.                      *)
(*                                                                         *)
(* The functions of page.c change the file by a few header writes.  Each   *)
(* is an operator here from the file d and the schema sch before the call  *)
(* to the file (..Disk) or the schema (..Schema) after it, so that a state *)
(* machine can take a call as a step and a larger operation can compose    *)
(* several calls.                                                          *)
(***************************************************************************)
EXTENDS Integers, Sequences, SequencesExt

CONSTANTS
  MaxPage,   \* bound: the file never grows beyond this page number
  Kind,      \* the page types callers store: a subset of INDEX, NODE, LINK
  Chunk,     \* the records callers store
  Size       \* chunk_t.size of each record, in bytes

PAGE_SIZE == 4096
HeaderSize == 24                     \* sizeof(page_header_t): six 32-bit fields
LenSize == 4                         \* the length written before a chunk's data
Capacity == PAGE_SIZE - HeaderSize   \* free_space of an empty page

ASSUME PageAssumption == MaxPage \in Nat \ {0}
ASSUME KindAssumption == Kind \subseteq {"INDEX", "NODE", "LINK"}
\* No record is larger than a page: `add_chunk` does not check.
ASSUME SizeAssumption ==
  /\ Size \in [Chunk -> Nat \ {0}]
  /\ \A c \in Chunk : Size[c] + LenSize <= Capacity

Page == 1 .. MaxPage
PageNum == 0 .. MaxPage              \* 0: "no page", the end of a list
PageType == Kind \cup {"FREE", "NONE"}

\* page_header_t with the chunks behind it.  Type NONE is a position at which
\* the file has no page: beyond its end.
Header == [type : PageType, next : PageNum, prev : PageNum,
           free_space : Nat, chunks : Seq(Chunk)]

Schema == [first_index : PageNum, free_page : PageNum,
           cnt_free : Nat, last_page_num : PageNum]

NoPage ==
  [type |-> "NONE", next |-> 0, prev |-> 0, free_space |-> 0, chunks |-> <<>>]

\* alloc_header, and what free_page leaves of a header.
FreeHeader(nxt) ==
  [type |-> "FREE", next |-> nxt, prev |-> 0,
   free_space |-> Capacity, chunks |-> <<>>]

-----------------------------------------------------------------------------
(* Header writes.  A neighbour number 0 is tested for in the code, or the  *)
(* write goes to the header of page 0, whose links nobody reads and which  *)
(* the next `save` resets.                                                 *)

SetNext(d, p, v) == IF p = 0 THEN d ELSE [d EXCEPT ![p].next = v]
SetPrev(d, p, v) == IF p = 0 THEN d ELSE [d EXCEPT ![p].prev = v]

(* add_chunk, delete_chunk and the in-place replacement of schema.c, on a  *)
(* page held in memory.                                                    *)

Fits(page, c) == page.free_space >= Size[c] + LenSize

WithChunk(page, c) ==
  [page EXCEPT !.chunks = Append(@, c),
               !.free_space = @ - (Size[c] + LenSize)]

\* Mistake: the length field is not given back.
WithoutChunkOnly(page, i) ==
  [page EXCEPT !.chunks = RemoveAt(@, i),
               !.free_space = @ + Size[page.chunks[i]]]

WithoutChunk(page, i) ==
  [page EXCEPT !.chunks = RemoveAt(@, i),
               !.free_space = @ + Size[page.chunks[i]] + LenSize]

ReplacementFits(page, i, c) ==
  page.free_space + Size[page.chunks[i]] >= Size[c]

WithReplaced(page, i, c) ==
  [page EXCEPT !.chunks[i] = c,
               !.free_space = @ + Size[page.chunks[i]] - Size[c]]

-----------------------------------------------------------------------------
(* get_free_page: the first page of the free list, or a new last page.     *)

AllocNum(sch) ==
  IF sch.free_page # 0 THEN sch.free_page ELSE sch.last_page_num + 1

\* The page handed to the caller, in memory: a page taken from the free list
\* is not written back until the caller adds a chunk to it.
AllocPage(d, sch) ==
  IF sch.free_page # 0 THEN d[sch.free_page] ELSE FreeHeader(0)

AllocDisk(d, sch) ==
  IF sch.free_page # 0 THEN SetPrev(d, d[sch.free_page].next, 0) ELSE d

\* Mistake: a page taken from the free list is still counted as free.
AllocUncounted(d, sch) ==
  IF sch.free_page # 0
  THEN [sch EXCEPT !.free_page = d[sch.free_page].next]
  ELSE [sch EXCEPT !.last_page_num = @ + 1]

AllocSchema(d, sch) ==
  IF sch.free_page # 0
  THEN [sch EXCEPT !.free_page = d[sch.free_page].next, !.cnt_free = @ - 1]
  ELSE [sch EXCEPT !.last_page_num = @ + 1]

(* free_page: page num leaves its list and becomes the first free page.    *)

\* Mistakes: only one of the two neighbours is told.
UnlinkedFromNext(d, num) == SetPrev(d, d[num].next, d[num].prev)
UnlinkedFromPrev(d, num) == SetNext(d, d[num].prev, d[num].next)

Unlinked(d, num) ==
  SetNext(SetPrev(d, d[num].next, d[num].prev), d[num].prev, d[num].next)

FreedDisk(d, sch, num) ==
  SetPrev([Unlinked(d, num) EXCEPT ![num] = FreeHeader(sch.free_page)],
          sch.free_page, num)

\* Mistake: the new free page is not counted.
FreedUncounted(d, sch, num) ==
  [sch EXCEPT !.first_index = IF num = @ THEN d[num].next ELSE @,
              !.free_page = num]

FreedSchema(d, sch, num) ==
  [sch EXCEPT !.cnt_free = @ + 1,
              !.first_index = IF num = @ THEN d[num].next ELSE @,
              !.free_page = num]

\* Mistake: off by one.
ShrinkDueLate(sch) == sch.cnt_free > sch.last_page_num \div 2

\* free_page compacts the file once half of its pages are free.
ShrinkDue(sch) == sch.cnt_free >= sch.last_page_num \div 2

(* shrink: one relocation, and the truncation at the end.                  *)

\* Mistake: the page in front of the moved one keeps the old number.
MovedBehindPrev(d, from, to) ==
  [SetPrev(d, d[from].next, to) EXCEPT ![to] = d[from]]

MovedDisk(d, from, to) ==
  [SetNext(SetPrev(d, d[from].next, to), d[from].prev, to)
     EXCEPT ![to] = d[from]]

\* Mistake: the head of the index list keeps the old number.
MovedKeepsFirst(d, sch, from, to) == sch

MovedSchema(d, sch, from, to) ==
  [sch EXCEPT !.first_index =
                IF d[from].type = "INDEX" /\ from = @ THEN to ELSE @]

CutAt(sch) == sch.last_page_num - sch.cnt_free

TruncatedDisk(d, sch) == [p \in Page |-> IF p <= CutAt(sch) THEN d[p] ELSE NoPage]

TruncatedSchema(sch) ==
  [sch EXCEPT !.last_page_num = CutAt(sch), !.cnt_free = 0, !.free_page = 0]

-----------------------------------------------------------------------------
(* Following a list: the page numbers reached from h by next_page, in the  *)
(* order `find` visits them.  A list that loops has more than MaxPage      *)
(* entries.                                                                *)

\* walk[n][p]: the first n pages of the list that starts at page p.
PagesFrom(d, h) ==
  LET walk[n \in 0 .. MaxPage + 1] ==
        [p \in PageNum |-> IF p = 0 \/ n = 0 THEN <<>>
                           ELSE <<p>> \o walk[n - 1][d[p].next]]
  IN  walk[MaxPage + 1][h]

(* All of shrink, for the callers that take it as one step: `at` is the     *)
(* state of its loop, and p runs down from the end of the file.            *)

\* Mistake: a free page above p is not skipped.
RelocatedUpwards(at, p) ==
  IF at.disk[p].type = "FREE" THEN at
  ELSE IF at.free_num = 0 THEN at
  ELSE [disk |-> MovedDisk(at.disk, p, at.free_num),
        schema |-> MovedSchema(at.disk, at.schema, p, at.free_num),
        free_num |-> at.disk[at.free_num].next]

Relocated(at, p) ==
  LET free == PagesFrom(at.disk, at.free_num)
      below == SelectInSeq(free, LAMBDA f : f <= p)
  IN  IF at.disk[p].type = "FREE" THEN at
      ELSE IF below = 0 THEN [at EXCEPT !.free_num = 0]
      ELSE [disk |-> MovedDisk(at.disk, p, free[below]),
            schema |-> MovedSchema(at.disk, at.schema, p, free[below]),
            free_num |-> at.disk[free[below]].next]

ShrunkFrom(d, sch, from, free) ==
  LET done == FoldLeft(Relocated, [disk |-> d, schema |-> sch, free_num |-> free],
                       [k \in 1 .. from |-> from + 1 - k])
  IN  [disk |-> TruncatedDisk(done.disk, done.schema),
       schema |-> TruncatedSchema(done.schema)]

Shrunk(d, sch) == ShrunkFrom(d, sch, sch.last_page_num, sch.free_page)
=============================================================================
