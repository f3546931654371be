-------------------------- MODULE PageStoreProofs ---------------------------
(***************************************************************************)
(* Proofs about the page store, for every file size, every set of records  *)
(* and every set of record sizes that fit into a page.                     *)
(*                                                                         *)
(* The properties of PageStore are not inductive: that a relocation of     *)
(* `shrink` patches the right neighbours needs a free page that is not a   *)
(* neighbour and a list that does not run into itself, and that no free    *)
(* page is missed needs the order of the free list.  IInv adds these as    *)
(* two hidden witnesses: a rank that grows along every list of records     *)
(* (Ordered), and the sequence of the free pages that are still to be used *)
(* (FreeChain).  Both are rebuilt by each step; the proofs of the steps    *)
(* are mostly about them.                                                  *)
(***************************************************************************)
EXTENDS PageStore, PageFileProofs

\* The page that `add_node`, `add_link` and `add_index` put in front of list h.
LEMMA NewHeadFacts ==
  ASSUME NEW d \in [Page -> Header], NEW sch \in Schema,
         NEW k \in Kind, NEW h \in PageNum, NEW c \in Chunk,
         AllocNum(sch) <= MaxPage, h # AllocNum(sch),
         sch.free_page # 0 => /\ d[sch.free_page].type = "FREE"
                              /\ Blank(d[sch.free_page])
                              /\ d[sch.free_page].next # 0 =>
                                   d[d[sch.free_page].next].type = "FREE",
         NEW n, n = AllocNum(sch),
         NEW D, D = NewHeadDisk(d, sch, k, h, c)
  PROVE  /\ n \in Page
         /\ D \in [Page -> Header]
         /\ D[n].type = k /\ D[n].next = h /\ D[n].prev = 0
         /\ Accounted(D[n]) /\ D[n].chunks # <<>>
         /\ D[n].chunks = Append(<<>>, c)
         /\ \A q \in Page \ {n} :
              /\ D[q].type = d[q].type
              /\ D[q].next = d[q].next
              /\ D[q].free_space = d[q].free_space
              /\ D[q].chunks = d[q].chunks
              /\ d[q].type # "FREE" =>
                   D[q].prev = IF q = h THEN n ELSE d[q].prev
<1>1. n \in Page
  BY ConstantFacts DEF AllocNum, Schema, Page, PageNum
<1>2. 0 \in PageNum /\ n \in PageNum /\ Page \subseteq PageNum
  BY <1>1, ConstantFacts DEF Page, PageNum
<1>3. /\ AllocDisk(d, sch) \in [Page -> Header]
      /\ \A q \in Page :
           /\ AllocDisk(d, sch)[q].type = d[q].type
           /\ AllocDisk(d, sch)[q].next = d[q].next
           /\ AllocDisk(d, sch)[q].free_space = d[q].free_space
           /\ AllocDisk(d, sch)[q].chunks = d[q].chunks
           /\ d[q].type # "FREE" => AllocDisk(d, sch)[q].prev = d[q].prev
  <2>1. CASE sch.free_page = 0
    BY <2>1 DEF AllocDisk
  <2>2. CASE sch.free_page # 0
    <3>1. sch.free_page \in Page
      BY <2>2, ConstantFacts DEF Schema, Page, PageNum
    <3>2. d[sch.free_page].next \in PageNum
      BY <3>1 DEF Header
    <3>3. AllocDisk(d, sch) = SetPrev(d, d[sch.free_page].next, 0)
      BY <2>2 DEF AllocDisk
    <3>4. \A q \in Page : q = d[sch.free_page].next => d[q].type = "FREE"
      BY <2>2, ConstantFacts DEF Page
    <3> DEFINE m == d[sch.free_page].next
    <3>5. /\ SetPrev(d, m, 0) \in [Page -> Header]
          /\ \A q \in Page :
               /\ SetPrev(d, m, 0)[q].type = d[q].type
               /\ SetPrev(d, m, 0)[q].next = d[q].next
               /\ SetPrev(d, m, 0)[q].free_space = d[q].free_space
               /\ SetPrev(d, m, 0)[q].chunks = d[q].chunks
               /\ SetPrev(d, m, 0)[q].prev = IF q = m THEN 0 ELSE d[q].prev
      <4>. HIDE DEF m
      <4>. QED BY <1>2, <3>2, SetPrevFacts, SMTT(60) DEF m
    <3>. HIDE DEF m
    <3>6. AllocDisk(d, sch) = SetPrev(d, m, 0) /\ \A q \in Page : q = m => d[q].type = "FREE"
      BY <3>3, <3>4 DEF m
    <3>. QED BY <3>5, <3>6
  <2>. QED BY <2>1, <2>2
<1>4. AllocPage(d, sch) \in Header /\ Blank(AllocPage(d, sch))
  <2>1. CASE sch.free_page = 0
    <3>1. FreeHeader(0) \in Header /\ Blank(FreeHeader(0))
      BY <1>2, FreeHeaderFacts DEF FreeHeader, Blank
    <3>. QED BY <2>1, <3>1 DEF AllocPage
  <2>2. CASE sch.free_page # 0
    <3>1. sch.free_page \in Page
      BY <2>2, ConstantFacts DEF Schema, Page, PageNum
    <3>. QED BY <2>2, <3>1 DEF AllocPage
  <2>. QED BY <2>1, <2>2
<1> DEFINE page == [AllocPage(d, sch) EXCEPT !.type = k, !.next = h, !.prev = 0]
           E == SetPrev(AllocDisk(d, sch), h, n)
<1>5. /\ page \in Header /\ Blank(page)
      /\ page.type = k /\ page.next = h /\ page.prev = 0
  BY <1>2, <1>4 DEF Header, PageType, Blank
<1>6. Fits(page, c)
  BY <1>5, SizeAssumption DEF Fits, Blank
<1>7. /\ WithChunk(page, c) \in Header
      /\ WithChunk(page, c).type = k
      /\ WithChunk(page, c).next = h
      /\ WithChunk(page, c).prev = 0
      /\ Accounted(WithChunk(page, c)) /\ WithChunk(page, c).chunks # <<>>
      /\ WithChunk(page, c).chunks = Append(<<>>, c)
  <2>. HIDE DEF page
  <2>1. WithChunk(page, c).chunks = Append(<<>>, c)
    BY <1>5 DEF WithChunk, Blank, Header
  <2>. QED BY <1>5, <1>6, <2>1, WithChunkFacts, BlankAccounted, WithChunkAccounted
<1>8. /\ E \in [Page -> Header]
      /\ \A q \in Page :
           /\ E[q].type = d[q].type
           /\ E[q].next = d[q].next
           /\ E[q].free_space = d[q].free_space
           /\ E[q].chunks = d[q].chunks
           /\ d[q].type # "FREE" =>
                E[q].prev = IF q = h THEN n ELSE d[q].prev
  BY <1>2, <1>3, SetPrevFacts
<1>9. D = [E EXCEPT ![n] = WithChunk(page, c)]
  BY DEF NewHeadDisk
<1>10. D \in [Page -> Header]
  <2>. HIDE DEF E, page
  <2>. QED BY <1>1, <1>7, <1>8, <1>9
<1>11. D[n] = WithChunk(page, c) /\ \A q \in Page \ {n} : D[q] = E[q]
  <2>. HIDE DEF E, page
  <2>. QED BY <1>1, <1>8, <1>9
<1>. HIDE DEF E, page
<1>12. D[n].chunks = Append(<<>>, c)
  BY <1>7, <1>11
<1>13. /\ D[n].type = k /\ D[n].next = h /\ D[n].prev = 0
       /\ Accounted(D[n]) /\ D[n].chunks # <<>>
  BY <1>7, <1>11
<1>14. \A q \in Page \ {n} :
         /\ D[q].type = d[q].type
         /\ D[q].next = d[q].next
         /\ D[q].free_space = d[q].free_space
         /\ D[q].chunks = d[q].chunks
         /\ d[q].type # "FREE" => D[q].prev = IF q = h THEN n ELSE d[q].prev
  BY <1>8, <1>11
<1>. QED BY <1>1, <1>10, <1>12, <1>13, <1>14

-----------------------------------------------------------------------------
(* The inductive invariant.                                                *)

\* A free page is empty.
EmptyFree == \A p \in Page : disk[p].type = "FREE" => Blank(disk[p])

\* The other pages have records, and the room that these leave.
SpaceOK == \A p \in Live : Accounted(disk[p]) /\ disk[p].chunks # <<>>

PhaseOK == pc = "shrink" => last <= schema.last_page_num

FirstIndexOK ==
  schema.first_index # 0 => /\ schema.first_index \in Live
                            /\ disk[schema.first_index].type = "INDEX"
                            /\ disk[schema.first_index].prev = 0

\* There is one list of index pages, the one that schema->first_index heads.
OneIndexHead ==
  \A p \in Live : disk[p].type = "INDEX" /\ disk[p].prev = 0 => p = schema.first_index

\* Lists do not loop: along them some number of the pages grows.
Ranked(r) ==
  \A p \in Live : disk[p].next # 0 => r[p] < r[disk[p].next]

Ordered == \E r \in [Page -> Int] : Ranked(r)

\* The free list that is still to be used: all of it, or inside shrink what
\* free_num has ahead.  It has every free page up to `last`, each of them once.
ChainHead == IF pc = "shrink" THEN free_num ELSE schema.free_page

Chain(n, s) ==
  /\ \A i, j \in 1 .. n : s[i] = s[j] => i = j
  /\ ChainHead = IF n = 0 THEN 0 ELSE s[1]
  /\ \A i \in 1 .. n :
       /\ disk[s[i]].type = "FREE"
       /\ s[i] <= schema.last_page_num
       /\ disk[s[i]].next = IF i = n THEN 0 ELSE s[i+1]
  /\ \A p \in FreePages : \E i \in 1 .. n : s[i] = p

FreeChain == \E n \in Nat : \E s \in [1 .. n -> Page] : Chain(n, s)

IInv ==
  /\ TypeOK
  /\ PhaseOK
  /\ PagesAccounted
  /\ LinksMutual
  /\ EmptyFree
  /\ SpaceOK
  /\ FirstIndexOK
  /\ OneIndexHead
  /\ Ordered
  /\ FreeChain
  /\ SavedAtRest
  /\ FewFreeAtRest

\* The invariant holds of the empty file that init_db creates.
LEMMA InitIInv == Init => IInv
<1> SUFFICES ASSUME Init PROVE IInv
  OBVIOUS
<1>. USE DEF Init
<1>1. 0 \in PageNum /\ Page \subseteq Nat \ {0}
  BY ConstantFacts DEF PageNum, Page
<1>2. NoPage \in Header
  BY <1>1 DEF NoPage, Header, PageType
<1>3. TypeOK
  BY <1>1, <1>2 DEF TypeOK, Schema
<1>4. Live = {} /\ FreePages = {}
  <2>1. Bound = 0
    BY DEF Bound
  <2>2. \A p \in Page : ~ (p <= Bound)
    BY <1>1, <2>1
  <2>. QED BY <2>2 DEF Live, FreePages
<1>5. PagesAccounted
  BY <1>1, <1>4, FS_EmptySet DEF PagesAccounted, Bound
<1>6. LinksMutual /\ FirstIndexOK /\ PhaseOK /\ SavedAtRest /\ FewFreeAtRest
  BY <1>4 DEF LinksMutual, FirstIndexOK, PhaseOK, SavedAtRest, FewFreeAtRest
<1>7. EmptyFree /\ SpaceOK /\ OneIndexHead
  BY <1>4 DEF EmptyFree, NoPage, SpaceOK, OneIndexHead
<1>8. Ordered
  <2>1. [p \in Page |-> 0] \in [Page -> Int]
    OBVIOUS
  <2>2. Ranked([p \in Page |-> 0])
    BY <1>4 DEF Ranked
  <2>. QED BY <2>1, <2>2 DEF Ordered
<1>9. FreeChain
  <2> DEFINE s == [i \in 1 .. 0 |-> 1]
  <2>1. s \in [1 .. 0 -> Page]
    OBVIOUS
  <2>2. Chain(0, s)
    BY <1>4 DEF Chain, ChainHead
  <2>. QED BY <2>1, <2>2 DEF FreeChain
<1>. QED BY <1>3, <1>5, <1>6, <1>7, <1>8, <1>9 DEF IInv

-----------------------------------------------------------------------------
(* What the invariant says of a state.                                     *)

LEMMA LiveFacts ==
  ASSUME TypeOK
  PROVE  /\ Live \subseteq Page /\ FreePages \subseteq Page
         /\ Page \subseteq Nat \ {0}
         /\ IsFiniteSet(Live)
         /\ Cardinality(Live) \in Nat
         /\ \A p \in Live : /\ disk[p].type \in Kind /\ disk[p].type # "FREE"
                            /\ p <= Bound
         /\ Live \cap FreePages = {}
<1>1. Live \subseteq Page /\ FreePages \subseteq Page /\ Page \subseteq Nat \ {0}
  BY ConstantFacts DEF Live, FreePages, Page
<1>2. IsFiniteSet(Page)
  BY ConstantFacts, FS_Interval DEF Page
<1>3. IsFiniteSet(Live) /\ Cardinality(Live) \in Nat
  BY <1>1, <1>2, FS_Subset, FS_CardinalityType
<1>. QED BY <1>1, <1>3, ConstantFacts DEF Live, FreePages

\* No page is its own neighbour.
LEMMA NoSelfLink ==
  ASSUME IInv, NEW p \in Live
  PROVE  disk[p].next # p /\ disk[p].prev # p
<1>1. PICK r \in [Page -> Int] : Ranked(r)
  BY DEF IInv, Ordered
<1>2. p \in Page /\ p # 0
  BY LiveFacts DEF IInv
<1>3. disk[p].next # p
  BY <1>1, <1>2 DEF Ranked
<1>. QED BY <1>2, <1>3 DEF IInv, LinksMutual

\* An empty free list means that no page up to Bound is free.
LEMMA NoFreePages ==
  ASSUME IInv, ChainHead = 0
  PROVE  /\ FreePages = {}
         /\ \A p \in Page : p <= Bound => p \in Live
<1>1. PICK n \in Nat : \E s \in [1 .. n -> Page] : Chain(n, s)
  BY DEF IInv, FreeChain
<1>2. PICK s \in [1 .. n -> Page] : Chain(n, s)
  BY <1>1
<1>3. n = 0
  BY <1>2, LiveFacts DEF Chain, IInv
<1>4. FreePages = {}
  BY <1>2, <1>3 DEF Chain
<1>. QED BY <1>4 DEF IInv, PagesAccounted

\* Between queries the head of the free list, if there is one, is an empty free
\* page of the file, and the page behind it is free too.
LEMMA IdleFree ==
  ASSUME IInv, pc = "idle", schema.free_page # 0
  PROVE  /\ schema.free_page \in FreePages
         /\ schema.free_page \in Page
         /\ schema.free_page <= schema.last_page_num
         /\ disk[schema.free_page].type = "FREE"
         /\ Blank(disk[schema.free_page])
         /\ disk[schema.free_page].next # 0 =>
              disk[disk[schema.free_page].next].type = "FREE"
<1>1. PICK n \in Nat : \E s \in [1 .. n -> Page] : Chain(n, s)
  BY DEF IInv, FreeChain
<1>2. PICK s \in [1 .. n -> Page] : Chain(n, s)
  BY <1>1
<1>3. n > 0 /\ schema.free_page = s[1]
  BY <1>2 DEF Chain, ChainHead
<1>4. /\ disk[s[1]].type = "FREE" /\ s[1] <= schema.last_page_num
      /\ s[1] \in Page
      /\ disk[s[1]].next # 0 => disk[disk[s[1]].next].type = "FREE"
  BY <1>2, <1>3 DEF Chain
<1>. QED BY <1>3, <1>4 DEF FreePages, Bound, EmptyFree, IInv

-----------------------------------------------------------------------------
(* Steps that change the records of a page and no link: AddToHead, Replace, *)
(* DeleteOne, Reopen.                                                      *)

\* A step that changes records but no type, link or counter keeps the invariant:
\* it may save the schema, as add_index does.
LEMMA RecordStep ==
  ASSUME IInv, TypeOK',
         UNCHANGED <<schema, pc, last, free_num>>,
         saved' = saved \/ saved' = schema,
         \A p \in Page :
           /\ disk'[p].type = disk[p].type
           /\ disk'[p].next = disk[p].next
           /\ disk'[p].prev = disk[p].prev
           /\ disk[p].type = "FREE" => disk'[p] = disk[p],
         \A p \in Live : Accounted(disk'[p]) /\ disk'[p].chunks # <<>>
  PROVE  IInv'
<1>1. Bound' = Bound /\ Live' = Live /\ FreePages' = FreePages /\ ChainHead' = ChainHead
  BY DEF Bound, Live, FreePages, ChainHead
<1>2. Live \subseteq Page /\ \A p \in Live : p # 0
  BY LiveFacts DEF IInv
<1>3. PhaseOK' /\ PagesAccounted' /\ SavedAtRest' /\ FewFreeAtRest'
  BY <1>1 DEF IInv, PhaseOK, PagesAccounted, SavedAtRest, FewFreeAtRest
<1>4. LinksMutual'
  BY <1>1, <1>2 DEF IInv, LinksMutual
<1>5. EmptyFree' /\ SpaceOK' /\ FirstIndexOK' /\ OneIndexHead'
  BY <1>1, <1>2 DEF IInv, EmptyFree, SpaceOK, FirstIndexOK, OneIndexHead
<1>6. Ordered'
  <2>1. PICK r \in [Page -> Int] : Ranked(r)
    BY DEF IInv, Ordered
  <2>2. Ranked(r)'
    BY <1>1, <1>2, <2>1 DEF Ranked
  <2>. QED BY <2>2 DEF Ordered
<1>7. FreeChain'
  <2>1. PICK n \in Nat : \E s \in [1 .. n -> Page] : Chain(n, s)
    BY DEF IInv, FreeChain
  <2>2. PICK s \in [1 .. n -> Page] : Chain(n, s)
    BY <2>1
  <2>3. \A i \in 1 .. n : s[i] \in Page
    OBVIOUS
  <2>4. Chain(n, s)'
    BY <1>1, <2>2, <2>3 DEF Chain
  <2>. QED BY <2>4 DEF FreeChain
<1>. QED BY <1>3, <1>4, <1>5, <1>6, <1>7 DEF IInv

\* Starting a query from page 0 changes nothing, because page 0 was saved.
LEMMA ReopenStep == IInv /\ Reopen => IInv'
<1> SUFFICES ASSUME IInv, Reopen PROVE IInv'
  OBVIOUS
<1>1. schema' = schema
  BY DEF IInv, SavedAtRest, Reopen
<1>2. TypeOK'
  BY <1>1 DEF Reopen, IInv, TypeOK
<1>3. \A p \in Live : Accounted(disk'[p]) /\ disk'[p].chunks # <<>>
  BY DEF Reopen, IInv, SpaceOK
<1>. QED BY <1>1, <1>2, <1>3, RecordStep DEF Reopen

\* A page is rewritten with other records and the same links.
LEMMA OnePageStep ==
  ASSUME IInv, NEW p \in Live, NEW page \in Header,
         page.type = disk[p].type, page.next = disk[p].next,
         page.prev = disk[p].prev,
         Accounted(page), page.chunks # <<>>,
         disk' = [disk EXCEPT ![p] = page],
         UNCHANGED <<schema, pc, last, free_num>>,
         saved' = saved \/ saved' = schema
  PROVE  IInv'
<1>1. p \in Page /\ disk \in [Page -> Header] /\ disk[p].type # "FREE"
  BY LiveFacts DEF IInv, TypeOK
<1>2. \A q \in Page : disk'[q] = IF q = p THEN page ELSE disk[q]
  BY <1>1
<1>3. TypeOK'
  BY <1>1 DEF IInv, TypeOK
<1>4. \A q \in Live : Accounted(disk'[q]) /\ disk'[q].chunks # <<>>
  BY <1>2, LiveFacts DEF IInv, SpaceOK
<1>. QED BY <1>1, <1>2, <1>3, <1>4, RecordStep

\* The page a caller adds a record to is a live head of the record's kind.
LEMMA HeadsForFacts ==
  ASSUME IInv, NEW k \in Kind, NEW h \in HeadsFor(k), h # 0
  PROVE  h \in Live /\ disk[h].type = k /\ disk[h].prev = 0
<1>1. CASE k = "INDEX"
  BY <1>1 DEF HeadsFor, IInv, FirstIndexOK
<1>2. CASE k # "INDEX"
  BY <1>2 DEF HeadsFor, Heads
<1>. QED BY <1>1, <1>2

\* Adding a record that fits into the first page keeps the invariant.
LEMMA AddToHeadStep ==
  ASSUME IInv, NEW k \in Kind, NEW h \in HeadsFor(k), NEW c \in Chunk,
         AddToHead(k, h, c)
  PROVE  IInv'
<1>1. h \in Live
  BY HeadsForFacts DEF AddToHead
<1>2. disk[h] \in Header
  BY <1>1, LiveFacts DEF IInv, TypeOK
<1>3. /\ WithChunk(disk[h], c) \in Header
      /\ WithChunk(disk[h], c).type = disk[h].type
      /\ WithChunk(disk[h], c).next = disk[h].next
      /\ WithChunk(disk[h], c).prev = disk[h].prev
  BY <1>2, WithChunkFacts DEF AddToHead
<1>4. /\ disk' = [disk EXCEPT ![h] = WithChunk(disk[h], c)]
      /\ saved' = saved \/ saved' = schema
      /\ UNCHANGED <<schema, pc, last, free_num>>
  BY DEF AddToHead
<1>5. Accounted(WithChunk(disk[h], c)) /\ WithChunk(disk[h], c).chunks # <<>>
  BY <1>1, <1>2, WithChunkAccounted DEF IInv, SpaceOK
<1>. QED BY <1>1, <1>3, <1>4, <1>5, OnePageStep

\* Rewriting a record in place keeps the invariant.
LEMMA ReplaceStep ==
  ASSUME IInv, NEW p \in Live, NEW i \in DOMAIN disk[p].chunks, NEW c \in Chunk,
         Replace(p, i, c)
  PROVE  IInv'
<1>1. disk[p] \in Header
  BY LiveFacts DEF IInv, TypeOK
<1>2. /\ WithReplaced(disk[p], i, c) \in Header
      /\ WithReplaced(disk[p], i, c).type = disk[p].type
      /\ WithReplaced(disk[p], i, c).next = disk[p].next
      /\ WithReplaced(disk[p], i, c).prev = disk[p].prev
  BY <1>1, WithReplacedFacts DEF Replace
<1>3. /\ disk' = [disk EXCEPT ![p] = WithReplaced(disk[p], i, c)]
      /\ UNCHANGED <<schema, saved, pc, last, free_num>>
  BY DEF Replace
<1>4. /\ Accounted(WithReplaced(disk[p], i, c))
      /\ WithReplaced(disk[p], i, c).chunks # <<>>
  BY <1>1, WithReplacedAccounted DEF IInv, SpaceOK
<1>. QED BY <1>2, <1>3, <1>4, OnePageStep

\* Deleting one record of several in a page keeps the invariant.
LEMMA DeleteOneStep ==
  ASSUME IInv, NEW p \in Live, NEW i \in DOMAIN disk[p].chunks, DeleteOne(p, i)
  PROVE  IInv'
<1>1. disk[p] \in Header
  BY LiveFacts DEF IInv, TypeOK
<1>2. /\ WithoutChunk(disk[p], i) \in Header
      /\ WithoutChunk(disk[p], i).type = disk[p].type
      /\ WithoutChunk(disk[p], i).next = disk[p].next
      /\ WithoutChunk(disk[p], i).prev = disk[p].prev
  BY <1>1, WithoutChunkFacts
<1>3. /\ disk' = [disk EXCEPT ![p] = WithoutChunk(disk[p], i)]
      /\ UNCHANGED <<schema, saved, pc, last, free_num>>
  BY DEF DeleteOne
<1>4. Accounted(WithoutChunk(disk[p], i)) /\ WithoutChunk(disk[p], i).chunks # <<>>
  BY <1>1, WithoutChunkAccounted DEF IInv, SpaceOK, DeleteOne
<1>. QED BY <1>2, <1>3, <1>4, OnePageStep

-----------------------------------------------------------------------------
(* Steps that take a page from the free list or from the end of the file.   *)

\* cnt_free tells whether the free list is empty, as its head does.
LEMMA CountMatchesList ==
  ASSUME IInv, pc = "idle"
  PROVE  /\ schema.free_page = 0 => schema.cnt_free = 0
         /\ schema.free_page # 0 => schema.cnt_free >= 1
<1>1. /\ schema.last_page_num \in Nat /\ schema.cnt_free \in Nat
      /\ schema.last_page_num <= MaxPage
  BY ConstantFacts DEF IInv, TypeOK, Schema, PageNum
<1>2. Bound = schema.last_page_num
  BY DEF Bound
<1>3. /\ IsFiniteSet(Live) /\ Live \subseteq 1 .. schema.last_page_num
      /\ Cardinality(Live) + schema.cnt_free = schema.last_page_num
  BY <1>1, <1>2, LiveFacts DEF IInv, PagesAccounted
<1>4. /\ IsFiniteSet(1 .. schema.last_page_num)
      /\ Cardinality(1 .. schema.last_page_num) = schema.last_page_num
  <2> DEFINE L == schema.last_page_num
  <2>. HIDE DEF L
  <2>1. L \in Nat
    BY <1>1 DEF L
  <2>2. /\ IsFiniteSet(1 .. L)
        /\ Cardinality(1 .. L) = IF 1 > L THEN 0 ELSE L - 1 + 1
    BY <2>1, FS_Interval
  <2>. QED BY <2>1, <2>2 DEF L
<1>5. CASE schema.free_page = 0
  <2>1. \A p \in Page : p <= schema.last_page_num => p \in Live
    BY <1>2, <1>5, NoFreePages DEF ChainHead
  <2>2. 1 .. schema.last_page_num \subseteq Live
    BY <1>1, <2>1, ConstantFacts DEF Page
  <2>3. Live = 1 .. schema.last_page_num
    BY <1>3, <2>2
  <2>. QED BY <1>1, <1>3, <1>4, <1>5, <2>3
<1>6. CASE schema.free_page # 0
  <2>1. schema.free_page \in 1 .. schema.last_page_num /\ schema.free_page \notin Live
    BY <1>1, <1>6, IdleFree, LiveFacts DEF IInv
  <2>2. Live \cup {schema.free_page} \subseteq 1 .. schema.last_page_num
    BY <1>3, <2>1
  <2>3. Cardinality(Live \cup {schema.free_page}) = Cardinality(Live) + 1
    BY <1>3, <2>1, FS_AddElement
  <2>4. Cardinality(Live \cup {schema.free_page}) <= schema.last_page_num
    BY <1>4, <2>2, FS_Subset
  <2>. QED BY <1>1, <1>3, <1>6, <2>3, <2>4, LiveFacts DEF IInv
<1>. QED BY <1>5, <1>6

\* What add_node, add_link and add_index leave when page n, which held no
\* records, has become the first page of list h.
NewHeadAt(n, k, h, c) ==
  /\ n = IF schema.free_page = 0 THEN schema.last_page_num + 1 ELSE schema.free_page
  /\ n \in Page /\ n \notin Live
  /\ h \in PageNum /\ h # n
  /\ h # 0 => h \in Live /\ disk[h].type = k /\ disk[h].prev = 0
  /\ disk' \in [Page -> Header]
  /\ disk'[n].type = k /\ disk'[n].next = h /\ disk'[n].prev = 0
  /\ disk'[n].chunks = Append(<<>>, c)
  /\ Accounted(disk'[n]) /\ disk'[n].chunks # <<>>
  /\ \A q \in Page \ {n} :
       /\ disk'[q].type = disk[q].type
       /\ disk'[q].next = disk[q].next
       /\ disk'[q].free_space = disk[q].free_space
       /\ disk'[q].chunks = disk[q].chunks
       /\ disk[q].type # "FREE" =>
            disk'[q].prev = IF q = h THEN n ELSE disk[q].prev
  /\ schema' \in Schema
  /\ schema'.last_page_num = IF schema.free_page = 0 THEN schema.last_page_num + 1
                             ELSE schema.last_page_num
  /\ schema'.cnt_free = IF schema.free_page = 0 THEN schema.cnt_free
                        ELSE schema.cnt_free - 1
  /\ schema'.free_page = IF schema.free_page = 0 THEN 0 ELSE disk[schema.free_page].next
  /\ schema'.first_index = IF k = "INDEX" THEN n ELSE schema.first_index
  /\ Live' = Live \cup {n} /\ FreePages' = FreePages \ {n}

LEMMA NewHeadWritten ==
  ASSUME IInv, NEW k \in Kind, NEW h \in HeadsFor(k), NEW c \in Chunk,
         AddInNewHead(k, h, c)
  PROVE  \E n : NewHeadAt(n, k, h, c)
<1>0. PICK n : n = AllocNum(schema)
  OBVIOUS
<1> DEFINE isNew == schema.free_page = 0
<1>1. /\ pc = "idle" /\ n <= MaxPage
      /\ UNCHANGED <<pc, last, free_num>>
      /\ saved' = schema'
  BY <1>0 DEF AddInNewHead
<1>2. /\ schema \in Schema /\ disk \in [Page -> Header]
      /\ Bound = schema.last_page_num /\ Bound' = schema'.last_page_num
      /\ schema.last_page_num \in Nat /\ schema.last_page_num <= MaxPage
      /\ schema.cnt_free \in Nat
  BY <1>1, ConstantFacts DEF IInv, TypeOK, Bound, Schema, PageNum
<1>3. n \notin Live /\ n \in Page
  <2>1. CASE isNew
    BY <1>0, <1>1, <1>2, <2>1, LiveFacts, ConstantFacts DEF IInv, AllocNum, Page
  <2>2. CASE ~ isNew
    BY <1>0, <1>1, <2>2, IdleFree, LiveFacts DEF IInv, AllocNum
  <2>. QED BY <2>1, <2>2
<1>4. h # 0 => h \in Live /\ h # n /\ disk[h].type = k /\ disk[h].prev = 0
  BY <1>3, HeadsForFacts
<1>5. h \in PageNum /\ h # n
  <2>1. n # 0
    BY <1>3, LiveFacts DEF IInv
  <2>2. 0 \in PageNum /\ Live \subseteq PageNum
    BY ConstantFacts, LiveFacts DEF IInv, PageNum, Page
  <2>. QED BY <1>4, <2>1, <2>2
<1>6. /\ disk' \in [Page -> Header]
      /\ disk'[n].type = k /\ disk'[n].next = h /\ disk'[n].prev = 0
      /\ disk'[n].chunks = Append(<<>>, c)
      /\ Accounted(disk'[n]) /\ disk'[n].chunks # <<>>
      /\ \A q \in Page \ {n} :
           /\ disk'[q].type = disk[q].type
           /\ disk'[q].next = disk[q].next
           /\ disk'[q].free_space = disk[q].free_space
           /\ disk'[q].chunks = disk[q].chunks
           /\ disk[q].type # "FREE" =>
                disk'[q].prev = IF q = h THEN n ELSE disk[q].prev
  <2>1. disk' = NewHeadDisk(disk, schema, k, h, c)
    BY DEF AddInNewHead
  <2>2. schema.free_page # 0 =>
          /\ disk[schema.free_page].type = "FREE"
          /\ Blank(disk[schema.free_page])
          /\ disk[schema.free_page].next # 0 =>
               disk[disk[schema.free_page].next].type = "FREE"
    BY <1>1, IdleFree
  <2>. QED BY <1>0, <1>1, <1>2, <1>5, <2>1, <2>2, NewHeadFacts
<1>7. /\ schema' \in Schema
      /\ schema'.last_page_num = IF isNew THEN schema.last_page_num + 1
                                 ELSE schema.last_page_num
      /\ schema'.cnt_free = IF isNew THEN schema.cnt_free ELSE schema.cnt_free - 1
      /\ schema'.free_page = IF isNew THEN 0 ELSE disk[schema.free_page].next
      /\ schema'.first_index = IF k = "INDEX" THEN n ELSE schema.first_index
  <2>1. n \in PageNum /\ n \in Nat
    BY <1>3, ConstantFacts DEF Page, PageNum
  <2>2. schema' = IF k = "INDEX" THEN [AllocSchema(disk, schema) EXCEPT !.first_index = n]
                  ELSE AllocSchema(disk, schema)
    BY <1>0 DEF AddInNewHead
  <2>3. CASE isNew
    <3>1. AllocSchema(disk, schema)
            = [schema EXCEPT !.last_page_num = schema.last_page_num + 1]
      BY <2>3 DEF AllocSchema
    <3>2. schema.last_page_num + 1 \in PageNum
      BY <1>0, <1>1, <2>1, <2>3 DEF AllocNum
    <3>. QED BY <1>2, <2>1, <2>2, <2>3, <3>1, <3>2 DEF Schema
  <2>4. CASE ~ isNew
    <3>1. AllocSchema(disk, schema)
            = [schema EXCEPT !.free_page = disk[schema.free_page].next,
                             !.cnt_free = schema.cnt_free - 1]
      BY <2>4 DEF AllocSchema
    <3>2. schema.cnt_free - 1 \in Nat
      BY <1>1, <1>2, <2>4, CountMatchesList
    <3>3. disk[schema.free_page].next \in PageNum
      BY <1>1, <1>2, <2>4, IdleFree DEF Header
    <3>. QED BY <1>2, <2>1, <2>2, <2>4, <3>1, <3>2, <3>3 DEF Schema
  <2>. QED BY <2>3, <2>4
<1>8. n = IF isNew THEN schema.last_page_num + 1 ELSE schema.free_page
  BY <1>0 DEF AllocNum
<1>9. n <= schema'.last_page_num /\ schema.last_page_num <= schema'.last_page_num
  BY <1>1, <1>2, <1>7, <1>8, IdleFree
<1>10. Live' = Live \cup {n} /\ FreePages' = FreePages \ {n}
  <2>1. \A q \in Page \ {n} : q <= Bound' <=> q <= Bound
    BY <1>2, <1>7, <1>8, LiveFacts DEF IInv
  <2>2. k \in Kind /\ k # "FREE" /\ n <= Bound'
    BY <1>2, <1>9, ConstantFacts
  <2>. QED BY <1>3, <1>6, <2>1, <2>2 DEF Live, FreePages
<1>. QED BY <1>3, <1>4, <1>5, <1>6, <1>7, <1>8, <1>10 DEF NewHeadAt

\* get_free_page, and linking the page in front of its list, keeps the
\* invariant: the rank of the new page is below that of the old head, and the
\* free chain loses its first page.
LEMMA AddInNewHeadStep ==
  ASSUME IInv, NEW k \in Kind, NEW h \in HeadsFor(k), NEW c \in Chunk,
         AddInNewHead(k, h, c)
  PROVE  IInv'
<1>0. PICK n : NewHeadAt(n, k, h, c)
  BY NewHeadWritten
<1>. USE DEF NewHeadAt
<1> DEFINE isNew == schema.free_page = 0
<1>1. /\ pc = "idle"
      /\ UNCHANGED <<pc, last, free_num>>
      /\ saved' = schema'
  BY DEF AddInNewHead
<1>2. /\ schema \in Schema /\ disk \in [Page -> Header]
      /\ Bound = schema.last_page_num /\ Bound' = schema'.last_page_num
      /\ schema.last_page_num \in Nat /\ schema.last_page_num <= MaxPage
      /\ schema.cnt_free \in Nat
  BY <1>1, ConstantFacts DEF IInv, TypeOK, Bound, Schema, PageNum
<1>3. /\ n \in Page /\ n \notin Live
      /\ h # 0 => h \in Live /\ h # n /\ disk[h].type = k /\ disk[h].prev = 0
      /\ Live' = Live \cup {n} /\ FreePages' = FreePages \ {n}
  BY <1>0
<1>10. TypeOK'
  BY <1>0, <1>1 DEF IInv, TypeOK
<1>12. PagesAccounted'
  <2>1. Cardinality(Live') = Cardinality(Live) + 1
    BY <1>3, LiveFacts, FS_AddElement DEF IInv
  <2>2. Cardinality(Live') + schema'.cnt_free = schema'.last_page_num
    BY <1>2, <1>0, <2>1, LiveFacts DEF IInv, PagesAccounted
  <2>3. \A p \in Page : p <= Bound' => p \in Live' \cup FreePages'
    <3>1. \A q \in Page \ {n} : q <= Bound' <=> q <= Bound
      BY <1>2, <1>0, LiveFacts DEF IInv
    <3>. QED BY <1>3, <3>1 DEF IInv, PagesAccounted
  <2>. QED BY <2>2, <2>3 DEF PagesAccounted
<1>13. LinksMutual'
  <2> SUFFICES ASSUME NEW p \in Live'
               PROVE  /\ disk'[p].next # 0 =>
                           /\ disk'[p].next \in Live'
                           /\ disk'[disk'[p].next].prev = p
                           /\ disk'[disk'[p].next].type = disk'[p].type
                      /\ disk'[p].prev # 0 =>
                           /\ disk'[p].prev \in Live'
                           /\ disk'[disk'[p].prev].next = p
    BY DEF LinksMutual
  <2>1. /\ Live \subseteq Page /\ \A q \in Live : disk[q].type # "FREE"
        /\ \A q \in Page : q # 0
    BY LiveFacts DEF IInv
  <2>2. CASE p = n
    BY <1>3, <1>0, <2>1, <2>2
  <2>3. CASE p # n
    <3>1. p \in Live /\ p \in Page \ {n}
      BY <1>3, <2>1, <2>3
    <3>2. disk[p].next # 0 => /\ disk[p].next \in Live
                              /\ disk[disk[p].next].prev = p
                              /\ disk[disk[p].next].type = disk[p].type
      BY <3>1 DEF IInv, LinksMutual
    <3>3. disk[p].prev # 0 => disk[p].prev \in Live /\ disk[disk[p].prev].next = p
      BY <3>1 DEF IInv, LinksMutual
    <3>4. disk[p].next # h \/ h = 0
      BY <1>3, <2>1, <3>1, <3>2
    <3>5. /\ disk'[p].type = disk[p].type /\ disk'[p].next = disk[p].next
          /\ disk'[p].prev = IF p = h THEN n ELSE disk[p].prev
          /\ disk'[n].next = h
          /\ \A q \in Live \ {n} : /\ disk'[q].type = disk[q].type
                                  /\ disk'[q].next = disk[q].next
                                  /\ disk'[q].prev = IF q = h THEN n ELSE disk[q].prev
      BY <1>0, <2>1, <3>1
    <3>. QED BY <1>3, <2>1, <3>1, <3>2, <3>3, <3>4, <3>5
  <2>. QED BY <2>2, <2>3
<1>14. EmptyFree'
  BY <1>0, ConstantFacts DEF IInv, EmptyFree, Blank
<1>15. FirstIndexOK'
  <2>1. CASE k = "INDEX"
    BY <1>0, <1>3, <2>1 DEF FirstIndexOK
  <2>2. CASE k # "INDEX"
    <3>1. schema'.first_index = schema.first_index
      BY <1>0, <2>2
    <3>2. ASSUME schema.first_index # 0
          PROVE  /\ schema.first_index \in Live
                 /\ disk[schema.first_index].type = "INDEX"
                 /\ disk[schema.first_index].prev = 0
      BY <3>2 DEF IInv, FirstIndexOK
    <3>3. schema.first_index # 0 => schema.first_index # h
      BY <1>3, <2>2, <3>2
    <3>4. \A q \in Live \ {h} : disk'[q].type = disk[q].type /\ disk'[q].prev = disk[q].prev
      BY <1>0, LiveFacts DEF IInv
    <3>. QED BY <1>3, <3>1, <3>2, <3>3, <3>4 DEF FirstIndexOK
  <2>. QED BY <2>1, <2>2
<1>16. Ordered'
  <2>1. PICK r \in [Page -> Int] : Ranked(r)
    BY DEF IInv, Ordered
  <2> DEFINE s == [r EXCEPT ![n] = IF h = 0 THEN 0 ELSE r[h] - 1]
  <2>2. h # 0 => h \in Page
    BY <1>3, LiveFacts DEF IInv
  <2>3. s \in [Page -> Int]
    <3> DEFINE v == IF h = 0 THEN 0 ELSE r[h] - 1
    <3>1. v \in Int
      BY <2>2
    <3>. HIDE DEF v
    <3>2. [r EXCEPT ![n] = v] \in [Page -> Int]
      BY <3>1
    <3>. QED BY <3>2 DEF v
  <2>4. Ranked(s)'
    <3> SUFFICES ASSUME NEW p \in Live', disk'[p].next # 0
                 PROVE  s[p] < s[disk'[p].next]
      BY DEF Ranked
    <3>1. CASE p = n
      <4>1. disk'[p].next = h /\ h # 0 /\ h # n
        BY <1>3, <1>0, <3>1
      <4>2. s[p] = r[h] - 1 /\ s[h] = r[h] /\ r[h] \in Int
        BY <1>3, <2>2, <3>1, <4>1
      <4>. QED BY <4>1, <4>2
    <3>2. CASE p # n
      <4>1. p \in Live /\ p \in Page /\ disk'[p].next = disk[p].next
        BY <1>0, <1>3, <3>2, LiveFacts DEF IInv
      <4>2. disk[p].next \in Live /\ disk[p].next # n
        BY <1>3, <4>1 DEF IInv, LinksMutual
      <4>3. disk[p].next \in Page
        BY <4>2, LiveFacts DEF IInv
      <4>4. s[p] = r[p] /\ s[disk[p].next] = r[disk[p].next]
        BY <3>2, <4>1, <4>2, <4>3
      <4>. QED BY <2>1, <4>1, <4>4 DEF Ranked
    <3>. QED BY <3>1, <3>2
  <2>. HIDE DEF s
  <2>. QED BY <2>3, <2>4 DEF Ordered
<1>17. FreeChain'
  <2>1. PICK m \in Nat : \E s \in [1 .. m -> Page] : Chain(m, s)
    BY DEF IInv, FreeChain
  <2>2. PICK s \in [1 .. m -> Page] : Chain(m, s)
    BY <2>1
  <2>3. ChainHead = schema.free_page /\ ChainHead' = schema'.free_page
    BY <1>1 DEF ChainHead
  <2>4. CASE isNew
    <3>1. m = 0
      BY <2>2, <2>3, <2>4, LiveFacts DEF Chain, IInv
    <3>2. Chain(m, s)'
      BY <1>0, <1>3, <2>2, <2>3, <2>4, <3>1 DEF Chain
    <3>. QED BY <3>2 DEF FreeChain
  <2>5. CASE ~ isNew
    <3>1. m \in Nat \ {0} /\ s[1] = n
      BY <1>0, <2>2, <2>3, <2>5 DEF Chain
    <3> DEFINE t == [i \in 1 .. m - 1 |-> s[i+1]]
    <3>2. m - 1 \in Nat /\ t \in [1 .. m - 1 -> Page]
      BY <3>1
    <3>3. \A i \in 1 .. m - 1 : t[i] = s[i+1] /\ i + 1 \in 1 .. m /\ s[i+1] # n
                                /\ s[i+1] \in Page
      BY <2>2, <3>1 DEF Chain
    <3>4. \A i, j \in 1 .. m - 1 : t[i] = t[j] => i = j
      BY <2>2, <3>1, <3>3 DEF Chain
    <3>5. ChainHead' = IF m - 1 = 0 THEN 0 ELSE t[1]
      <4>1. ChainHead' = disk[n].next
        BY <1>0, <2>3, <2>5
      <4>2. disk[n].next = IF 1 = m THEN 0 ELSE s[2]
        BY <2>2, <3>1 DEF Chain
      <4>. QED BY <3>1, <4>1, <4>2
    <3>6. \A i \in 1 .. m - 1 :
            /\ disk'[t[i]].type = "FREE"
            /\ t[i] <= schema'.last_page_num
            /\ disk'[t[i]].next = IF i = m - 1 THEN 0 ELSE t[i+1]
      <4> SUFFICES ASSUME NEW i \in 1 .. m - 1
                   PROVE  /\ disk'[t[i]].type = "FREE"
                          /\ t[i] <= schema'.last_page_num
                          /\ disk'[t[i]].next = IF i = m - 1 THEN 0 ELSE t[i+1]
        OBVIOUS
      <4>1. /\ disk[s[i+1]].type = "FREE"
            /\ s[i+1] <= schema.last_page_num
            /\ disk[s[i+1]].next = IF i + 1 = m THEN 0 ELSE s[i+2]
        BY <2>2, <3>3 DEF Chain
      <4>2. /\ disk'[s[i+1]].type = disk[s[i+1]].type
            /\ disk'[s[i+1]].next = disk[s[i+1]].next
        BY <1>0, <3>3
      <4>3. i # m - 1 => t[i+1] = s[i+2]
        BY <3>1
      <4>4. schema'.last_page_num = schema.last_page_num
        BY <1>0, <2>5
      <4>. QED BY <3>1, <3>3, <4>1, <4>2, <4>3, <4>4
    <3>7. \A p \in FreePages' : \E i \in 1 .. m - 1 : t[i] = p
      <4> SUFFICES ASSUME NEW p \in FreePages'
                   PROVE  \E i \in 1 .. m - 1 : t[i] = p
        OBVIOUS
      <4>1. PICK i \in 1 .. m : s[i] = p
        BY <1>3, <2>2 DEF Chain
      <4>2. i # 1
        BY <1>3, <3>1, <4>1
      <4>3. i - 1 \in 1 .. m - 1 /\ t[i-1] = p
        BY <3>1, <4>1, <4>2
      <4>. QED BY <4>3
    <3>8. Chain(m - 1, t)'
      <4>. HIDE DEF t
      <4>. QED BY <3>4, <3>5, <3>6, <3>7 DEF Chain
    <3>. HIDE DEF t
    <3>. QED BY <3>2, <3>8 DEF FreeChain
  <2>. QED BY <2>4, <2>5
<1>18. FewFreeAtRest'
  <2>1. CASE isNew
    BY <1>1, <1>0, <2>1, CountMatchesList DEF FewFreeAtRest
  <2>2. CASE ~ isNew
    <3>1. schema.cnt_free >= 1
      BY <1>1, <2>2, CountMatchesList
    <3>2. schema.cnt_free < schema.last_page_num \div 2
      BY <1>1, <1>2, <3>1 DEF IInv, FewFreeAtRest
    <3>. QED BY <1>2, <1>0, <2>2, <3>2 DEF FewFreeAtRest
  <2>. QED BY <2>1, <2>2
<1>19. PhaseOK' /\ SavedAtRest'
  BY <1>1 DEF PhaseOK, SavedAtRest
<1>20. SpaceOK'
  <2>1. ASSUME NEW q \in Live, q # n
        PROVE  Accounted(disk'[q]) /\ disk'[q].chunks # <<>>
    BY <1>0, <2>1, LiveFacts, SameAccounted DEF IInv, SpaceOK
  <2>. QED BY <1>0, <1>3, <2>1 DEF SpaceOK
<1>21. OneIndexHead'
  <2> SUFFICES ASSUME NEW q \in Live', disk'[q].type = "INDEX", disk'[q].prev = 0
               PROVE  q = schema'.first_index
    BY DEF OneIndexHead
  <2>1. CASE q = n
    BY <1>0, <2>1
  <2>2. CASE q # n
    <3>1. q \in Live /\ q \in Page /\ disk[q].type = "INDEX" /\ disk[q].type # "FREE"
      BY <1>0, <1>3, <2>2, LiveFacts DEF IInv
    <3>2. q # h /\ disk[q].prev = 0
      BY <1>3, <1>0, <2>2, <3>1, LiveFacts DEF IInv
    <3>3. q = schema.first_index
      BY <3>1, <3>2 DEF IInv, OneIndexHead
    <3>4. k # "INDEX"
      BY <3>2, <3>3 DEF HeadsFor
    <3>. QED BY <1>0, <3>3, <3>4
  <2>. QED BY <2>1, <2>2
<1>. QED BY <1>10, <1>12, <1>13, <1>14, <1>15, <1>16, <1>17, <1>18, <1>19, <1>20, <1>21
         DEF IInv

-----------------------------------------------------------------------------
(* The step that frees a page.                                             *)

\* The two neighbours of a page are different pages.
LEMMA NeighboursDiffer ==
  ASSUME IInv, NEW p \in Live, disk[p].prev # 0
  PROVE  disk[p].prev # disk[p].next
<1>1. PICK r \in [Page -> Int] : Ranked(r)
  BY DEF IInv, Ordered
<1>2. Live \subseteq Page /\ \A q \in Page : q # 0
  BY LiveFacts DEF IInv
<1>3. disk[p].prev \in Live /\ disk[disk[p].prev].next = p
  BY DEF IInv, LinksMutual
<1>4. r[disk[p].prev] < r[p]
  BY <1>1, <1>2, <1>3 DEF Ranked
<1>5. disk[p].next # 0 => r[p] < r[disk[p].next]
  BY <1>1 DEF Ranked
<1>6. r[disk[p].prev] \in Int /\ r[p] \in Int
  BY <1>1, <1>2, <1>3
<1>. QED BY <1>3, <1>4, <1>5, <1>6

\* What free_page leaves: page p is out of its list and in front of the free
\* ones.
PageFreed(p) ==
  /\ disk[p].next # p /\ disk[p].prev # p
  /\ disk[p].next # 0 => /\ disk[p].next \in Live
                         /\ disk[disk[p].next].prev = p
                         /\ disk[disk[p].next].type = disk[p].type
  /\ disk[p].prev # 0 => /\ disk[p].prev \in Live
                         /\ disk[disk[p].prev].next = p
                         /\ disk[p].prev # disk[p].next
  /\ disk' \in [Page -> Header]
  /\ disk'[p].type = "FREE" /\ disk'[p].next = schema.free_page
  /\ Blank(disk'[p])
  /\ \A q \in Page \ {p} :
       /\ disk'[q].type = disk[q].type
       /\ disk'[q].free_space = disk[q].free_space
       /\ disk'[q].chunks = disk[q].chunks
       /\ disk'[q].next = IF q = disk[p].prev THEN disk[p].next ELSE disk[q].next
       /\ disk[q].type # "FREE" =>
            disk'[q].prev = IF q = disk[p].next THEN disk[p].prev ELSE disk[q].prev
  /\ schema' \in Schema
  /\ schema'.cnt_free = schema.cnt_free + 1
  /\ schema'.last_page_num = schema.last_page_num
  /\ schema'.free_page = p
  /\ schema'.first_index = IF p = schema.first_index THEN disk[p].next
                           ELSE schema.first_index
  /\ Live' = Live \ {p} /\ FreePages' = FreePages \cup {p}

LEMMA DeleteLastFrees ==
  ASSUME IInv, NEW p \in Live, DeleteLast(p)
  PROVE  PageFreed(p)
<1>1. /\ pc = "idle"
      /\ disk' = FreedDisk(disk, schema, p)
      /\ schema' = FreedSchema(disk, schema, p)
      /\ saved' = schema'
      /\ \/ /\ ShrinkDue(schema') /\ pc' = "shrink"
            /\ last' = schema'.last_page_num /\ free_num' = schema'.free_page
         \/ /\ ~ ShrinkDue(schema') /\ pc' = "idle"
            /\ last' = last /\ free_num' = free_num
  BY DEF DeleteLast
<1>2. /\ schema \in Schema /\ disk \in [Page -> Header]
      /\ Live \subseteq Page /\ p \in Page
      /\ \A q \in Page : q # 0 /\ q \in Nat
      /\ \A q \in Live : disk[q].type # "FREE" /\ disk[q].type \in Kind
  BY LiveFacts DEF IInv, TypeOK
<1>3. disk[p].next # p /\ disk[p].prev # p
  BY NoSelfLink
<1>4. /\ disk[p].next # 0 => /\ disk[p].next \in Live
                             /\ disk[disk[p].next].prev = p
                             /\ disk[disk[p].next].type = disk[p].type
      /\ disk[p].prev # 0 => /\ disk[p].prev \in Live
                             /\ disk[disk[p].prev].next = p
                             /\ disk[p].prev # disk[p].next
  BY NeighboursDiffer DEF IInv, LinksMutual
<1>5. /\ disk' \in [Page -> Header]
      /\ disk'[p].type = "FREE" /\ disk'[p].next = schema.free_page
      /\ Blank(disk'[p])
      /\ \A q \in Page \ {p} :
           /\ disk'[q].type = disk[q].type
           /\ disk'[q].free_space = disk[q].free_space
           /\ disk'[q].chunks = disk[q].chunks
           /\ disk'[q].next = IF q = disk[p].prev THEN disk[p].next ELSE disk[q].next
           /\ disk[q].type # "FREE" =>
                disk'[q].prev = IF q = disk[p].next THEN disk[p].prev ELSE disk[q].prev
  <2>1. schema.free_page # 0 => disk[schema.free_page].type = "FREE"
    BY <1>1, IdleFree
  <2>. QED BY <1>1, <1>2, <1>3, <2>1, FreedFacts
<1>6. /\ schema' \in Schema
      /\ schema'.cnt_free = schema.cnt_free + 1
      /\ schema'.last_page_num = schema.last_page_num
      /\ schema'.free_page = p
      /\ schema'.first_index = IF p = schema.first_index THEN disk[p].next
                               ELSE schema.first_index
  <2>1. p \in PageNum /\ disk[p].next \in PageNum
    BY <1>2, ConstantFacts DEF Page, PageNum, Header
  <2> DEFINE f == IF p = schema.first_index THEN disk[p].next ELSE schema.first_index
  <2>2. f \in PageNum
    BY <1>2, <2>1 DEF Schema
  <2>3. schema' = [schema EXCEPT !.cnt_free = schema.cnt_free + 1,
                                 !.first_index = f, !.free_page = p]
    BY <1>1 DEF FreedSchema
  <2>4. schema.cnt_free + 1 \in Nat
    BY <1>2 DEF Schema
  <2>. HIDE DEF f
  <2>5. /\ schema' \in Schema
        /\ schema'.cnt_free = schema.cnt_free + 1
        /\ schema'.last_page_num = schema.last_page_num
        /\ schema'.free_page = p
        /\ schema'.first_index = f
    BY <1>2, <2>1, <2>2, <2>3, <2>4 DEF Schema
  <2>. QED BY <2>5 DEF f
<1>7. /\ Bound = schema.last_page_num /\ Bound' = schema.last_page_num
      /\ ChainHead = schema.free_page /\ ChainHead' = p
      /\ p <= Bound
  BY <1>1, <1>6, LiveFacts DEF Bound, ChainHead, IInv
<1>8. Live' = Live \ {p} /\ FreePages' = FreePages \cup {p}
  BY <1>2, <1>5, <1>7, ConstantFacts DEF Live, FreePages
<1>. QED BY <1>3, <1>4, <1>5, <1>6, <1>8 DEF PageFreed

\* free_page keeps the invariant, whether or not it enters shrink: the chain of
\* free pages gets the freed page in front.
LEMMA DeleteLastStep ==
  ASSUME IInv, NEW p \in Live, DeleteLast(p)
  PROVE  IInv'
<1>0. PageFreed(p)
  BY DeleteLastFrees
<1>. USE DEF PageFreed
<1>1. /\ pc = "idle"
      /\ saved' = schema'
      /\ \/ /\ ShrinkDue(schema') /\ pc' = "shrink"
            /\ last' = schema'.last_page_num /\ free_num' = schema'.free_page
         \/ /\ ~ ShrinkDue(schema') /\ pc' = "idle"
            /\ last' = last /\ free_num' = free_num
  BY DEF DeleteLast
<1>2. /\ schema \in Schema /\ disk \in [Page -> Header]
      /\ Live \subseteq Page /\ p \in Page
      /\ \A q \in Page : q # 0 /\ q \in Nat
      /\ \A q \in Live : disk[q].type # "FREE" /\ disk[q].type \in Kind
  BY LiveFacts DEF IInv, TypeOK
<1>7. /\ Bound = schema.last_page_num /\ Bound' = schema.last_page_num
      /\ ChainHead = schema.free_page /\ ChainHead' = p
      /\ p <= Bound
  BY <1>1, <1>0, LiveFacts DEF Bound, ChainHead, IInv
<1>9. TypeOK'
  BY <1>1, <1>0 DEF IInv, TypeOK, Schema
<1>10. PagesAccounted'
  <2>1. Cardinality(Live') = Cardinality(Live) - 1
    BY <1>0, LiveFacts, FS_RemoveElement DEF IInv
  <2>2. Cardinality(Live') + schema'.cnt_free = schema'.last_page_num
    BY <1>2, <1>0, <2>1, LiveFacts DEF IInv, PagesAccounted, Schema
  <2>. QED BY <1>7, <1>0, <2>2 DEF IInv, PagesAccounted
<1>11. LinksMutual'
  <2> SUFFICES ASSUME NEW q \in Live'
               PROVE  /\ disk'[q].next # 0 =>
                           /\ disk'[q].next \in Live'
                           /\ disk'[disk'[q].next].prev = q
                           /\ disk'[disk'[q].next].type = disk'[q].type
                      /\ disk'[q].prev # 0 =>
                           /\ disk'[q].prev \in Live'
                           /\ disk'[disk'[q].prev].next = q
    BY DEF LinksMutual
  <2>1. q \in Live /\ q # p /\ q \in Page
    BY <1>2, <1>0
  <2>2. /\ disk[q].next # 0 => /\ disk[q].next \in Live
                               /\ disk[disk[q].next].prev = q
                               /\ disk[disk[q].next].type = disk[q].type
        /\ disk[q].prev # 0 => disk[q].prev \in Live /\ disk[disk[q].prev].next = q
    BY <2>1 DEF IInv, LinksMutual
  <2>3. disk'[q].next # 0 => /\ disk'[q].next \in Live'
                             /\ disk'[disk'[q].next].prev = q
                             /\ disk'[disk'[q].next].type = disk'[q].type
    <3>1. CASE q = disk[p].prev
      BY <1>2, <1>0, <2>1, <2>2, <3>1
    <3>2. CASE q # disk[p].prev
      BY <1>2, <1>0, <2>1, <2>2, <3>2
    <3>. QED BY <3>1, <3>2
  <2>4. disk'[q].prev # 0 => disk'[q].prev \in Live' /\ disk'[disk'[q].prev].next = q
    <3>1. CASE q = disk[p].next
      BY <1>2, <1>0, <2>1, <2>2, <3>1
    <3>2. CASE q # disk[p].next
      BY <1>2, <1>0, <2>1, <2>2, <3>2
    <3>. QED BY <3>1, <3>2
  <2>. QED BY <2>3, <2>4
<1>12. EmptyFree'
  BY <1>0 DEF IInv, EmptyFree, Blank
<1>13. FirstIndexOK'
  <2>1. CASE p = schema.first_index
    BY <1>2, <1>0, <2>1 DEF IInv, FirstIndexOK
  <2>2. CASE p # schema.first_index
    <3>1. schema.first_index # 0 => schema.first_index # disk[p].next
      BY <1>2, <1>0, <2>2 DEF IInv, FirstIndexOK
    <3>. QED BY <1>2, <1>0, <2>2, <3>1 DEF IInv, FirstIndexOK
  <2>. QED BY <2>1, <2>2
<1>14. Ordered'
  <2>1. PICK r \in [Page -> Int] : Ranked(r)
    BY DEF IInv, Ordered
  <2>2. Ranked(r)'
    <3> SUFFICES ASSUME NEW q \in Live', disk'[q].next # 0
                 PROVE  r[q] < r[disk'[q].next]
      BY DEF Ranked
    <3>1. q \in Live /\ q # p /\ q \in Page
      BY <1>2, <1>0
    <3>2. CASE q = disk[p].prev
      <4>1. disk'[q].next = disk[p].next /\ disk[q].next = p
        BY <1>2, <1>0, <3>1, <3>2
      <4>2. r[q] < r[p] /\ r[p] < r[disk[p].next]
        BY <1>2, <2>1, <3>1, <4>1 DEF Ranked
      <4>3. r[q] \in Int /\ r[p] \in Int /\ r[disk[p].next] \in Int
        BY <1>2, <1>0, <3>1, <4>1
      <4>. QED BY <4>1, <4>2, <4>3
    <3>3. CASE q # disk[p].prev
      BY <1>0, <2>1, <3>1, <3>3 DEF Ranked
    <3>. QED BY <3>2, <3>3
  <2>. QED BY <2>2 DEF Ordered
<1>15. FreeChain'
  <2>1. PICK m \in Nat : \E s \in [1 .. m -> Page] : Chain(m, s)
    BY DEF IInv, FreeChain
  <2>2. PICK s \in [1 .. m -> Page] : Chain(m, s)
    BY <2>1
  <2> DEFINE t == [i \in 1 .. m + 1 |-> IF i = 1 THEN p ELSE s[i-1]]
  <2>3. m + 1 \in Nat /\ t \in [1 .. m + 1 -> Page]
    BY <1>2
  <2>4. /\ t[1] = p
        /\ \A i \in 2 .. m + 1 : /\ i - 1 \in 1 .. m
                                 /\ t[i] = s[i-1]
                                 /\ s[i-1] \in Page
                                 /\ disk[s[i-1]].type = "FREE"
                                 /\ s[i-1] # p
    BY <1>2, <2>2 DEF Chain
  <2>5. ASSUME NEW i \in 1 .. m + 1, NEW j \in 1 .. m + 1, t[i] = t[j]
        PROVE  i = j
    <3>. HIDE DEF t
    <3>1. CASE i = 1 \/ j = 1
      <4>1. i # 1 => i \in 2 .. m + 1
        OBVIOUS
      <4>2. j # 1 => j \in 2 .. m + 1
        OBVIOUS
      <4>. QED BY <2>4, <2>5, <3>1, <4>1, <4>2
    <3>2. CASE i # 1 /\ j # 1
      <4>1. i \in 2 .. m + 1 /\ j \in 2 .. m + 1
        BY <3>2
      <4>2. s[i-1] = s[j-1] /\ i - 1 \in 1 .. m /\ j - 1 \in 1 .. m
        BY <2>4, <2>5, <4>1
      <4>3. i - 1 = j - 1
        BY <2>2, <4>2 DEF Chain
      <4>. QED BY <4>3
    <3>. QED BY <3>1, <3>2
  <2>6. ChainHead' = IF m + 1 = 0 THEN 0 ELSE t[1]
    BY <1>7, <2>4
  <2>7. ASSUME NEW i \in 1 .. m + 1
        PROVE  /\ disk'[t[i]].type = "FREE"
               /\ t[i] <= schema'.last_page_num
               /\ disk'[t[i]].next = IF i = m + 1 THEN 0 ELSE t[i+1]
    <3>1. CASE i = 1
      <4>1. disk'[t[1]].next = schema.free_page
        BY <1>0, <2>4
      <4>2. schema.free_page = IF m = 0 THEN 0 ELSE s[1]
        BY <1>7, <2>2 DEF Chain
      <4>3. m # 0 => t[2] = s[1]
        BY <2>3
      <4>. QED BY <1>0, <1>7, <2>4, <3>1, <4>1, <4>2, <4>3
    <3>2. CASE i # 1
      <4>1. i \in 2 .. m + 1
        BY <3>2
      <4>2. /\ t[i] = s[i-1] /\ s[i-1] \in Page \ {p} /\ disk[s[i-1]].type = "FREE"
            /\ i - 1 \in 1 .. m
        BY <2>4, <4>1
      <4>3. s[i-1] # disk[p].prev
        BY <1>2, <1>0, <4>2
      <4>4. /\ disk'[s[i-1]].type = "FREE"
            /\ disk'[s[i-1]].next = disk[s[i-1]].next
        BY <1>0, <4>2, <4>3
      <4>5. /\ s[i-1] <= schema.last_page_num
            /\ disk[s[i-1]].next = IF i - 1 = m THEN 0 ELSE s[(i-1)+1]
        BY <2>2, <4>2 DEF Chain
      <4>6. i # m + 1 => t[i+1] = s[(i-1)+1]
        <5>1. i # m + 1 => i + 1 \in 2 .. m + 1 /\ (i + 1) - 1 = (i - 1) + 1
          BY <4>1
        <5>. QED BY <2>4, <5>1
      <4>. QED BY <1>0, <4>1, <4>2, <4>4, <4>5, <4>6
    <3>. QED BY <3>1, <3>2
  <2>8. ASSUME NEW q \in FreePages'
        PROVE  \E i \in 1 .. m + 1 : t[i] = q
    <3>1. CASE q = p
      <4>1. 1 \in 1 .. m + 1
        OBVIOUS
      <4>. QED BY <2>4, <3>1, <4>1
    <3>2. CASE q # p
      <4>1. PICK i \in 1 .. m : s[i] = q
        BY <1>0, <2>2, <3>2 DEF Chain
      <4>2. i + 1 \in 2 .. m + 1 /\ i + 1 \in 1 .. m + 1 /\ (i + 1) - 1 = i
        OBVIOUS
      <4>3. t[i+1] = q
        BY <2>4, <4>1, <4>2
      <4>. QED BY <4>2, <4>3
    <3>. QED BY <3>1, <3>2
  <2>9. Chain(m + 1, t)'
    <3>. HIDE DEF t
    <3>. QED BY <2>5, <2>6, <2>7, <2>8 DEF Chain
  <2>. HIDE DEF t
  <2>. QED BY <2>3, <2>9 DEF FreeChain
<1>16. PhaseOK' /\ SavedAtRest' /\ FewFreeAtRest'
  <2>1. schema'.last_page_num \in Nat /\ schema'.cnt_free \in Nat
    BY <1>0, ConstantFacts DEF Schema, PageNum
  <2>2. PhaseOK' /\ SavedAtRest'
    BY <1>1, <2>1 DEF PhaseOK, SavedAtRest
  <2>3. pc' = "idle" => schema'.cnt_free < schema'.last_page_num \div 2
    BY <1>1, <2>1 DEF ShrinkDue
  <2>. QED BY <2>2, <2>3 DEF FewFreeAtRest
<1>17. SpaceOK'
  <2>1. ASSUME NEW q \in Live \ {p}
        PROVE  Accounted(disk'[q]) /\ disk'[q].chunks # <<>>
    BY <1>2, <1>0, SameAccounted DEF IInv, SpaceOK
  <2>. QED BY <1>0, <2>1 DEF SpaceOK
<1>18. OneIndexHead'
  <2> SUFFICES ASSUME NEW q \in Live', disk'[q].type = "INDEX", disk'[q].prev = 0
               PROVE  q = schema'.first_index
    BY DEF OneIndexHead
  <2>1. q \in Live \ {p} /\ disk[q].type = "INDEX"
    BY <1>2, <1>0
  <2>2. CASE q = disk[p].next
    <3>1. disk[p].type = "INDEX" /\ disk[p].prev = 0
      BY <1>2, <1>0, <2>1, <2>2
    <3>2. p = schema.first_index
      BY <3>1 DEF IInv, OneIndexHead
    <3>. QED BY <1>0, <2>2, <3>2
  <2>3. CASE q # disk[p].next
    <3>1. disk[q].prev = 0
      BY <1>2, <1>0, <2>1, <2>3
    <3>2. q = schema.first_index
      BY <2>1, <3>1 DEF IInv, OneIndexHead
    <3>. QED BY <1>0, <2>1, <3>2
  <2>. QED BY <2>2, <2>3
<1>. QED BY <1>9, <1>10, <1>11, <1>12, <1>13, <1>14, <1>15, <1>16, <1>17, <1>18 DEF IInv

-----------------------------------------------------------------------------
(* The steps of shrink.                                                    *)

\* Before the truncation the live pages are the first CutAt(schema) ones.
LEMMA CutFacts ==
  ASSUME IInv, pc = "shrink", ~ InLoop
  PROVE  Live = 1 .. CutAt(schema) /\ CutAt(schema) = last /\ FreePages = {}
<1>1. /\ last \in Nat /\ Bound = last /\ last <= MaxPage
      /\ schema.last_page_num \in Nat /\ schema.cnt_free \in Nat
  BY ConstantFacts DEF Bound, IInv, TypeOK, PageNum, Schema
<1>2. Live \subseteq 1 .. last
  BY <1>1, LiveFacts DEF IInv
<1>3. \A p \in Page : p <= last => p \in Live
  <2>1. CASE last = 0
    BY <2>1, LiveFacts DEF IInv
  <2>2. CASE last # 0
    <3>1. ChainHead = 0
      BY <1>1, <2>2 DEF InLoop, ChainHead
    <3>. QED BY <1>1, <3>1, NoFreePages
  <2>. QED BY <2>1, <2>2
<1>4. Live = 1 .. last
  <2>1. \A p \in 1 .. last : p \in Page /\ p <= last
    BY <1>1, ConstantFacts DEF Page
  <2>2. 1 .. last \subseteq Live
    BY <1>3, <2>1
  <2>. QED BY <1>2, <2>2
<1>5. Cardinality(1 .. last) = last
  <2> DEFINE L == last
  <2>. HIDE DEF L
  <2>1. L \in Nat
    BY <1>1 DEF L
  <2>2. Cardinality(1 .. L) = IF 1 > L THEN 0 ELSE L - 1 + 1
    BY <2>1, FS_Interval
  <2>. QED BY <2>1, <2>2 DEF L
<1>6. CutAt(schema) = last
  BY <1>1, <1>4, <1>5 DEF CutAt, IInv, PagesAccounted
<1>7. FreePages = {}
  BY <1>1, <1>3, LiveFacts DEF IInv, FreePages
<1>. QED BY <1>4, <1>6, <1>7

\* Passing a free page at the end of the file keeps the invariant.
LEMMA ShrinkPassFreeStep == IInv /\ ShrinkPassFree => IInv'
<1> SUFFICES ASSUME IInv, ShrinkPassFree PROVE IInv'
  OBVIOUS
<1>1. /\ pc = "shrink" /\ last > 0 /\ disk[last].type = "FREE"
      /\ last' = last - 1
      /\ UNCHANGED <<disk, schema, saved, pc, free_num>>
  BY DEF ShrinkPassFree, InLoop
<1>2. /\ last \in Nat \ {0} /\ last - 1 \in PageNum
      /\ Bound = last /\ Bound' = last - 1
      /\ schema.last_page_num \in Nat
  BY <1>1, ConstantFacts DEF Bound, IInv, TypeOK, PageNum, Schema
<1>3. Live' = Live
  <2>1. \A p \in Page : p # last => (p <= last <=> p <= last - 1)
    BY <1>2, LiveFacts DEF IInv
  <2>. QED BY <1>1, <1>2, <2>1, ConstantFacts DEF Live
<1>4. FreePages' = FreePages \ {last}
  <2>1. \A p \in Page : p # last => (p <= last <=> p <= last - 1)
    BY <1>2, LiveFacts DEF IInv
  <2>2. ~ (last <= last - 1)
    BY <1>2
  <2>. QED BY <1>1, <1>2, <2>1, <2>2 DEF FreePages
<1>5. TypeOK' /\ PhaseOK' /\ SavedAtRest' /\ FewFreeAtRest'
  BY <1>1, <1>2 DEF IInv, TypeOK, PhaseOK, SavedAtRest, FewFreeAtRest
<1>6. PagesAccounted'
  <2>1. \A p \in Page : p <= last - 1 => p <= last /\ p # last
    BY <1>2, LiveFacts DEF IInv
  <2>. QED BY <1>1, <1>2, <1>3, <1>4, <2>1 DEF IInv, PagesAccounted
<1>7. /\ LinksMutual' /\ EmptyFree' /\ SpaceOK'
      /\ FirstIndexOK' /\ OneIndexHead'
  BY <1>1, <1>3 DEF IInv, LinksMutual, EmptyFree, SpaceOK, FirstIndexOK, OneIndexHead
<1>8. Ordered'
  <2>1. PICK r \in [Page -> Int] : Ranked(r)
    BY DEF IInv, Ordered
  <2>2. Ranked(r)'
    BY <1>1, <1>3, <2>1 DEF Ranked
  <2>. QED BY <2>2 DEF Ordered
<1>9. FreeChain'
  <2>1. PICK n \in Nat : \E s \in [1 .. n -> Page] : Chain(n, s)
    BY DEF IInv, FreeChain
  <2>2. PICK s \in [1 .. n -> Page] : Chain(n, s)
    BY <2>1
  <2>3. ChainHead' = ChainHead
    BY <1>1 DEF ChainHead
  <2>4. Chain(n, s)'
    BY <1>1, <1>4, <2>2, <2>3 DEF Chain
  <2>. QED BY <2>4 DEF FreeChain
<1>. QED BY <1>5, <1>6, <1>7, <1>8, <1>9 DEF IInv

\* What is left of the chain when its first page is done with.
LEMMA ChainTail ==
  ASSUME IInv, pc = "shrink", pc' = "shrink", free_num # 0,
         free_num' = disk[free_num].next,
         schema'.last_page_num = schema.last_page_num,
         FreePages' \subseteq FreePages \ {free_num},
         \A p \in Page \ {free_num} :
           disk[p].type = "FREE" => disk'[p].type = "FREE" /\ disk'[p].next = disk[p].next
  PROVE  FreeChain'
<1>1. PICK m \in Nat : \E s \in [1 .. m -> Page] : Chain(m, s)
  BY DEF IInv, FreeChain
<1>2. PICK s \in [1 .. m -> Page] : Chain(m, s)
  BY <1>1
<1>3. m \in Nat \ {0} /\ s[1] = free_num
  BY <1>2 DEF Chain, ChainHead
<1> DEFINE t == [i \in 1 .. m - 1 |-> s[i+1]]
<1>4. m - 1 \in Nat /\ t \in [1 .. m - 1 -> Page]
  BY <1>3
<1>5. \A i \in 1 .. m - 1 : /\ t[i] = s[i+1] /\ i + 1 \in 1 .. m
                            /\ s[i+1] # free_num /\ s[i+1] \in Page
  BY <1>2, <1>3 DEF Chain
<1>6. \A i, j \in 1 .. m - 1 : t[i] = t[j] => i = j
  BY <1>2, <1>3, <1>5 DEF Chain
<1>7. ChainHead' = IF m - 1 = 0 THEN 0 ELSE t[1]
  <2>1. disk[s[1]].next = IF 1 = m THEN 0 ELSE s[2]
    BY <1>2, <1>3 DEF Chain
  <2>. QED BY <1>3, <2>1 DEF ChainHead
<1>8. ASSUME NEW i \in 1 .. m - 1
      PROVE  /\ disk'[t[i]].type = "FREE"
             /\ t[i] <= schema'.last_page_num
             /\ disk'[t[i]].next = IF i = m - 1 THEN 0 ELSE t[i+1]
  <2>1. /\ disk[s[i+1]].type = "FREE"
        /\ s[i+1] <= schema.last_page_num
        /\ disk[s[i+1]].next = IF i + 1 = m THEN 0 ELSE s[i+2]
    BY <1>2, <1>5, SMTT(60) DEF Chain
  <2>2. disk'[s[i+1]].type = "FREE" /\ disk'[s[i+1]].next = disk[s[i+1]].next
    BY <1>5, <2>1
  <2>3. i # m - 1 => t[i+1] = s[i+2]
    BY <1>3
  <2>. QED BY <1>3, <1>5, <2>1, <2>2, <2>3
<1>9. ASSUME NEW p \in FreePages'
      PROVE  \E i \in 1 .. m - 1 : t[i] = p
  <2>1. PICK i \in 1 .. m : s[i] = p
    BY <1>2 DEF Chain
  <2>2. i # 1
    BY <1>3, <2>1
  <2>3. i - 1 \in 1 .. m - 1 /\ t[i-1] = p
    BY <1>3, <2>1, <2>2
  <2>. QED BY <2>3
<1>10. Chain(m - 1, t)'
  <2>. HIDE DEF t
  <2>. QED BY <1>6, <1>7, <1>8, <1>9 DEF Chain
<1>. HIDE DEF t
<1>. QED BY <1>4, <1>10 DEF FreeChain

\* Skipping a free page above `last` keeps the invariant: it is not lost, the
\* truncation cuts it off.
LEMMA ShrinkNextFreeStep == IInv /\ ShrinkNextFree => IInv'
<1> SUFFICES ASSUME IInv, ShrinkNextFree PROVE IInv'
  OBVIOUS
<1>1. /\ pc = "shrink" /\ free_num # 0 /\ free_num > last
      /\ free_num' = disk[free_num].next
      /\ UNCHANGED <<disk, schema, saved, pc, last>>
  BY DEF ShrinkNextFree, InLoop
<1>2. free_num \in Page /\ last \in Nat /\ Bound = last
  BY <1>1, ConstantFacts DEF IInv, TypeOK, PageNum, Page, Bound
<1>3. Bound' = Bound /\ Live' = Live /\ FreePages' = FreePages
  BY <1>1 DEF Bound, Live, FreePages
<1>4. FreePages' \subseteq FreePages \ {free_num}
  <2>1. ~ (free_num <= Bound)
    BY <1>1, <1>2, LiveFacts DEF IInv
  <2>. QED BY <1>3, <2>1 DEF FreePages
<1>5. TypeOK' /\ PhaseOK' /\ SavedAtRest' /\ FewFreeAtRest'
  <2>1. disk[free_num].next \in PageNum
    BY <1>2 DEF IInv, TypeOK, Header
  <2>. QED BY <1>1, <2>1 DEF IInv, TypeOK, PhaseOK, SavedAtRest, FewFreeAtRest
<1>6. /\ PagesAccounted' /\ LinksMutual' /\ EmptyFree' /\ SpaceOK'
      /\ FirstIndexOK' /\ OneIndexHead'
  BY <1>1, <1>3 DEF IInv, PagesAccounted, LinksMutual, EmptyFree, SpaceOK,
                    FirstIndexOK, OneIndexHead
<1>7. Ordered'
  <2>1. PICK r \in [Page -> Int] : Ranked(r)
    BY DEF IInv, Ordered
  <2>2. Ranked(r)'
    BY <1>1, <1>3, <2>1 DEF Ranked
  <2>. QED BY <2>2 DEF Ordered
<1>8. FreeChain'
  BY <1>1, <1>4, ChainTail
<1>. QED BY <1>5, <1>6, <1>7, <1>8 DEF IInv

\* The truncation keeps the invariant: by CutFacts it cuts off no live page.
LEMMA ShrinkTruncateStep == IInv /\ ShrinkTruncate => IInv'
<1> SUFFICES ASSUME IInv, ShrinkTruncate PROVE IInv'
  OBVIOUS
<1>1. /\ pc = "shrink" /\ ~ InLoop
      /\ disk' = TruncatedDisk(disk, schema)
      /\ schema' = TruncatedSchema(schema)
      /\ saved' = schema' /\ pc' = "idle" /\ last' = 0 /\ free_num' = 0
  BY DEF ShrinkTruncate, InLoop
<1>2. Live = 1 .. last /\ CutAt(schema) = last
  BY <1>1, CutFacts
<1>3. /\ schema \in Schema /\ last \in PageNum /\ 0 \in PageNum
      /\ disk \in [Page -> Header]
  BY ConstantFacts DEF IInv, TypeOK, PageNum
<1>4. /\ schema' \in Schema
      /\ schema'.last_page_num = last /\ schema'.cnt_free = 0
      /\ schema'.free_page = 0 /\ schema'.first_index = schema.first_index
  BY <1>1, <1>2, <1>3 DEF TruncatedSchema, Schema
<1>5. /\ disk' \in [Page -> Header]
      /\ \A p \in Page : disk'[p] = IF p <= last THEN disk[p] ELSE NoPage
  <2>1. NoPage \in Header
    BY <1>3 DEF NoPage, Header, PageType
  <2>. QED BY <1>1, <1>2, <1>3, <2>1 DEF TruncatedDisk
<1>6. Bound = last /\ Bound' = last /\ ChainHead' = 0
  BY <1>1, <1>4 DEF Bound, ChainHead
<1>7. Live' = Live /\ FreePages' = {}
  <2>1. FreePages = {}
    BY <1>1, CutFacts
  <2>. QED BY <1>5, <1>6, <2>1 DEF Live, FreePages
<1>8. \A p \in Live : disk'[p] = disk[p]
  BY <1>5, <1>6, LiveFacts DEF IInv
<1>9. TypeOK'
  BY <1>1, <1>3, <1>4, <1>5 DEF TypeOK
<1>10. PhaseOK' /\ SavedAtRest' /\ FewFreeAtRest'
  BY <1>1, <1>4 DEF PhaseOK, SavedAtRest, FewFreeAtRest
<1>11. PagesAccounted'
  <2>1. Cardinality(Live') + schema'.cnt_free = schema'.last_page_num
    <3>1. Cardinality(Live) = last
      <4>1. Cardinality(Live) \in Nat
        BY LiveFacts DEF IInv
      <4>2. schema.last_page_num - schema.cnt_free = last
        BY <1>2 DEF CutAt
      <4>3. Cardinality(Live) + schema.cnt_free = schema.last_page_num
        BY DEF IInv, PagesAccounted
      <4>4. schema.cnt_free \in Nat
        BY <1>3 DEF Schema
      <4>. QED BY <4>1, <4>2, <4>3, <4>4
    <3>. QED BY <1>3, <1>4, <1>7, <3>1, ConstantFacts DEF PageNum
  <2>2. \A p \in Page : p <= Bound' => p \in Live'
    BY <1>2, <1>3, <1>6, <1>7, LiveFacts, ConstantFacts DEF IInv, Page, PageNum
  <2>. QED BY <2>1, <2>2 DEF PagesAccounted
<1>12. LinksMutual' /\ SpaceOK' /\ FirstIndexOK' /\ OneIndexHead'
  BY <1>4, <1>7, <1>8 DEF IInv, LinksMutual, SpaceOK, FirstIndexOK, OneIndexHead
<1>13. EmptyFree'
  BY <1>5 DEF IInv, EmptyFree, NoPage
<1>14. Ordered'
  <2>1. PICK r \in [Page -> Int] : Ranked(r)
    BY DEF IInv, Ordered
  <2>2. Ranked(r)'
    BY <1>7, <1>8, <2>1 DEF Ranked
  <2>. QED BY <2>2 DEF Ordered
<1>15. FreeChain'
  <2> DEFINE s == [i \in 1 .. 0 |-> 1]
  <2>1. s \in [1 .. 0 -> Page]
    OBVIOUS
  <2>2. Chain(0, s)'
    BY <1>6, <1>7 DEF Chain
  <2>. QED BY <2>1, <2>2 DEF FreeChain
<1>. QED BY <1>9, <1>10, <1>11, <1>12, <1>13, <1>14, <1>15 DEF IInv

\* What one relocation of shrink leaves: page from is now page to.
PageMoved(from, to) ==
  /\ from \in Page /\ to \in Page
  /\ disk[to].type = "FREE" /\ to \in FreePages /\ to < from
  /\ to \notin Live /\ from \in Live
  /\ disk[from].next # 0 => /\ disk[from].next \in Live
                            /\ disk[disk[from].next].prev = from
                            /\ disk[disk[from].next].type = disk[from].type
  /\ disk[from].prev # 0 => /\ disk[from].prev \in Live
                            /\ disk[disk[from].prev].next = from
                            /\ disk[from].prev # disk[from].next
  /\ disk[from].next # from /\ disk[from].prev # from
  /\ disk[from].next # to /\ disk[from].prev # to
  /\ disk' \in [Page -> Header]
  /\ disk'[to] = disk[from]
  /\ \A q \in Page \ {to} :
       /\ disk'[q].type = disk[q].type
       /\ disk'[q].free_space = disk[q].free_space
       /\ disk'[q].chunks = disk[q].chunks
       /\ disk'[q].next = IF q = disk[from].prev THEN to ELSE disk[q].next
       /\ disk'[q].prev = IF q = disk[from].next THEN to ELSE disk[q].prev
  /\ Live' = (Live \ {from}) \cup {to}
  /\ FreePages' = FreePages \ {to}

LEMMA ShrinkMoves ==
  ASSUME IInv, ShrinkMove
  PROVE  PageMoved(last, free_num)
<1>0. PICK from, to : from = last /\ to = free_num
  OBVIOUS
<1>1. /\ pc = "shrink" /\ from > 0 /\ to # 0 /\ to <= from
      /\ disk[from].type # "FREE"
      /\ disk' = MovedDisk(disk, from, to)
      /\ schema' = MovedSchema(disk, schema, from, to)
      /\ free_num' = disk[to].next /\ last' = from - 1
      /\ saved' = saved /\ pc' = pc
  BY <1>0 DEF ShrinkMove, InLoop
<1>2. /\ disk \in [Page -> Header] /\ schema \in Schema
      /\ from \in Page /\ to \in Page /\ from \in Nat \ {0}
      /\ Bound = from /\ Bound' = from - 1 /\ ChainHead = to
      /\ \A q \in Page : q # 0 /\ q \in Nat
  BY <1>0, <1>1, LiveFacts, ConstantFacts
     DEF IInv, TypeOK, PageNum, Page, Bound, ChainHead
<1>3. /\ disk[to].type = "FREE" /\ to \in FreePages /\ to < from
      /\ to \notin Live /\ from \in Live
  <2>1. disk[to].type = "FREE"
    <3>1. PICK m \in Nat : \E s \in [1 .. m -> Page] : Chain(m, s)
      BY DEF IInv, FreeChain
    <3>2. PICK s \in [1 .. m -> Page] : Chain(m, s)
      BY <3>1
    <3>3. m > 0 /\ s[1] = to
      BY <1>1, <1>2, <3>2 DEF Chain
    <3>. QED BY <3>2, <3>3 DEF Chain
  <2>2. to < from
    BY <1>1, <1>2, <2>1
  <2>3. to \in FreePages
    BY <1>1, <1>2, <2>1 DEF FreePages
  <2>4. from \in Live
    BY <1>1, <1>2 DEF IInv, PagesAccounted, FreePages
  <2>. QED BY <2>1, <2>2, <2>3, <2>4, LiveFacts DEF IInv
<1>4. /\ disk[from].next # 0 => /\ disk[from].next \in Live
                                /\ disk[disk[from].next].prev = from
                                /\ disk[disk[from].next].type = disk[from].type
      /\ disk[from].prev # 0 => /\ disk[from].prev \in Live
                                /\ disk[disk[from].prev].next = from
                                /\ disk[from].prev # disk[from].next
      /\ disk[from].next # from /\ disk[from].prev # from
      /\ disk[from].next # to /\ disk[from].prev # to
  BY <1>2, <1>3, NoSelfLink, NeighboursDiffer DEF IInv, LinksMutual
<1>5. /\ disk' \in [Page -> Header]
      /\ disk'[to] = disk[from]
      /\ \A q \in Page \ {to} :
           /\ disk'[q].type = disk[q].type
           /\ disk'[q].free_space = disk[q].free_space
           /\ disk'[q].chunks = disk[q].chunks
           /\ disk'[q].next = IF q = disk[from].prev THEN to ELSE disk[q].next
           /\ disk'[q].prev = IF q = disk[from].next THEN to ELSE disk[q].prev
  <2>1. PICK d, D : d = disk /\ D = disk'
    OBVIOUS
  <2>2. /\ d \in [Page -> Header] /\ from \in Page /\ to \in Page
        /\ d[from].next # from /\ d[from].prev # from
        /\ d[from].next # to /\ d[from].prev # to /\ from # to
        /\ D = MovedDisk(d, from, to)
    BY <2>1, <1>1, <1>2, <1>3, <1>4
  <2>3. /\ D \in [Page -> Header]
        /\ D[to] = d[from]
        /\ \A q \in Page \ {to} :
             /\ D[q].type = d[q].type
             /\ D[q].free_space = d[q].free_space
             /\ D[q].chunks = d[q].chunks
             /\ D[q].next = IF q = d[from].prev THEN to ELSE d[q].next
             /\ D[q].prev = IF q = d[from].next THEN to ELSE d[q].prev
    BY <2>2, MovedFacts
  <2>. QED BY <2>1, <2>3
<1>7. \A q \in Page : q <= from - 1 <=> q <= from /\ q # from
  BY <1>2
<1>8. Live' = (Live \ {from}) \cup {to}
  <2>1. disk[from].type \in Kind /\ to <= from - 1
    BY <1>2, <1>3, LiveFacts DEF IInv
  <2>2. ASSUME NEW q \in Page
        PROVE  q \in Live' <=> q \in (Live \ {from}) \cup {to}
    <3>1. q \in Live' <=> q <= from - 1 /\ disk'[q].type \in Kind
      BY <1>2 DEF Live
    <3>2. q \in Live <=> q <= from /\ disk[q].type \in Kind
      BY <1>2 DEF Live
    <3>3. CASE q = to
      BY <1>5, <2>1, <3>1, <3>3
    <3>4. CASE q # to
      BY <1>5, <1>7, <3>1, <3>2, <3>4
    <3>. QED BY <3>3, <3>4
  <2>3. Live' \subseteq Page /\ Live \subseteq Page
    BY DEF Live
  <2>. QED BY <1>2, <2>2, <2>3
<1>9. FreePages' = FreePages \ {to}
  <2>1. ASSUME NEW q \in Page
        PROVE  q \in FreePages' <=> q \in FreePages \ {to}
    <3>1. q \in FreePages' <=> q <= from - 1 /\ disk'[q].type = "FREE"
      BY <1>2 DEF FreePages
    <3>2. q \in FreePages <=> q <= from /\ disk[q].type = "FREE"
      BY <1>2 DEF FreePages
    <3>3. CASE q = to
      BY <1>1, <1>5, <3>1, <3>3
    <3>4. CASE q # to
      BY <1>1, <1>5, <1>7, <3>1, <3>2, <3>4
    <3>. QED BY <3>3, <3>4
  <2>2. FreePages' \subseteq Page /\ FreePages \subseteq Page
    BY DEF FreePages
  <2>. QED BY <2>1, <2>2
<1>. QED BY <1>0, <1>2, <1>3, <1>4, <1>5, <1>8, <1>9 DEF PageMoved

\* Page last moves into the free page free_num below it.
LEMMA ShrinkMoveStep == IInv /\ ShrinkMove => IInv'
<1> SUFFICES ASSUME IInv, ShrinkMove PROVE IInv'
  OBVIOUS
<1>0. PICK from, to : from = last /\ to = free_num
  OBVIOUS
<1>1. /\ pc = "shrink" /\ from > 0 /\ to # 0 /\ to <= from
      /\ disk[from].type # "FREE"
      /\ schema' = MovedSchema(disk, schema, from, to)
      /\ free_num' = disk[to].next /\ last' = from - 1
      /\ saved' = saved /\ pc' = pc
  BY <1>0 DEF ShrinkMove, InLoop
<1>2. /\ disk \in [Page -> Header] /\ schema \in Schema
      /\ from \in Page /\ to \in Page /\ from \in Nat \ {0}
      /\ Bound = from /\ Bound' = from - 1 /\ ChainHead = to
      /\ \A q \in Page : q # 0 /\ q \in Nat
  BY <1>0, <1>1, LiveFacts, ConstantFacts
     DEF IInv, TypeOK, PageNum, Page, Bound, ChainHead
<1>3. PageMoved(from, to)
  BY <1>0, ShrinkMoves
<1>. USE DEF PageMoved
<1>6. /\ schema' \in Schema
      /\ schema'.cnt_free = schema.cnt_free
      /\ schema'.last_page_num = schema.last_page_num
      /\ schema'.free_page = schema.free_page
      /\ schema'.first_index =
           IF disk[from].type = "INDEX" /\ from = schema.first_index THEN to
           ELSE schema.first_index
  <2> DEFINE f == IF disk[from].type = "INDEX" /\ from = schema.first_index THEN to
                  ELSE schema.first_index
  <2>1. f \in PageNum
    BY <1>2, ConstantFacts DEF Schema, Page, PageNum
  <2>2. schema' = [schema EXCEPT !.first_index = f]
    BY <1>1 DEF MovedSchema
  <2>. HIDE DEF f
  <2>3. /\ schema' \in Schema
        /\ schema'.cnt_free = schema.cnt_free
        /\ schema'.last_page_num = schema.last_page_num
        /\ schema'.free_page = schema.free_page
        /\ schema'.first_index = f
    BY <1>2, <2>1, <2>2 DEF Schema
  <2>. QED BY <2>3 DEF f
<1>7. \A q \in Page : q <= from - 1 <=> q <= from /\ q # from
  BY <1>2
<1>10. TypeOK' /\ PhaseOK' /\ SavedAtRest' /\ FewFreeAtRest'
  <2>1. disk[to].next \in PageNum
    BY <1>2 DEF Header
  <2>2. from - 1 \in PageNum /\ from \in Nat /\ schema.last_page_num \in Nat
    BY <1>2, ConstantFacts DEF Page, PageNum, Schema
  <2>. QED BY <1>0, <1>1, <1>3, <1>6, <2>1, <2>2
           DEF IInv, TypeOK, PhaseOK, SavedAtRest, FewFreeAtRest
<1>11. PagesAccounted'
  <2>1. /\ IsFiniteSet(Live \ {from})
        /\ Cardinality(Live \ {from}) = Cardinality(Live) - 1
    BY <1>3, LiveFacts, FS_RemoveElement DEF IInv
  <2>2. Cardinality(Live') = Cardinality(Live \ {from}) + 1
    BY <1>3, <2>1, FS_AddElement
  <2>3. Cardinality(Live') = Cardinality(Live)
    BY <2>1, <2>2, LiveFacts DEF IInv
  <2>4. \A q \in Page : q <= Bound' => q \in Live' \cup FreePages'
    BY <1>2, <1>7, <1>3 DEF IInv, PagesAccounted
  <2>. QED BY <1>6, <2>3, <2>4 DEF IInv, PagesAccounted
<1>12. LinksMutual'
  <2> SUFFICES ASSUME NEW q \in Live'
               PROVE  /\ disk'[q].next # 0 =>
                           /\ disk'[q].next \in Live'
                           /\ disk'[disk'[q].next].prev = q
                           /\ disk'[disk'[q].next].type = disk'[q].type
                      /\ disk'[q].prev # 0 =>
                           /\ disk'[q].prev \in Live'
                           /\ disk'[disk'[q].prev].next = q
    BY DEF LinksMutual
  <2>1. Live \subseteq Page
    BY LiveFacts DEF IInv
  <2>2. CASE q = to
    BY <1>2, <1>3, <2>1, <2>2, ZenonT(30)
  <2>3. CASE q # to
    <3>1. q \in Live /\ q # from /\ q \in Page \ {to}
      BY <1>3, <2>1, <2>3
    <3>2. /\ disk[q].next # 0 => /\ disk[q].next \in Live
                                 /\ disk[disk[q].next].prev = q
                                 /\ disk[disk[q].next].type = disk[q].type
          /\ disk[q].prev # 0 => disk[q].prev \in Live /\ disk[disk[q].prev].next = q
      BY <3>1 DEF IInv, LinksMutual
    <3>3. disk'[q].next # 0 => /\ disk'[q].next \in Live'
                               /\ disk'[disk'[q].next].prev = q
                               /\ disk'[disk'[q].next].type = disk'[q].type
      <4>1. CASE q = disk[from].prev
        BY <1>2, <1>3, <2>1, <3>1, <3>2, <4>1
      <4>2. CASE q # disk[from].prev /\ disk[q].next # 0
        <5> DEFINE x == disk[q].next
        <5>1. disk'[q].next = x /\ disk'[q].type = disk[q].type
          BY <1>3, <3>1, <4>2
        <5>2. x \in Live /\ x # from /\ x # to /\ x \in Page /\ x # disk[from].next
          BY <1>2, <1>3, <2>1, <3>1, <3>2, <4>2
        <5>. HIDE DEF x
        <5>3. disk'[x].prev = disk[x].prev /\ disk'[x].type = disk[x].type
          BY <1>3, <5>2
        <5>4. x \in Live'
          BY <1>3, <5>2
        <5>. QED BY <3>2, <4>2, <5>1, <5>3, <5>4 DEF x
      <4>3. CASE q # disk[from].prev /\ disk[q].next = 0
        BY <1>3, <3>1, <4>3
      <4>. QED BY <4>1, <4>2, <4>3
    <3>4. disk'[q].prev # 0 => disk'[q].prev \in Live' /\ disk'[disk'[q].prev].next = q
      <4>1. CASE q = disk[from].next
        BY <1>2, <1>3, <2>1, <3>1, <3>2, <4>1
      <4>2. CASE q # disk[from].next /\ disk[q].prev # 0
        <5> DEFINE x == disk[q].prev
        <5>1. disk'[q].prev = x
          BY <1>3, <3>1, <4>2
        <5>2. x \in Live /\ x # from /\ x # to /\ x \in Page /\ x # disk[from].prev
          BY <1>2, <1>3, <2>1, <3>1, <3>2, <4>2
        <5>. HIDE DEF x
        <5>3. disk'[x].next = disk[x].next
          BY <1>3, <5>2
        <5>4. x \in Live'
          BY <1>3, <5>2
        <5>. QED BY <3>2, <4>2, <5>1, <5>3, <5>4 DEF x
      <4>3. CASE q # disk[from].next /\ disk[q].prev = 0
        BY <1>3, <3>1, <4>3
      <4>. QED BY <4>1, <4>2, <4>3
    <3>. QED BY <3>3, <3>4
  <2>. QED BY <2>2, <2>3
<1>13. EmptyFree'
  BY <1>1, <1>2, <1>3 DEF IInv, EmptyFree, Blank
<1>14. FirstIndexOK'
  <2>1. CASE from = schema.first_index
    <3>1. disk[from].type = "INDEX" /\ disk[from].prev = 0
      BY <1>2, <2>1 DEF IInv, FirstIndexOK
    <3>. QED BY <1>2, <1>3, <1>6, <2>1, <3>1 DEF FirstIndexOK
  <2>2. CASE from # schema.first_index
    <3>1. schema.first_index # 0 => /\ schema.first_index # disk[from].next
                                    /\ schema.first_index # to
      BY <1>2, <1>3, <2>2 DEF IInv, FirstIndexOK
    <3>. QED BY <1>3, <1>6, <2>2, <3>1, LiveFacts DEF IInv, FirstIndexOK
  <2>. QED BY <2>1, <2>2
<1>15. Ordered'
  <2>1. PICK r \in [Page -> Int] : Ranked(r)
    BY DEF IInv, Ordered
  <2> DEFINE t == [r EXCEPT ![to] = r[from]]
  <2>2. t \in [Page -> Int]
    BY <1>2
  <2>3. t[to] = r[from] /\ \A q \in Page \ {to} : t[q] = r[q]
    BY <1>2
  <2>. HIDE DEF t
  <2>4. Ranked(t)'
    <3> SUFFICES ASSUME NEW q \in Live', disk'[q].next # 0
                 PROVE  t[q] < t[disk'[q].next]
      BY DEF Ranked
    <3>1. CASE q = to
      <4>1. disk'[q].next = disk[from].next
        BY <1>3, <3>1
      <4>2. disk[from].next \in Page \ {to}
        BY <1>3, <4>1, LiveFacts DEF IInv
      <4>. QED BY <1>3, <2>1, <2>3, <3>1, <4>1, <4>2 DEF Ranked
    <3>2. CASE q # to
      <4>1. q \in Live /\ q \in Page \ {to}
        BY <1>3, <3>2, LiveFacts DEF IInv
      <4>2. CASE q = disk[from].prev
        BY <1>2, <1>3, <2>1, <2>3, <4>1, <4>2 DEF Ranked
      <4>3. CASE q # disk[from].prev
        <5>1. disk'[q].next = disk[q].next /\ disk[q].next \in Live
          BY <1>3, <4>1, <4>3 DEF IInv, LinksMutual
        <5>2. disk[q].next \in Page \ {to}
          BY <1>3, <5>1, LiveFacts DEF IInv
        <5>. QED BY <2>1, <2>3, <4>1, <5>1, <5>2 DEF Ranked
      <4>. QED BY <4>2, <4>3
    <3>. QED BY <3>1, <3>2
  <2>. QED BY <2>2, <2>4 DEF Ordered
<1>16. FreeChain'
  <2>1. \A q \in Page \ {free_num} :
          disk[q].type = "FREE" => disk'[q].type = "FREE" /\ disk'[q].next = disk[q].next
    <3>1. disk[from].prev # 0 => disk[disk[from].prev].type # "FREE"
      BY <1>3, LiveFacts DEF IInv
    <3>. QED BY <1>0, <1>2, <1>3, <3>1
  <2>. QED BY <1>0, <1>1, <1>6, <1>3, <2>1, ChainTail
<1>17. SpaceOK'
  <2>1. ASSUME NEW q \in Live, q # to
        PROVE  Accounted(disk'[q]) /\ disk'[q].chunks # <<>>
    BY <1>3, <2>1, LiveFacts, SameAccounted DEF IInv, SpaceOK
  <2>2. Accounted(disk'[to]) /\ disk'[to].chunks # <<>>
    BY <1>3 DEF IInv, SpaceOK
  <2>. QED BY <1>3, <2>1, <2>2 DEF SpaceOK
<1>18. OneIndexHead'
  <2> SUFFICES ASSUME NEW q \in Live', disk'[q].type = "INDEX", disk'[q].prev = 0
               PROVE  q = schema'.first_index
    BY DEF OneIndexHead
  <2>1. CASE q = to
    <3>1. from = schema.first_index
      BY <1>3, <2>1 DEF IInv, OneIndexHead
    <3>. QED BY <1>3, <1>6, <2>1, <3>1
  <2>2. CASE q # to
    <3>1. q \in Live /\ q # from /\ q \in Page /\ disk[q].type = "INDEX"
      BY <1>3, <2>2, LiveFacts DEF IInv
    <3>2. disk[q].prev = 0
      BY <1>2, <1>3, <2>2, <3>1
    <3>3. q = schema.first_index
      BY <3>1, <3>2 DEF IInv, OneIndexHead
    <3>. QED BY <1>6, <3>1, <3>3
  <2>. QED BY <2>1, <2>2
<1>. QED BY <1>10, <1>11, <1>12, <1>13, <1>14, <1>15, <1>16, <1>17, <1>18 DEF IInv

-----------------------------------------------------------------------------
\* Every step keeps the invariant.
LEMMA NextIInv == IInv /\ [Next]_vars => IInv'
<1> SUFFICES ASSUME IInv, [Next]_vars PROVE IInv'
  OBVIOUS
<1>1. CASE Reopen
  BY <1>1, ReopenStep
<1>2. ASSUME NEW k \in Kind, NEW c \in Chunk, NEW h \in HeadsFor(k),
             AddToHead(k, h, c) \/ AddInNewHead(k, h, c)
      PROVE  IInv'
  BY <1>2, AddToHeadStep, AddInNewHeadStep
<1>3. ASSUME NEW p \in Live, NEW i \in DOMAIN disk[p].chunks, NEW c \in Chunk,
             Replace(p, i, c)
      PROVE  IInv'
  BY <1>3, ReplaceStep
<1>4. ASSUME NEW p \in Live, NEW i \in DOMAIN disk[p].chunks, DeleteOne(p, i)
      PROVE  IInv'
  BY <1>4, DeleteOneStep
<1>5. ASSUME NEW p \in Live, DeleteLast(p)
      PROVE  IInv'
  BY <1>5, DeleteLastStep
<1>6. CASE Shrink
  BY <1>6, ShrinkPassFreeStep, ShrinkNextFreeStep, ShrinkMoveStep,
     ShrinkTruncateStep DEF Shrink
<1>7. CASE UNCHANGED vars
  <2>1. UNCHANGED <<disk, schema, saved, pc, last, free_num>>
    BY <1>7 DEF vars
  <2>2. TypeOK'
    BY <2>1 DEF IInv, TypeOK
  <2>3. \A p \in Live : Accounted(disk'[p]) /\ disk'[p].chunks # <<>>
    BY <2>1 DEF IInv, SpaceOK
  <2>. QED BY <2>1, <2>2, <2>3, RecordStep
<1>. QED BY <1>1, <1>2, <1>3, <1>4, <1>5, <1>6, <1>7 DEF Next

\* The invariant holds in every reachable state of the page store.
THEOREM Invariance == Spec => []IInv
<1>. QED BY InitIInv, NextIInv, PTL DEF Spec

\* Every state of the store is well typed: in particular cnt_free never wraps
\* below zero, no page's free_space goes negative, and the page numbers that
\* get_free_page, free_page and shrink compute stay inside the file.
THEOREM TypeCorrect == Spec => []TypeOK
<1>1. IInv => TypeOK
  BY DEF IInv
<1>. QED BY <1>1, Invariance, PTL

\* A query that ends leaves page 0 equal to the schema it worked with.
THEOREM SavedCorrect == Spec => []SavedAtRest
<1>1. IInv => SavedAtRest
  BY DEF IInv
<1>. QED BY <1>1, Invariance, PTL

\* Neighbouring pages name each other after every call and every relocation.
THEOREM LinksCorrect == Spec => []LinksMutual
<1>1. IInv => LinksMutual
  BY DEF IInv
<1>. QED BY <1>1, Invariance, PTL

\* last_page_num and cnt_free count the pages of the file.
THEOREM PagesCorrect == Spec => []PagesAccounted
<1>1. IInv => PagesAccounted
  BY DEF IInv
<1>. QED BY <1>1, Invariance, PTL

\* The truncation of shrink cuts off no page that holds records.
THEOREM TruncationCorrect == Spec => []TruncationExact
<1>1. IInv => TruncationExact
  BY CutFacts DEF TruncationExact
<1>. QED BY <1>1, Invariance, PTL

\* At rest, fewer than half of the pages are free.
THEOREM CompactionCorrect == Spec => []FewFreeAtRest
<1>1. IInv => FewFreeAtRest
  BY DEF IInv
<1>. QED BY <1>1, Invariance, PTL

-----------------------------------------------------------------------------
(* What following the lists finds: the free list, the lists of records,    *)
(* the index list; and the bytes of a page.                                *)

(* The free list.                                                          *)

\* What get_free_page will take, one after the other, is every free page once.
LEMMA FreeListFollowed == IInv => FreeListExact
<1> SUFFICES ASSUME IInv, pc = "idle"
             PROVE  LET s == PagesFrom(disk, schema.free_page)
                    IN  /\ ToSet(s) = FreePages
                        /\ Len(s) = schema.cnt_free
                        /\ schema.cnt_free = Cardinality(FreePages)
  BY DEF FreeListExact
<1>1. /\ Bound = schema.last_page_num /\ ChainHead = schema.free_page
      /\ schema.last_page_num \in 0 .. MaxPage /\ schema.cnt_free \in Nat
      /\ MaxPage \in Nat \ {0}
  BY ConstantFacts DEF Bound, ChainHead, IInv, TypeOK, Schema, PageNum
<1>2. PICK n \in Nat : \E s \in [1 .. n -> Page] : Chain(n, s)
  BY DEF IInv, FreeChain
<1>3. PICK s \in [1 .. n -> Page] : Chain(n, s)
  BY <1>2
<1>4. n \in 0 .. MaxPage /\ Cardinality({s[i] : i \in 1 .. n}) = n
  <2>1. \A i, j \in 1 .. n : s[i] = s[j] => i = j
    BY <1>3 DEF Chain
  <2>2. n <= MaxPage /\ Cardinality({s[i] : i \in 1 .. n}) = n
    BY <1>3, <2>1, PagesBounded
  <2>. QED BY <1>1, <2>2
<1>5. PagesFrom(disk, schema.free_page) = s
  <2>1. /\ \A i \in 1 .. n : disk[s[i]].next = IF i = n THEN 0 ELSE s[i+1]
        /\ schema.free_page = IF n = 0 THEN 0 ELSE s[1]
    BY <1>1, <1>3 DEF Chain
  <2>2. PICK d, h : d = disk /\ h = schema.free_page
    OBVIOUS
  <2>3. /\ \A i \in 1 .. n : d[s[i]].next = IF i = n THEN 0 ELSE s[i+1]
        /\ h = IF n = 0 THEN 0 ELSE s[1]
        /\ n \in 0 .. MaxPage /\ s \in [1 .. n -> Page]
    BY <2>1, <2>2, <1>4, <1>3
  <2>4. PagesFrom(d, h) = s
    BY <2>3, PagesFromChain, SMTT(30)
  <2>. QED BY <2>2, <2>4
<1>6. {s[i] : i \in 1 .. n} = FreePages
  BY <1>1, <1>3 DEF Chain, FreePages
<1>7. ToSet(s) = FreePages /\ Len(s) = n
  BY <1>6 DEF ToSet
<1>8. Cardinality(FreePages) = schema.cnt_free
  <2>1. /\ FreePages \subseteq Page /\ IsFiniteSet(Page)
        /\ IsFiniteSet(Live) /\ Live \cap FreePages = {} /\ Live \subseteq Page
    <3>1. IsFiniteSet(Page)
      BY <1>1, FS_Interval DEF Page
    <3>. QED BY <3>1, LiveFacts DEF IInv
  <2>2. Live \cup FreePages = 1 .. schema.last_page_num
    <3>1. \A p \in Page : p <= schema.last_page_num => p \in Live \cup FreePages
      BY <1>1 DEF IInv, PagesAccounted
    <3>. QED BY <3>1, <1>1 DEF Live, FreePages, Page
  <2>3. IsFiniteSet(FreePages)
    BY <2>1, FS_Subset
  <2>4. Cardinality(1 .. schema.last_page_num) = schema.last_page_num
    BY <1>1, FS_Interval
  <2>5. /\ Cardinality(Live) \in Nat /\ Cardinality(FreePages) \in Nat
        /\ Cardinality(Live \cap FreePages) = 0
    BY <2>1, <2>3, FS_CardinalityType, FS_EmptySet
  <2>6. Cardinality(Live \cup FreePages)
          = Cardinality(Live) + Cardinality(FreePages) - Cardinality(Live \cap FreePages)
    BY <2>1, <2>3, FS_Union
  <2>7. Cardinality(Live) + schema.cnt_free = schema.last_page_num
    BY DEF IInv, PagesAccounted
  <2>8. Cardinality(Live) + Cardinality(FreePages) = schema.last_page_num
    <3>1. Cardinality(Live \cup FreePages) = schema.last_page_num
      BY <2>2, <2>4, <1>1
    <3>. QED BY <3>1, <2>5, <2>6
  <2>. QED BY <1>1, <2>5, <2>7, <2>8
<1>. QED BY <1>4, <1>5, <1>6, <1>7, <1>8

-----------------------------------------------------------------------------
(* The lists of records.                                                   *)

\* Among some pages, one has the highest number of any ranking.
LEMMA Highest ==
  ASSUME NEW r \in [Page -> Int], NEW B \in SUBSET Page, B # {}
  PROVE  \E p \in B : \A q \in B : r[q] <= r[p]
<1>. DEFINE above(p) == {q \in B : r[p] < r[q]}
            T == {Cardinality(above(p)) : p \in B}
<1>1. IsFiniteSet(B)
  <2>1. IsFiniteSet(Page)
    BY ConstantFacts, FS_Interval DEF Page
  <2>. QED BY <2>1, FS_Subset
<1>2. \A p \in B : IsFiniteSet(above(p)) /\ Cardinality(above(p)) \in Nat
  <2> SUFFICES ASSUME NEW p \in B PROVE IsFiniteSet(above(p)) /\ Cardinality(above(p)) \in Nat
    OBVIOUS
  <2>1. above(p) \in SUBSET B
    OBVIOUS
  <2>. HIDE DEF above
  <2>. QED BY <2>1, <1>1, FS_Subset, FS_CardinalityType
<1>3. PICK m \in T : \A n \in T : m <= n
  <2>. HIDE DEF above
  <2>1. T \in SUBSET Nat /\ T # {}
    BY <1>2
  <2>. HIDE DEF T
  <2>. QED BY <2>1, NatMin
<1>4. PICK p \in B : m = Cardinality(above(p))
  BY <1>3
<1>5. ASSUME NEW q \in B, ~ (r[q] <= r[p]) PROVE FALSE
  <2>1. r[p] < r[q] /\ r[p] \in Int /\ r[q] \in Int
    BY <1>5
  <2>2. above(q) \subseteq above(p) /\ q \in above(p) /\ q \notin above(q)
    BY <2>1
  <2>3. Cardinality(above(q)) \in T
    BY <1>5
  <2>. HIDE DEF above, T
  <2>4. /\ Cardinality(above(q)) <= Cardinality(above(p))
        /\ Cardinality(above(q)) = Cardinality(above(p)) => above(q) = above(p)
    BY <1>2, <1>4, <1>5, <2>2, FS_Subset
  <2>5. /\ m <= Cardinality(above(q))
        /\ Cardinality(above(q)) \in Nat /\ Cardinality(above(p)) \in Nat
    BY <1>2, <1>3, <1>4, <1>5, <2>3
  <2>6. Cardinality(above(q)) = Cardinality(above(p))
    BY <2>4, <2>5, <1>4
  <2>. QED BY <2>2, <2>4, <2>6
<1>. QED BY <1>5

\* The same for the lowest number.
LEMMA Lowest ==
  ASSUME NEW r \in [Page -> Int], NEW B \in SUBSET Page, B # {}
  PROVE  \E p \in B : \A q \in B : r[p] <= r[q]
<1>1. PICK u \in [Page -> Int] : \A p \in Page : u[p] = 0 - r[p]
  <2>1. [p \in Page |-> 0 - r[p]] \in [Page -> Int]
    OBVIOUS
  <2>. QED BY <2>1
<1>2. PICK p \in B : \A q \in B : u[q] <= u[p]
  BY <1>1, Highest
<1>3. \A q \in B : r[p] <= r[q]
  <2> SUFFICES ASSUME NEW q \in B PROVE r[p] <= r[q]
    OBVIOUS
  <2>1. u[q] = 0 - r[q] /\ u[p] = 0 - r[p] /\ r[p] \in Int /\ r[q] \in Int
    BY <1>1
  <2>. QED BY <1>2, <2>1
<1>. QED BY <1>3

\* The pages from p to the end of its list, ranked by r.
Listed(r, p, n, s) ==
  /\ s[1] = p
  /\ \A i \in 1 .. n :
       /\ s[i] \in Live
       /\ disk[s[i]].type = disk[p].type
       /\ disk[s[i]].next = IF i = n THEN 0 ELSE s[i+1]
       /\ i # 1 => disk[s[i]].prev = s[i-1]
  /\ \A i, j \in 1 .. n : i < j => r[s[i]] < r[s[j]]

\* From every page that holds records, the list comes to an end.
LEMMA ListEnds ==
  ASSUME IInv, NEW r \in [Page -> Int], Ranked(r), NEW p \in Live
  PROVE  \E n \in Nat \ {0} : \E s \in [1 .. n -> Page] : Listed(r, p, n, s)
<1>. DEFINE Ends(q) == \E n \in Nat \ {0} : \E s \in [1 .. n -> Page] : Listed(r, q, n, s)
            B == {q \in Live : ~ Ends(q)}
<1>. HIDE DEF Ends
<1>0. Live \subseteq Page /\ 0 \notin Live /\ disk \in [Page -> Header]
  BY LiveFacts DEF IInv, TypeOK
<1> SUFFICES ASSUME B # {} PROVE FALSE
  BY DEF Ends
<1>1. PICK q \in B : \A x \in B : r[x] <= r[q]
  BY <1>0, Highest
<1>2. q \in Live /\ q \in Page /\ ~ Ends(q)
  BY <1>0, <1>1
<1>3. CASE disk[q].next = 0
  <2>. DEFINE s == [i \in 1 .. 1 |-> q]
  <2>1. s \in [1 .. 1 -> Page] /\ s[1] = q
    BY <1>2
  <2>2. \A i \in 1 .. 1 : i = 1
    OBVIOUS
  <2>. HIDE DEF s
  <2>3. Listed(r, q, 1, s)
    BY <1>2, <1>3, <2>1, <2>2 DEF Listed
  <2>4. PICK n : n = 1
    OBVIOUS
  <2>5. n \in Nat \ {0} /\ s \in [1 .. n -> Page] /\ Listed(r, q, n, s)
    BY <2>1, <2>3, <2>4
  <2>. QED BY <1>2, <2>5 DEF Ends
<1>4. CASE disk[q].next # 0
  <2>1. PICK x : x = disk[q].next
    OBVIOUS
  <2>2. x \in Live /\ disk[x].prev = q /\ disk[x].type = disk[q].type
    BY <1>2, <1>4, <2>1 DEF IInv, LinksMutual
  <2>3. r[q] < r[x] /\ r[q] \in Int /\ r[x] \in Int
    BY <1>0, <1>2, <1>4, <2>1, <2>2 DEF Ranked
  <2>4. Ends(x)
    BY <1>1, <2>2, <2>3
  <2>5. PICK n \in Nat \ {0} : \E s \in [1 .. n -> Page] : Listed(r, x, n, s)
    BY <2>4 DEF Ends
  <2>6. PICK s \in [1 .. n -> Page] : Listed(r, x, n, s)
    BY <2>5
  <2>. DEFINE t == [i \in 1 .. n + 1 |-> IF i = 1 THEN q ELSE s[i - 1]]
  <2>7. t \in [1 .. n + 1 -> Page] /\ t[1] = q /\ t[2] = s[1]
    BY <1>2
  <2>8. \A i \in 1 .. n + 1 : i # 1 => i - 1 \in 1 .. n /\ t[i] = s[i - 1]
    OBVIOUS
  <2>. HIDE DEF t
  <2>9. s[1] = x /\ 1 \in 1 .. n
    BY <2>6 DEF Listed
  <2>10. ASSUME NEW i \in 1 .. n + 1
         PROVE  /\ t[i] \in Live
                /\ disk[t[i]].type = disk[q].type
                /\ disk[t[i]].next = IF i = n + 1 THEN 0 ELSE t[i+1]
                /\ i # 1 => disk[t[i]].prev = t[i-1]
    <3>1. CASE i = 1
      <4>1. i # n + 1 /\ t[i + 1] = x /\ t[i] = q
        BY <2>7, <2>9, <3>1
      <4>. QED BY <3>1, <4>1, <2>1, <1>2
    <3>2. CASE i # 1
      <4>1. i - 1 \in 1 .. n /\ t[i] = s[i - 1]
        BY <3>2, <2>8
      <4>2. /\ s[i-1] \in Live
            /\ disk[s[i-1]].type = disk[x].type
            /\ disk[s[i-1]].next = IF i - 1 = n THEN 0 ELSE s[(i - 1) + 1]
            /\ i - 1 # 1 => disk[s[i-1]].prev = s[(i-1) - 1]
        BY <4>1, <2>6 DEF Listed
      <4>3. i # n + 1 => i + 1 \in 1 .. n + 1 /\ i + 1 # 1 /\ (i + 1) - 1 = (i - 1) + 1
        BY <3>2
      <4>4. i # n + 1 => t[i+1] = s[(i - 1) + 1]
        BY <4>3, <2>8
      <4>5. i - 1 = n <=> i = n + 1
        BY <3>2
      <4>6. disk[t[i]].prev = t[i-1]
        <5>1. CASE i - 1 = 1
          BY <5>1, <4>1, <2>2, <2>7, <2>9
        <5>2. CASE i - 1 # 1
          <6>1. PICK k : k = i - 1
            OBVIOUS
          <6>2. k \in 1 .. n + 1 /\ k # 1 /\ t[i] = s[k] /\ disk[s[k]].prev = s[k-1]
            BY <5>2, <6>1, <4>1, <4>2
          <6>3. t[k] = s[k - 1]
            BY <6>2, <2>8
          <6>. QED BY <6>1, <6>2, <6>3
        <5>. QED BY <5>1, <5>2
      <4>. QED BY <4>1, <4>2, <4>4, <4>5, <4>6, <2>2
    <3>. QED BY <3>1, <3>2
  <2>11. ASSUME NEW i \in 1 .. n + 1, NEW j \in 1 .. n + 1, i < j
         PROVE  r[t[i]] < r[t[j]]
    <3>1. j - 1 \in 1 .. n /\ t[j] = s[j - 1]
      BY <2>8, <2>11
    <3>2. CASE i = 1
      <4>1. r[s[j - 1]] \in Int /\ (j - 1 # 1 => r[x] < r[s[j - 1]])
        <5>1. j - 1 # 1 => 1 < j - 1
          BY <3>1
        <5>. QED BY <5>1, <3>1, <2>6, <2>9 DEF Listed
      <4>. QED BY <4>1, <3>1, <3>2, <2>3, <2>7, <2>9
    <3>3. CASE i # 1
      <4>1. i - 1 \in 1 .. n /\ t[i] = s[i - 1] /\ i - 1 < j - 1
        BY <3>3, <2>8, <2>11
      <4>. QED BY <4>1, <3>1, <2>6 DEF Listed
    <3>. QED BY <3>2, <3>3
  <2>12. Listed(r, q, n + 1, t)
    BY <2>7, <2>10, <2>11 DEF Listed
  <2>13. n + 1 \in Nat \ {0}
    OBVIOUS
  <2>. QED BY <1>2, <2>7, <2>12, <2>13 DEF Ends
<1>. QED BY <1>3, <1>4

\* PagesFrom finds that list.
LEMMA ListFound ==
  ASSUME IInv, NEW r \in [Page -> Int], Ranked(r), NEW p \in Live
  PROVE  \E n \in Nat \ {0} : /\ PagesFrom(disk, p) \in [1 .. n -> Page]
                              /\ Listed(r, p, n, PagesFrom(disk, p))
<1>1. PICK n \in Nat \ {0} : \E s \in [1 .. n -> Page] : Listed(r, p, n, s)
  BY ListEnds
<1>2. PICK s \in [1 .. n -> Page] : Listed(r, p, n, s)
  BY <1>1
<1>3. \A i, j \in 1 .. n : s[i] = s[j] => i = j
  <2> SUFFICES ASSUME NEW i \in 1 .. n, NEW j \in 1 .. n, s[i] = s[j], i # j PROVE FALSE
    OBVIOUS
  <2>1. i < j \/ j < i
    OBVIOUS
  <2>2. r[s[i]] < r[s[j]] \/ r[s[j]] < r[s[i]]
    BY <2>1, <1>2 DEF Listed
  <2>3. r[s[i]] \in Int
    OBVIOUS
  <2>. QED BY <2>2, <2>3
<1>4. n \in 0 .. MaxPage
  <2>1. n <= MaxPage
    BY <1>3, PagesBounded
  <2>. QED BY <2>1, ConstantFacts
<1>5. PagesFrom(disk, p) = s
  <2>1. PICK d, h : d = disk /\ h = p
    OBVIOUS
  <2>2. /\ \A i \in 1 .. n : d[s[i]].next = IF i = n THEN 0 ELSE s[i+1]
        /\ h = IF n = 0 THEN 0 ELSE s[1]
        /\ n \in 0 .. MaxPage /\ s \in [1 .. n -> Page]
    BY <2>1, <1>1, <1>2, <1>4 DEF Listed
  <2>3. PagesFrom(d, h) = s
    BY <2>2, PagesFromChain, SMTT(60)
  <2>. QED BY <2>1, <2>3
<1>. QED BY <1>2, <1>5

\* A page of a list has its neighbours there: what its header names in front of
\* it and behind it, and nothing in front of it exactly when it is the head.
LEMMA OnList ==
  ASSUME IInv, NEW h \in Heads
  PROVE  /\ h \in ToSet(PagesFrom(disk, h))
         /\ \A p \in ToSet(PagesFrom(disk, h)) :
              /\ p \in Live
              /\ disk[p].type = disk[h].type
              /\ disk[p].next # 0 => disk[p].next \in ToSet(PagesFrom(disk, h))
              /\ disk[p].prev # 0 => disk[p].prev \in ToSet(PagesFrom(disk, h))
              /\ disk[p].prev = 0 => p = h
         /\ \A j \in 2 .. Len(PagesFrom(disk, h)) :
              disk[PagesFrom(disk, h)[j]].prev = PagesFrom(disk, h)[j - 1]
<1>1. PICK r \in [Page -> Int] : Ranked(r)
  BY DEF IInv, Ordered
<1>2. h \in Live /\ disk[h].prev = 0
  BY DEF Heads
<1>3. PICK s : s = PagesFrom(disk, h)
  OBVIOUS
<1>4. PICK n \in Nat \ {0} : s \in [1 .. n -> Page] /\ Listed(r, h, n, s)
  BY <1>1, <1>2, <1>3, ListFound
<1>5. /\ ToSet(s) = {s[i] : i \in 1 .. n} /\ Len(s) = n
      /\ 1 \in 1 .. n /\ s[1] = h
  <2>1. DOMAIN s = 1 .. n /\ Len(s) = n /\ 1 \in 1 .. n
    BY <1>4
  <2>. QED BY <1>4, <2>1 DEF ToSet, Listed
<1>6. 0 \notin Live
  BY LiveFacts DEF IInv
<1>7. ASSUME NEW i \in 1 .. n
      PROVE  /\ s[i] \in Live
             /\ disk[s[i]].type = disk[h].type
             /\ disk[s[i]].next # 0 => disk[s[i]].next \in ToSet(s)
             /\ disk[s[i]].prev # 0 => disk[s[i]].prev \in ToSet(s)
             /\ disk[s[i]].prev = 0 => s[i] = h
             /\ i # 1 => disk[s[i]].prev = s[i - 1]
  <2>1. /\ s[i] \in Live
        /\ disk[s[i]].type = disk[h].type
        /\ disk[s[i]].next = IF i = n THEN 0 ELSE s[i+1]
        /\ i # 1 => disk[s[i]].prev = s[i-1]
    BY <1>4 DEF Listed
  <2>2. i # n => i + 1 \in 1 .. n
    OBVIOUS
  <2>3. i # 1 => i - 1 \in 1 .. n
    OBVIOUS
  <2>4. i # 1 => s[i - 1] # 0 /\ s[i - 1] \in ToSet(s)
    BY <2>3, <1>4, <1>5, <1>6 DEF Listed
  <2>5. i = 1 => s[i] = h /\ disk[s[i]].prev = 0
    BY <1>2, <1>5
  <2>. QED BY <2>1, <2>2, <2>4, <2>5, <1>5
<1>8. \A j \in 2 .. Len(s) : disk[s[j]].prev = s[j - 1]
  <2>1. \A j \in 2 .. n : j \in 1 .. n /\ j # 1
    OBVIOUS
  <2>. QED BY <2>1, <1>5, <1>7
<1>9. \A p \in ToSet(s) : \E i \in 1 .. n : p = s[i]
  BY <1>5
<1>. QED BY <1>3, <1>5, <1>7, <1>8, <1>9

\* Every page that holds records is on one list.
LEMMA OnOneList ==
  ASSUME IInv, NEW p \in Live
  PROVE  \E h \in Heads : \A g \in Heads : p \in ToSet(PagesFrom(disk, g)) <=> g = h
<1>. DEFINE OnOne(q) == \E h \in Heads : \A g \in Heads :
                          q \in ToSet(PagesFrom(disk, g)) <=> g = h
            B == {q \in Live : ~ OnOne(q)}
<1> SUFFICES ASSUME B # {} PROVE FALSE
  OBVIOUS
<1>. HIDE DEF OnOne
<1>0. Live \subseteq Page /\ 0 \notin Live
  BY LiveFacts DEF IInv
<1>1. PICK r \in [Page -> Int] : Ranked(r)
  BY DEF IInv, Ordered
<1>2. PICK q \in B : \A x \in B : r[q] <= r[x]
  BY <1>0, Lowest
<1>3. q \in Live /\ ~ OnOne(q)
  BY <1>2
<1>4. CASE disk[q].prev = 0
  <2>1. q \in Heads
    BY <1>3, <1>4 DEF Heads
  <2>2. \A g \in Heads : q \in ToSet(PagesFrom(disk, g)) <=> g = q
    BY <1>4, <2>1, OnList
  <2>. QED BY <1>3, <2>1, <2>2 DEF OnOne
<1>5. CASE disk[q].prev # 0
  <2>1. PICK x : x = disk[q].prev
    OBVIOUS
  <2>2. x \in Live /\ disk[x].next = q /\ q # 0
    BY <1>0, <1>3, <1>5, <2>1 DEF IInv, LinksMutual
  <2>3. r[x] < r[q] /\ r[x] \in Int /\ r[q] \in Int
    BY <1>0, <1>1, <1>3, <2>2 DEF Ranked
  <2>4. OnOne(x)
    <3>1. ~ (r[q] <= r[x])
      BY <2>3
    <3>. QED BY <3>1, <1>2, <2>2
  <2>5. PICK h \in Heads : \A g \in Heads : x \in ToSet(PagesFrom(disk, g)) <=> g = h
    BY <2>4 DEF OnOne
  <2>6. \A g \in Heads : q \in ToSet(PagesFrom(disk, g)) <=> x \in ToSet(PagesFrom(disk, g))
    BY <1>5, <2>1, <2>2, OnList
  <2>. QED BY <1>3, <2>5, <2>6 DEF OnOne
<1>. QED BY <1>4, <1>5

\* The lists partition the pages that hold records.
LEMMA ListsFollowed == IInv => ListsExact
<1> SUFFICES ASSUME IInv PROVE ListsExact
  OBVIOUS
<1>. DEFINE list == [h \in Heads |-> PagesFrom(disk, h)]
<1>1. \A h \in Heads : list[h] = PagesFrom(disk, h)
  OBVIOUS
<1>2. ASSUME NEW p \in Live
      PROVE  Cardinality({h \in Heads : p \in ToSet(list[h])}) = 1
  <2>1. PICK h \in Heads : \A g \in Heads : p \in ToSet(PagesFrom(disk, g)) <=> g = h
    BY OnOneList
  <2>2. {g \in Heads : p \in ToSet(list[g])} = {h}
    <3>. HIDE DEF list
    <3>. QED BY <1>1, <2>1
  <2>. QED BY <2>2, FS_Singleton
<1>3. ASSUME NEW h \in Heads
      PROVE  /\ ToSet(list[h]) \subseteq {p \in Live : disk[p].type = disk[h].type}
             /\ \A j \in 2 .. Len(list[h]) : disk[list[h][j]].prev = list[h][j-1]
  <2>. HIDE DEF list
  <2>. QED BY <1>1, OnList
<1>. QED BY <1>2, <1>3 DEF ListsExact

\* From schema->first_index, all index pages are found.
LEMMA IndexListFollowed == IInv => IndexListReachable
<1> SUFFICES ASSUME IInv
             PROVE  ToSet(PagesFrom(disk, schema.first_index))
                      = {p \in Live : disk[p].type = "INDEX"}
  BY DEF IndexListReachable
<1>1. ASSUME NEW p \in Live, disk[p].type = "INDEX"
      PROVE  /\ schema.first_index # 0
             /\ p \in ToSet(PagesFrom(disk, schema.first_index))
  <2>1. PICK h \in Heads : \A g \in Heads : p \in ToSet(PagesFrom(disk, g)) <=> g = h
    BY OnOneList
  <2>2. disk[h].type = "INDEX" /\ h \in Live /\ disk[h].prev = 0 /\ h # 0
    BY <1>1, <2>1, OnList, LiveFacts DEF Heads, IInv
  <2>3. h = schema.first_index
    BY <2>2 DEF IInv, OneIndexHead
  <2>. QED BY <2>1, <2>2, <2>3
<1>2. CASE schema.first_index = 0
  <2>1. PICK d, h, n : d = disk /\ h = 0 /\ n = 0
    OBVIOUS
  <2>2. PICK s : s \in [1 .. n -> Page]
    <3>1. [i \in 1 .. 0 |-> 1] \in [1 .. 0 -> Page]
      OBVIOUS
    <3>. QED BY <2>1, <3>1
  <2>3. /\ n \in 0 .. MaxPage
        /\ \A i \in 1 .. n : d[s[i]].next = IF i = n THEN 0 ELSE s[i+1]
        /\ h = IF n = 0 THEN 0 ELSE s[1]
    BY <2>1, ConstantFacts
  <2>4. PagesFrom(d, h) = s
    BY <2>2, <2>3, PagesFromChain
  <2>5. ToSet(s) = {}
    BY <2>1, <2>2 DEF ToSet
  <2>. QED BY <1>1, <1>2, <2>1, <2>4, <2>5
<1>3. CASE schema.first_index # 0
  <2>1. schema.first_index \in Heads /\ disk[schema.first_index].type = "INDEX"
    BY <1>3 DEF IInv, FirstIndexOK, Heads
  <2>2. \A p \in ToSet(PagesFrom(disk, schema.first_index)) :
          p \in Live /\ disk[p].type = "INDEX"
    BY <2>1, OnList
  <2>. QED BY <1>1, <2>2
<1>. QED BY <1>2, <1>3

-----------------------------------------------------------------------------
(* The bytes of a page.                                                    *)

\* The free space of a page that holds records is what they leave.
LEMMA SpaceFollowed == IInv => SpaceExact
<1> SUFFICES ASSUME IInv, NEW p \in Live
             PROVE  LET used == FoldLeft(LAMBDA n, c : n + Size[c] + LenSize, 0,
                                         disk[p].chunks)
                    IN  /\ disk[p].free_space = Capacity - used
                        /\ disk[p].free_space >= 0
                        /\ disk[p].chunks # <<>>
  BY DEF SpaceExact
<1>1. PICK page : page = disk[p]
  OBVIOUS
<1>2. page \in Header /\ Accounted(page) /\ page.chunks # <<>>
  BY <1>1, LiveFacts DEF IInv, TypeOK, SpaceOK
<1>3. PICK t : Sums(page, t) /\ page.free_space = Capacity - t[Len(page.chunks)]
  BY <1>2 DEF Accounted
<1>4. FoldLeft(LAMBDA n, c : n + Size[c] + LenSize, 0, page.chunks)
        = t[Len(page.chunks)]
  BY <1>2, <1>3, UsedBytes
<1>5. page.free_space >= 0
  BY <1>2 DEF Header
<1>. QED BY <1>1, <1>2, <1>3, <1>4, <1>5

-----------------------------------------------------------------------------
\* At rest, get_free_page finds every free page once, and cnt_free counts them.
THEOREM FreeListCorrect == Spec => []FreeListExact
<1>. QED BY FreeListFollowed, Invariance, PTL

\* Every page with records is on exactly one list, of its type, also while
\* shrink relocates pages.
THEOREM ListsCorrect == Spec => []ListsExact
<1>. QED BY ListsFollowed, Invariance, PTL

\* schema->first_index reaches every index page, also when its head is freed
\* or relocated.
THEOREM IndexListCorrect == Spec => []IndexListReachable
<1>. QED BY IndexListFollowed, Invariance, PTL

\* free_space is exact after any history of additions, replacements and deletions.
THEOREM SpaceCorrect == Spec => []SpaceExact
<1>. QED BY SpaceFollowed, Invariance, PTL
=============================================================================
