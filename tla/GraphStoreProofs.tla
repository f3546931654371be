-------------------------- MODULE GraphStoreProofs --------------------------
(***************************************************************************)
(* Facts about the operators of GraphStore: what following the pages of a  *)
(* list and looking through its records find.                              *)
(***************************************************************************)
EXTENDS GraphStore, SequenceTheorems, TLAPS

P == INSTANCE PageFileProofs WITH Kind <- {"INDEX", "NODE", "LINK"},
                                  Chunk <- Record, Size <- RecordSize

-----------------------------------------------------------------------------
(* The lemmas about PageFile, for pages that hold the records of the graph. *)

LEMMA Constants ==
  /\ MaxPage \in Nat \ {0}
  /\ LenSize = 4 /\ Capacity = 4072 /\ MaxSize = 4068
  /\ Page = 1 .. MaxPage /\ PageNum = 0 .. MaxPage
  /\ 0 \in PageNum /\ 0 \notin Page /\ Page \subseteq PageNum
BY BoundAssumption DEF LenSize, Capacity, PAGE_SIZE, HeaderSize, MaxSize, Page, PageNum

\* A record fits into an empty page.
LEMMA SizeFacts ==
  \A r \in Record : /\ RecordSize[r] = SizeOf(r) /\ SizeOf(r) \in Nat \ {0}
                    /\ SizeOf(r) <= 4068
<1> SUFFICES ASSUME NEW r \in Record
             PROVE  SizeOf(r) \in Nat \ {0} /\ SizeOf(r) <= 4068
  BY DEF RecordSize
<1>1. CASE r \in IndexRecord
  BY <1>1 DEF IndexRecord, SizeOf
<1>2. CASE r \in NodeRecord
  <2>1. /\ r.rec = "NODE" /\ TextLen[r.text] \in Nat
        /\ Len(r.out) \in Nat /\ Len(r.in) \in Nat
    BY <1>2, TextAssumption DEF NodeRecord
  <2>2. SizeOf(r) = 4 + (4 + TextLen[r.text]) + (4 + 8 * Len(r.out)) + (4 + 8 * Len(r.in))
    BY <2>1 DEF SizeOf
  <2>3. SizeOf(r) <= 4068
    BY DEF Record, MaxSize
  <2>4. PICK a \in Nat, b \in Nat, c \in Nat :
          a = TextLen[r.text] /\ b = Len(r.out) /\ c = Len(r.in)
    BY <2>1
  <2>5. SizeOf(r) = 4 + (4 + a) + (4 + 8 * b) + (4 + 8 * c)
    BY <2>2, <2>4
  <2>. QED BY <2>3, <2>5
<1>3. CASE r \in LinkRecord
  BY <1>3 DEF LinkRecord, SizeOf
<1>. QED BY <1>1, <1>2, <1>3 DEF Record

LEMMA Assumed == P!PageAssumption /\ P!KindAssumption /\ P!SizeAssumption
<1>1. P!SizeAssumption
  <2>1. P!Capacity = 4072 /\ P!LenSize = 4
    BY DEF P!Capacity, P!PAGE_SIZE, P!HeaderSize, P!LenSize
  <2>2. RecordSize \in [Record -> Nat \ {0}]
    BY SizeFacts DEF RecordSize
  <2>. QED BY <2>1, <2>2, SizeFacts DEF P!SizeAssumption
<1>. QED BY <1>1, BoundAssumption DEF P!PageAssumption, P!KindAssumption

LEMMA Same ==
  /\ P!Page = Page /\ P!PageNum = PageNum /\ P!Header = Header /\ P!Schema = Schema
  /\ P!Capacity = Capacity /\ P!LenSize = LenSize
<1>1. P!Page = Page /\ P!PageNum = PageNum
  BY DEF P!Page, Page, P!PageNum, PageNum
<1>2. P!Header = Header
  BY <1>1 DEF P!Header, Header, P!PageType, PageType
<1>3. P!Schema = Schema
  BY <1>1 DEF P!Schema, Schema
<1>4. P!Capacity = Capacity /\ P!LenSize = LenSize
  BY DEF P!Capacity, P!PAGE_SIZE, P!HeaderSize, P!LenSize, Capacity, PAGE_SIZE, HeaderSize, LenSize
<1>. QED BY <1>1, <1>2, <1>3, <1>4

\* A set of natural numbers that has an element has a least one.
LEMMA Least ==
  ASSUME NEW T \in SUBSET Nat, T # {}
  PROVE  \E m \in T : \A n \in T : m <= n
BY Assumed, P!NatMin

-----------------------------------------------------------------------------
(* Following a list.                                                       *)

\* s[1] .. s[n] are the pages of the list that starts at page h of the file d.
Chain(d, h, n, s) ==
  /\ n \in 0 .. MaxPage
  /\ s \in [1 .. n -> Page]
  /\ \A i, j \in 1 .. n : s[i] = s[j] => i = j
  /\ h = IF n = 0 THEN 0 ELSE s[1]
  /\ \A i \in 1 .. n : d[s[i]].next = IF i = n THEN 0 ELSE s[i + 1]

LEMMA ChainStart ==
  ASSUME NEW d, NEW h, NEW n, NEW s, Chain(d, h, n, s), h # 0
  PROVE  /\ n \in Nat /\ 1 \in 1 .. n /\ h = s[1] /\ h \in Page
         /\ d[h].next = IF 1 = n THEN 0 ELSE s[1 + 1]
<1>1. n \in Nat /\ n # 0
  BY Constants DEF Chain
<1>2. 1 \in 1 .. n /\ h = s[1]
  BY <1>1 DEF Chain
<1>. QED BY <1>1, <1>2 DEF Chain

\* PagesFrom finds them.
LEMMA ChainFollowed ==
  ASSUME NEW d, NEW h, NEW n, NEW s, Chain(d, h, n, s)
  PROVE  PagesFrom(d, h) = s /\ Len(s) = n /\ s \in Seq(Page)
<1>1. /\ n \in 0 .. MaxPage /\ s \in [1 .. n -> P!Page]
      /\ \A i \in 1 .. n : d[s[i]].next = IF i = n THEN 0 ELSE s[i + 1]
      /\ h = IF n = 0 THEN 0 ELSE s[1]
  BY Same DEF Chain
<1>2. P!PagesFrom(d, h) = s
  BY <1>1, Assumed, P!PagesFromChain
<1>3. P!PagesFrom(d, h) = PagesFrom(d, h)
  BY Same DEF P!PagesFrom, PagesFrom
<1>4. n \in Nat /\ s \in [1 .. n -> Page]
  BY <1>1, Same
<1>. QED BY <1>2, <1>3, <1>4, SeqDef

-----------------------------------------------------------------------------
(* Looking for the record of an index.                                     *)

LEMMA MinFacts ==
  ASSUME NEW T \in SUBSET Nat, T # {}
  PROVE  Min(T) \in T /\ \A l \in T : Min(T) <= l
BY Least DEF Min

LEMMA MinIs ==
  ASSUME NEW T \in SUBSET Nat, NEW m \in T, \A l \in T : m <= l
  PROVE  Min(T) = m
<1>1. Min(T) \in T /\ Min(T) <= m
  BY MinFacts
<1>2. m <= Min(T) /\ m \in Nat /\ Min(T) \in Nat
  BY <1>1
<1>. QED BY <1>1, <1>2

NameHits(f, p, name) ==
  {k \in 1 .. Len(f.disk[p].chunks) : f.disk[p].chunks[k].name = name}
NameHit(f, p, name) ==
  IF NameHits(f, p, name) # {} THEN Min(NameHits(f, p, name)) ELSE 0
PageHits(f, s, name) == {j \in 1 .. Len(s) : NameHit(f, s[j], name) # 0}
PageHit(f, s, name) ==
  IF PageHits(f, s, name) # {} THEN Min(PageHits(f, s, name)) ELSE 0

LEMMA IndexSlotIs ==
  ASSUME NEW f, NEW name, NEW s, s = PagesFrom(f.disk, f.schema.first_index)
  PROVE  IndexSlot(f, name) =
           IF PageHit(f, s, name) = 0 THEN <<>>
           ELSE <<s[PageHit(f, s, name)], NameHit(f, s[PageHit(f, s, name)], name)>>
BY DEF IndexSlot, Find, SelectInSeq, PageHit, PageHits, NameHit, NameHits

LEMMA NameHitFacts ==
  ASSUME NEW f, NEW p, NEW name
  PROVE  /\ NameHit(f, p, name) # 0 <=> NameHits(f, p, name) # {}
         /\ NameHits(f, p, name) # {} =>
              /\ NameHit(f, p, name) \in NameHits(f, p, name)
              /\ \A l \in NameHits(f, p, name) : NameHit(f, p, name) <= l
<1>1. NameHits(f, p, name) \in SUBSET Nat /\ 0 \notin NameHits(f, p, name)
  BY DEF NameHits
<1>. QED BY <1>1, MinFacts DEF NameHit

LEMMA PageHitFacts ==
  ASSUME NEW f, NEW s, NEW name
  PROVE  /\ PageHit(f, s, name) # 0 <=> PageHits(f, s, name) # {}
         /\ PageHits(f, s, name) # {} =>
              /\ PageHit(f, s, name) \in PageHits(f, s, name)
              /\ \A l \in PageHits(f, s, name) : PageHit(f, s, name) <= l
<1>1. PageHits(f, s, name) \in SUBSET Nat /\ 0 \notin PageHits(f, s, name)
  BY DEF PageHits
<1>. QED BY <1>1, MinFacts DEF PageHit

\* Position k of page s[i] is the first one with a record of that name.
FirstNamed(f, name, n, s, i, k) ==
  /\ i \in 1 .. n /\ k \in NameHits(f, s[i], name)
  /\ \A l \in NameHits(f, s[i], name) : k <= l
  /\ \A j \in 1 .. n : NameHits(f, s[j], name) # {} => i <= j

\* It is the one that the search finds.
LEMMA IndexSlotFound ==
  ASSUME NEW f, NEW name, NEW n, NEW s, NEW i, NEW k,
         Chain(f.disk, f.schema.first_index, n, s), FirstNamed(f, name, n, s, i, k)
  PROVE  IndexSlot(f, name) = <<s[i], k>> /\ HasIndex(f, name)
<1>1. PagesFrom(f.disk, f.schema.first_index) = s /\ Len(s) = n
  BY ChainFollowed
<1>2. PageHits(f, s, name) = {j \in 1 .. n : NameHits(f, s[j], name) # {}}
  BY <1>1, NameHitFacts DEF PageHits
<1>3. i \in PageHits(f, s, name) /\ \A l \in PageHits(f, s, name) : i <= l
  BY <1>2 DEF FirstNamed
<1>4. PageHit(f, s, name) = i
  <2>1. PageHits(f, s, name) \in SUBSET Nat /\ PageHits(f, s, name) # {}
    BY <1>2, <1>3
  <2>2. Min(PageHits(f, s, name)) = i
    BY <1>3, <2>1, MinIs
  <2>. QED BY <2>1, <2>2 DEF PageHit
<1>5. NameHit(f, s[i], name) = k
  <2>1. NameHits(f, s[i], name) \in SUBSET Nat /\ k \in NameHits(f, s[i], name)
    BY DEF NameHits, FirstNamed
  <2>2. Min(NameHits(f, s[i], name)) = k
    BY <2>1, MinIs DEF FirstNamed
  <2>. QED BY <2>1, <2>2 DEF NameHit
<1>6. i # 0
  BY DEF FirstNamed
<1>7. IndexSlot(f, name) = <<s[i], k>>
  BY <1>1, <1>4, <1>5, <1>6, IndexSlotIs
<1>. QED BY <1>7 DEF HasIndex

\* A search that finds a record finds that one.
LEMMA IndexSlotFirst ==
  ASSUME NEW f, NEW name, NEW n, NEW s,
         Chain(f.disk, f.schema.first_index, n, s), HasIndex(f, name)
  PROVE  \E i, k : FirstNamed(f, name, n, s, i, k)
<1>1. PagesFrom(f.disk, f.schema.first_index) = s /\ Len(s) = n
  BY ChainFollowed
<1>2. PageHits(f, s, name) = {j \in 1 .. n : NameHits(f, s[j], name) # {}}
  BY <1>1, NameHitFacts DEF PageHits
<1>3. PageHit(f, s, name) # 0
  BY <1>1, IndexSlotIs DEF HasIndex
<1>4. PICK i : i = PageHit(f, s, name)
  OBVIOUS
<1>5. i \in PageHits(f, s, name) /\ \A l \in PageHits(f, s, name) : i <= l
  BY <1>3, <1>4, PageHitFacts
<1>6. PICK k : k = NameHit(f, s[i], name)
  OBVIOUS
<1>7. NameHits(f, s[i], name) # {} /\ i \in 1 .. n
  BY <1>2, <1>5
<1>8. k \in NameHits(f, s[i], name) /\ \A l \in NameHits(f, s[i], name) : k <= l
  BY <1>6, <1>7, NameHitFacts
<1>. QED BY <1>2, <1>5, <1>7, <1>8 DEF FirstNamed

-----------------------------------------------------------------------------
(* What a file is in which an index has its nodes.                         *)

\* ... and they are all of one type.
ChainOf(f, type, h, n, s) ==
  Chain(f.disk, h, n, s) /\ \A i \in 1 .. n : f.disk[s[i]].type = type

Filed(f) ==
  /\ f = [disk |-> f.disk, schema |-> f.schema]
  /\ f.disk \in [Page -> Header] /\ f.schema \in Schema

\* The index list, and that it has the index.
IndexList(f, n, s) ==
  /\ ChainOf(f, "INDEX", f.schema.first_index, n, s)
  /\ \A i \in 1 .. n : \A k \in DOMAIN f.disk[s[i]].chunks :
       f.disk[s[i]].chunks[k].rec = "INDEX"

Indexed(f, name) ==
  /\ LET s == PagesFrom(f.disk, f.schema.first_index) IN IndexList(f, Len(s), s)
  /\ HasIndex(f, name)

\* The free list.
FreeListed(f) ==
  LET s == PagesFrom(f.disk, f.schema.free_page)
  IN  ChainOf(f, "FREE", f.schema.free_page, Len(s), s) /\ f.schema.cnt_free = Len(s)

\* The list of the index's nodes.
NodesListed(f, h, n, s) ==
  /\ ChainOf(f, "NODE", h, n, s)
  /\ \A i \in 1 .. n : \A k \in DOMAIN f.disk[s[i]].chunks :
       f.disk[s[i]].chunks[k].rec = "NODE"
  /\ \A i, j \in 1 .. n :
       \A k \in DOMAIN f.disk[s[i]].chunks, l \in DOMAIN f.disk[s[j]].chunks :
         f.disk[s[i]].chunks[k].id = f.disk[s[j]].chunks[l].id => i = j /\ k = l

\* The pages on and off the lists.  A killed process may leave a page that looks
\* free but is not on the free list, and leads to a page that is in use by now.
PagesSound(f, n, s) ==
  \A p \in Page :
    LET x == f.disk[p]
    IN  /\ x.type = "NONE" => x.chunks = <<>> /\ x.next = 0
        /\ x.type # "NONE" => p <= f.schema.last_page_num
        /\ x.type = "FREE" =>
             /\ x.chunks = <<>> /\ x.free_space = Capacity
             /\ x.next # 0 => \/ f.disk[x.next].type = "FREE"
                              \/ \E i \in 1 .. n : x.next = s[i]

Good(f, name, h, n, s) ==
  /\ Filed(f) /\ Indexed(f, name) /\ FreeListed(f)
  /\ NodesListed(f, h, n, s) /\ PagesSound(f, n, s)

\* The ids of the nodes of a page, and of the pages s[j] .. s[n].
IdsOn(f, p) == {f.disk[p].chunks[k].id : k \in DOMAIN f.disk[p].chunks}
IdsFrom(f, n, s, j) == UNION {IdsOn(f, s[i]) : i \in j .. n}

-----------------------------------------------------------------------------
(* The index list.                                                         *)

\* Page p of the index list has indexes of the same names in f and in g.
Alike(f, g, p) ==
  /\ g.disk[p].type = "INDEX" /\ g.disk[p].next = f.disk[p].next
  /\ Len(g.disk[p].chunks) = Len(f.disk[p].chunks)
  /\ \A k \in 1 .. Len(f.disk[p].chunks) :
       /\ g.disk[p].chunks[k].name = f.disk[p].chunks[k].name
       /\ g.disk[p].chunks[k].rec = f.disk[p].chunks[k].rec

LEMMA PageTyped ==
  ASSUME NEW f, NEW p \in Page, Filed(f)
  PROVE  /\ f.disk[p] \in Header /\ f.disk[p].chunks \in Seq(Record)
         /\ Len(f.disk[p].chunks) \in Nat
         /\ DOMAIN f.disk[p].chunks = 1 .. Len(f.disk[p].chunks)
         /\ \A k \in 1 .. Len(f.disk[p].chunks) : f.disk[p].chunks[k] \in Record
<1>1. f.disk[p] \in Header
  BY DEF Filed
<1>2. f.disk[p].chunks \in Seq(Record)
  BY <1>1 DEF Header
<1>3. PICK c : c = f.disk[p].chunks
  OBVIOUS
<1>4. c \in Seq(Record)
  BY <1>2, <1>3
<1>5. Len(c) \in Nat /\ DOMAIN c = 1 .. Len(c) /\ \A k \in 1 .. Len(c) : c[k] \in Record
  BY <1>4
<1>. QED BY <1>1, <1>2, <1>3, <1>5

\* Where the index record is.
LEMMA IndexSlotFacts ==
  ASSUME NEW f, NEW name, Filed(f), Indexed(f, name)
  PROVE  \E p \in Page : \E k \in 1 .. Len(f.disk[p].chunks) :
           /\ IndexSlot(f, name) = <<p, k>> /\ f.disk[p].type = "INDEX"
           /\ GetIndex(f, name) = f.disk[p].chunks[k]
           /\ GetIndex(f, name) \in IndexRecord /\ GetIndex(f, name).name = name
<1>1. PICK n, s : /\ Chain(f.disk, f.schema.first_index, n, s)
                  /\ \A i \in 1 .. n : f.disk[s[i]].type = "INDEX"
                  /\ \A i \in 1 .. n : \A k \in DOMAIN f.disk[s[i]].chunks :
                        f.disk[s[i]].chunks[k].rec = "INDEX"
                  /\ HasIndex(f, name)
  <2>1. PICK n, s : IndexList(f, n, s)
    BY DEF Indexed
  <2>2. ChainOf(f, "INDEX", f.schema.first_index, n, s)
    BY <2>1 DEF IndexList
  <2>3. \A i \in 1 .. n : \A k \in DOMAIN f.disk[s[i]].chunks :
          f.disk[s[i]].chunks[k].rec = "INDEX"
    BY <2>1 DEF IndexList
  <2>4. HasIndex(f, name)
    BY DEF Indexed
  <2>. QED BY <2>2, <2>3, <2>4 DEF ChainOf
<1>2. PICK i, k : FirstNamed(f, name, n, s, i, k)
  BY <1>1, IndexSlotFirst
<1>3. IndexSlot(f, name) = <<s[i], k>>
  BY <1>1, <1>2, IndexSlotFound
<1>4. i \in 1 .. n /\ s[i] \in Page
  BY <1>1, <1>2 DEF FirstNamed, Chain
<1>5. k \in 1 .. Len(f.disk[s[i]].chunks) /\ f.disk[s[i]].chunks[k].name = name
  BY <1>2 DEF FirstNamed, NameHits
<1>6. f.disk[s[i]].chunks[k] \in Record /\ f.disk[s[i]].chunks[k].rec = "INDEX"
  BY <1>1, <1>4, <1>5, PageTyped
<1>7. f.disk[s[i]].chunks[k] \in IndexRecord
  BY <1>6 DEF Record, NodeRecord, LinkRecord
<1>8. GetIndex(f, name) = f.disk[s[i]].chunks[k]
  BY <1>3 DEF GetIndex, At
<1>. QED BY <1>1, <1>3, <1>4, <1>5, <1>7, <1>8

\* What is written to other pages, or to an index record in its place, moves no
\* index record.
LEMMA IndexedAlike ==
  ASSUME NEW f, NEW g, NEW name, Filed(f), Filed(g), Indexed(f, name),
         g.schema.first_index = f.schema.first_index,
         \A p \in Page : f.disk[p].type = "INDEX" => Alike(f, g, p)
  PROVE  Indexed(g, name) /\ IndexSlot(g, name) = IndexSlot(f, name)
<1>1. PICK n, s : /\ Chain(f.disk, f.schema.first_index, n, s)
                  /\ \A i \in 1 .. n : f.disk[s[i]].type = "INDEX"
                  /\ \A i \in 1 .. n : \A k \in DOMAIN f.disk[s[i]].chunks :
                        f.disk[s[i]].chunks[k].rec = "INDEX"
                  /\ HasIndex(f, name)
  <2>1. PICK n, s : IndexList(f, n, s)
    BY DEF Indexed
  <2>2. ChainOf(f, "INDEX", f.schema.first_index, n, s)
    BY <2>1 DEF IndexList
  <2>3. \A i \in 1 .. n : \A k \in DOMAIN f.disk[s[i]].chunks :
          f.disk[s[i]].chunks[k].rec = "INDEX"
    BY <2>1 DEF IndexList
  <2>4. HasIndex(f, name)
    BY DEF Indexed
  <2>. QED BY <2>2, <2>3, <2>4 DEF ChainOf
<1>2. \A i \in 1 .. n : s[i] \in Page /\ Alike(f, g, s[i])
  BY <1>1 DEF Chain
<1>3. Chain(g.disk, g.schema.first_index, n, s)
  BY <1>1, <1>2 DEF Chain, Alike
<1>4. \A i \in 1 .. n : NameHits(g, s[i], name) = NameHits(f, s[i], name)
  BY <1>2 DEF NameHits, Alike
<1>5. PICK i, k : FirstNamed(f, name, n, s, i, k)
  BY <1>1, IndexSlotFirst
<1>6. FirstNamed(g, name, n, s, i, k)
  BY <1>4, <1>5 DEF FirstNamed
<1>7. IndexSlot(f, name) = <<s[i], k>> /\ IndexSlot(g, name) = <<s[i], k>> /\ HasIndex(g, name)
  BY <1>1, <1>3, <1>5, <1>6, IndexSlotFound
<1>8. PagesFrom(g.disk, g.schema.first_index) = s /\ Len(s) = n
  BY <1>3, ChainFollowed
<1>9. \A j \in 1 .. n : /\ g.disk[s[j]].type = "INDEX"
                        /\ \A l \in DOMAIN g.disk[s[j]].chunks :
                             g.disk[s[j]].chunks[l].rec = "INDEX"
  <2> SUFFICES ASSUME NEW j \in 1 .. n
               PROVE  /\ g.disk[s[j]].type = "INDEX"
                      /\ \A l \in DOMAIN g.disk[s[j]].chunks :
                             g.disk[s[j]].chunks[l].rec = "INDEX"
    OBVIOUS
  <2>1. s[j] \in Page /\ Alike(f, g, s[j])
    BY <1>2
  <2>2. /\ DOMAIN f.disk[s[j]].chunks = 1 .. Len(f.disk[s[j]].chunks)
        /\ DOMAIN g.disk[s[j]].chunks = 1 .. Len(g.disk[s[j]].chunks)
    BY <2>1, PageTyped
  <2>. QED BY <2>1, <2>2, <1>1 DEF Alike
<1>10. Indexed(g, name)
  <2>1. IndexList(g, n, s)
    BY <1>3, <1>9 DEF IndexList, ChainOf
  <2>. QED BY <1>7, <1>8, <2>1 DEF Indexed
<1>. QED BY <1>7, <1>10

\* Where index pages are as they were, so is the index record.
LEMMA IndexKept ==
  ASSUME NEW f, NEW g, NEW name, Filed(f), Filed(g), Indexed(f, name),
         g.schema.first_index = f.schema.first_index,
         \A p \in Page : f.disk[p].type = "INDEX" =>
            /\ g.disk[p].type = "INDEX" /\ g.disk[p].next = f.disk[p].next
            /\ g.disk[p].chunks = f.disk[p].chunks
  PROVE  Indexed(g, name) /\ GetIndex(g, name) = GetIndex(f, name)
<1>1. Indexed(g, name) /\ IndexSlot(g, name) = IndexSlot(f, name)
  <2>1. \A p \in Page : f.disk[p].type = "INDEX" => Alike(f, g, p)
    BY DEF Alike
  <2>. QED BY <2>1, IndexedAlike
<1>2. PICK p \in Page : \E k \in 1 .. Len(f.disk[p].chunks) :
         IndexSlot(f, name) = <<p, k>> /\ f.disk[p].type = "INDEX"
  BY IndexSlotFacts
<1>3. PICK k \in 1 .. Len(f.disk[p].chunks) :
         IndexSlot(f, name) = <<p, k>> /\ f.disk[p].type = "INDEX"
  BY <1>2
<1>4. GetIndex(g, name) = g.disk[p].chunks[k] /\ GetIndex(f, name) = f.disk[p].chunks[k]
  BY <1>1, <1>3 DEF GetIndex, At
<1>. QED BY <1>1, <1>3, <1>4

\* save_index keeps the size of the record, so that the page keeps its space.
LEMMA SaveIndexFacts ==
  ASSUME NEW f, NEW name, NEW ix \in IndexRecord, ix.name = name,
         Filed(f), Indexed(f, name)
  PROVE  /\ Filed(SaveIndex(f, ix)) /\ Indexed(SaveIndex(f, ix), name)
         /\ GetIndex(SaveIndex(f, ix), name) = ix
         /\ SaveIndex(f, ix).schema = f.schema
         /\ \A p \in Page :
              /\ SaveIndex(f, ix).disk[p].type = f.disk[p].type
              /\ SaveIndex(f, ix).disk[p].next = f.disk[p].next
              /\ f.disk[p].type # "INDEX" => SaveIndex(f, ix).disk[p] = f.disk[p]
<1>1. PICK q \in Page : \E k \in 1 .. Len(f.disk[q].chunks) :
         /\ IndexSlot(f, name) = <<q, k>> /\ f.disk[q].type = "INDEX"
         /\ GetIndex(f, name) = f.disk[q].chunks[k]
         /\ GetIndex(f, name) \in IndexRecord /\ GetIndex(f, name).name = name
  BY IndexSlotFacts
<1>2. PICK k \in 1 .. Len(f.disk[q].chunks) :
         /\ IndexSlot(f, name) = <<q, k>> /\ f.disk[q].type = "INDEX"
         /\ GetIndex(f, name) = f.disk[q].chunks[k]
         /\ GetIndex(f, name) \in IndexRecord /\ GetIndex(f, name).name = name
  BY <1>1
<1>3. PICK page, chunks, old, g :
         /\ page = f.disk[q] /\ chunks = page.chunks /\ old = chunks[k]
         /\ g = SaveIndex(f, ix)
  OBVIOUS
<1>4. /\ page \in Header /\ chunks \in Seq(Record) /\ k \in 1 .. Len(chunks)
      /\ old \in IndexRecord /\ old.name = name
  BY <1>2, <1>3, PageTyped
<1>5. SizeOf(ix) = SizeOf(old) /\ SizeOf(ix) \in Nat /\ SizeOf(ix) <= MaxSize
  BY <1>4, Constants DEF SizeOf, IndexRecord
<1>6. ix \in Record /\ old \in Record
  BY <1>4, <1>5 DEF Record
<1>7. RecordSize[ix] = RecordSize[old] /\ RecordSize[ix] \in Nat
  BY <1>5, <1>6 DEF RecordSize
<1>8. PICK new : new = [page EXCEPT !.chunks = [chunks EXCEPT ![k] = ix]]
  OBVIOUS
<1>9. /\ [chunks EXCEPT ![k] = ix] \in Seq(Record)
      /\ Len([chunks EXCEPT ![k] = ix]) = Len(chunks)
      /\ \A l \in 1 .. Len(chunks) :
           [chunks EXCEPT ![k] = ix][l] = IF l = k THEN ix ELSE chunks[l]
  BY <1>4, <1>6, ExceptSeq
<1>10. /\ new \in Header /\ new.type = page.type /\ new.next = page.next
       /\ new.chunks = [chunks EXCEPT ![k] = ix]
  BY <1>4, <1>8, <1>9 DEF Header
<1>11. WithReplaced(page, k, ix) = new
  <2>1. page.free_space \in Nat
    BY <1>4 DEF Header
  <2>2. page.free_space + RecordSize[page.chunks[k]] - RecordSize[ix] = page.free_space
    BY <2>1, <1>3, <1>7
  <2>3. WithReplaced(page, k, ix)
          = [page EXCEPT !.chunks = [chunks EXCEPT ![k] = ix], !.free_space = page.free_space]
    BY <2>2, <1>3 DEF WithReplaced
  <2>. QED BY <2>3, <1>4, <1>8 DEF Header
<1>12. g = [disk |-> [f.disk EXCEPT ![q] = new], schema |-> f.schema]
  BY <1>2, <1>3, <1>11 DEF SaveIndex, Rewritten, Filed
<1>13. g.disk = [f.disk EXCEPT ![q] = new] /\ g.schema = f.schema
  BY <1>12
<1>14. Filed(g)
  BY <1>10, <1>12, <1>13 DEF Filed
<1>15. \A p \in Page : g.disk[p] = IF p = q THEN new ELSE f.disk[p]
  BY <1>13 DEF Filed
<1>16. \A p \in Page : /\ g.disk[p].type = f.disk[p].type
                       /\ g.disk[p].next = f.disk[p].next
                       /\ f.disk[p].type # "INDEX" => g.disk[p] = f.disk[p]
  BY <1>2, <1>3, <1>10, <1>15
<1>17. \A p \in Page : f.disk[p].type = "INDEX" => Alike(f, g, p)
  <2> SUFFICES ASSUME NEW p \in Page, f.disk[p].type = "INDEX"
               PROVE  Alike(f, g, p)
    OBVIOUS
  <2>1. CASE p # q
    BY <2>1, <1>15 DEF Alike
  <2>2. CASE p = q
    <3>1. ix.rec = old.rec
      BY <1>4 DEF IndexRecord
    <3>2. PICK put : put = [chunks EXCEPT ![k] = ix]
      OBVIOUS
    <3>3. /\ Len(put) = Len(chunks)
          /\ \A l \in 1 .. Len(chunks) : put[l] = IF l = k THEN ix ELSE chunks[l]
      BY <3>2, <1>9
    <3>4. \A l \in 1 .. Len(chunks) :
            put[l].name = chunks[l].name /\ put[l].rec = chunks[l].rec
      BY <3>1, <3>3, <1>3, <1>4
    <3>5. g.disk[p] = new /\ f.disk[p] = page
      BY <2>2, <1>3, <1>15
    <3>6. g.disk[p].type = "INDEX" /\ g.disk[p].next = f.disk[p].next
      BY <3>5, <2>2, <1>2, <1>10
    <3>7. g.disk[p].chunks = put /\ f.disk[p].chunks = chunks
      BY <3>2, <3>5, <1>3, <1>10
    <3>. QED BY <3>3, <3>4, <3>6, <3>7 DEF Alike
  <2>. QED BY <2>1, <2>2
<1>18. Indexed(g, name) /\ IndexSlot(g, name) = <<q, k>>
  BY <1>2, <1>13, <1>14, <1>17, IndexedAlike
<1>19. GetIndex(g, name) = ix
  <2>1. GetIndex(g, name) = g.disk[q].chunks[k]
    BY <1>18 DEF GetIndex, At
  <2>2. g.disk[q].chunks = [chunks EXCEPT ![k] = ix]
    BY <1>10, <1>15
  <2>. QED BY <2>1, <2>2, <1>4, <1>9
<1>. QED BY <1>3, <1>13, <1>14, <1>16, <1>18, <1>19

-----------------------------------------------------------------------------
(* The other lists.                                                        *)

LEMMA NodesKept ==
  ASSUME NEW f, NEW g, NEW h, NEW n, NEW s, NodesListed(f, h, n, s),
         \A i \in 1 .. n : /\ g.disk[s[i]].type = f.disk[s[i]].type
                           /\ g.disk[s[i]].next = f.disk[s[i]].next
                           /\ g.disk[s[i]].chunks = f.disk[s[i]].chunks
  PROVE  NodesListed(g, h, n, s)
<1>1. ChainOf(g, "NODE", h, n, s)
  BY DEF NodesListed, ChainOf, Chain
<1>2. \A i \in 1 .. n : \A k \in DOMAIN g.disk[s[i]].chunks :
        g.disk[s[i]].chunks[k].rec = "NODE"
  BY DEF NodesListed
<1>3. ASSUME NEW i \in 1 .. n, NEW j \in 1 .. n,
             NEW k \in DOMAIN g.disk[s[i]].chunks, NEW l \in DOMAIN g.disk[s[j]].chunks,
             g.disk[s[i]].chunks[k].id = g.disk[s[j]].chunks[l].id
      PROVE  i = j /\ k = l
  <2>1. /\ k \in DOMAIN f.disk[s[i]].chunks /\ l \in DOMAIN f.disk[s[j]].chunks
        /\ f.disk[s[i]].chunks[k].id = f.disk[s[j]].chunks[l].id
    BY <1>3
  <2>. QED BY <2>1 DEF NodesListed
<1>. QED BY <1>1, <1>2, <1>3 DEF NodesListed

\* The pages of the free list.
Free(f) == PagesFrom(f.disk, f.schema.free_page)

LEMMA FreeKept ==
  ASSUME NEW f, NEW g, FreeListed(f),
         g.schema.free_page = f.schema.free_page, g.schema.cnt_free = f.schema.cnt_free,
         \A i \in 1 .. Len(Free(f)) :
           /\ g.disk[Free(f)[i]].type = f.disk[Free(f)[i]].type
           /\ g.disk[Free(f)[i]].next = f.disk[Free(f)[i]].next
  PROVE  FreeListed(g) /\ Free(g) = Free(f)
<1>1. PICK s, n : s = Free(f) /\ n = Len(s)
  OBVIOUS
<1>2. ChainOf(f, "FREE", f.schema.free_page, n, s) /\ f.schema.cnt_free = n
  BY <1>1 DEF FreeListed, Free
<1>3. ChainOf(g, "FREE", g.schema.free_page, n, s)
  BY <1>1, <1>2 DEF ChainOf, Chain
<1>4. PagesFrom(g.disk, g.schema.free_page) = s /\ Len(s) = n
  BY <1>3, ChainFollowed DEF ChainOf
<1>. QED BY <1>1, <1>2, <1>3, <1>4 DEF FreeListed, Free

LEMMA FreeTyped ==
  ASSUME NEW f, FreeListed(f)
  PROVE  \A i \in 1 .. Len(Free(f)) : Free(f)[i] \in Page /\ f.disk[Free(f)[i]].type = "FREE"
BY DEF FreeListed, Free, ChainOf, Chain

\* The rest of the list holds the same nodes, from wherever one looks.
SameIds(f, g, n, s) == \A j \in Nat \ {0} : IdsFrom(g, n, s, j) = IdsFrom(f, n, s, j)

LEMMA IdsKept ==
  ASSUME NEW f, NEW g, NEW n \in Nat, NEW s,
         \A i \in 1 .. n : g.disk[s[i]].chunks = f.disk[s[i]].chunks
  PROVE  SameIds(f, g, n, s)
<1> SUFFICES ASSUME NEW j \in Nat \ {0}
             PROVE  IdsFrom(g, n, s, j) = IdsFrom(f, n, s, j)
  BY DEF SameIds
<1>1. \A i \in j .. n : IdsOn(g, s[i]) = IdsOn(f, s[i])
  <2> SUFFICES ASSUME NEW i \in j .. n PROVE IdsOn(g, s[i]) = IdsOn(f, s[i])
    OBVIOUS
  <2>1. i \in 1 .. n
    OBVIOUS
  <2>. QED BY <2>1 DEF IdsOn
<1>. QED BY <1>1 DEF IdsFrom

\* No page changes its type, its successor, or records that are not indexes.
Undisturbed(f, g) ==
  /\ Filed(g) /\ g.schema = f.schema
  /\ \A p \in Page : /\ g.disk[p].type = f.disk[p].type
                     /\ g.disk[p].next = f.disk[p].next
                     /\ f.disk[p].type # "INDEX" =>
                          /\ g.disk[p].chunks = f.disk[p].chunks
                          /\ g.disk[p].free_space = f.disk[p].free_space

\* A write that leaves it at that keeps what is Good.
LEMMA GoodKept ==
  ASSUME NEW f, NEW g, NEW name, NEW h, NEW n, NEW s, Good(f, name, h, n, s),
         Undisturbed(f, g), Indexed(g, name)
  PROVE  /\ Good(g, name, h, n, s) /\ Free(g) = Free(f)
         /\ SameIds(f, g, n, s)
<1>. USE DEF Undisturbed
<1>1. /\ Filed(f) /\ FreeListed(f) /\ NodesListed(f, h, n, s) /\ PagesSound(f, n, s)
  BY DEF Good
<1>2. n \in Nat /\ \A i \in 1 .. n : s[i] \in Page /\ f.disk[s[i]].type = "NODE"
  BY <1>1 DEF NodesListed, ChainOf, Chain
<1>3. FreeListed(g) /\ Free(g) = Free(f)
  <2>1. \A i \in 1 .. Len(Free(f)) : Free(f)[i] \in Page
    BY <1>1, FreeTyped
  <2>2. \A i \in 1 .. Len(Free(f)) :
           /\ g.disk[Free(f)[i]].type = f.disk[Free(f)[i]].type
           /\ g.disk[Free(f)[i]].next = f.disk[Free(f)[i]].next
    BY <2>1
  <2>. QED BY <2>2, <1>1, FreeKept
<1>4. \A i \in 1 .. n : /\ g.disk[s[i]].type = f.disk[s[i]].type
                        /\ g.disk[s[i]].next = f.disk[s[i]].next
                        /\ g.disk[s[i]].chunks = f.disk[s[i]].chunks
  BY <1>2
<1>5. NodesListed(g, h, n, s)
  BY <1>1, <1>4, NodesKept
<1>6. SameIds(f, g, n, s)
  BY <1>2, <1>4, IdsKept
<1>7. PagesSound(g, n, s)
  <2> SUFFICES ASSUME NEW p \in Page
               PROVE  LET x == g.disk[p]
                      IN  /\ x.type = "NONE" => x.chunks = <<>> /\ x.next = 0
                          /\ x.type # "NONE" => p <= g.schema.last_page_num
                          /\ x.type = "FREE" =>
                               /\ x.chunks = <<>> /\ x.free_space = Capacity
                               /\ x.next # 0 => \/ g.disk[x.next].type = "FREE"
                                                \/ \E i \in 1 .. n : x.next = s[i]
    BY DEF PagesSound
  <2>1. /\ f.disk[p].type = "NONE" => f.disk[p].chunks = <<>> /\ f.disk[p].next = 0
        /\ f.disk[p].type # "NONE" => p <= f.schema.last_page_num
        /\ f.disk[p].type = "FREE" =>
             /\ f.disk[p].chunks = <<>> /\ f.disk[p].free_space = Capacity
             /\ f.disk[p].next # 0 => \/ f.disk[f.disk[p].next].type = "FREE"
                                      \/ \E i \in 1 .. n : f.disk[p].next = s[i]
    BY <1>1 DEF PagesSound
  <2>2. f.disk[p].next # 0 => f.disk[p].next \in Page
    <3>1. f.disk[p].next \in PageNum
      BY <1>1, PageTyped DEF Header
    <3>. QED BY <3>1, Constants
  <2>. QED BY <2>1, <2>2
<1>. QED BY <1>1, <1>3, <1>5, <1>6, <1>7 DEF Good

\* Telling a page its predecessor is such a write.
LEMMA PrevGood ==
  ASSUME NEW f, NEW g, NEW name, NEW h, NEW n, NEW s, Good(f, name, h, n, s),
         Filed(g), g.schema = f.schema,
         \A p \in Page : /\ g.disk[p].type = f.disk[p].type
                         /\ g.disk[p].next = f.disk[p].next
                         /\ g.disk[p].chunks = f.disk[p].chunks
                         /\ g.disk[p].free_space = f.disk[p].free_space
  PROVE  /\ Good(g, name, h, n, s) /\ Free(g) = Free(f)
         /\ SameIds(f, g, n, s)
         /\ GetIndex(g, name) = GetIndex(f, name)
<1>1. Filed(f) /\ Indexed(f, name)
  BY DEF Good
<1>2. Indexed(g, name) /\ GetIndex(g, name) = GetIndex(f, name)
  BY <1>1, IndexKept
<1>3. /\ Good(g, name, h, n, s) /\ Free(g) = Free(f)
      /\ SameIds(f, g, n, s)
  <2>1. Undisturbed(f, g)
    BY DEF Undisturbed
  <2>2. Good(f, name, h, n, s) /\ Undisturbed(f, g) /\ Indexed(g, name)
    BY <2>1, <1>2
  <2>. QED BY <2>2, GoodKept
<1>. QED BY <1>2, <1>3

\* ... and so is save_index.
LEMMA SaveIndexGood ==
  ASSUME NEW f, NEW name, NEW h, NEW n, NEW s, Good(f, name, h, n, s),
         NEW ix \in IndexRecord, ix.name = name
  PROVE  LET g == SaveIndex(f, ix)
         IN  /\ Good(g, name, h, n, s) /\ Free(g) = Free(f)
             /\ SameIds(f, g, n, s)
             /\ GetIndex(g, name) = ix
             /\ g.schema = f.schema
             /\ \A p \in Page : /\ g.disk[p].type = f.disk[p].type
                                /\ f.disk[p].type # "INDEX" => g.disk[p] = f.disk[p]
<1>1. PICK g : g = SaveIndex(f, ix)
  OBVIOUS
<1>2. Filed(f) /\ Indexed(f, name)
  BY DEF Good
<1>3. /\ Filed(g) /\ Indexed(g, name) /\ GetIndex(g, name) = ix /\ g.schema = f.schema
      /\ \A p \in Page : /\ g.disk[p].type = f.disk[p].type
                         /\ g.disk[p].next = f.disk[p].next
                         /\ f.disk[p].type # "INDEX" => g.disk[p] = f.disk[p]
  BY <1>1, <1>2, SaveIndexFacts
<1>4. /\ Good(g, name, h, n, s) /\ Free(g) = Free(f)
      /\ SameIds(f, g, n, s)
  <2>1. Undisturbed(f, g)
    BY <1>3 DEF Undisturbed
  <2>2. Good(f, name, h, n, s) /\ Undisturbed(f, g) /\ Indexed(g, name)
    BY <2>1, <1>3
  <2>. QED BY <2>2, GoodKept
<1>. QED BY <1>1, <1>3, <1>4

-----------------------------------------------------------------------------
(* get_free_page and add_chunk.                                            *)

\* A page that is on no list, below the end of the file.
Taken(f, p) ==
  /\ p \in Page /\ p <= f.schema.last_page_num
  /\ f.disk[p].type \in {"FREE", "NONE"}
  /\ \A i \in 1 .. Len(Free(f)) : Free(f)[i] # p

\* The schema that get_free_page saves takes the page off the free list, or moves
\* the end of the file behind it.
LEMMA AllocGood ==
  ASSUME NEW f, NEW name, NEW h, NEW n, NEW s, Good(f, name, h, n, s),
         AllocNum(f.schema) \in Page
  PROVE  LET g == [disk |-> f.disk, schema |-> AllocSchema(f.disk, f.schema)]
         IN  /\ Good(g, name, h, n, s)
             /\ GetIndex(g, name) = GetIndex(f, name)
             /\ Taken(g, AllocNum(f.schema))
<1>1. PICK g, num, sch : /\ g = [disk |-> f.disk, schema |-> AllocSchema(f.disk, f.schema)]
                         /\ num = AllocNum(f.schema) /\ sch = f.schema
  OBVIOUS
<1>2. /\ Filed(f) /\ Indexed(f, name) /\ FreeListed(f) /\ NodesListed(f, h, n, s)
      /\ PagesSound(f, n, s) /\ sch \in Schema /\ num \in Page
  BY <1>1 DEF Good, Filed
<1>3. PICK t, m : t = Free(f) /\ m = Len(t)
  OBVIOUS
<1>4. /\ m \in 0 .. MaxPage /\ t \in [1 .. m -> Page]
      /\ \A i, j \in 1 .. m : t[i] = t[j] => i = j
      /\ sch.free_page = IF m = 0 THEN 0 ELSE t[1]
      /\ \A i \in 1 .. m : /\ f.disk[t[i]].next = IF i = m THEN 0 ELSE t[i + 1]
                           /\ f.disk[t[i]].type = "FREE"
      /\ sch.cnt_free = m
  BY <1>1, <1>2, <1>3 DEF FreeListed, Free, ChainOf, Chain
<1>5. g.disk = f.disk /\ g.schema = AllocSchema(f.disk, sch)
  BY <1>1
\* The rest of the free list.
<1>6. /\ g.schema \in Schema /\ g.schema.first_index = sch.first_index
      /\ sch.last_page_num <= g.schema.last_page_num
      /\ FreeListed(g) /\ Taken(g, num)
  <2>1. CASE m = 0
    <3>1. /\ num = sch.last_page_num + 1 /\ g.schema = [sch EXCEPT !.last_page_num = @ + 1]
      BY <2>1, <1>1, <1>4, <1>5 DEF AllocNum, AllocSchema
    <3>2. sch.last_page_num \in Nat /\ num \in PageNum
      BY <1>2, Constants DEF Schema
    <3>3. /\ g.schema \in Schema /\ g.schema.first_index = sch.first_index
          /\ g.schema.last_page_num = num /\ num = sch.last_page_num + 1
          /\ g.schema.free_page = sch.free_page /\ g.schema.cnt_free = sch.cnt_free
      BY <3>1, <3>2, <1>2 DEF Schema
    <3>4. FreeListed(g) /\ Free(g) = Free(f)
      BY <3>3, <1>1, <1>2, <1>5, FreeKept
    <3>5. f.disk[num].type = "NONE"
      <4>1. ~ (num <= sch.last_page_num)
        BY <3>2, <3>3
      <4>. QED BY <4>1, <1>1, <1>2 DEF PagesSound
    <3>6. Taken(g, num)
      <4>1. Len(Free(g)) = 0
        BY <3>4, <2>1, <1>3
      <4>2. num <= g.schema.last_page_num
        BY <3>2, <3>3
      <4>. QED BY <4>1, <4>2, <3>5, <1>2, <1>5 DEF Taken
    <3>. QED BY <3>2, <3>3, <3>4, <3>6
  <2>2. CASE m # 0
    <3>1. m \in Nat /\ 1 \in 1 .. m /\ t[1] \in Page /\ t[1] # 0
      BY <2>2, <1>4, Constants
    <3>2. /\ num = t[1]
          /\ g.schema = [sch EXCEPT !.free_page = f.disk[t[1]].next, !.cnt_free = @ - 1]
      BY <2>2, <3>1, <1>1, <1>4, <1>5 DEF AllocNum, AllocSchema
    <3>3. f.disk[t[1]].next \in PageNum
      BY <3>1, <1>2, PageTyped DEF Header
    <3>4. /\ g.schema \in Schema /\ g.schema.first_index = sch.first_index
          /\ g.schema.last_page_num = sch.last_page_num
          /\ g.schema.free_page = f.disk[t[1]].next /\ g.schema.cnt_free = m - 1
      <4>1. m - 1 \in Nat
        BY <3>1
      <4>. QED BY <4>1, <3>2, <3>3, <1>2, <1>4 DEF Schema
    <3>5. PICK u : u = [i \in 1 .. m - 1 |-> t[i + 1]]
      OBVIOUS
    <3>6. ChainOf(g, "FREE", g.schema.free_page, m - 1, u)
      <4>2. \A i \in 1 .. m - 1 : u[i] = t[i + 1] /\ i + 1 \in 1 .. m
        BY <3>1, <3>5
      <4>1. m - 1 \in 0 .. MaxPage /\ u \in [1 .. m - 1 -> Page]
        <5>1. \A i \in 1 .. m - 1 : t[i + 1] \in Page
          BY <4>2, <1>4
        <5>2. m - 1 \in 0 .. MaxPage
          BY <3>1, <1>4, Constants
        <5>. QED BY <5>1, <5>2, <3>5
      <4>3. \A i, j \in 1 .. m - 1 : u[i] = u[j] => i = j
        <5> SUFFICES ASSUME NEW i \in 1 .. m - 1, NEW j \in 1 .. m - 1, u[i] = u[j]
                     PROVE  i = j
          OBVIOUS
        <5>1. i + 1 = j + 1
          BY <4>2, <1>4
        <5>. QED BY <5>1
      <4>4. g.schema.free_page = IF m - 1 = 0 THEN 0 ELSE u[1]
        <5>1. CASE m = 1
          BY <5>1, <3>1, <3>4, <1>4
        <5>2. CASE m # 1
          <6>1. 1 \in 1 .. m - 1 /\ m - 1 # 0
            BY <5>2, <3>1
          <6>2. u[1] = t[1 + 1] /\ f.disk[t[1]].next = t[1 + 1]
            BY <5>2, <6>1, <4>2, <3>1, <1>4
          <6>. QED BY <6>1, <6>2, <3>4
        <5>. QED BY <5>1, <5>2
      <4>5. ASSUME NEW i \in 1 .. m - 1
            PROVE  /\ g.disk[u[i]].next = IF i = m - 1 THEN 0 ELSE u[i + 1]
                   /\ g.disk[u[i]].type = "FREE"
        <5>1. u[i] = t[i + 1] /\ i + 1 \in 1 .. m
          BY <4>2
        <5>2. /\ f.disk[t[i + 1]].next = IF i + 1 = m THEN 0 ELSE t[(i + 1) + 1]
              /\ f.disk[t[i + 1]].type = "FREE"
          BY <5>1, <1>4
        <5>3. CASE i = m - 1
          BY <5>1, <5>2, <5>3, <3>1, <1>5
        <5>4. CASE i # m - 1
          <6>1. i + 1 \in 1 .. m - 1 /\ i + 1 # m
            BY <5>4, <3>1
          <6>2. u[i + 1] = t[(i + 1) + 1]
            BY <6>1, <4>2
          <6>. QED BY <5>1, <5>2, <5>4, <6>1, <6>2, <1>5
        <5>. QED BY <5>3, <5>4
      <4>. QED BY <4>1, <4>3, <4>4, <4>5 DEF ChainOf, Chain
    <3>7. Free(g) = u /\ Len(u) = m - 1
      BY <3>6, ChainFollowed DEF ChainOf, Free
    <3>8. FreeListed(g)
      BY <3>4, <3>6, <3>7 DEF FreeListed, Free
    <3>9. Taken(g, num)
      <4>1. num <= g.schema.last_page_num
        <5>1. f.disk[num].type # "NONE"
          BY <3>1, <3>2, <1>4
        <5>. QED BY <5>1, <3>4, <1>1, <1>2 DEF PagesSound
      <4>2. \A i \in 1 .. Len(Free(g)) : Free(g)[i] # num
        <5> SUFFICES ASSUME NEW i \in 1 .. m - 1 PROVE u[i] # t[1]
          BY <3>2, <3>7
        <5>1. u[i] = t[i + 1] /\ i + 1 \in 1 .. m /\ i + 1 # 1
          BY <3>1, <3>5
        <5>. QED BY <5>1, <3>1, <1>4
      <4>3. g.disk[num].type = "FREE"
        BY <3>1, <3>2, <1>4, <1>5
      <4>. QED BY <4>1, <4>2, <4>3, <1>2 DEF Taken
    <3>10. sch.last_page_num <= g.schema.last_page_num
      BY <3>4, <1>2 DEF Schema, PageNum
    <3>. QED BY <3>4, <3>8, <3>9, <3>10
  <2>. QED BY <2>1, <2>2
<1>7. Filed(g)
  BY <1>1, <1>2, <1>5, <1>6 DEF Filed
<1>8. Indexed(g, name) /\ GetIndex(g, name) = GetIndex(f, name)
  BY <1>1, <1>2, <1>5, <1>6, <1>7, IndexKept
<1>9. NodesListed(g, h, n, s)
  BY <1>2, <1>5, NodesKept
<1>10. PagesSound(g, n, s)
  <2>1. \A p \in Page : p <= sch.last_page_num => p <= g.schema.last_page_num
    BY <1>2, <1>6 DEF Schema, PageNum, Page
  <2>. QED BY <2>1, <1>1, <1>2, <1>5 DEF PagesSound
<1>11. Good(g, name, h, n, s)
  BY <1>6, <1>7, <1>8, <1>9, <1>10 DEF Good
<1>. QED BY <1>1, <1>6, <1>8, <1>11

\* What add_chunk makes of a page.
LEMMA ChunkAdded ==
  ASSUME NEW page \in Header, NEW node \in Record, Fits(page, node)
  PROVE  /\ WithChunk(page, node) \in Header
         /\ WithChunk(page, node).type = page.type /\ WithChunk(page, node).next = page.next
         /\ WithChunk(page, node).chunks = Append(page.chunks, node)
         /\ Len(WithChunk(page, node).chunks) = Len(page.chunks) + 1
         /\ DOMAIN page.chunks = 1 .. Len(page.chunks)
         /\ DOMAIN WithChunk(page, node).chunks = 1 .. Len(page.chunks) + 1
         /\ WithChunk(page, node).chunks[Len(page.chunks) + 1] = node
         /\ \A k \in 1 .. Len(page.chunks) :
              WithChunk(page, node).chunks[k] = page.chunks[k]
<1>1. PICK c : c = page.chunks
  OBVIOUS
<1>2. c \in Seq(Record) /\ page.free_space \in Nat /\ page.chunks = c
  BY <1>1 DEF Header
<1>3. /\ Append(c, node) \in Seq(Record) /\ Len(Append(c, node)) = Len(c) + 1
      /\ Append(c, node)[Len(c) + 1] = node
      /\ \A k \in 1 .. Len(c) : Append(c, node)[k] = c[k]
  BY <1>2, AppendProperties
<1>4. DOMAIN c = 1 .. Len(c) /\ DOMAIN Append(c, node) = 1 .. Len(c) + 1
  BY <1>2, <1>3
<1>5. RecordSize[node] \in Nat /\ LenSize \in Nat
  BY SizeFacts, Constants
<1>6. page.free_space - (RecordSize[node] + LenSize) \in Nat
  BY <1>2, <1>5 DEF Fits
<1>7. /\ WithChunk(page, node) \in Header
      /\ WithChunk(page, node).type = page.type /\ WithChunk(page, node).next = page.next
      /\ WithChunk(page, node).chunks = Append(c, node)
  BY <1>2, <1>3, <1>6 DEF WithChunk, Header
<1>. QED BY <1>2, <1>3, <1>4, <1>7

\* A node that is not there yet.
New(f, n, s, node) ==
  node \in Record /\ node.rec = "NODE" /\ node.id \notin IdsFrom(f, n, s, 1)

LEMMA IdsThere ==
  ASSUME NEW f, NEW n, NEW s, NEW j, NEW i \in j .. n,
         NEW k \in DOMAIN f.disk[s[i]].chunks
  PROVE  f.disk[s[i]].chunks[k].id \in IdsFrom(f, n, s, j)
<1>1. f.disk[s[i]].chunks[k].id \in IdsOn(f, s[i])
  BY DEF IdsOn
<1>. QED BY <1>1 DEF IdsFrom

\* An id is on the list once.
LEMMA OneOfId ==
  ASSUME NEW f, NEW h, NEW n, NEW s, NodesListed(f, h, n, s),
         NEW i \in 1 .. n, NEW j \in 1 .. n,
         NEW k \in DOMAIN f.disk[s[i]].chunks, NEW l \in DOMAIN f.disk[s[j]].chunks,
         f.disk[s[i]].chunks[k].id = f.disk[s[j]].chunks[l].id
  PROVE  i = j /\ k = l
BY DEF NodesListed

\* add_chunk to the first page of the list.
LEMMA PutFirst ==
  ASSUME NEW f, NEW name, NEW h, NEW n, NEW s, Good(f, name, h, n, s), h # 0,
         NEW node, New(f, n, s, node), Fits(f.disk[h], node)
  PROVE  LET g == Put(f, h, f.disk[h], node)
         IN  /\ Good(g, name, h, n, s) /\ GetIndex(g, name) = GetIndex(f, name)
             /\ h = s[1] /\ 1 \in 1 .. n
             /\ \A p \in Page : g.disk[p].type = f.disk[p].type
             /\ IdsFrom(g, n, s, 1) = IdsFrom(f, n, s, 1) \cup {node.id}
             /\ \A j \in 2 .. n : IdsFrom(g, n, s, j) = IdsFrom(f, n, s, j)
<1>1. PICK g, page, new : /\ g = Put(f, h, f.disk[h], node) /\ page = f.disk[h]
                          /\ new = WithChunk(page, node)
  OBVIOUS
<1>2. /\ Filed(f) /\ Indexed(f, name) /\ FreeListed(f) /\ NodesListed(f, h, n, s)
      /\ PagesSound(f, n, s)
  BY DEF Good
<1>3. /\ n \in 0 .. MaxPage /\ s \in [1 .. n -> Page] /\ h = s[1] /\ 1 \in 1 .. n
      /\ \A i, j \in 1 .. n : s[i] = s[j] => i = j
      /\ \A i \in 1 .. n : f.disk[s[i]].type = "NODE"
      /\ n \in Nat /\ h \in Page
  BY <1>2, Constants DEF NodesListed, ChainOf, Chain
<1>4. page \in Header /\ page.type = "NODE" /\ node \in Record /\ node.rec = "NODE"
  BY <1>1, <1>2, <1>3, PageTyped DEF New
<1>5. PICK l : l = Len(page.chunks)
  OBVIOUS
<1>6. /\ new \in Header /\ new.type = "NODE" /\ new.next = page.next
      /\ l \in Nat /\ DOMAIN page.chunks = 1 .. l /\ DOMAIN new.chunks = 1 .. l + 1
      /\ new.chunks[l + 1] = node
      /\ \A k \in 1 .. l : new.chunks[k] = page.chunks[k]
  BY <1>1, <1>4, <1>5, ChunkAdded DEF Header
<1>7. g = [disk |-> [f.disk EXCEPT ![h] = new], schema |-> f.schema]
  BY <1>1, <1>2 DEF Put, Filed
<1>8. /\ g.schema = f.schema /\ Filed(g)
      /\ \A p \in Page : g.disk[p] = IF p = h THEN new ELSE f.disk[p]
  BY <1>2, <1>3, <1>6, <1>7 DEF Filed
<1>9. /\ \A p \in Page : g.disk[p].type = f.disk[p].type /\ g.disk[p].next = f.disk[p].next
      /\ \A p \in Page : f.disk[p].type # "NODE" => g.disk[p] = f.disk[p]
  BY <1>1, <1>4, <1>6, <1>8
<1>10. Indexed(g, name) /\ GetIndex(g, name) = GetIndex(f, name)
  BY <1>2, <1>8, <1>9, IndexKept
<1>11. FreeListed(g)
  BY <1>2, <1>8, <1>9, FreeTyped, FreeKept
<1>12. \A i \in 1 .. n : g.disk[s[i]].chunks = IF i = 1 THEN new.chunks ELSE f.disk[s[i]].chunks
  BY <1>3, <1>8
<1>13. \A i \in 1 .. n : \A k \in DOMAIN g.disk[s[i]].chunks :
         \/ /\ k \in DOMAIN f.disk[s[i]].chunks
            /\ g.disk[s[i]].chunks[k] = f.disk[s[i]].chunks[k]
         \/ i = 1 /\ k = l + 1 /\ g.disk[s[i]].chunks[k] = node
  <2> SUFFICES ASSUME NEW i \in 1 .. n, NEW k \in DOMAIN g.disk[s[i]].chunks
               PROVE  \/ /\ k \in DOMAIN f.disk[s[i]].chunks
                         /\ g.disk[s[i]].chunks[k] = f.disk[s[i]].chunks[k]
                      \/ i = 1 /\ k = l + 1 /\ g.disk[s[i]].chunks[k] = node
    OBVIOUS
  <2>1. CASE i = 1
    <3>1. /\ g.disk[s[i]].chunks = new.chunks /\ f.disk[s[i]].chunks = page.chunks
          /\ k \in 1 .. l + 1
      BY <2>1, <1>1, <1>3, <1>6, <1>12
    <3>2. k \in 1 .. l \/ k = l + 1
      BY <3>1, <1>6
    <3>. QED BY <2>1, <3>1, <3>2, <1>6
  <2>2. CASE i # 1
    BY <2>2, <1>12
  <2>. QED BY <2>1, <2>2
<1>14. NodesListed(g, h, n, s)
  <2>1. ChainOf(g, "NODE", h, n, s)
    BY <1>2, <1>3, <1>9 DEF NodesListed, ChainOf, Chain
  <2>2. ASSUME NEW i \in 1 .. n, NEW k \in DOMAIN g.disk[s[i]].chunks
        PROVE  g.disk[s[i]].chunks[k].rec = "NODE"
    <3>1. \/ /\ k \in DOMAIN f.disk[s[i]].chunks
             /\ g.disk[s[i]].chunks[k] = f.disk[s[i]].chunks[k]
          \/ g.disk[s[i]].chunks[k] = node
      BY <1>13
    <3>2. k \in DOMAIN f.disk[s[i]].chunks => f.disk[s[i]].chunks[k].rec = "NODE"
      BY <1>2 DEF NodesListed
    <3>. QED BY <3>1, <3>2, <1>4
  <2>3. ASSUME NEW i \in 1 .. n, NEW k \in DOMAIN f.disk[s[i]].chunks
        PROVE  f.disk[s[i]].chunks[k].id # node.id
    <3>1. f.disk[s[i]].chunks[k].id \in IdsFrom(f, n, s, 1)
      BY IdsThere
    <3>. QED BY <3>1 DEF New
  <2>4. ASSUME NEW i \in 1 .. n, NEW j \in 1 .. n,
               NEW k \in DOMAIN g.disk[s[i]].chunks, NEW m \in DOMAIN g.disk[s[j]].chunks,
               g.disk[s[i]].chunks[k].id = g.disk[s[j]].chunks[m].id
        PROVE  i = j /\ k = m
    <3>1. \/ /\ k \in DOMAIN f.disk[s[i]].chunks
             /\ g.disk[s[i]].chunks[k] = f.disk[s[i]].chunks[k]
          \/ i = 1 /\ k = l + 1 /\ g.disk[s[i]].chunks[k] = node
      BY <1>13
    <3>2. \/ /\ m \in DOMAIN f.disk[s[j]].chunks
             /\ g.disk[s[j]].chunks[m] = f.disk[s[j]].chunks[m]
          \/ j = 1 /\ m = l + 1 /\ g.disk[s[j]].chunks[m] = node
      BY <1>13
    <3>3. CASE k \in DOMAIN f.disk[s[i]].chunks /\ m \in DOMAIN f.disk[s[j]].chunks
               /\ g.disk[s[i]].chunks[k] = f.disk[s[i]].chunks[k]
               /\ g.disk[s[j]].chunks[m] = f.disk[s[j]].chunks[m]
      <4>1. f.disk[s[i]].chunks[k].id = f.disk[s[j]].chunks[m].id
        BY <2>4, <3>3
      <4>2. k \in DOMAIN f.disk[s[i]].chunks /\ m \in DOMAIN f.disk[s[j]].chunks
        BY <3>3
      <4>3. NodesListed(f, h, n, s)
        BY <1>2
      <4>. QED BY <4>1, <4>2, <4>3, OneOfId
    <3>. QED BY <2>3, <2>4, <3>1, <3>2, <3>3
  <2>. QED BY <2>1, <2>2, <2>4 DEF NodesListed
<1>15. PagesSound(g, n, s)
  <2>1. \A p \in Page : f.disk[p].next # 0 => f.disk[p].next \in Page
    <3> SUFFICES ASSUME NEW p \in Page, f.disk[p].next # 0 PROVE f.disk[p].next \in Page
      OBVIOUS
    <3>1. f.disk[p].next \in PageNum
      BY <1>2, PageTyped DEF Header
    <3>. QED BY <3>1, Constants
  <2>. QED BY <2>1, <1>2, <1>8, <1>9 DEF PagesSound
<1>16. IdsFrom(g, n, s, 1) = IdsFrom(f, n, s, 1) \cup {node.id}
  <2>1. IdsOn(g, s[1]) = IdsOn(f, s[1]) \cup {node.id}
    <3>1. IdsOn(g, s[1]) = {new.chunks[k].id : k \in 1 .. l + 1}
      BY <1>3, <1>6, <1>8 DEF IdsOn
    <3>2. IdsOn(f, s[1]) = {page.chunks[k].id : k \in 1 .. l}
      <4>1. f.disk[s[1]].chunks = page.chunks /\ DOMAIN page.chunks = 1 .. l
        BY <1>1, <1>3, <1>6
      <4>. QED BY <4>1 DEF IdsOn
    <3>3. \A k : k \in 1 .. l + 1 <=> k \in 1 .. l \/ k = l + 1
      BY <1>6
    <3>. QED BY <3>1, <3>2, <3>3, <1>6
  <2>2. \A i \in 1 .. n : i # 1 => IdsOn(g, s[i]) = IdsOn(f, s[i])
    BY <1>12 DEF IdsOn
  <2>. QED BY <2>1, <2>2, <1>3 DEF IdsFrom
<1>17. \A j \in 2 .. n : IdsFrom(g, n, s, j) = IdsFrom(f, n, s, j)
  <2> SUFFICES ASSUME NEW j \in 2 .. n PROVE IdsFrom(g, n, s, j) = IdsFrom(f, n, s, j)
    OBVIOUS
  <2>1. \A i \in j .. n : i \in 1 .. n /\ i # 1
    BY <1>3
  <2>2. \A i \in j .. n : IdsOn(g, s[i]) = IdsOn(f, s[i])
    BY <2>1, <1>12 DEF IdsOn
  <2>. QED BY <2>2 DEF IdsFrom
<1>18. Good(g, name, h, n, s)
  BY <1>8, <1>10, <1>11, <1>14, <1>15 DEF Good
<1>. QED BY <1>1, <1>3, <1>9, <1>10, <1>16, <1>17, <1>18

\* add_chunk to a page that get_free_page supplied makes it the first of the list.
LEMMA PutFresh ==
  ASSUME NEW f, NEW name, NEW h, NEW n, NEW s, Good(f, name, h, n, s),
         NEW node, New(f, n, s, node), NEW p, Taken(f, p),
         NEW page \in Header, page.type = "NODE", page.next = h, page.chunks = <<>>,
         page.free_space = Capacity
  PROVE  LET g == Put(f, p, page, node)
             t == [i \in 1 .. n + 1 |-> IF i = 1 THEN p ELSE s[i - 1]]
         IN  /\ Good(g, name, p, n + 1, t) /\ GetIndex(g, name) = GetIndex(f, name)
             /\ g.disk[p].type = "NODE"
             /\ \A q \in Page : q # p => g.disk[q] = f.disk[q]
             /\ IdsFrom(g, n + 1, t, 1) = IdsFrom(f, n, s, 1) \cup {node.id}
             /\ \A j \in 1 .. n :
                  IdsFrom(g, n + 1, t, j + 1) = IdsFrom(f, n, s, j)
<1>1. PICK g, new, t, m : /\ g = Put(f, p, page, node) /\ new = WithChunk(page, node)
                          /\ t = [i \in 1 .. n + 1 |-> IF i = 1 THEN p ELSE s[i - 1]]
                          /\ m = n + 1
  OBVIOUS
<1>2. /\ Filed(f) /\ Indexed(f, name) /\ FreeListed(f) /\ NodesListed(f, h, n, s)
      /\ PagesSound(f, n, s)
  BY DEF Good
<1>3. /\ n \in 0 .. MaxPage /\ s \in [1 .. n -> Page] /\ n \in Nat
      /\ \A i, j \in 1 .. n : s[i] = s[j] => i = j
      /\ h = IF n = 0 THEN 0 ELSE s[1]
      /\ \A i \in 1 .. n : /\ f.disk[s[i]].type = "NODE"
                           /\ f.disk[s[i]].next = IF i = n THEN 0 ELSE s[i + 1]
  BY <1>2, Constants DEF NodesListed, ChainOf, Chain
<1>4. /\ p \in Page /\ f.disk[p].type \in {"FREE", "NONE"}
      /\ p <= f.schema.last_page_num
      /\ \A i \in 1 .. Len(Free(f)) : Free(f)[i] # p
  BY DEF Taken
<1>5. node \in Record /\ node.rec = "NODE" /\ node.id \notin IdsFrom(f, n, s, 1)
  BY DEF New
<1>6. Fits(page, node)
  BY <1>5, SizeFacts, Constants DEF Fits
<1>7. /\ new \in Header /\ new.type = "NODE" /\ new.next = h
      /\ DOMAIN new.chunks = 1 .. 1 /\ new.chunks[1] = node
  <2>1. Len(page.chunks) = 0
    OBVIOUS
  <2>2. /\ new \in Header /\ new.type = page.type /\ new.next = page.next
        /\ DOMAIN new.chunks = 1 .. Len(page.chunks) + 1
        /\ new.chunks[Len(page.chunks) + 1] = node
    BY <1>1, <1>5, <1>6, ChunkAdded
  <2>. QED BY <2>1, <2>2
<1>8. g = [disk |-> [f.disk EXCEPT ![p] = new], schema |-> f.schema]
  BY <1>1, <1>2 DEF Put, Filed
<1>9. /\ g.schema = f.schema /\ Filed(g)
      /\ g.disk[p] = new /\ \A q \in Page : q # p => g.disk[q] = f.disk[q]
  BY <1>2, <1>4, <1>7, <1>8 DEF Filed
<1>10. Indexed(g, name) /\ GetIndex(g, name) = GetIndex(f, name)
  <2>1. \A q \in Page : f.disk[q].type = "INDEX" => g.disk[q] = f.disk[q]
    BY <1>4, <1>9
  <2>2. \A q \in Page : f.disk[q].type = "INDEX" =>
            /\ g.disk[q].type = "INDEX" /\ g.disk[q].next = f.disk[q].next
            /\ g.disk[q].chunks = f.disk[q].chunks
    BY <2>1
  <2>. QED BY <2>2, <1>2, <1>9, IndexKept
<1>11. FreeListed(g)
  <2>1. \A i \in 1 .. Len(Free(f)) : g.disk[Free(f)[i]] = f.disk[Free(f)[i]]
    BY <1>2, <1>4, <1>9, FreeTyped
  <2>. QED BY <2>1, <1>2, <1>9, FreeKept
\* The list with the page in front.
<1>12. /\ m \in Nat /\ m = n + 1 /\ 1 \in 1 .. m /\ t[1] = p
       /\ \A i \in 1 .. n : i + 1 \in 1 .. m /\ t[i + 1] = s[i]
       /\ \A i \in 1 .. m : i # 1 => i - 1 \in 1 .. n /\ t[i] = s[i - 1]
  BY <1>1, <1>3
<1>13. \A i \in 1 .. n : s[i] # p /\ g.disk[s[i]] = f.disk[s[i]]
  BY <1>3, <1>4, <1>9
<1>14. t \in [1 .. m -> Page] /\ \A i, j \in 1 .. m : t[i] = t[j] => i = j
  <2>1. t \in [1 .. m -> Page]
    <3>1. \A i \in 1 .. m : (IF i = 1 THEN p ELSE s[i - 1]) \in Page
      BY <1>3, <1>4, <1>12
    <3>. QED BY <3>1, <1>1
  <2>2. ASSUME NEW i \in 1 .. m, NEW j \in 1 .. m, t[i] = t[j]
        PROVE  i = j
    <3>1. CASE i = 1 \/ j = 1
      BY <2>2, <3>1, <1>12, <1>13
    <3>2. CASE i # 1 /\ j # 1
      <4>1. i - 1 \in 1 .. n /\ j - 1 \in 1 .. n /\ s[i - 1] = s[j - 1]
        BY <2>2, <3>2, <1>12
      <4>2. i - 1 = j - 1
        BY <4>1, <1>3
      <4>. QED BY <4>2
    <3>. QED BY <3>1, <3>2
  <2>. QED BY <2>1, <2>2
<1>15. m \in 0 .. MaxPage
  <2>1. m <= MaxPage
    <3>1. m \in Nat /\ t \in [1 .. m -> P!Page]
      BY <1>12, <1>14, Same
    <3>2. \A i, j \in 1 .. m : t[i] = t[j] => i = j
      BY <1>14
    <3>. QED BY <3>1, <3>2, Assumed, P!PagesBounded
  <2>. QED BY <2>1, <1>12, Constants
<1>16. ChainOf(g, "NODE", p, m, t)
  <2>1. ASSUME NEW i \in 1 .. m
        PROVE  /\ g.disk[t[i]].next = IF i = m THEN 0 ELSE t[i + 1]
               /\ g.disk[t[i]].type = "NODE"
    <3>1. CASE i = 1
      <4>1. g.disk[t[i]] = new
        BY <3>1, <1>9, <1>12
      <4>2. h = IF i = m THEN 0 ELSE t[i + 1]
        <5>1. CASE n = 0
          BY <5>1, <3>1, <1>3, <1>12
        <5>2. CASE n # 0
          <6>1. 1 \in 1 .. n /\ i # m
            BY <5>2, <3>1, <1>3, <1>12
          <6>2. t[1 + 1] = s[1]
            BY <6>1, <1>12
          <6>. QED BY <5>2, <6>1, <6>2, <3>1, <1>3
        <5>. QED BY <5>1, <5>2
      <4>. QED BY <4>1, <4>2, <1>7
    <3>2. CASE i # 1
      <4>1. i - 1 \in 1 .. n /\ t[i] = s[i - 1]
        BY <3>2, <1>12
      <4>2. /\ g.disk[t[i]].type = "NODE"
            /\ g.disk[t[i]].next = IF i - 1 = n THEN 0 ELSE s[(i - 1) + 1]
        BY <4>1, <1>3, <1>13
      <4>3. i - 1 = n <=> i = m
        BY <4>1, <1>3, <1>12
      <4>4. i # m => t[i + 1] = s[(i - 1) + 1]
        <5> SUFFICES ASSUME i # m PROVE t[i + 1] = s[(i - 1) + 1]
          OBVIOUS
        <5>1. (i - 1) + 1 \in 1 .. n /\ (i - 1) + 1 = i
          BY <4>1, <4>3, <1>3
        <5>. QED BY <5>1, <1>12
      <4>. QED BY <4>2, <4>3, <4>4
    <3>. QED BY <3>1, <3>2
  <2>. QED BY <2>1, <1>12, <1>14, <1>15 DEF ChainOf, Chain
<1>17. \A i \in 1 .. m : \A k \in DOMAIN g.disk[t[i]].chunks :
         \/ i = 1 /\ k = 1 /\ g.disk[t[i]].chunks[k] = node
         \/ /\ i # 1 /\ i - 1 \in 1 .. n /\ k \in DOMAIN f.disk[s[i - 1]].chunks
            /\ g.disk[t[i]].chunks[k] = f.disk[s[i - 1]].chunks[k]
  <2> SUFFICES ASSUME NEW i \in 1 .. m, NEW k \in DOMAIN g.disk[t[i]].chunks
               PROVE  \/ i = 1 /\ k = 1 /\ g.disk[t[i]].chunks[k] = node
                      \/ /\ i # 1 /\ i - 1 \in 1 .. n
                         /\ k \in DOMAIN f.disk[s[i - 1]].chunks
                         /\ g.disk[t[i]].chunks[k] = f.disk[s[i - 1]].chunks[k]
    OBVIOUS
  <2>1. CASE i = 1
    BY <2>1, <1>7, <1>9, <1>12
  <2>2. CASE i # 1
    BY <2>2, <1>12, <1>13
  <2>. QED BY <2>1, <2>2
<1>18. NodesListed(g, p, m, t)
  <2>1. ASSUME NEW i \in 1 .. m, NEW k \in DOMAIN g.disk[t[i]].chunks
        PROVE  g.disk[t[i]].chunks[k].rec = "NODE"
    <3>1. CASE g.disk[t[i]].chunks[k] = node
      BY <3>1, <1>5
    <3>2. CASE /\ i - 1 \in 1 .. n /\ k \in DOMAIN f.disk[s[i - 1]].chunks
               /\ g.disk[t[i]].chunks[k] = f.disk[s[i - 1]].chunks[k]
      <4>1. PICK a \in 1 .. n : a = i - 1
        BY <3>2
      <4>2. f.disk[s[a]].chunks[k].rec = "NODE"
        BY <3>2, <4>1, <1>2 DEF NodesListed
      <4>. QED BY <3>2, <4>1, <4>2
    <3>. QED BY <3>1, <3>2, <1>17
  <2>2. ASSUME NEW i \in 1 .. n, NEW k \in DOMAIN f.disk[s[i]].chunks
        PROVE  f.disk[s[i]].chunks[k].id # node.id
    <3>1. f.disk[s[i]].chunks[k].id \in IdsFrom(f, n, s, 1)
      BY IdsThere
    <3>. QED BY <3>1, <1>5
  <2>3. ASSUME NEW i \in 1 .. m, NEW j \in 1 .. m,
               NEW k \in DOMAIN g.disk[t[i]].chunks, NEW l \in DOMAIN g.disk[t[j]].chunks,
               g.disk[t[i]].chunks[k].id = g.disk[t[j]].chunks[l].id
        PROVE  i = j /\ k = l
    <3>1. \/ i = 1 /\ k = 1 /\ g.disk[t[i]].chunks[k] = node
          \/ /\ i # 1 /\ i - 1 \in 1 .. n /\ k \in DOMAIN f.disk[s[i - 1]].chunks
             /\ g.disk[t[i]].chunks[k] = f.disk[s[i - 1]].chunks[k]
      BY <1>17
    <3>2. \/ j = 1 /\ l = 1 /\ g.disk[t[j]].chunks[l] = node
          \/ /\ j # 1 /\ j - 1 \in 1 .. n /\ l \in DOMAIN f.disk[s[j - 1]].chunks
             /\ g.disk[t[j]].chunks[l] = f.disk[s[j - 1]].chunks[l]
      BY <1>17
    <3>3. CASE i = 1 \/ j = 1
      BY <3>1, <3>2, <3>3, <2>2, <2>3
    <3>4. CASE i # 1 /\ j # 1
      <4>1. PICK a \in 1 .. n, b \in 1 .. n : a = i - 1 /\ b = j - 1
        BY <3>1, <3>2, <3>4
      <4>2. /\ k \in DOMAIN f.disk[s[a]].chunks /\ l \in DOMAIN f.disk[s[b]].chunks
            /\ f.disk[s[a]].chunks[k].id = f.disk[s[b]].chunks[l].id
        <5>1. /\ k \in DOMAIN f.disk[s[a]].chunks
              /\ g.disk[t[i]].chunks[k] = f.disk[s[a]].chunks[k]
          BY <3>1, <3>4, <4>1
        <5>2. /\ l \in DOMAIN f.disk[s[b]].chunks
              /\ g.disk[t[j]].chunks[l] = f.disk[s[b]].chunks[l]
          BY <3>2, <3>4, <4>1
        <5>. QED BY <5>1, <5>2, <2>3
      <4>3. NodesListed(f, h, n, s)
        BY <1>2
      <4>4. a = b /\ k = l
        BY <4>2, <4>3, OneOfId
      <4>. QED BY <4>1, <4>4
    <3>. QED BY <3>3, <3>4
  <2>. QED BY <2>1, <2>3, <1>16 DEF NodesListed
<1>19. PagesSound(g, m, t)
  <2>1. \A q \in Page : f.disk[q].next # 0 => f.disk[q].next \in Page
    <3> SUFFICES ASSUME NEW q \in Page, f.disk[q].next # 0 PROVE f.disk[q].next \in Page
      OBVIOUS
    <3>1. f.disk[q].next \in PageNum
      BY <1>2, PageTyped DEF Header
    <3>. QED BY <3>1, Constants
  <2> SUFFICES ASSUME NEW q \in Page
               PROVE  LET x == g.disk[q]
                      IN  /\ x.type = "NONE" => x.chunks = <<>> /\ x.next = 0
                          /\ x.type # "NONE" => q <= g.schema.last_page_num
                          /\ x.type = "FREE" =>
                               /\ x.chunks = <<>> /\ x.free_space = Capacity
                               /\ x.next # 0 => \/ g.disk[x.next].type = "FREE"
                                                \/ \E i \in 1 .. m : x.next = t[i]
    BY DEF PagesSound
  <2>2. CASE q = p
    BY <2>2, <1>4, <1>7, <1>9
  <2>3. CASE q # p
    <3>1. g.disk[q] = f.disk[q]
      BY <2>3, <1>9
    <3>2. /\ f.disk[q].type = "NONE" => f.disk[q].chunks = <<>> /\ f.disk[q].next = 0
          /\ f.disk[q].type # "NONE" => q <= f.schema.last_page_num
          /\ f.disk[q].type = "FREE" =>
               /\ f.disk[q].chunks = <<>> /\ f.disk[q].free_space = Capacity
               /\ f.disk[q].next # 0 => \/ f.disk[f.disk[q].next].type = "FREE"
                                        \/ \E i \in 1 .. n : f.disk[q].next = s[i]
      BY <1>2 DEF PagesSound
    <3>3. (\E i \in 1 .. n : f.disk[q].next = s[i]) => \E i \in 1 .. m : f.disk[q].next = t[i]
      BY <1>12
    <3>4. f.disk[q].next # 0 /\ f.disk[f.disk[q].next].type = "FREE" =>
            \/ g.disk[f.disk[q].next].type = "FREE"
            \/ \E i \in 1 .. m : f.disk[q].next = t[i]
      BY <2>1, <1>9, <1>12
    <3>. QED BY <3>1, <3>2, <3>3, <3>4, <1>9
  <2>. QED BY <2>2, <2>3
<1>20. IdsOn(g, p) = {node.id} /\ \A i \in 1 .. n : IdsOn(g, s[i]) = IdsOn(f, s[i])
  BY <1>7, <1>9, <1>13 DEF IdsOn
<1>21. IdsFrom(g, m, t, 1) = IdsFrom(f, n, s, 1) \cup {node.id}
  BY <1>12, <1>20 DEF IdsFrom
<1>22. \A j \in 1 .. n : IdsFrom(g, m, t, j + 1) = IdsFrom(f, n, s, j)
  <2> SUFFICES ASSUME NEW j \in 1 .. n
               PROVE  IdsFrom(g, m, t, j + 1) = IdsFrom(f, n, s, j)
    OBVIOUS
  <2>1. \A i \in j .. n : i \in 1 .. n /\ i + 1 \in j + 1 .. m /\ t[i + 1] = s[i]
    BY <1>3, <1>12
  <2>2. \A i \in j + 1 .. m : i - 1 \in j .. n /\ t[i] = s[i - 1]
    BY <1>3, <1>12
  <2>. QED BY <2>1, <2>2, <1>20 DEF IdsFrom
<1>23. Good(g, name, p, m, t)
  BY <1>9, <1>10, <1>11, <1>18, <1>19 DEF Good
<1>. QED BY <1>1, <1>7, <1>9, <1>10, <1>21, <1>22, <1>23

\* Telling a page its predecessor, in the file f.
LEMMA SetPrevTyped ==
  ASSUME NEW d \in [Page -> Header], NEW p \in PageNum, NEW v \in PageNum
  PROVE  /\ SetPrev(d, p, v) \in [Page -> Header]
         /\ \A q \in Page : /\ SetPrev(d, p, v)[q].type = d[q].type
                            /\ SetPrev(d, p, v)[q].next = d[q].next
                            /\ SetPrev(d, p, v)[q].chunks = d[q].chunks
                            /\ SetPrev(d, p, v)[q].free_space = d[q].free_space
                            /\ q # p => SetPrev(d, p, v)[q] = d[q]
<1>1. CASE p = 0
  BY <1>1, Constants DEF SetPrev
<1>2. CASE p # 0
  <2>1. p \in Page
    BY <1>2, Constants
  <2>2. SetPrev(d, p, v) = [d EXCEPT ![p] = [d[p] EXCEPT !.prev = v]]
    BY <1>2 DEF SetPrev
  <2>3. [d[p] EXCEPT !.prev = v] \in Header
    BY <2>1 DEF Header
  <2>. QED BY <2>1, <2>2, <2>3 DEF Header
<1>. QED BY <1>1, <1>2

\* Only a free page is told by get_free_page that it is the first one now.
LEMMA AllocDiskFacts ==
  ASSUME NEW f, Filed(f), FreeListed(f)
  PROVE  /\ AllocDisk(f.disk, f.schema) \in [Page -> Header]
         /\ \A q \in Page :
              /\ AllocDisk(f.disk, f.schema)[q].type = f.disk[q].type
              /\ AllocDisk(f.disk, f.schema)[q].next = f.disk[q].next
              /\ AllocDisk(f.disk, f.schema)[q].chunks = f.disk[q].chunks
              /\ AllocDisk(f.disk, f.schema)[q].free_space = f.disk[q].free_space
              /\ f.disk[q].type # "FREE" => AllocDisk(f.disk, f.schema)[q] = f.disk[q]
<1>1. CASE f.schema.free_page = 0
  BY <1>1 DEF AllocDisk, Filed
<1>2. CASE f.schema.free_page # 0
  <2>1. PICK m, t : ChainOf(f, "FREE", f.schema.free_page, m, t)
    BY DEF FreeListed
  <2>2. PICK d, p : d = f.disk /\ p = d[f.schema.free_page].next
    OBVIOUS
  <2>3. /\ m \in Nat /\ 1 \in 1 .. m /\ f.schema.free_page = t[1]
        /\ \A i \in 1 .. m : t[i] \in Page /\ d[t[i]].type = "FREE"
        /\ p = IF 1 = m THEN 0 ELSE t[1 + 1]
    <3>1. Chain(d, f.schema.free_page, m, t)
      BY <2>1, <2>2 DEF ChainOf
    <3>2. \A i \in 1 .. m : t[i] \in Page /\ d[t[i]].type = "FREE"
      BY <2>1, <2>2 DEF ChainOf, Chain
    <3>3. d[f.schema.free_page].next = IF 1 = m THEN 0 ELSE t[1 + 1]
      BY <1>2, <3>1, ChainStart
    <3>. QED BY <1>2, <3>1, <3>2, <3>3, <2>2, ChainStart
  <2>4. p = 0 \/ (p \in Page /\ d[p].type = "FREE")
    <3>1. CASE m = 1
      BY <3>1, <2>3
    <3>2. CASE m # 1
      <4>1. 1 + 1 \in 1 .. m
        BY <3>2, <2>3
      <4>. QED BY <4>1, <3>2, <2>3
    <3>. QED BY <3>1, <3>2
  <2>5. p \in PageNum /\ 0 \in PageNum /\ d \in [Page -> Header]
    BY <2>2, <2>4, Constants DEF Filed
  <2>6. AllocDisk(f.disk, f.schema) = SetPrev(d, p, 0)
    BY <1>2, <2>2 DEF AllocDisk
  <2>7. /\ SetPrev(d, p, 0) \in [Page -> Header]
        /\ \A q \in Page : /\ SetPrev(d, p, 0)[q].type = d[q].type
                           /\ SetPrev(d, p, 0)[q].next = d[q].next
                           /\ SetPrev(d, p, 0)[q].chunks = d[q].chunks
                           /\ SetPrev(d, p, 0)[q].free_space = d[q].free_space
                           /\ q # p => SetPrev(d, p, 0)[q] = d[q]
    BY <2>5, SetPrevTyped
  <2>8. \A q \in Page : d[q].type # "FREE" => q # p
    BY <2>4, Constants
  <2>9. d \in [Page -> Header] /\ f.disk = d
    BY <2>2, <2>5
  <2>. QED BY <2>6, <2>7, <2>8, <2>9
<1>. QED BY <1>1, <1>2

\* The page that get_free_page supplies is empty.
LEMMA AllocPageFacts ==
  ASSUME NEW f, NEW n, NEW s, Filed(f), FreeListed(f), PagesSound(f, n, s)
  PROVE  /\ AllocPage(f.disk, f.schema) \in Header
         /\ AllocPage(f.disk, f.schema).chunks = <<>>
         /\ AllocPage(f.disk, f.schema).free_space = Capacity
<1>1. CASE f.schema.free_page = 0
  <2>1. AllocPage(f.disk, f.schema) = FreeHeader(0)
    BY <1>1 DEF AllocPage
  <2>2. FreeHeader(0) \in Header
    <3>1. "FREE" \in PageType /\ <<>> \in Seq(Record) /\ Capacity \in Nat /\ 0 \in PageNum
      BY Constants DEF PageType
    <3>. QED BY <3>1 DEF FreeHeader, Header
  <2>. QED BY <2>1, <2>2 DEF FreeHeader
<1>2. CASE f.schema.free_page # 0
  <2>1. AllocPage(f.disk, f.schema) = f.disk[f.schema.free_page]
    BY <1>2 DEF AllocPage
  <2>2. PICK m, t : m = Len(t) /\ ChainOf(f, "FREE", f.schema.free_page, m, t)
    BY DEF FreeListed
  <2>3. f.schema.free_page \in Page /\ f.disk[f.schema.free_page].type = "FREE"
    <3>1. Chain(f.disk, f.schema.free_page, m, t) /\ \A i \in 1 .. m : f.disk[t[i]].type = "FREE"
      BY <2>2 DEF ChainOf
    <3>. QED BY <1>2, <3>1, ChainStart
  <2>. QED BY <2>1, <2>3, PageTyped DEF PagesSound
<1>. QED BY <1>1, <1>2

-----------------------------------------------------------------------------
(* Looking for a node.                                                    *)

IdHits(f, p, id) ==
  {k \in 1 .. Len(f.disk[p].chunks) : f.disk[p].chunks[k].id = id}
IdHit(f, p, id) ==
  IF IdHits(f, p, id) # {} THEN Min(IdHits(f, p, id)) ELSE 0
IdPages(f, s, id) == {j \in 1 .. Len(s) : IdHit(f, s[j], id) # 0}
IdPage(f, s, id) ==
  IF IdPages(f, s, id) # {} THEN Min(IdPages(f, s, id)) ELSE 0

LEMMA NodeSlotIs ==
  ASSUME NEW f, NEW ix, NEW id, NEW s, s = PagesFrom(f.disk, ix.first)
  PROVE  NodeSlot(f, ix, id) =
           IF IdPage(f, s, id) = 0 THEN <<>>
           ELSE <<s[IdPage(f, s, id)], IdHit(f, s[IdPage(f, s, id)], id)>>
BY DEF NodeSlot, Find, SelectInSeq, IdPage, IdPages, IdHit, IdHits

\* A node that no page of the list has is not found.
LEMMA NodeSlotNone ==
  ASSUME NEW f, NEW ix, NEW id, NEW s, Filed(f), s = PagesFrom(f.disk, ix.first),
         NEW n \in Nat, n = Len(s), s \in [1 .. n -> Page], id \notin IdsFrom(f, n, s, 1)
  PROVE  NodeSlot(f, ix, id) = <<>>
<1>1. ASSUME NEW j \in 1 .. n
      PROVE  IdHit(f, s[j], id) = 0
  <2>1. DOMAIN f.disk[s[j]].chunks = 1 .. Len(f.disk[s[j]].chunks)
    BY PageTyped
  <2>2. id \notin IdsOn(f, s[j])
    BY DEF IdsFrom
  <2>3. IdHits(f, s[j], id) = {}
    BY <2>1, <2>2 DEF IdsOn, IdHits
  <2>. QED BY <2>3 DEF IdHit
<1>2. IdPages(f, s, id) = {}
  BY <1>1 DEF IdPages
<1>3. IdPage(f, s, id) = 0
  BY <1>2 DEF IdPage
<1>. QED BY <1>3, NodeSlotIs
=============================================================================
