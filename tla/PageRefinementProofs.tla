------------------------ MODULE PageRefinementProofs ------------------------
(***************************************************************************)
(* Proof that the page store implements RecordLists.  A call of page.c is  *)
(* taken to the operation on the lists that its caller asked for; the steps*)
(* of shrink are shown to change no list.                                  *)
(***************************************************************************)
EXTENDS PageStoreRefinement, PageStoreProofs, PageContentProofs, TLAPS

-----------------------------------------------------------------------------
(* The lists of a state.                                                   *)

\* The heads are pages of the file.
HeadsOK ==
  /\ Heads \in SUBSET Page /\ IsFiniteSet(Heads) /\ 0 \notin Heads
  /\ Heads \subseteq Live
  /\ disk \in [Page -> Header]

\* So they are, in every state of the store.
LEMMA HeadsFacts == IInv => HeadsOK
<1>. SUFFICES ASSUME IInv PROVE HeadsOK
  OBVIOUS
<1>1. Live \subseteq Page /\ 0 \notin Live /\ IsFiniteSet(Live)
  BY LiveFacts DEF IInv
<1>2. Heads \in SUBSET Live
  BY DEF Heads
<1>3. IsFiniteSet(Heads)
  BY <1>1, <1>2, FS_Subset
<1>. QED BY <1>1, <1>2, <1>3 DEF HeadsOK, IInv, TypeOK

\* What the readers of the lists see, as a bag over the heads.
BagIs == ListBag = Gathered(Contents(disk), Heads)

\* ListBag is that bag: it does not depend on an order of the lists.
LEMMA BagSeen == IInv => BagIs
<1>. SUFFICES ASSUME IInv PROVE ListBag = Gathered(Contents(disk), Heads)
  BY DEF BagIs
<1>1. ListBag = ListBagIn(disk, Heads)
  BY DEF ListBag, ListBagIn, Content, ContentIn, FoldSet, MapThenFoldSet
<1>2. PICK d, H : d = disk /\ H = Heads
  OBVIOUS
<1>3. ListBagIn(d, H) = Gathered(Contents(d), H)
  BY <1>2, HeadsFacts, ListBagGathers DEF HeadsOK
<1>. QED BY <1>1, <1>2, <1>3

\* The same two facts after a step.
LEMMA NextSeen == IInv' => HeadsOK' /\ BagIs'
BY HeadsFacts, BagSeen, PTL

\* Becomes, in terms of the operators on bags of this module.
LEMMA BecomesIs ==
  ASSUME NEW l, NEW m, NEW A, NEW B, A = ListBag, B = ListBag',
         B = (A (-) SetToBag({l})) (+) SetToBag({m})
  PROVE  Abstract!Becomes(l, m)
BY DEF Abstract!Becomes, Abstract!SetToBag, Abstract!(+), Abstract!(-), SetToBag, (+), (-)

\* List l has become list m, and the other lists are what they were.
Exchanged(l, m) ==
  /\ l \in BagToSet(ListBag) /\ m \in BagToSet(ListBag')
  /\ Abstract!Becomes(l, m)
  /\ l = m => ListBag' = ListBag

\* When one head takes the place of another and the lists of the others are as
\* they were, one list is exchanged for another.
LEMMA OneListChanged ==
  ASSUME IInv, IInv', NEW R, NEW a, NEW b, a \notin R, b \notin R,
         Heads = R \cup {a}, Heads' = R \cup {b},
         \A h \in R : ContentIn(disk', h) = ContentIn(disk, h)
  PROVE  Exchanged(ContentIn(disk, a), ContentIn(disk', b))
<1>1. PICK C, D : C = Contents(disk) /\ D = Contents(disk')
  OBVIOUS
<1>2. /\ R \subseteq Page /\ a \in Page /\ b \in Page
      /\ R \cup {a} \in SUBSET Page /\ IsFiniteSet(R \cup {a})
  <2>1. Heads' \in SUBSET Page
    BY NextSeen DEF HeadsOK
  <2>2. R \cup {a} \in SUBSET Page /\ IsFiniteSet(R \cup {a})
    BY HeadsFacts DEF HeadsOK
  <2>. QED BY <2>1, <2>2
<1>3. IsFiniteSet(R)
  BY <1>2, FS_Subset
<1>4. PICK A, B : A = ListBag /\ B = ListBag'
  OBVIOUS
<1>5. A = Gathered(C, R \cup {a}) /\ B = Gathered(D, R \cup {b})
  <2>1. A = Gathered(C, Heads)
    BY <1>1, <1>4, BagSeen DEF BagIs
  <2>2. B = Gathered(D, Heads')
    BY <1>1, <1>4, NextSeen DEF BagIs
  <2>. QED BY <2>1, <2>2
<1>6. /\ \A h \in R : D[h] = C[h]
      /\ C[a] = ContentIn(disk, a) /\ D[b] = ContentIn(disk', b)
  BY <1>1, <1>2 DEF Contents
<1>7. /\ C[a] \in BagToSet(A) /\ D[b] \in BagToSet(B)
      /\ B = (A (-) SetToBag({C[a]})) (+) SetToBag({D[b]})
      /\ C[a] = D[b] => B = A
  <2>1. Gathered(D, R) = Gathered(C, R)
    <3>1. SameOn(R, C, D)
      BY <1>6 DEF SameOn
    <3>. QED BY <3>1, GatheredSame
  <2>2. Gathered(C, R \cup {a}) = Gathered(C, R) (+) SetToBag({C[a]})
    BY <1>3, GatheredPlus
  <2>3. Gathered(D, R \cup {b}) = Gathered(D, R) (+) SetToBag({D[b]})
    BY <1>3, GatheredPlus
  <2>4. PICK G, l : G = Gathered(C, R) /\ l = C[a]
    OBVIOUS
  <2>5. GatheredBag(G)
    BY <1>3, <2>4, GatheredType
  <2>6. (G (+) SetToBag({l})) (-) SetToBag({l}) = G
    BY <2>5, TakenOut
  <2>7. A (-) SetToBag({C[a]}) = Gathered(C, R)
    BY <1>5, <2>2, <2>4, <2>6
  <2>8. C[a] \in BagToSet(A) /\ D[b] \in BagToSet(B)
    BY <1>5 DEF Gathered, BagToSet
  <2>. QED BY <1>5, <2>1, <2>2, <2>3, <2>7, <2>8
<1>8. Abstract!Becomes(C[a], D[b])
  <2>1. PICK l, m : l = C[a] /\ m = D[b]
    OBVIOUS
  <2>. QED BY <1>4, <1>7, <2>1, BecomesIs
<1>. QED BY <1>4, <1>6, <1>7, <1>8 DEF Exchanged

\* The pages of the list that h heads, in the order of the list.
HeadList(h, n, s) ==
  /\ s = PagesFrom(disk, h)
  /\ Chained(disk, h, n, s)
  /\ \A i, j \in 1 .. n : s[i] = s[j] => i = j
  /\ \A i \in 1 .. n : /\ s[i] \in Live
                       /\ disk[s[i]].type = disk[h].type
                       /\ i # 1 => disk[s[i]].prev = s[i-1]

\* Every head has such a list: it ends, and no page is on it twice.
LEMMA HeadListFound ==
  ASSUME IInv, NEW h \in Heads
  PROVE  \E n, s : HeadList(h, n, s)
<1>1. PICK r \in [Page -> Int] : Ranked(r)
  BY DEF IInv, Ordered
<1>2. h \in Live
  BY DEF Heads
<1>3. PICK s : s = PagesFrom(disk, h)
  OBVIOUS
<1>4. PICK n \in Nat \ {0} : s \in [1 .. n -> Page] /\ Listed(r, h, n, s)
  BY <1>1, <1>2, <1>3, ListFound
<1>5. \A i, j \in 1 .. n : s[i] = s[j] => i = j
  <2> SUFFICES ASSUME NEW i \in 1 .. n, NEW j \in 1 .. n, s[i] = s[j], i # j PROVE FALSE
    OBVIOUS
  <2>1. i < j \/ j < i
    OBVIOUS
  <2>2. r[s[i]] < r[s[j]] \/ r[s[j]] < r[s[i]]
    BY <2>1, <1>4 DEF Listed
  <2>3. r[s[i]] \in Int
    BY <1>4
  <2>. QED BY <2>2, <2>3
<1>6. n \in 1 .. MaxPage
  <2>1. n <= MaxPage
    BY <1>4, <1>5, PagesBounded
  <2>. QED BY <2>1, ConstantFacts
<1>7. Chained(disk, h, n, s)
  BY <1>4, <1>6 DEF Chained, Listed
<1>8. \A i \in 1 .. n : /\ s[i] \in Live
                        /\ disk[s[i]].type = disk[h].type
                        /\ i # 1 => disk[s[i]].prev = s[i-1]
  BY <1>4 DEF Listed
<1>. QED BY <1>3, <1>5, <1>7, <1>8 DEF HeadList

\* Of which list page p is, and where.
LEMMA PageFound ==
  ASSUME IInv, NEW p \in Live
  PROVE  \E a \in Heads : \E n, s :
           /\ HeadList(a, n, s)
           /\ \E j \in 1 .. n : s[j] = p
           /\ \A g \in Heads \ {a} : p \notin ToSet(PagesFrom(disk, g))
<1>1. PICK a \in Heads : \A g \in Heads : p \in ToSet(PagesFrom(disk, g)) <=> g = a
  BY OnOneList
<1>2. PICK n, s : HeadList(a, n, s)
  BY HeadListFound
<1>3. s = PagesFrom(disk, a) /\ s \in [1 .. n -> Page] /\ n \in 1 .. MaxPage
  BY <1>2 DEF HeadList, Chained
<1>4. \E j \in 1 .. n : s[j] = p
  BY <1>1, <1>3 DEF ToSet
<1>. QED BY <1>1, <1>2, <1>4

\* Who follows a list that a step leaves alone finds what was there.
LEMMA Untouched ==
  ASSUME IInv, NEW h \in Heads, NEW D \in [Page -> Header],
         \A q \in ToSet(PagesFrom(disk, h)) :
           D[q].next = disk[q].next /\ D[q].chunks = disk[q].chunks /\ D[q].type = disk[q].type
  PROVE  ContentIn(D, h) = ContentIn(disk, h)
<1>1. PICK n, s : HeadList(h, n, s)
  BY HeadListFound
<1>2. PICK d : d = disk
  OBVIOUS
<1>3. d \in [Page -> Header] /\ Chained(d, h, n, s)
  BY <1>1, <1>2, HeadsFacts DEF HeadList, HeadsOK
<1>4. n \in 1 .. MaxPage /\ s \in [1 .. n -> Page] /\ s[1] = h
  BY <1>3 DEF Chained
<1>5. ToSet(s) = {s[i] : i \in 1 .. n}
  BY <1>4 DEF ToSet
<1>6. \A i \in 1 .. n : /\ D[s[i]].next = d[s[i]].next
                        /\ D[s[i]].chunks = d[s[i]].chunks
                        /\ D[s[i]].type = d[s[i]].type
  BY <1>1, <1>2, <1>5 DEF HeadList
<1>7. Chained(D, h, n, s)
  BY <1>3, <1>6 DEF Chained
<1>8. D[h].type = d[h].type
  <2>1. 1 \in 1 .. n
    BY <1>4
  <2>. QED BY <1>4, <1>6, <2>1
<1>9. ContentIn(D, h) = ContentIn(d, h)
  BY <1>3, <1>6, <1>7, <1>8, ContentKept, SMTT(30)
<1>. QED BY <1>2, <1>9

\* Whoever follows the lists sees a record added, rewritten, removed.
LEMMA InsertSeen ==
  ASSUME NEW l, NEW m, Exchanged(l, m), NEW c, m.kind = l.kind,
         NEW i \in DOMAIN m.recs, m.recs[i] = c, l.recs = RemoveAt(m.recs, i)
  PROVE  Abstract!Insert(c)
<1>1. Abstract!WithOneMore(l, m, c)
  BY DEF Abstract!WithOneMore, Abstract!RemoveAt, RemoveAt
<1>. QED BY <1>1 DEF Exchanged, Abstract!Insert, Abstract!BagToSet, BagToSet

\* A list is exchanged for one in which c replaces a record: set_node and the like.
LEMMA RewriteSeen ==
  ASSUME NEW l, NEW m, Exchanged(l, m), NEW c, m.kind = l.kind,
         NEW i \in DOMAIN l.recs, m.recs = [l.recs EXCEPT ![i] = c]
  PROVE  Abstract!Rewrite(c)
<1>1. Abstract!WithOneChanged(l, m, c)
  BY DEF Abstract!WithOneChanged
<1>. QED BY <1>1 DEF Exchanged, Abstract!Rewrite, Abstract!BagToSet, BagToSet

\* A list is exchanged for one without one of its records: delete_node and the like.
LEMMA WithdrawSeen ==
  ASSUME NEW l, NEW m, Exchanged(l, m), NEW c, m.kind = l.kind,
         NEW i \in DOMAIN l.recs, l.recs[i] = c, m.recs = RemoveAt(l.recs, i)
  PROVE  Abstract!Withdraw(c)
<1>1. Abstract!WithOneMore(m, l, c)
  BY DEF Abstract!WithOneMore, Abstract!RemoveAt, RemoveAt
<1>. QED BY <1>1 DEF Exchanged, Abstract!Withdraw, Abstract!BagToSet, BagToSet

-----------------------------------------------------------------------------
(* Steps that change the records of one page.                              *)

\* When a step changes the records of page p and no header, the list with p on it
\* is exchanged for one that differs where p stands.
LEMMA OnePageChanged ==
  ASSUME IInv, IInv', NEW p \in Live,
         \A q \in Page : /\ disk'[q].type = disk[q].type
                         /\ disk'[q].next = disk[q].next
                         /\ q # p => disk'[q].chunks = disk[q].chunks,
         Heads' = Heads
  PROVE  \E l, m :
           /\ Exchanged(l, m)
           /\ m.kind = l.kind
           /\ DifferIn(l.recs, disk[p].chunks, m.recs, disk'[p].chunks)
<1>1. PICK d, D, H : d = disk /\ D = disk' /\ H = Heads
  OBVIOUS
<1>2. /\ d \in [Page -> Header] /\ D \in [Page -> Header]
      /\ H \in SUBSET Page /\ IsFiniteSet(H)
  BY <1>1, HeadsFacts, NextSeen DEF HeadsOK
<1>3. PICK a \in H : \A g \in H : p \in ToSet(PagesFrom(disk, g)) <=> g = a
  BY <1>1, OnOneList
<1>4. PICK n, s : HeadList(a, n, s)
  BY <1>1, HeadListFound
<1>5. /\ Chained(d, a, n, s) /\ s = PagesFrom(disk, a)
      /\ n \in 1 .. MaxPage /\ s \in [1 .. n -> Page] /\ s[1] = a
      /\ \A i, j \in 1 .. n : s[i] = s[j] => i = j
  BY <1>1, <1>4 DEF HeadList, Chained
<1>6. PICK j \in 1 .. n : s[j] = p
  BY <1>3, <1>5 DEF ToSet
<1>7. Chained(D, a, n, s)
  <2>1. \A i \in 1 .. n : D[s[i]].next = d[s[i]].next
    BY <1>1, <1>5
  <2>. QED BY <1>5, <2>1 DEF Chained
<1>8. DifferIn(ContentIn(d, a).recs, d[p].chunks, ContentIn(D, a).recs, D[p].chunks)
  <2>1. \A i \in 1 .. n : i # j => D[s[i]].chunks = d[s[i]].chunks
    BY <1>1, <1>5, <1>6
  <2>2. DifferIn(ContentIn(d, a).recs, d[s[j]].chunks, ContentIn(D, a).recs, D[s[j]].chunks)
    BY <1>2, <1>5, <1>7, <2>1, ContentDiffers, SMTT(30)
  <2>. QED BY <1>6, <2>2
<1>9. ContentIn(D, a).kind = ContentIn(d, a).kind
  <2>1. ContentIn(D, a).kind = D[a].type /\ ContentIn(d, a).kind = d[a].type
    BY <1>2, <1>5, <1>7, ContentTotal
  <2>. QED BY <1>1, <1>2, <2>1
<1>10. PICK R : R = H \ {a}
  OBVIOUS
<1>11. \A h \in R : ContentIn(D, h) = ContentIn(d, h)
  <2> SUFFICES ASSUME NEW h \in R PROVE ContentIn(D, h) = ContentIn(d, h)
    OBVIOUS
  <2>1. p \notin ToSet(PagesFrom(disk, h)) /\ h \in Heads
    BY <1>1, <1>3, <1>10
  <2>2. ToSet(PagesFrom(disk, h)) \subseteq Page
    BY <2>1, OnList, LiveFacts DEF IInv
  <2>3. \A q \in ToSet(PagesFrom(disk, h)) :
          D[q].next = disk[q].next /\ D[q].chunks = disk[q].chunks /\ D[q].type = disk[q].type
    BY <1>1, <2>1, <2>2
  <2>. QED BY <1>1, <1>2, <2>1, <2>3, Untouched
<1>12. Exchanged(ContentIn(disk, a), ContentIn(disk', a))
  <2>1. a \notin R /\ Heads = R \cup {a} /\ Heads' = R \cup {a}
    BY <1>1, <1>10
  <2>2. \A h \in R : ContentIn(disk', h) = ContentIn(disk, h)
    BY <1>1, <1>11
  <2>. QED BY <2>1, <2>2, OneListChanged
<1>. QED BY <1>1, <1>8, <1>9, <1>12

\* The headers of the pages are as they were.
LEMMA SameHeads ==
  ASSUME IInv, schema' = schema, pc' = pc, last' = last,
         \A q \in Page : disk'[q].type = disk[q].type /\ disk'[q].prev = disk[q].prev
  PROVE  Heads' = Heads
<1>1. Bound' = Bound
  BY DEF Bound
<1>2. Live' = Live /\ Live \subseteq Page
  BY <1>1 DEF Live
<1>. QED BY <1>2 DEF Heads

\* add_chunk on the first page of a list adds the record to the list.
LEMMA AddToHeadSeen ==
  ASSUME IInv, NEW k \in Kind, NEW h \in HeadsFor(k), NEW c \in Chunk,
         AddToHead(k, h, c)
  PROVE  Abstract!Insert(c)
<1>1. h \in Live /\ h # 0 /\ disk \in [Page -> Header] /\ Live \subseteq Page
  BY HeadsForFacts, LiveFacts DEF AddToHead, IInv, TypeOK
<1>2. PICK page : page = disk[h]
  OBVIOUS
<1>3. page \in Header /\ Fits(page, c) /\ page.chunks \in Seq(Chunk)
  BY <1>1, <1>2 DEF AddToHead, Header
<1>4. disk' = [disk EXCEPT ![h] = WithChunk(page, c)]
  BY <1>1, <1>2 DEF AddToHead
<1>5. /\ WithChunk(page, c).type = page.type
      /\ WithChunk(page, c).next = page.next
      /\ WithChunk(page, c).prev = page.prev
      /\ WithChunk(page, c).chunks = Append(page.chunks, c)
  <2>1. WithChunk(page, c).chunks = Append(page.chunks, c)
    BY <1>3 DEF WithChunk, Header
  <2>. QED BY <1>3, <2>1, WithChunkFacts
<1>6. /\ \A q \in Page : /\ disk'[q].type = disk[q].type
                         /\ disk'[q].next = disk[q].next
                         /\ disk'[q].prev = disk[q].prev
                         /\ q # h => disk'[q].chunks = disk[q].chunks
      /\ disk'[h].chunks = Append(page.chunks, c)
  BY <1>1, <1>2, <1>4, <1>5
<1>7. Heads' = Heads
  BY <1>6, SameHeads DEF AddToHead
<1>8. IInv'
  BY AddToHeadStep
<1>9. PICK l, m : /\ Exchanged(l, m) /\ m.kind = l.kind
                  /\ DifferIn(l.recs, page.chunks, m.recs, Append(page.chunks, c))
  <2>1. \E l, m : /\ Exchanged(l, m) /\ m.kind = l.kind
                  /\ DifferIn(l.recs, disk[h].chunks, m.recs, disk'[h].chunks)
    BY <1>1, <1>6, <1>7, <1>8, OnePageChanged
  <2>. QED BY <1>2, <1>6, <2>1
<1>10. PICK A, B : A = page.chunks /\ B = Append(page.chunks, c)
  OBVIOUS
<1>11. /\ A \in Seq(Chunk) /\ B \in Seq(Chunk) /\ Len(A) + 1 \in 1 .. Len(B)
       /\ B[Len(A) + 1] = c /\ A = RemoveAt(B, Len(A) + 1)
  BY <1>3, <1>10, AppendTaken
<1>12. PICK i \in DOMAIN m.recs : m.recs[i] = c /\ l.recs = RemoveAt(m.recs, i)
  <2>1. PICK j : j = Len(A) + 1
    OBVIOUS
  <2>2. j \in 1 .. Len(B) /\ A = RemoveAt(B, j) /\ B[j] = c /\ B \in Seq(Chunk)
    BY <1>11, <2>1
  <2>3. DifferIn(l.recs, A, m.recs, B)
    BY <1>9, <1>10
  <2>. QED BY <2>2, <2>3, OneTaken
<1>. QED BY <1>9, <1>12, InsertSeen

\* Replacing a record in its page replaces it in its list.
LEMMA ReplaceSeen ==
  ASSUME IInv, NEW p \in Live, NEW i \in DOMAIN disk[p].chunks, NEW c \in Chunk,
         Replace(p, i, c)
  PROVE  Abstract!Rewrite(c)
<1>1. p \in Page /\ disk \in [Page -> Header]
  BY LiveFacts DEF IInv, TypeOK
<1>2. PICK page : page = disk[p]
  OBVIOUS
<1>3. /\ page \in Header /\ ReplacementFits(page, i, c)
      /\ page.chunks \in Seq(Chunk) /\ i \in DOMAIN page.chunks
  BY <1>1, <1>2 DEF Replace, Header
<1>4. disk' = [disk EXCEPT ![p] = WithReplaced(page, i, c)]
  BY <1>1, <1>2 DEF Replace
<1>5. /\ WithReplaced(page, i, c).type = page.type
      /\ WithReplaced(page, i, c).next = page.next
      /\ WithReplaced(page, i, c).prev = page.prev
      /\ WithReplaced(page, i, c).chunks = [page.chunks EXCEPT ![i] = c]
  <2>1. WithReplaced(page, i, c).chunks = [page.chunks EXCEPT ![i] = c]
    BY <1>3 DEF WithReplaced, Header
  <2>. QED BY <1>3, <2>1, WithReplacedFacts
<1>6. /\ \A q \in Page : /\ disk'[q].type = disk[q].type
                         /\ disk'[q].next = disk[q].next
                         /\ disk'[q].prev = disk[q].prev
                         /\ q # p => disk'[q].chunks = disk[q].chunks
      /\ disk'[p].chunks = [page.chunks EXCEPT ![i] = c]
  BY <1>1, <1>2, <1>4, <1>5
<1>7. Heads' = Heads
  BY <1>6, SameHeads DEF Replace
<1>8. IInv'
  BY ReplaceStep
<1>9. PICK l, m : /\ Exchanged(l, m) /\ m.kind = l.kind
                  /\ DifferIn(l.recs, page.chunks, m.recs, [page.chunks EXCEPT ![i] = c])
  <2>1. \E l, m : /\ Exchanged(l, m) /\ m.kind = l.kind
                  /\ DifferIn(l.recs, disk[p].chunks, m.recs, disk'[p].chunks)
    BY <1>6, <1>7, <1>8, OnePageChanged
  <2>. QED BY <1>2, <1>6, <2>1
<1>10. PICK A, B : A = page.chunks /\ B = [page.chunks EXCEPT ![i] = c]
  OBVIOUS
<1>11. A \in Seq(Chunk) /\ i \in 1 .. Len(A) /\ B = [A EXCEPT ![i] = c]
  BY <1>3, <1>10
<1>12. PICK n \in DOMAIN l.recs : m.recs = [l.recs EXCEPT ![n] = c]
  BY <1>9, <1>10, <1>11, OneReplaced
<1>. QED BY <1>9, <1>12, RewriteSeen

\* delete_chunk on a page with other records takes the record out of its list.
LEMMA DeleteOneSeen ==
  ASSUME IInv, NEW p \in Live, NEW i \in DOMAIN disk[p].chunks, DeleteOne(p, i)
  PROVE  \E c \in Chunk : Abstract!Withdraw(c)
<1>1. p \in Page /\ disk \in [Page -> Header]
  BY LiveFacts DEF IInv, TypeOK
<1>2. PICK page : page = disk[p]
  OBVIOUS
<1>3. page \in Header /\ page.chunks \in Seq(Chunk) /\ i \in DOMAIN page.chunks
  BY <1>1, <1>2 DEF Header
<1>4. disk' = [disk EXCEPT ![p] = WithoutChunk(page, i)]
  BY <1>1, <1>2 DEF DeleteOne
<1>5. /\ WithoutChunk(page, i).type = page.type
      /\ WithoutChunk(page, i).next = page.next
      /\ WithoutChunk(page, i).prev = page.prev
      /\ WithoutChunk(page, i).chunks = RemoveAt(page.chunks, i)
  <2>1. WithoutChunk(page, i).chunks = RemoveAt(page.chunks, i)
    BY <1>3 DEF WithoutChunk, Header
  <2>. QED BY <1>3, <2>1, WithoutChunkFacts
<1>6. /\ \A q \in Page : /\ disk'[q].type = disk[q].type
                         /\ disk'[q].next = disk[q].next
                         /\ disk'[q].prev = disk[q].prev
                         /\ q # p => disk'[q].chunks = disk[q].chunks
      /\ disk'[p].chunks = RemoveAt(page.chunks, i)
  BY <1>1, <1>2, <1>4, <1>5
<1>7. Heads' = Heads
  BY <1>6, SameHeads DEF DeleteOne
<1>8. IInv'
  BY DeleteOneStep
<1>9. PICK l, m : /\ Exchanged(l, m) /\ m.kind = l.kind
                  /\ DifferIn(l.recs, page.chunks, m.recs, RemoveAt(page.chunks, i))
  <2>1. \E l, m : /\ Exchanged(l, m) /\ m.kind = l.kind
                  /\ DifferIn(l.recs, disk[p].chunks, m.recs, disk'[p].chunks)
    BY <1>6, <1>7, <1>8, OnePageChanged
  <2>. QED BY <1>2, <1>6, <2>1
<1>10. PICK A, B : A = page.chunks /\ B = RemoveAt(page.chunks, i)
  OBVIOUS
<1>11. A \in Seq(Chunk) /\ i \in 1 .. Len(A) /\ B = RemoveAt(A, i) /\ A[i] \in Chunk
  BY <1>3, <1>10
<1>12. DifferIn(m.recs, B, l.recs, A)
  BY <1>9, <1>10 DEF DifferIn
<1>13. PICK n \in DOMAIN l.recs : l.recs[n] = A[i] /\ m.recs = RemoveAt(l.recs, n)
  BY <1>11, <1>12, OneTaken
<1>14. Abstract!Withdraw(A[i])
  BY <1>9, <1>13, WithdrawSeen
<1>. QED BY <1>11, <1>14

-----------------------------------------------------------------------------
(* A page is put in front of a list, or starts one.                        *)

\* The new page takes the place of the head it is put in front of; until then
\* the lists are the same.
LEMMA NewHeads ==
  ASSUME IInv, NEW k, NEW h, NEW c, NEW n, NewHeadAt(n, k, h, c)
  PROVE  /\ Heads' = (Heads \ {h}) \cup {n}
         /\ n \notin Heads
         /\ h # 0 => h \in Heads
         /\ \A g \in Heads : ContentIn(disk', g) = ContentIn(disk, g)
<1>1. /\ n \in Page /\ n \notin Live /\ Live' = Live \cup {n}
      /\ h # 0 => h \in Live /\ disk[h].prev = 0
      /\ disk'[n].prev = 0
      /\ \A q \in Page \ {n} :
           /\ disk'[q].type = disk[q].type
           /\ disk'[q].next = disk[q].next
           /\ disk'[q].chunks = disk[q].chunks
           /\ disk[q].type # "FREE" =>
                disk'[q].prev = IF q = h THEN n ELSE disk[q].prev
  BY DEF NewHeadAt
<1>2. /\ Live \subseteq Page /\ \A q \in Page : q # 0
      /\ \A q \in Live : disk[q].type # "FREE"
  BY LiveFacts DEF IInv
<1>3. \A q \in Live : q # n /\ disk'[q].prev = IF q = h THEN n ELSE disk[q].prev
  BY <1>1, <1>2
<1>4. Heads' = (Heads \ {h}) \cup {n}
  BY <1>1, <1>2, <1>3 DEF Heads
<1>5. ASSUME NEW g \in Heads PROVE ContentIn(disk', g) = ContentIn(disk, g)
  <2>1. \A q \in ToSet(PagesFrom(disk, g)) : q \in Live
    BY OnList
  <2>2. disk' \in [Page -> Header]
    BY DEF NewHeadAt
  <2>3. \A q \in ToSet(PagesFrom(disk, g)) :
          disk'[q].next = disk[q].next /\ disk'[q].chunks = disk[q].chunks
            /\ disk'[q].type = disk[q].type
    BY <1>1, <1>2, <1>3, <2>1
  <2>. QED BY <2>2, <2>3, Untouched
<1>. QED BY <1>1, <1>4, <1>5 DEF Heads

\* A record on a new page without a list behind it starts a list.
LEMMA StartSeen ==
  ASSUME IInv, IInv', NEW k \in Kind, 0 \in HeadsFor(k), NEW c \in Chunk, NEW n,
         NewHeadAt(n, k, 0, c)
  PROVE  Abstract!Start(k, c)
<1>1. PICK C, D : C = Contents(disk) /\ D = Contents(disk')
  OBVIOUS
<1>2. PICK A, B : A = ListBag /\ B = ListBag'
  OBVIOUS
<1>3. /\ Heads \in SUBSET Page /\ IsFiniteSet(Heads) /\ 0 \notin Heads
      /\ Heads \subseteq Live
      /\ n \in Page /\ disk' \in [Page -> Header]
  BY HeadsFacts, NextSeen DEF HeadsOK, NewHeadAt
<1>4. A = Gathered(C, Heads) /\ B = Gathered(D, Heads \cup {n})
  <2>1. A = Gathered(C, Heads)
    BY <1>1, <1>2, BagSeen DEF BagIs
  <2>2. B = Gathered(D, Heads')
    BY <1>1, <1>2, NextSeen DEF BagIs
  <2>3. Heads' = Heads \cup {n}
    BY <1>3, NewHeads
  <2>. QED BY <2>1, <2>2, <2>3
<1>5. \A g \in Heads : D[g] = C[g]
  BY <1>1, <1>3, NewHeads DEF Contents
<1>6. n \notin Heads
  BY NewHeads
<1>7. D[n] = [kind |-> k, recs |-> <<c>>]
  <2>1. PICK d : d = disk'
    OBVIOUS
  <2>2. d[n].type = k /\ d[n].next = 0 /\ d[n].chunks = <<c>> /\ d \in [Page -> Header]
    BY <2>1 DEF NewHeadAt
  <2>3. ContentIn(d, n) = [kind |-> d[n].type, recs |-> <<c>>]
    BY <1>3, <2>2, OnePageList
  <2>4. D[n] = ContentIn(d, n)
    BY <1>1, <1>3, <2>1 DEF Contents
  <2>. QED BY <2>2, <2>3, <2>4
<1>8. B = A (+) SetToBag({D[n]})
  <2>1. PICK H : H = Heads
    OBVIOUS
  <2>2. /\ IsFiniteSet(H) /\ n \notin H /\ SameOn(H, C, D)
        /\ A = Gathered(C, H) /\ B = Gathered(D, H \cup {n})
    BY <1>3, <1>4, <1>5, <1>6, <2>1 DEF SameOn
  <2>3. /\ B = A (+) SetToBag({D[n]}) /\ A = B (-) SetToBag({D[n]})
        /\ BagIn(D[n], B)
    BY <2>2, OneMoreList
  <2>. QED BY <2>3
<1>9. k = "INDEX" => \A l \in BagToSet(A) : l.kind # "INDEX"
  <2> SUFFICES ASSUME k = "INDEX", NEW l \in BagToSet(A), l.kind = "INDEX" PROVE FALSE
    OBVIOUS
  <2>1. PICK g \in Heads : l = C[g]
    BY <1>4 DEF Gathered, BagToSet
  <2>2. l.kind = disk[g].type
    BY <1>1, <1>3, <2>1 DEF Contents, ContentIn
  <2>3. g = schema.first_index
    BY <1>3, <2>2 DEF IInv, OneIndexHead, Heads
  <2>4. schema.first_index = 0
    BY DEF HeadsFor
  <2>. QED BY <1>3, <2>3, <2>4
<1>10. \A l \in Abstract!BagToSet(ListBag) : k = "INDEX" => l.kind # "INDEX"
  BY <1>2, <1>9 DEF Abstract!BagToSet, BagToSet
<1>11. ListBag' = Abstract!(+)(ListBag, Abstract!SetToBag({[kind |-> k, recs |-> <<c>>]}))
  <2>1. B = A (+) SetToBag({[kind |-> k, recs |-> <<c>>]})
    BY <1>7, <1>8
  <2>. QED BY <1>2, <2>1 DEF Abstract!SetToBag, Abstract!(+), SetToBag, (+)
<1>. QED BY <1>10, <1>11 DEF Abstract!Start

\* A record on a new page in front of a list is added to that list.
LEMMA FrontInsertSeen ==
  ASSUME IInv, IInv', NEW k, NEW h, h # 0, NEW c \in Chunk, NEW n,
         NewHeadAt(n, k, h, c)
  PROVE  Abstract!Insert(c)
<1>1. PICK d, D : d = disk /\ D = disk'
  OBVIOUS
<1>2. /\ d \in [Page -> Header] /\ D \in [Page -> Header]
      /\ n \in Page /\ n \notin Live /\ h \in Heads
      /\ D[n].type = k /\ D[n].next = h /\ D[n].chunks = Append(<<>>, c)
      /\ d[h].type = k
      /\ \A q \in Page \ {n} : D[q].next = d[q].next /\ D[q].chunks = d[q].chunks
  <2>1. d \in [Page -> Header] /\ h \in Heads
    BY <1>1, HeadsFacts, NewHeads DEF HeadsOK
  <2>2. D \in [Page -> Header] /\ n \in Page /\ n \notin Live /\ d[h].type = k
    BY <1>1 DEF NewHeadAt
  <2>3. D[n].type = k /\ D[n].next = h /\ D[n].chunks = Append(<<>>, c)
    BY <1>1 DEF NewHeadAt
  <2>4. \A q \in Page \ {n} : D[q].next = d[q].next /\ D[q].chunks = d[q].chunks
    BY <1>1 DEF NewHeadAt
  <2>. QED BY <2>1, <2>2, <2>3, <2>4
<1>3. PICK m, s : HeadList(h, m, s)
  BY <1>2, HeadListFound
<1>4. /\ Chained(d, h, m, s) /\ s \in [1 .. m -> Page]
      /\ \A i, j \in 1 .. m : s[i] = s[j] => i = j
      /\ \A i \in 1 .. m : s[i] \in Live
  BY <1>1, <1>3 DEF HeadList, Chained
<1>5. DifferIn(ContentIn(d, h).recs, <<>>, ContentIn(D, n).recs, Append(<<>>, c))
  <2>1. \A i \in 1 .. m : s[i] # n /\ s[i] \in Page \ {n}
    BY <1>2, <1>4
  <2>2. \A i \in 1 .. m : D[s[i]].next = d[s[i]].next /\ D[s[i]].chunks = d[s[i]].chunks
    BY <1>2, <2>1
  <2>3. DifferIn(ContentIn(d, h).recs, <<>>, ContentIn(D, n).recs, D[n].chunks)
    <3>1. D[n].type = d[h].type /\ Distinct(m, s) /\ LeftAlone(n, d, m, s, D)
      BY <1>2, <1>4, <2>1, <2>2 DEF Distinct, LeftAlone
    <3>. QED BY <1>2, <1>4, <3>1, PutInFront
  <2>. QED BY <1>2, <2>3
<1>6. Exchanged(ContentIn(disk, h), ContentIn(disk', n))
  <2>1. PICK R : R = Heads \ {h}
    OBVIOUS
  <2>2. Heads = R \cup {h} /\ Heads' = R \cup {n} /\ h \notin R /\ n \notin R
    BY <1>2, <2>1, NewHeads
  <2>3. \A g \in R : ContentIn(disk', g) = ContentIn(disk, g)
    BY <2>1, NewHeads
  <2>. QED BY <2>2, <2>3, OneListChanged
<1>7. ContentIn(D, n).kind = ContentIn(d, h).kind
  BY <1>2 DEF ContentIn
<1>8. PICK l, x : l = ContentIn(d, h) /\ x = ContentIn(D, n)
  OBVIOUS
<1>9. PICK A, B : A = <<>> /\ B = Append(<<>>, c)
  OBVIOUS
<1>10. /\ B \in Seq(Chunk) /\ 1 \in 1 .. Len(B) /\ B[1] = c /\ A = RemoveAt(B, 1)
  <2>1. A \in Seq(Chunk) /\ B = Append(A, c) /\ Len(A) + 1 = 1
    BY <1>9
  <2>2. /\ B \in Seq(Chunk) /\ Len(A) + 1 \in 1 .. Len(B)
        /\ B[Len(A) + 1] = c /\ A = RemoveAt(B, Len(A) + 1)
    BY <2>1, AppendTaken
  <2>. QED BY <2>1, <2>2
<1>11. DifferIn(l.recs, A, x.recs, B)
  BY <1>5, <1>8, <1>9
<1>12. PICK i \in DOMAIN x.recs : x.recs[i] = c /\ l.recs = RemoveAt(x.recs, i)
  BY <1>10, <1>11, OneTaken
<1>13. Exchanged(l, x) /\ x.kind = l.kind
  BY <1>1, <1>6, <1>7, <1>8
<1>. QED BY <1>12, <1>13, InsertSeen

\* get_free_page, and linking the page to the list, is one of the two.
LEMMA AddInNewHeadSeen ==
  ASSUME IInv, NEW k \in Kind, NEW h \in HeadsFor(k), NEW c \in Chunk,
         AddInNewHead(k, h, c)
  PROVE  Abstract!Insert(c) \/ Abstract!Start(k, c)
<1>1. IInv'
  BY AddInNewHeadStep
<1>2. PICK n : NewHeadAt(n, k, h, c)
  BY NewHeadWritten
<1>3. CASE h = 0
  BY <1>1, <1>2, <1>3, StartSeen
<1>4. CASE h # 0
  BY <1>1, <1>2, <1>4, FrontInsertSeen
<1>. QED BY <1>3, <1>4

-----------------------------------------------------------------------------
(* A page is freed.                                                        *)

\* The heads, once page p is freed: if it was one, the page behind it is now.
LEMMA HeadsAfterFree ==
  ASSUME IInv, NEW p \in Live, PageFreed(p)
  PROVE  /\ p # 0
         /\ disk[p].prev # 0 => Heads' = Heads
         /\ disk[p].prev = 0 =>
              /\ p \in Heads /\ disk[p].next \notin Heads
              /\ Heads' = (Heads \ {p}) \cup
                            (IF disk[p].next = 0 THEN {} ELSE {disk[p].next})
<1>1. /\ Live \subseteq Page /\ \A q \in Page : q # 0
      /\ \A q \in Live : disk[q].type # "FREE"
  BY LiveFacts DEF IInv
<1>2. /\ disk[p].next # 0 => disk[p].next \in Live /\ disk[disk[p].next].prev = p
      /\ disk[p].next # p
      /\ Live' = Live \ {p}
      /\ \A q \in Page \ {p} : disk[q].type # "FREE" =>
           disk'[q].prev = IF q = disk[p].next THEN disk[p].prev ELSE disk[q].prev
  BY DEF PageFreed
<1>3. \A q \in Live \ {p} :
        disk'[q].prev = IF q = disk[p].next THEN disk[p].prev ELSE disk[q].prev
  BY <1>1, <1>2
<1>4. \A q : q \in Heads' <=> q \in Live \ {p} /\ disk'[q].prev = 0
  BY <1>2 DEF Heads
<1>5. \A q : q \in Heads <=> q \in Live /\ disk[q].prev = 0
  BY DEF Heads
<1>6. p # 0
  BY <1>1
<1>7. CASE disk[p].prev # 0
  <2>1. \A q : q \in Heads' <=> q \in Heads
    <3>1. p \notin Heads
      BY <1>5, <1>7
    <3>2. ASSUME NEW q \in Live \ {p}, q = disk[p].next
          PROVE  disk'[q].prev # 0 /\ disk[q].prev # 0
      BY <1>1, <1>2, <1>3, <1>7, <3>2
    <3>3. ASSUME NEW q \in Live \ {p}, q # disk[p].next
          PROVE  disk'[q].prev = disk[q].prev
      BY <1>3, <3>3
    <3>. QED BY <1>4, <1>5, <3>1, <3>2, <3>3
  <2>. QED BY <1>6, <1>7, <2>1
<1>8. CASE disk[p].prev = 0
  <2>1. p \in Heads
    BY <1>5, <1>8
  <2>2. disk[p].next \notin Heads
    BY <1>1, <1>2, <1>5
  <2>3. \A q : q \in Heads' <=> \/ q \in Heads /\ q # p
                                \/ disk[p].next # 0 /\ q = disk[p].next
    <3>1. ASSUME NEW q \in Live \ {p}, q = disk[p].next PROVE disk'[q].prev = 0 /\ q # 0
      BY <1>1, <1>3, <1>8, <3>1
    <3>2. ASSUME NEW q \in Live \ {p}, q # disk[p].next
          PROVE  disk'[q].prev = disk[q].prev
      BY <1>3, <3>2
    <3>3. disk[p].next # 0 => disk[p].next \in Live \ {p}
      BY <1>2
    <3>. QED BY <1>4, <1>5, <2>2, <3>1, <3>2, <3>3
  <2>4. Heads' = (Heads \ {p}) \cup (IF disk[p].next = 0 THEN {} ELSE {disk[p].next})
    BY <2>3
  <2>. QED BY <1>6, <1>8, <2>1, <2>2, <2>4
<1>. QED BY <1>7, <1>8

\* The lists that page p was not on.
LEMMA OthersAfterFree ==
  ASSUME IInv, NEW p \in Live, PageFreed(p),
         NEW g \in Heads, p \notin ToSet(PagesFrom(disk, g))
  PROVE  ContentIn(disk', g) = ContentIn(disk, g)
<1>1. /\ Live \subseteq Page /\ \A q \in Page : q # 0
      /\ disk' \in [Page -> Header]
      /\ disk[p].prev # 0 => disk[disk[p].prev].next = p
      /\ \A q \in Page \ {p} :
           /\ disk'[q].type = disk[q].type
           /\ disk'[q].chunks = disk[q].chunks
           /\ disk'[q].next = IF q = disk[p].prev THEN disk[p].next ELSE disk[q].next
  <2>1. Live \subseteq Page /\ \A q \in Page : q # 0
    BY LiveFacts DEF IInv
  <2>. QED BY <2>1 DEF PageFreed
<1>2. ASSUME NEW q \in ToSet(PagesFrom(disk, g))
      PROVE  disk'[q].next = disk[q].next /\ disk'[q].chunks = disk[q].chunks
               /\ disk'[q].type = disk[q].type
  <2>1. q \in Live /\ (disk[q].next # 0 => disk[q].next \in ToSet(PagesFrom(disk, g)))
    BY OnList
  <2>2. q # p /\ q \in Page /\ q # 0
    BY <1>1, <2>1
  <2>3. q # disk[p].prev
    <3>1. disk[q].next # p
      BY <1>1, <2>1
    <3>. QED BY <1>1, <2>2, <3>1
  <2>. QED BY <1>1, <2>2, <2>3
<1>. QED BY <1>1, <1>2, Untouched

\* The only record of the only page of a list is removed.
LEMMA EndSeen ==
  ASSUME IInv, IInv', NEW p \in Live, PageFreed(p),
         disk[p].prev = 0, disk[p].next = 0,
         NEW c \in Chunk, disk[p].chunks = <<c>>
  PROVE  Abstract!End(disk[p].type, c)
<1>1. PICK C, D : C = Contents(disk) /\ D = Contents(disk')
  OBVIOUS
<1>2. PICK A, B : A = ListBag /\ B = ListBag'
  OBVIOUS
<1>3. PICK R : R = Heads \ {p}
  OBVIOUS
<1>4. Heads' = R /\ Heads = R \cup {p} /\ p \notin R
  BY <1>3, HeadsAfterFree
<1>5. /\ R \subseteq Page /\ IsFiniteSet(R) /\ p \in Page
      /\ disk \in [Page -> Header]
  <2>1. Heads \in SUBSET Page /\ IsFiniteSet(Heads) /\ disk \in [Page -> Header]
    BY HeadsFacts DEF HeadsOK
  <2>. QED BY <1>4, <2>1, FS_Subset
<1>6. A = Gathered(C, R \cup {p}) /\ B = Gathered(D, R)
  <2>1. A = Gathered(C, Heads)
    BY <1>1, <1>2, BagSeen DEF BagIs
  <2>2. B = Gathered(D, Heads')
    BY <1>1, <1>2, NextSeen DEF BagIs
  <2>. QED BY <1>4, <2>1, <2>2
<1>7. \A g \in R : C[g] = D[g]
  <2> SUFFICES ASSUME NEW g \in R PROVE C[g] = D[g]
    OBVIOUS
  <2>1. p \notin ToSet(PagesFrom(disk, g))
    <3>1. g \in Heads /\ g # p
      BY <1>4
    <3>2. disk[p].prev = 0 /\ p \in ToSet(PagesFrom(disk, g)) => p = g
      BY <3>1, OnList
    <3>. QED BY <3>1, <3>2
  <2>2. ContentIn(disk', g) = ContentIn(disk, g)
    BY <1>4, <2>1, OthersAfterFree
  <2>. QED BY <1>1, <1>5, <2>2 DEF Contents
<1>8. C[p] = [kind |-> disk[p].type, recs |-> <<c>>]
  <2>1. PICK d : d = disk
    OBVIOUS
  <2>2. ContentIn(d, p) = [kind |-> d[p].type, recs |-> <<c>>]
    BY <1>5, <2>1, OnePageList
  <2>. QED BY <1>1, <1>5, <2>1, <2>2 DEF Contents
<1>9. B = A (-) SetToBag({C[p]}) /\ BagIn(C[p], A)
  <2>1. SameOn(R, D, C)
    BY <1>7 DEF SameOn
  <2>. QED BY <1>4, <1>5, <1>6, <2>1, OneMoreList
<1>10. PICK l : l = [kind |-> disk[p].type, recs |-> <<c>>]
  OBVIOUS
<1>11. Abstract!BagIn(l, ListBag)
  BY <1>2, <1>8, <1>9, <1>10 DEF Abstract!BagIn, BagIn, Abstract!BagToSet, BagToSet
<1>12. ListBag' = Abstract!(-)(ListBag, Abstract!SetToBag({l}))
  <2>1. B = A (-) SetToBag({l})
    BY <1>8, <1>9, <1>10
  <2>. QED BY <1>2, <2>1 DEF Abstract!SetToBag, Abstract!(-), SetToBag, (-)
<1>. QED BY <1>10, <1>11, <1>12 DEF Abstract!End

\* The only record of a page is removed, and the page with it; the list has
\* other pages.
LEMMA WithdrawLastSeen ==
  ASSUME IInv, IInv', NEW p \in Live, PageFreed(p),
         disk[p].prev # 0 \/ disk[p].next # 0,
         NEW c \in Chunk, disk[p].chunks = <<c>>
  PROVE  Abstract!Withdraw(c)
<1>1. PICK d, D : d = disk /\ D = disk'
  OBVIOUS
<1>2. PICK a, m, s : /\ a \in Heads
                     /\ HeadList(a, m, s)
                     /\ \E j \in 1 .. m : s[j] = p
                     /\ \A g \in Heads \ {a} : p \notin ToSet(PagesFrom(disk, g))
  BY PageFound
<1>3. PICK j \in 1 .. m : s[j] = p
  BY <1>2
<1>4. /\ Chained(d, a, m, s) /\ m \in 1 .. MaxPage
      /\ s \in [1 .. m -> Page] /\ s[1] = a
      /\ \A i, x \in 1 .. m : s[i] = s[x] => i = x
      /\ \A i \in 1 .. m : /\ s[i] \in Live
                           /\ d[s[i]].type = d[a].type
                           /\ d[s[i]].next = IF i = m THEN 0 ELSE s[i+1]
                           /\ i # 1 => d[s[i]].prev = s[i-1]
  BY <1>1, <1>2 DEF HeadList, Chained
<1>5. /\ d \in [Page -> Header] /\ D \in [Page -> Header]
      /\ \A q \in Page \ {p} :
           /\ D[q].type = d[q].type
           /\ D[q].chunks = d[q].chunks
           /\ D[q].next = IF q = d[p].prev THEN d[p].next ELSE d[q].next
  <2>1. d \in [Page -> Header]
    BY <1>1, HeadsFacts DEF HeadsOK
  <2>. QED BY <1>1, <2>1 DEF PageFreed
<1>6. \A q \in Page : q # 0
  BY LiveFacts DEF IInv
<1>7. /\ j = 1 => p = a /\ d[p].prev = 0
      /\ j # 1 => j - 1 \in 1 .. m /\ d[p].prev = s[j - 1]
  <2>1. d[a].prev = 0
    BY <1>1, <1>2 DEF Heads
  <2>2. j # 1 => j - 1 \in 1 .. m
    BY <1>4
  <2>. QED BY <1>3, <1>4, <2>1, <2>2
<1>8. PICK n : n = m - 1
  OBVIOUS
<1>9. n \in Nat \ {0} /\ m = n + 1
  <2>1. m # 1
    <3> SUFFICES ASSUME m = 1 PROVE FALSE
      OBVIOUS
    <3>1. j = 1 /\ j = m
      BY <1>4
    <3>2. d[p].next = 0
      BY <1>3, <1>4, <3>1
    <3>. QED BY <1>1, <1>7, <3>1, <3>2
  <2>2. m \in Nat /\ m >= 1
    BY <1>4
  <2>. QED BY <1>8, <2>1, <2>2
<1>10. Bridged(d, n, s, j, D)
  <2> SUFFICES ASSUME NEW i \in 1 .. m, i # j
               PROVE  /\ D[s[i]].chunks = d[s[i]].chunks
                      /\ D[s[i]].next = IF i + 1 = j THEN d[s[j]].next ELSE d[s[i]].next
    BY <1>9 DEF Bridged
  <2>1. s[i] \in Page \ {p}
    BY <1>3, <1>4
  <2>2. s[i] = d[p].prev <=> i + 1 = j
    <3>1. CASE j = 1
      <4>1. i + 1 # j
        BY <3>1
      <4>. QED BY <1>6, <1>7, <2>1, <3>1, <4>1
    <3>2. CASE j # 1
      <4>1. s[i] = s[j - 1] <=> i = j - 1
        BY <1>4, <1>7, <3>2
      <4>2. i = j - 1 <=> i + 1 = j
        OBVIOUS
      <4>. QED BY <1>7, <3>2, <4>1, <4>2
    <3>. QED BY <3>1, <3>2
  <2>. QED BY <1>3, <1>5, <2>1, <2>2
<1>11. PICK g : g = IF j = 1 THEN s[2] ELSE a
  OBVIOUS
<1>12. D[g].type = d[a].type
  <2>1. CASE j = 1
    <3>1. 2 \in 1 .. m /\ 2 # j
      BY <1>9, <2>1
    <3>2. s[2] \in Page \ {p}
      BY <1>3, <1>4, <3>1
    <3>. QED BY <1>4, <1>5, <1>11, <2>1, <3>1, <3>2
  <2>2. CASE j # 1
    <3>1. 1 \in 1 .. m
      BY <1>9
    <3>2. s[1] \in Page \ {p}
      BY <1>3, <1>4, <2>2, <3>1
    <3>. QED BY <1>4, <1>5, <1>11, <2>2, <3>2
  <2>. QED BY <2>1, <2>2
<1>13. DifferIn(ContentIn(d, a).recs, <<c>>, ContentIn(D, g).recs, <<>>)
  <2>1. d[s[j]].chunks = <<c>>
    BY <1>1, <1>3
  <2>2. Chained(d, a, n + 1, s) /\ j \in 1 .. n + 1
    BY <1>4, <1>9
  <2>3. \A i, x \in 1 .. n + 1 : s[i] = s[x] => i = x
    BY <1>4, <1>9
  <2>4. PICK v, b : v = j /\ b = a
    OBVIOUS
  <2>5. /\ Chained(d, b, n + 1, s) /\ v \in 1 .. n + 1 /\ Bridged(d, n, s, v, D)
        /\ g = IF v = 1 THEN s[2] ELSE b
        /\ D[g].type = d[b].type
    BY <1>10, <1>11, <1>12, <2>2, <2>4
  <2>6. Distinct(n + 1, s)
    BY <2>3 DEF Distinct
  <2>7. DifferIn(ContentIn(d, b).recs, d[s[v]].chunks, ContentIn(D, g).recs, <<>>)
    BY <1>5, <1>9, <2>5, <2>6, TakenFromList, SMTT(30)
  <2>. QED BY <2>1, <2>4, <2>7
<1>14. Exchanged(ContentIn(disk, a), ContentIn(disk', g))
  <2>1. PICK R : R = Heads \ {a}
    OBVIOUS
  <2>2. Heads = R \cup {a} /\ a \notin R
    BY <1>2, <2>1
  <2>3. Heads' = R \cup {g} /\ g \notin R
    <3>1. CASE j = 1
      <4>1. p = a /\ disk[p].prev = 0 /\ g = disk[p].next /\ g # 0
        <5>1. 1 # m /\ 1 + 1 = 2 /\ 2 \in 1 .. m
          BY <1>9
        <5>2. g = s[2] /\ d[p].next = s[2] /\ s[2] \in Page
          BY <1>3, <1>4, <1>11, <3>1, <5>1
        <5>. QED BY <1>1, <1>6, <1>7, <3>1, <5>2
      <4>2. Heads' = (Heads \ {p}) \cup {disk[p].next} /\ disk[p].next \notin Heads
        BY <4>1, HeadsAfterFree
      <4>. QED BY <2>1, <4>1, <4>2
    <3>2. CASE j # 1
      <4>1. g = a /\ disk[p].prev # 0
        <5>1. s[j - 1] \in Page
          BY <1>4, <1>7, <3>2
        <5>. QED BY <1>1, <1>6, <1>7, <1>11, <3>2, <5>1
      <4>2. Heads' = Heads
        BY <4>1, HeadsAfterFree
      <4>. QED BY <2>2, <4>1, <4>2
    <3>. QED BY <3>1, <3>2
  <2>4. \A h \in R : ContentIn(disk', h) = ContentIn(disk, h)
    BY <1>2, <2>1, OthersAfterFree
  <2>. QED BY <2>2, <2>3, <2>4, OneListChanged
<1>15. PICK l, x : l = ContentIn(d, a) /\ x = ContentIn(D, g)
  OBVIOUS
<1>16. Exchanged(l, x) /\ x.kind = l.kind
  <2>1. ContentIn(D, g).kind = D[g].type /\ ContentIn(d, a).kind = d[a].type
    BY DEF ContentIn
  <2>. QED BY <1>1, <1>12, <1>14, <1>15, <2>1
<1>17. PICK A, B : A = <<c>> /\ B = <<>>
  OBVIOUS
<1>18. A \in Seq(Chunk) /\ 1 \in 1 .. Len(A) /\ A[1] = c /\ B = RemoveAt(A, 1)
  BY <1>17, OnlyOne
<1>19. DifferIn(x.recs, B, l.recs, A)
  BY <1>13, <1>15, <1>17 DEF DifferIn
<1>20. PICK i \in DOMAIN l.recs : l.recs[i] = c /\ x.recs = RemoveAt(l.recs, i)
  BY <1>18, <1>19, OneTaken
<1>. QED BY <1>16, <1>20, WithdrawSeen

\* delete_chunk and free_page: the record goes, or the list with it.
LEMMA DeleteLastSeen ==
  ASSUME IInv, NEW p \in Live, DeleteLast(p)
  PROVE  \E c \in Chunk : Abstract!Withdraw(c) \/ \E k \in Kind : Abstract!End(k, c)
<1>1. IInv' /\ PageFreed(p)
  BY DeleteLastStep, DeleteLastFrees
<1>2. PICK c \in Chunk : disk[p].chunks = <<c>>
  <2>1. PICK s : s = disk[p].chunks
    OBVIOUS
  <2>2. s \in Seq(Chunk) /\ Len(s) = 1
    BY <2>1, LiveFacts DEF DeleteLast, IInv, TypeOK, Header
  <2>3. s[1] \in Chunk /\ s = <<s[1]>>
    BY <2>2
  <2>. QED BY <2>1, <2>3
<1>3. disk[p].type \in Kind
  BY LiveFacts DEF IInv
<1>4. CASE disk[p].prev = 0 /\ disk[p].next = 0
  BY <1>1, <1>2, <1>3, <1>4, EndSeen
<1>5. CASE disk[p].prev # 0 \/ disk[p].next # 0
  BY <1>1, <1>2, <1>5, WithdrawLastSeen
<1>. QED BY <1>4, <1>5

-----------------------------------------------------------------------------
(* A page is moved, and the other steps that change no list.               *)

\* The heads, once page from is page to: if it was one, page to is now.
LEMMA HeadsAfterMove ==
  ASSUME IInv, NEW from, NEW to, PageMoved(from, to)
  PROVE  /\ disk[from].prev # 0 => Heads' = Heads
         /\ disk[from].prev = 0 =>
              /\ from \in Heads /\ to \notin Heads
              /\ Heads' = (Heads \ {from}) \cup {to}
<1>1. /\ from \in Page /\ to \in Page /\ from \in Live /\ to \notin Live
      /\ disk[from].next # 0 => disk[from].next \in Live /\ disk[disk[from].next].prev = from
      /\ disk[from].next # from
      /\ Live' = (Live \ {from}) \cup {to}
      /\ disk'[to] = disk[from]
      /\ \A q \in Page \ {to} :
           disk'[q].prev = IF q = disk[from].next THEN to ELSE disk[q].prev
  BY DEF PageMoved
<1>2. Live \subseteq Page /\ \A q \in Page : q # 0
  BY LiveFacts DEF IInv
<1>3. ASSUME NEW q \in Live PROVE disk'[q].prev = 0 <=> disk[q].prev = 0
  <2>1. q \in Page \ {to} /\ q # 0
    BY <1>1, <1>2
  <2>2. CASE q = disk[from].next
    BY <1>1, <1>2, <2>1, <2>2
  <2>3. CASE q # disk[from].next
    BY <1>1, <2>1, <2>3
  <2>. QED BY <2>2, <2>3
<1>4. \A q : q \in Heads' <=> \/ q \in Live \ {from} /\ disk[q].prev = 0
                              \/ q = to /\ disk[from].prev = 0
  <2>1. \A q : q \in Heads' <=> q \in (Live \ {from}) \cup {to} /\ disk'[q].prev = 0
    BY <1>1 DEF Heads
  <2>. QED BY <1>1, <1>3, <2>1
<1>5. \A q : q \in Heads <=> q \in Live /\ disk[q].prev = 0
  BY DEF Heads
<1>6. CASE disk[from].prev # 0
  <2>1. \A q : q \in Heads' <=> q \in Heads
    BY <1>4, <1>5, <1>6
  <2>. QED BY <1>6, <2>1
<1>7. CASE disk[from].prev = 0
  <2>1. \A q : q \in Heads' <=> q \in (Heads \ {from}) \cup {to}
    BY <1>4, <1>5, <1>7
  <2>2. from \in Heads /\ to \notin Heads
    BY <1>1, <1>5, <1>7
  <2>. QED BY <1>7, <2>1, <2>2
<1>. QED BY <1>6, <1>7

\* The lists that page from was not on are as they were.
LEMMA OthersAfterMove ==
  ASSUME IInv, NEW from, NEW to, PageMoved(from, to),
         NEW g \in Heads, from \notin ToSet(PagesFrom(disk, g))
  PROVE  ContentIn(disk', g) = ContentIn(disk, g)
<1>1. /\ to \notin Live /\ disk' \in [Page -> Header]
      /\ disk[from].prev # 0 => disk[disk[from].prev].next = from
      /\ \A q \in Page \ {to} :
           /\ disk'[q].type = disk[q].type
           /\ disk'[q].chunks = disk[q].chunks
           /\ disk'[q].next = IF q = disk[from].prev THEN to ELSE disk[q].next
      /\ from \in Live
  BY DEF PageMoved
<1>2. Live \subseteq Page /\ \A q \in Page : q # 0
  BY LiveFacts DEF IInv
<1>3. ASSUME NEW q \in ToSet(PagesFrom(disk, g))
      PROVE  disk'[q].next = disk[q].next /\ disk'[q].chunks = disk[q].chunks
               /\ disk'[q].type = disk[q].type
  <2>1. q \in Live /\ (disk[q].next # 0 => disk[q].next \in ToSet(PagesFrom(disk, g)))
    BY OnList
  <2>2. q # to /\ q \in Page /\ q # 0
    BY <1>1, <1>2, <2>1
  <2>3. q # disk[from].prev
    <3>1. disk[q].next # from
      BY <1>1, <1>2, <2>1
    <3>. QED BY <1>1, <2>2, <3>1
  <2>. QED BY <1>1, <2>2, <2>3
<1>. QED BY <1>1, <1>3, Untouched

\* A relocation is invisible to who follows the lists.
LEMMA ShrinkMoveUnseen ==
  ASSUME IInv, ShrinkMove
  PROVE  ListBag' = ListBag
<1>0. PICK from, to : from = last /\ to = free_num
  OBVIOUS
<1>1. PageMoved(from, to) /\ IInv'
  BY <1>0, ShrinkMoves, ShrinkMoveStep
<1>2. PICK d, D : d = disk /\ D = disk'
  OBVIOUS
<1>3. /\ from \in Live /\ to \notin Live /\ to \in Page
      /\ D \in [Page -> Header] /\ D[to] = d[from]
      /\ \A q \in Page \ {to} :
           /\ D[q].type = d[q].type
           /\ D[q].chunks = d[q].chunks
           /\ D[q].next = IF q = d[from].prev THEN to ELSE d[q].next
  BY <1>1, <1>2 DEF PageMoved
<1>4. d \in [Page -> Header] /\ \A q \in Page : q # 0
  BY <1>2, HeadsFacts, LiveFacts DEF HeadsOK, IInv
<1>5. PICK a, n, s : /\ a \in Heads
                     /\ HeadList(a, n, s)
                     /\ \E j \in 1 .. n : s[j] = from
                     /\ \A g \in Heads \ {a} : from \notin ToSet(PagesFrom(disk, g))
  BY <1>3, PageFound
<1>6. PICK j \in 1 .. n : s[j] = from
  BY <1>5
<1>7. /\ Chained(d, a, n, s) /\ n \in 1 .. MaxPage
      /\ s \in [1 .. n -> Page] /\ s[1] = a
      /\ \A i, x \in 1 .. n : s[i] = s[x] => i = x
      /\ \A i \in 1 .. n : /\ s[i] \in Live
                           /\ d[s[i]].type = d[a].type
                           /\ i # 1 => d[s[i]].prev = s[i-1]
  BY <1>2, <1>5 DEF HeadList, Chained
<1>8. /\ j = 1 => from = a /\ d[from].prev = 0
      /\ j # 1 => j - 1 \in 1 .. n /\ d[from].prev = s[j - 1]
  <2>1. d[a].prev = 0
    BY <1>2, <1>5 DEF Heads
  <2>2. j # 1 => j - 1 \in 1 .. n
    BY <1>7
  <2>. QED BY <1>6, <1>7, <2>1, <2>2
<1>9. Renamed(d, n, s, j, to, D)
  <2> SUFFICES ASSUME NEW i \in 1 .. n
               PROVE  IF i = j THEN D[to].chunks = d[s[j]].chunks /\ D[to].next = d[s[j]].next
                      ELSE /\ D[s[i]].chunks = d[s[i]].chunks
                           /\ D[s[i]].next = IF i + 1 = j THEN to ELSE d[s[i]].next
    BY DEF Renamed
  <2>1. CASE i = j
    BY <1>3, <1>6, <2>1
  <2>2. CASE i # j
    <3>1. s[i] \in Page \ {to}
      BY <1>3, <1>7
    <3>2. s[i] = d[from].prev <=> i + 1 = j
      <4>1. CASE j = 1
        <5>1. i + 1 # j
          BY <4>1
        <5>. QED BY <1>4, <1>8, <3>1, <4>1, <5>1
      <4>2. CASE j # 1
        <5>1. s[i] = s[j - 1] <=> i = j - 1
          BY <1>7, <1>8, <4>2
        <5>2. i = j - 1 <=> i + 1 = j
          OBVIOUS
        <5>. QED BY <1>8, <4>2, <5>1, <5>2
      <4>. QED BY <4>1, <4>2
    <3>. QED BY <1>3, <2>2, <3>1, <3>2
  <2>. QED BY <2>1, <2>2
<1>10. PICK g : g = IF j = 1 THEN to ELSE a
  OBVIOUS
<1>11. D[g].type = d[a].type
  <2>1. CASE j = 1
    BY <1>3, <1>8, <1>10, <2>1
  <2>2. CASE j # 1
    <3>1. 1 \in 1 .. n
      BY <1>7
    <3>2. a \in Page \ {to}
      BY <1>3, <1>7, <3>1
    <3>. QED BY <1>3, <1>10, <2>2, <3>2
  <2>. QED BY <2>1, <2>2
<1>12. ContentIn(D, g) = ContentIn(d, a)
  <2>1. PICK v, b : v = j /\ b = a
    OBVIOUS
  <2>2. /\ Chained(d, b, n, s) /\ v \in 1 .. n /\ Renamed(d, n, s, v, to, D)
        /\ g = (IF v = 1 THEN to ELSE b) /\ D[g].type = d[b].type
    BY <1>7, <1>9, <1>10, <1>11, <2>1
  <2>3. ContentIn(D, g) = ContentIn(d, b)
    BY <1>3, <1>4, <2>2, RenamedList, SMTT(30)
  <2>. QED BY <2>1, <2>3
<1>13. Exchanged(ContentIn(disk, a), ContentIn(disk', g))
  <2>1. PICK R : R = Heads \ {a}
    OBVIOUS
  <2>2. Heads = R \cup {a} /\ a \notin R
    BY <1>5, <2>1
  <2>3. Heads' = R \cup {g} /\ g \notin R
    <3>1. CASE j = 1
      <4>1. from = a /\ disk[from].prev = 0 /\ g = to
        BY <1>2, <1>8, <1>10, <3>1
      <4>2. Heads' = (Heads \ {from}) \cup {to} /\ to \notin Heads
        BY <1>1, <4>1, HeadsAfterMove
      <4>. QED BY <2>1, <4>1, <4>2
    <3>2. CASE j # 1
      <4>1. g = a /\ disk[from].prev # 0
        <5>1. s[j - 1] \in Page
          BY <1>7, <1>8, <3>2
        <5>. QED BY <1>2, <1>4, <1>8, <1>10, <3>2, <5>1
      <4>2. Heads' = Heads
        BY <1>1, <4>1, HeadsAfterMove
      <4>. QED BY <2>2, <4>1, <4>2
    <3>. QED BY <3>1, <3>2
  <2>4. \A h \in R : ContentIn(disk', h) = ContentIn(disk, h)
    BY <1>1, <1>5, <2>1, OthersAfterMove
  <2>. QED BY <1>1, <2>2, <2>3, <2>4, OneListChanged
<1>. QED BY <1>2, <1>12, <1>13 DEF Exchanged

\* Steps that leave the pages of the lists as they are.
LEMMA NothingSeen ==
  ASSUME IInv, IInv', Live' = Live, \A q \in Live : disk'[q] = disk[q]
  PROVE  ListBag' = ListBag
<1>1. PICK C, D : C = Contents(disk) /\ D = Contents(disk')
  OBVIOUS
<1>2. Heads' = Heads
  BY DEF Heads
<1>3. Heads \in SUBSET Page /\ disk' \in [Page -> Header]
  BY HeadsFacts, NextSeen DEF HeadsOK
<1>4. \A g \in Heads : D[g] = C[g]
  <2> SUFFICES ASSUME NEW g \in Heads PROVE D[g] = C[g]
    OBVIOUS
  <2>1. \A q \in ToSet(PagesFrom(disk, g)) : disk'[q] = disk[q]
    BY OnList
  <2>2. ContentIn(disk', g) = ContentIn(disk, g)
    BY <1>3, <2>1, Untouched
  <2>. QED BY <1>1, <1>3, <2>2 DEF Contents
<1>5. ListBag = Gathered(C, Heads)
  BY <1>1, BagSeen DEF BagIs
<1>6. ListBag' = Gathered(D, Heads)
  BY <1>1, <1>2, NextSeen DEF BagIs
<1>7. SameOn(Heads, C, D)
  BY <1>4 DEF SameOn
<1>. QED BY <1>5, <1>6, <1>7, GatheredSame

\* Starting a query changes no list.
LEMMA ReopenUnseen ==
  ASSUME IInv, Reopen
  PROVE  ListBag' = ListBag
<1>1. disk' = disk /\ schema' = schema /\ pc' = pc /\ last' = last
  BY DEF Reopen, IInv, SavedAtRest
<1>2. Live' = Live
  BY <1>1 DEF Live, Bound
<1>. QED BY <1>1, <1>2, ReopenStep, NothingSeen

\* Nor does passing a free page,
LEMMA ShrinkPassFreeUnseen ==
  ASSUME IInv, ShrinkPassFree
  PROVE  ListBag' = ListBag
<1>1. /\ disk' = disk /\ pc = "shrink" /\ pc' = "shrink" /\ last' = last - 1
      /\ disk[last].type = "FREE"
  BY DEF ShrinkPassFree, InLoop
<1>2. last \in Int /\ Page \subseteq Int /\ "FREE" \notin Kind
  BY ConstantFacts DEF IInv, TypeOK, PageNum, Page
<1>3. Bound = last /\ Bound' = last - 1
  BY <1>1 DEF Bound
<1>4. \A q \in Page : q <= last - 1 <=> q <= last /\ q # last
  BY <1>2
<1>5. Live' = Live
  BY <1>1, <1>2, <1>3, <1>4 DEF Live
<1>. QED BY <1>1, <1>5, ShrinkPassFreeStep, NothingSeen

\* or a free page that lies behind the one to be moved,
LEMMA ShrinkNextFreeUnseen ==
  ASSUME IInv, ShrinkNextFree
  PROVE  ListBag' = ListBag
<1>1. disk' = disk /\ schema' = schema /\ pc' = pc /\ last' = last
  BY DEF ShrinkNextFree
<1>2. Live' = Live
  BY <1>1 DEF Live, Bound
<1>. QED BY <1>1, <1>2, ShrinkNextFreeStep, NothingSeen

\* or the truncation: what is cut off holds no records.
LEMMA ShrinkTruncateUnseen ==
  ASSUME IInv, ShrinkTruncate
  PROVE  ListBag' = ListBag
<1>1. /\ pc = "shrink" /\ pc' = "idle"
      /\ disk' = TruncatedDisk(disk, schema)
      /\ schema' = TruncatedSchema(schema)
      /\ ~ InLoop
  BY DEF ShrinkTruncate, InLoop
<1>2. Live = 1 .. CutAt(schema) /\ CutAt(schema) = last
  BY <1>1, CutFacts
<1>3. schema \in Schema /\ Live \subseteq Page
  BY LiveFacts DEF IInv, TypeOK
<1>4. schema'.last_page_num = last
  BY <1>1, <1>2, <1>3 DEF TruncatedSchema, Schema
<1>5. Bound = last /\ Bound' = last
  BY <1>1, <1>4 DEF Bound
<1>6. \A q \in Page : q <= last => disk'[q] = disk[q]
  BY <1>1, <1>2 DEF TruncatedDisk
<1>7. Live' = Live
  BY <1>5, <1>6 DEF Live
<1>8. \A q \in Live : disk'[q] = disk[q]
  BY <1>5, <1>6 DEF Live
<1>. QED BY <1>7, <1>8, ShrinkTruncateStep, NothingSeen

-----------------------------------------------------------------------------
(* The refinement.                                                         *)

\* The file that init_db creates has no lists.
LEMMA NoLists == Init => Abstract!Init
<1> SUFFICES ASSUME Init PROVE Abstract!Init
  OBVIOUS
<1>1. Heads = {}
  <2>1. \A p \in Page : ~ (p <= 0)
    BY ConstantFacts DEF Page
  <2>. QED BY <2>1 DEF Init, Heads, Live, Bound
<1>2. PICK C : C = Contents(disk)
  OBVIOUS
<1>3. ListBag = Gathered(C, {})
  BY <1>1, <1>2, InitIInv, BagSeen DEF BagIs
<1>4. {C[h] : h \in {}} = {}
  OBVIOUS
<1>5. ListBag = [l \in {} |-> Cardinality({h \in {} : C[h] = l})]
  BY <1>3, <1>4 DEF Gathered
<1>. QED BY <1>5 DEF Abstract!Init, Abstract!EmptyBag, Abstract!SetToBag

\* Every step of page.c is a step of the lists, or leaves them alone.
LEMMA StepSeen == IInv /\ [Next]_vars => [Abstract!Next]_ListBag
<1> SUFFICES ASSUME IInv, [Next]_vars PROVE Abstract!Next \/ ListBag' = ListBag
  OBVIOUS
<1>. USE DEF Abstract!Next
<1>1. CASE Reopen
  BY <1>1, ReopenUnseen
<1>2. ASSUME NEW k \in Kind, NEW c \in Chunk, NEW h \in HeadsFor(k),
             AddToHead(k, h, c) \/ AddInNewHead(k, h, c)
      PROVE  Abstract!Next
  <2>1. CASE AddToHead(k, h, c)
    BY <2>1, AddToHeadSeen
  <2>2. CASE AddInNewHead(k, h, c)
    BY <2>2, AddInNewHeadSeen
  <2>. QED BY <1>2, <2>1, <2>2
<1>3. ASSUME NEW p \in Live, NEW i \in DOMAIN disk[p].chunks, NEW c \in Chunk,
             Replace(p, i, c)
      PROVE  Abstract!Next
  BY <1>3, ReplaceSeen
<1>4. ASSUME NEW p \in Live, NEW i \in DOMAIN disk[p].chunks, DeleteOne(p, i)
      PROVE  Abstract!Next
  BY <1>4, DeleteOneSeen
<1>5. ASSUME NEW p \in Live, DeleteLast(p)
      PROVE  Abstract!Next
  BY <1>5, DeleteLastSeen
<1>6. CASE ShrinkPassFree
  BY <1>6, ShrinkPassFreeUnseen
<1>7. CASE ShrinkNextFree
  BY <1>7, ShrinkNextFreeUnseen
<1>8. CASE ShrinkMove
  BY <1>8, ShrinkMoveUnseen
<1>9. CASE ShrinkTruncate
  BY <1>9, ShrinkTruncateUnseen
<1>10. CASE UNCHANGED vars
  <2>1. IInv'
    BY NextIInv
  <2>2. disk' = disk /\ Live' = Live
    BY <1>10 DEF vars, Live, Bound
  <2>. QED BY <2>1, <2>2, NothingSeen
<1>. HIDE DEF Abstract!Next
<1>. QED BY <1>1, <1>2, <1>3, <1>4, <1>5, <1>6, <1>7, <1>8, <1>9, <1>10 DEF Next, Shrink

\* The page store implements RecordLists: whatever pages are allocated, freed,
\* reused, moved or cut off, who follows the lists finds every record that was
\* added and not deleted, in its list and once, and finds nothing else.
THEOREM ListsRefined == Spec => RefinesRecordLists
<1>1. Init => Abstract!Init
  BY NoLists
<1>2. IInv /\ [Next]_vars => [Abstract!Next]_ListBag
  BY StepSeen
<1>3. Spec => []IInv
  BY Invariance
<1>. QED BY <1>1, <1>2, <1>3, PTL DEF Spec, RefinesRecordLists, Abstract!Spec

-----------------------------------------------------------------------------
(* shrink in steps and as one operator.                                    *)

\* Where the loop is.
AtLoop == [disk |-> disk, schema |-> schema, free_num |-> free_num]

\* What the end of shrink makes of it.
Ended(at) == [disk |-> TruncatedDisk(at.disk, at.schema),
              schema |-> TruncatedSchema(at.schema)]

\* The outcome is the end of the rounds that remain.
LEMMA OutcomeIs ==
  /\ Outcome = Ended(Relocations(last, AtLoop))
  /\ Outcome' = Ended(Relocations(last', AtLoop'))
BY DEF Outcome, ShrunkFrom, Relocations, AtLoop, Ended

\* Inside shrink the state is one of the loop.
LEMMA AtLoopFacts ==
  ASSUME IInv
  PROVE  /\ AtLoop \in Loop /\ last \in 0 .. MaxPage
         /\ AtLoop.disk = disk /\ AtLoop.schema = schema /\ AtLoop.free_num = free_num
BY DEF IInv, TypeOK, Loop, AtLoop, PageNum

\* Following the free list from free_num gives the chain of the invariant.
LEMMA ChainFollowed ==
  ASSUME IInv, pc = "shrink", NEW n \in Nat, NEW s \in [1 .. n -> Page], Chain(n, s)
  PROVE  FreeLeft(AtLoop) = s
<1>1. \A i, j \in 1 .. n : s[i] = s[j] => i = j
  BY DEF Chain
<1>2. n <= MaxPage
  BY <1>1, PagesBounded
<1>3. PICK d, h : d = disk /\ h = free_num
  OBVIOUS
<1>4. /\ \A i \in 1 .. n : d[s[i]].next = IF i = n THEN 0 ELSE s[i+1]
      /\ h = IF n = 0 THEN 0 ELSE s[1]
      /\ n \in 0 .. MaxPage
  BY <1>2, <1>3, ConstantFacts DEF Chain, ChainHead
<1>5. PagesFrom(d, h) = s
  BY <1>4, PagesFromChain, SMTT(30)
<1>. QED BY <1>3, <1>5, AtLoopFacts DEF FreeLeft

\* Passing a free page is a round that changes nothing.
LEMMA PassFreeAgrees == IInv /\ ShrinkPassFree => Outcome' = Outcome
<1> SUFFICES ASSUME IInv, ShrinkPassFree PROVE Outcome' = Outcome
  OBVIOUS
<1>1. /\ last > 0 /\ disk[last].type = "FREE" /\ last' = last - 1
      /\ AtLoop' = AtLoop
  BY DEF ShrinkPassFree, InLoop, AtLoop
<1>2. last \in 1 .. MaxPage
  BY <1>1, AtLoopFacts
<1>3. Relocated(AtLoop, last) = AtLoop
  BY <1>1, RelocatedIs, AtLoopFacts
<1>4. Relocations(last, AtLoop) = Relocations(last - 1, Relocated(AtLoop, last))
  BY <1>2, FirstRound, AtLoopFacts
<1>. QED BY <1>1, <1>3, <1>4, OutcomeIs

\* Moving a page into the next free one is a round.
LEMMA MoveAgrees == IInv /\ ShrinkMove => Outcome' = Outcome
<1> SUFFICES ASSUME IInv, ShrinkMove PROVE Outcome' = Outcome
  OBVIOUS
<1>1. /\ pc = "shrink" /\ last > 0 /\ free_num # 0
      /\ disk[last].type # "FREE" /\ free_num <= last /\ last' = last - 1
      /\ AtLoop' = [disk |-> MovedDisk(disk, last, free_num),
                    schema |-> MovedSchema(disk, schema, last, free_num),
                    free_num |-> disk[free_num].next]
  BY DEF ShrinkMove, InLoop, AtLoop
<1>2. last \in 1 .. MaxPage
  BY <1>1, AtLoopFacts
<1>3. PICK n \in Nat : \E s \in [1 .. n -> Page] : Chain(n, s)
  BY DEF IInv, FreeChain
<1>4. PICK s \in [1 .. n -> Page] : Chain(n, s)
  BY <1>3
<1>5. n # 0 /\ s[1] = free_num /\ FreeLeft(AtLoop) = s /\ Len(s) = n
  <2>1. FreeLeft(AtLoop) = s
    BY <1>1, <1>4, ChainFollowed
  <2>2. n # 0 /\ s[1] = free_num
    BY <1>1, <1>4 DEF Chain, ChainHead
  <2>. QED BY <2>1, <2>2
<1>6. FirstUpTo(s, last) = 1
  <2>1. 1 \in UpTo(s, last)
    BY <1>1, <1>5 DEF UpTo
  <2>2. FirstUpTo(s, last) \in UpTo(s, last) /\ FirstUpTo(s, last) <= 1
    BY <1>5, <2>1, FirstUpToFacts
  <2>. QED BY <1>5, <2>2 DEF UpTo
<1>7. Target(AtLoop, last) = free_num
  BY <1>5, <1>6 DEF Target
<1>8. Relocated(AtLoop, last) = AtLoop'
  BY <1>1, <1>5, <1>6, <1>7, RelocatedIs, AtLoopFacts
<1>9. Relocations(last, AtLoop) = Relocations(last - 1, Relocated(AtLoop, last))
  BY <1>2, FirstRound, AtLoopFacts
<1>. QED BY <1>1, <1>8, <1>9, OutcomeIs

\* Skipping a free page above `last` leaves the round that is due the same.
LEMMA NextFreeAgrees == IInv /\ ShrinkNextFree => Outcome' = Outcome
<1> SUFFICES ASSUME IInv, ShrinkNextFree PROVE Outcome' = Outcome
  OBVIOUS
<1>1. /\ pc = "shrink" /\ pc' = "shrink" /\ last > 0 /\ free_num # 0
      /\ disk[last].type # "FREE" /\ free_num > last /\ last' = last
      /\ free_num' = disk[free_num].next
      /\ disk' = disk /\ schema' = schema
  BY DEF ShrinkNextFree, InLoop
<1>2. IInv'
  BY ShrinkNextFreeStep
<1>3. last \in 1 .. MaxPage /\ AtLoop \in Loop /\ AtLoop' \in Loop
      /\ AtLoop' = [AtLoop EXCEPT !.free_num = free_num']
  <2>1. AtLoop' \in Loop
    BY <1>1, <1>2 DEF IInv, TypeOK, Loop, AtLoop
  <2>. QED BY <1>1, <2>1, AtLoopFacts DEF AtLoop
<1>4. PICK n \in Nat : \E s \in [1 .. n -> Page] : Chain(n, s)
  BY DEF IInv, FreeChain
<1>5. PICK s \in [1 .. n -> Page] : Chain(n, s)
  BY <1>4
<1>6. n # 0 /\ s[1] = free_num /\ FreeLeft(AtLoop) = s /\ Len(s) = n
  <2>1. FreeLeft(AtLoop) = s
    BY <1>1, <1>5, ChainFollowed
  <2>2. n # 0 /\ s[1] = free_num
    BY <1>1, <1>5 DEF Chain, ChainHead
  <2>. QED BY <2>1, <2>2
<1>. DEFINE t == [i \in 1 .. n - 1 |-> s[i+1]]
<1>7. n - 1 \in Nat /\ t \in [1 .. n - 1 -> Page] /\ Len(t) = n - 1
      /\ \A i \in 1 .. n - 1 : t[i] = s[i+1]
  BY <1>6
<1>8. FreeLeft(AtLoop') = t
  <2>. HIDE DEF t
  <2>1. n - 1 \in 0 .. MaxPage
    <3>1. \A i, j \in 1 .. n : s[i] = s[j] => i = j
      BY <1>5 DEF Chain
    <3>2. n <= MaxPage
      BY <3>1, PagesBounded
    <3>. QED BY <1>6, <3>2, ConstantFacts
  <2>2. PICK d, h : d = disk /\ h = disk[free_num].next
    OBVIOUS
  <2>3. \A i \in 1 .. n : d[s[i]].next = IF i = n THEN 0 ELSE s[i+1]
    BY <1>5, <2>2 DEF Chain
  <2>4. \A i \in 1 .. n - 1 : d[t[i]].next = IF i = n - 1 THEN 0 ELSE t[i+1]
    <3> SUFFICES ASSUME NEW i \in 1 .. n - 1
                 PROVE  d[t[i]].next = IF i = n - 1 THEN 0 ELSE t[i+1]
      OBVIOUS
    <3>1. i + 1 \in 1 .. n /\ t[i] = s[i+1]
      BY <1>7
    <3>2. d[s[i+1]].next = IF i + 1 = n THEN 0 ELSE s[(i+1)+1]
      BY <2>3, <3>1
    <3>3. i # n - 1 => i + 1 \in 1 .. n - 1 /\ t[i+1] = s[(i+1)+1]
      BY <1>7
    <3>. QED BY <3>1, <3>2, <3>3
  <2>5. h = IF n - 1 = 0 THEN 0 ELSE t[1]
    <3>1. d[s[1]].next = IF 1 = n THEN 0 ELSE s[2]
      BY <1>6, <2>3
    <3>2. n # 1 => t[1] = s[2]
      BY <1>6, <1>7
    <3>. QED BY <1>6, <2>2, <3>1, <3>2
  <2>6. PagesFrom(d, h) = t
    <3>1. PICK m, u : m = n - 1 /\ u = t
      OBVIOUS
    <3>2. /\ m \in 0 .. MaxPage /\ u \in [1 .. m -> Page]
          /\ \A i \in 1 .. m : d[u[i]].next = IF i = m THEN 0 ELSE u[i+1]
          /\ h = IF m = 0 THEN 0 ELSE u[1]
      BY <1>7, <2>1, <2>4, <2>5, <3>1
    <3>3. PagesFrom(d, h) = u
      BY <3>2, PagesFromChain, SMTT(30)
    <3>. QED BY <3>1, <3>3
  <2>7. AtLoop'.disk = disk /\ AtLoop'.free_num = disk[free_num].next
    BY <1>1 DEF AtLoop
  <2>. QED BY <2>2, <2>6, <2>7 DEF FreeLeft
<1>. HIDE DEF t
<1>9. \/ FirstUpTo(s, last) = 0 /\ FirstUpTo(t, last) = 0
      \/ /\ FirstUpTo(s, last) # 0 /\ FirstUpTo(t, last) # 0
         /\ t[FirstUpTo(t, last)] = s[FirstUpTo(s, last)]
  <2>1. \A i \in 1 .. n : i \in UpTo(s, last) <=> i # 1 /\ i - 1 \in UpTo(t, last)
    <3> SUFFICES ASSUME NEW i \in 1 .. n
                 PROVE  i \in UpTo(s, last) <=> i # 1 /\ i - 1 \in UpTo(t, last)
      OBVIOUS
    <3>1. CASE i = 1
      <4>1. ~ (s[1] <= last)
        BY <1>1, <1>3, <1>6, ConstantFacts, AtLoopFacts DEF Loop, PageNum
      <4>. QED BY <3>1, <4>1 DEF UpTo
    <3>2. CASE i # 1
      <4>1. i - 1 \in 1 .. n - 1 /\ t[i - 1] = s[i]
        BY <1>7, <3>2
      <4>. QED BY <1>6, <1>7, <3>2, <4>1 DEF UpTo
    <3>. QED BY <3>1, <3>2
  <2>2. UpTo(s, last) \subseteq 1 .. n /\ UpTo(t, last) \subseteq 1 .. n - 1
    BY <1>6, <1>7 DEF UpTo
  <2>3. CASE UpTo(t, last) = {}
    <3>1. UpTo(s, last) = {}
      BY <2>1, <2>2, <2>3
    <3>. QED BY <1>6, <1>7, <2>3, <3>1, FirstUpToFacts
  <2>4. CASE UpTo(t, last) # {}
    <3>1. PICK j \in UpTo(t, last) : j = FirstUpTo(t, last) /\ \A i \in UpTo(t, last) : j <= i
      BY <1>7, <2>4, FirstUpToFacts
    <3>2. j \in 1 .. n - 1 /\ j + 1 \in 1 .. n /\ j + 1 # 1 /\ (j + 1) - 1 = j
      BY <1>7, <2>2, <3>1
    <3>3. j + 1 \in UpTo(s, last)
      BY <2>1, <3>1, <3>2
    <3>4. PICK k \in UpTo(s, last) : k = FirstUpTo(s, last) /\ \A i \in UpTo(s, last) : k <= i
      BY <1>6, <3>3, FirstUpToFacts
    <3>5. k <= j + 1 /\ j <= k - 1 /\ k \in 1 .. n
      BY <2>1, <2>2, <3>1, <3>3, <3>4
    <3>6. k = j + 1
      BY <3>2, <3>5
    <3>. QED BY <1>7, <3>1, <3>2, <3>4, <3>6
  <2>. QED BY <2>3, <2>4
<1>10. Relocated(AtLoop, last) = Relocated(AtLoop', last)
  <2>1. AtLoop'.disk = disk /\ AtLoop'.schema = schema
        /\ AtLoop.disk = disk /\ AtLoop.schema = schema
        /\ [AtLoop EXCEPT !.free_num = 0] = [AtLoop' EXCEPT !.free_num = 0]
    BY <1>1 DEF AtLoop
  <2>2. CASE FirstUpTo(s, last) = 0
    <3>1. FirstUpTo(t, last) = 0
      BY <1>9, <2>2
    <3>2. Relocated(AtLoop, last) = [AtLoop EXCEPT !.free_num = 0]
      BY <1>1, <1>6, <2>1, <2>2, RelocatedIs
    <3>3. Relocated(AtLoop', last) = [AtLoop' EXCEPT !.free_num = 0]
      BY <1>1, <1>8, <2>1, <3>1, RelocatedIs
    <3>. QED BY <2>1, <3>2, <3>3
  <2>3. CASE FirstUpTo(s, last) # 0
    <3>1. FirstUpTo(t, last) # 0 /\ t[FirstUpTo(t, last)] = s[FirstUpTo(s, last)]
      BY <1>9, <2>3
    <3>2. PICK to : to = s[FirstUpTo(s, last)]
      OBVIOUS
    <3>3. Target(AtLoop, last) = to /\ Target(AtLoop', last) = to
      BY <1>6, <1>8, <3>1, <3>2 DEF Target
    <3>4. Relocated(AtLoop, last) = [disk |-> MovedDisk(disk, last, to),
                                     schema |-> MovedSchema(disk, schema, last, to),
                                     free_num |-> disk[to].next]
      BY <1>1, <1>6, <2>1, <2>3, <3>3, RelocatedIs
    <3>5. Relocated(AtLoop', last) = [disk |-> MovedDisk(disk, last, to),
                                      schema |-> MovedSchema(disk, schema, last, to),
                                      free_num |-> disk[to].next]
      BY <1>1, <1>8, <2>1, <3>1, <3>3, RelocatedIs
    <3>. QED BY <3>4, <3>5
  <2>. QED BY <2>2, <2>3
<1>11. /\ Relocations(last, AtLoop) = Relocations(last - 1, Relocated(AtLoop, last))
       /\ Relocations(last, AtLoop') = Relocations(last - 1, Relocated(AtLoop', last))
  BY <1>3, FirstRound
<1>. QED BY <1>1, <1>10, <1>11, OutcomeIs

\* The truncation is the end: no round that remains changes anything.
LEMMA TruncateAgrees ==
  IInv /\ ShrinkTruncate => Outcome = [disk |-> disk', schema |-> schema']
<1> SUFFICES ASSUME IInv, ShrinkTruncate
             PROVE  Outcome = [disk |-> disk', schema |-> schema']
  OBVIOUS
<1>1. /\ last = 0 \/ free_num = 0
      /\ disk' = TruncatedDisk(disk, schema) /\ schema' = TruncatedSchema(schema)
  BY DEF ShrinkTruncate
<1>2. Relocations(last, AtLoop) = AtLoop
  <2>1. CASE last = 0
    <3>1. PICK t : Trace(last, AtLoop, t) /\ Relocations(last, AtLoop) = t[last]
      BY RelocationsTraced, AtLoopFacts
    <3>. QED BY <2>1, <3>1 DEF Trace
  <2>2. CASE free_num = 0
    BY <2>2, NothingMoves, AtLoopFacts
  <2>. QED BY <1>1, <2>1, <2>2
<1>. QED BY <1>1, <1>2, OutcomeIs, AtLoopFacts DEF Ended

\* The steps of shrink end in what Shrunk computes, whatever file they start
\* from: the models that take the whole function as one step of a deletion are
\* right to do so.
THEOREM ShrinkCorrect == Spec => ShrinkAgrees
<1>1. ASSUME IInv, [Next]_vars, pc = "shrink"
      PROVE  IF pc' = "shrink" THEN Outcome' = Outcome
             ELSE Outcome = [disk |-> disk', schema |-> schema']
  <2>1. CASE ShrinkPassFree
    BY <1>1, <2>1, PassFreeAgrees DEF ShrinkPassFree, InLoop
  <2>2. CASE ShrinkNextFree
    BY <1>1, <2>2, NextFreeAgrees DEF ShrinkNextFree, InLoop
  <2>3. CASE ShrinkMove
    BY <1>1, <2>3, MoveAgrees DEF ShrinkMove, InLoop
  <2>4. CASE ShrinkTruncate
    <3>1. pc' = "idle"
      BY <2>4 DEF ShrinkTruncate
    <3>. QED BY <1>1, <2>4, <3>1, TruncateAgrees
  <2>5. CASE UNCHANGED vars
    <3>1. AtLoop' = AtLoop /\ last' = last /\ pc' = pc
      BY <2>5 DEF vars, AtLoop
    <3>. QED BY <1>1, <3>1, OutcomeIs
  <2>6. ~ Shrink => UNCHANGED vars
    BY <1>1 DEF Next, Reopen, AddToHead, AddInNewHead, Replace, DeleteOne, DeleteLast
  <2>. QED BY <1>1, <2>1, <2>2, <2>3, <2>4, <2>5, <2>6 DEF Shrink
<1>2. IInv /\ [Next]_vars =>
        (pc = "shrink" => IF pc' = "shrink" THEN Outcome' = Outcome
                          ELSE Outcome = [disk |-> disk', schema |-> schema'])
  BY <1>1
<1>3. Spec => []IInv
  BY Invariance
<1>. QED BY <1>2, <1>3, PTL DEF Spec, ShrinkAgrees
=============================================================================
