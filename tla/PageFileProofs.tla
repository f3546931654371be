--------------------------- MODULE PageFileProofs ---------------------------
(***************************************************************************)
(* What the calls of page.c do to a file, page by page: facts about the    *)
(* operators of PageFile, for the proofs about the modules built on it.    *)
(***************************************************************************)
EXTENDS PageFile, FiniteSetTheorems, SequenceTheorems, WellFoundedInduction, TLAPS

\* The assumptions on the constants as the provers need them.
LEMMA ConstantFacts ==
  /\ MaxPage \in Nat \ {0}
  /\ Capacity \in Nat /\ LenSize \in Nat
  /\ \A c \in Chunk : Size[c] \in Nat
  /\ "FREE" \notin Kind /\ "NONE" \notin Kind
<1>1. Capacity \in Nat /\ LenSize \in Nat
  BY DEF Capacity, PAGE_SIZE, HeaderSize, LenSize
<1>2. \A c \in Chunk : Size[c] \in Nat
  BY SizeAssumption
<1>3. "FREE" \notin Kind /\ "NONE" \notin Kind
  BY KindAssumption
<1>. QED BY <1>1, <1>2, <1>3, PageAssumption

\* Writing a header's next_page changes that link of that page and nothing else;
\* page number 0 stands for no page.
LEMMA SetNextFacts ==
  ASSUME NEW d \in [Page -> Header], NEW p \in PageNum, NEW v \in PageNum
  PROVE  /\ SetNext(d, p, v) \in [Page -> Header]
         /\ \A q \in Page :
              /\ SetNext(d, p, v)[q].type = d[q].type
              /\ SetNext(d, p, v)[q].prev = d[q].prev
              /\ SetNext(d, p, v)[q].chunks = d[q].chunks
              /\ SetNext(d, p, v)[q].free_space = d[q].free_space
              /\ SetNext(d, p, v)[q].next = IF q = p THEN v ELSE d[q].next
<1>1. CASE p = 0
  BY <1>1, ConstantFacts DEF SetNext, Page, PageNum
<1>2. CASE p # 0
  <2>1. p \in Page
    BY <1>2, ConstantFacts DEF Page, PageNum
  <2>2. SetNext(d, p, v) = [d EXCEPT ![p] = [d[p] EXCEPT !.next = v]]
    BY <1>2 DEF SetNext
  <2>3. [d[p] EXCEPT !.next = v] \in Header
    BY <2>1 DEF Header
  <2>. QED BY <2>1, <2>2, <2>3 DEF Header
<1>. QED BY <1>1, <1>2

\* The same for prev_page.
LEMMA SetPrevFacts ==
  ASSUME NEW d \in [Page -> Header], NEW p \in PageNum, NEW v \in PageNum
  PROVE  /\ SetPrev(d, p, v) \in [Page -> Header]
         /\ \A q \in Page :
              /\ SetPrev(d, p, v)[q].type = d[q].type
              /\ SetPrev(d, p, v)[q].next = d[q].next
              /\ SetPrev(d, p, v)[q].chunks = d[q].chunks
              /\ SetPrev(d, p, v)[q].free_space = d[q].free_space
              /\ SetPrev(d, p, v)[q].prev = IF q = p THEN v ELSE d[q].prev
<1>1. CASE p = 0
  BY <1>1, ConstantFacts DEF SetPrev, Page, PageNum
<1>2. CASE p # 0
  <2>1. p \in Page
    BY <1>2, ConstantFacts DEF Page, PageNum
  <2>2. SetPrev(d, p, v) = [d EXCEPT ![p] = [d[p] EXCEPT !.prev = v]]
    BY <1>2 DEF SetPrev
  <2>3. [d[p] EXCEPT !.prev = v] \in Header
    BY <2>1 DEF Header
  <2>. QED BY <2>1, <2>2, <2>3 DEF Header
<1>. QED BY <1>1, <1>2

\* What alloc_header and free_page build is the header of an empty free page.
LEMMA FreeHeaderFacts ==
  ASSUME NEW v \in PageNum
  PROVE  /\ FreeHeader(v) \in Header
         /\ FreeHeader(v).type = "FREE" /\ FreeHeader(v).next = v
         /\ FreeHeader(v).prev = 0
<1>1. 0 \in PageNum /\ "FREE" \in PageType /\ <<>> \in Seq(Chunk)
  BY ConstantFacts DEF PageNum, PageType
<1>. QED BY <1>1, ConstantFacts DEF FreeHeader, Header

\* What a page of the file gets from `add_chunk`, from an in-place replacement
\* and from `delete_chunk`: a header of the right type, its links untouched.
LEMMA WithChunkFacts ==
  ASSUME NEW page \in Header, NEW c \in Chunk, Fits(page, c)
  PROVE  /\ WithChunk(page, c) \in Header
         /\ WithChunk(page, c).type = page.type
         /\ WithChunk(page, c).next = page.next
         /\ WithChunk(page, c).prev = page.prev
<1>1. page.free_space - (Size[c] + LenSize) \in Nat
  BY ConstantFacts DEF Header, Fits
<1>2. Append(page.chunks, c) \in Seq(Chunk)
  BY DEF Header
<1>. QED BY <1>1, <1>2 DEF WithChunk, Header

\* An in-place replacement that fits leaves a well-formed page with the same links.
LEMMA WithReplacedFacts ==
  ASSUME NEW page \in Header, NEW c \in Chunk, NEW i \in DOMAIN page.chunks,
         ReplacementFits(page, i, c)
  PROVE  /\ WithReplaced(page, i, c) \in Header
         /\ WithReplaced(page, i, c).type = page.type
         /\ WithReplaced(page, i, c).next = page.next
         /\ WithReplaced(page, i, c).prev = page.prev
<1>1. page.chunks \in Seq(Chunk)
  BY DEF Header
<1>2. i \in 1 .. Len(page.chunks) /\ page.chunks[i] \in Chunk
  BY <1>1, LenProperties, ElementOfSeq
<1>3. page.free_space + Size[page.chunks[i]] - Size[c] \in Nat
  BY <1>2, ConstantFacts DEF Header, ReplacementFits
<1>4. [page.chunks EXCEPT ![i] = c] \in Seq(Chunk)
  BY <1>1, <1>2, ExceptSeq
<1>. QED BY <1>3, <1>4 DEF WithReplaced, Header

\* Sequence s without its i-th element.
LEMMA RemoveAtFacts ==
  ASSUME NEW S, NEW s \in Seq(S), NEW i \in 1 .. Len(s)
  PROVE  /\ RemoveAt(s, i) \in Seq(S)
         /\ Len(RemoveAt(s, i)) = Len(s) - 1
         /\ \A j \in 1 .. Len(s) - 1 :
              RemoveAt(s, i)[j] = IF j < i THEN s[j] ELSE s[j + 1]
<1>1. PICK n : n = Len(s)
  OBVIOUS
<1>2. n \in Nat /\ i \in 1 .. n /\ \A j \in 1 .. n : s[j] \in S
  BY <1>1, LenProperties, ElementOfSeq
<1>. DEFINE a == SubSeq(s, 1, i - 1)
            b == SubSeq(s, i + 1, n)
<1>3. /\ a \in Seq(S) /\ Len(a) = i - 1
      /\ \A j \in 1 .. i - 1 : a[j] = s[j]
  <2>1. i - 1 \in 0 .. n
    BY <1>2
  <2>2. \A j \in 1 .. i - 1 : s[j] \in S
    BY <1>2
  <2>. QED BY <1>2, <2>1, <2>2, SubSeqProperties
<1>4. /\ b \in Seq(S) /\ Len(b) = n - i
      /\ \A j \in 1 .. n - i : b[j] = s[i + j]
  <2>1. \A j \in i + 1 .. n : s[j] \in S
    BY <1>2
  <2>2. /\ b \in Seq(S)
        /\ Len(b) = IF i + 1 <= n THEN n - (i + 1) + 1 ELSE 0
        /\ \A j \in 1 .. n - (i + 1) + 1 : b[j] = s[(i + 1) + j - 1]
    BY <1>2, <2>1, SubSeqProperties
  <2>. QED BY <1>2, <2>2
<1>5. RemoveAt(s, i) = a \o b
  BY <1>1 DEF RemoveAt
<1>. HIDE DEF a, b
<1>6. /\ a \o b \in Seq(S) /\ Len(a \o b) = (i - 1) + (n - i)
      /\ \A j \in 1 .. (i - 1) + (n - i) :
           (a \o b)[j] = IF j <= i - 1 THEN a[j] ELSE b[j - (i - 1)]
  <2>1. PICK x, y : x = i - 1 /\ y = n - i
    OBVIOUS
  <2>2. /\ a \in Seq(S) /\ b \in Seq(S) /\ Len(a) = x /\ Len(b) = y
    BY <2>1, <1>3, <1>4
  <2>3. /\ a \o b \in Seq(S) /\ Len(a \o b) = x + y
        /\ \A j \in 1 .. x + y : (a \o b)[j] = IF j <= x THEN a[j] ELSE b[j - x]
    BY <2>2, ConcatProperties
  <2>. QED BY <2>1, <2>3
<1>7. (i - 1) + (n - i) = n - 1
  BY <1>2
<1>8. ASSUME NEW j \in 1 .. n - 1
      PROVE  (a \o b)[j] = IF j < i THEN s[j] ELSE s[j + 1]
  <2>1. CASE j < i
    <3>1. j \in 1 .. i - 1 /\ j <= i - 1
      BY <2>1, <1>2
    <3>. QED BY <2>1, <3>1, <1>3, <1>6, <1>7
  <2>2. CASE ~ (j < i)
    <3>1. ~ (j <= i - 1) /\ j - (i - 1) \in 1 .. n - i /\ i + (j - (i - 1)) = j + 1
      BY <2>2, <1>2
    <3>. QED BY <2>2, <3>1, <1>4, <1>6, <1>7
  <2>. QED BY <2>1, <2>2
<1>. QED BY <1>1, <1>5, <1>6, <1>7, <1>8

\* delete_chunk leaves a well-formed page with the same links.
LEMMA WithoutChunkFacts ==
  ASSUME NEW page \in Header, NEW i \in DOMAIN page.chunks
  PROVE  /\ WithoutChunk(page, i) \in Header
         /\ WithoutChunk(page, i).type = page.type
         /\ WithoutChunk(page, i).next = page.next
         /\ WithoutChunk(page, i).prev = page.prev
<1>1. page.chunks \in Seq(Chunk)
  BY DEF Header
<1>2. i \in 1 .. Len(page.chunks) /\ page.chunks[i] \in Chunk
  BY <1>1, LenProperties, ElementOfSeq
<1>3. page.free_space + Size[page.chunks[i]] + LenSize \in Nat
  BY <1>2, ConstantFacts DEF Header
<1>4. RemoveAt(page.chunks, i) \in Seq(Chunk)
  BY <1>1, <1>2, RemoveAtFacts
<1>. QED BY <1>3, <1>4 DEF WithoutChunk, Header

-----------------------------------------------------------------------------
(* What the records of a page leave of it.                                 *)

\* t[i]: the bytes that the first i records of the page take up.
Sums(page, t) ==
  /\ t[0] = 0
  /\ \A i \in 1 .. Len(page.chunks) :
       t[i] = t[i - 1] + Size[page.chunks[i]] + LenSize

\* free_space is what the records leave.
Accounted(page) ==
  \E t \in [0 .. Len(page.chunks) -> Int] :
    Sums(page, t) /\ page.free_space = Capacity - t[Len(page.chunks)]

\* Only a page's records and its free_space matter.
LEMMA SameAccounted ==
  ASSUME NEW page, NEW new, Accounted(page),
         new.chunks = page.chunks, new.free_space = page.free_space
  PROVE  Accounted(new)
<1>. QED BY DEF Accounted, Sums

\* alloc_header builds such a page, without records.
Blank(page) == page.free_space = Capacity /\ page.chunks = <<>>

LEMMA BlankAccounted ==
  ASSUME NEW page, Blank(page)
  PROVE  Accounted(page)
<1>. DEFINE t == [i \in 0 .. 0 |-> 0]
<1>1. Len(page.chunks) = 0 /\ page.free_space = Capacity - 0
  BY ConstantFacts DEF Blank
<1>2. t \in [0 .. 0 -> Int] /\ t[0] = 0
  OBVIOUS
<1>. HIDE DEF t
<1>3. Sums(page, t)
  BY <1>1, <1>2 DEF Sums
<1>. QED BY <1>1, <1>2, <1>3 DEF Accounted

\* add_chunk takes what the record needs off the free space.
LEMMA WithChunkAccounted ==
  ASSUME NEW page \in Header, NEW c \in Chunk, Accounted(page)
  PROVE  Accounted(WithChunk(page, c)) /\ WithChunk(page, c).chunks # <<>>
<1>1. PICK n, new : n = Len(page.chunks) /\ new = WithChunk(page, c)
  OBVIOUS
<1>2. PICK t \in [0 .. n -> Int] : Sums(page, t) /\ page.free_space = Capacity - t[n]
  BY <1>1 DEF Accounted
<1>3. /\ n \in Nat /\ page.chunks \in Seq(Chunk)
      /\ Size[c] \in Int /\ LenSize \in Int /\ Capacity \in Int
  BY <1>1, ConstantFacts DEF Header
<1>4. /\ new.chunks = Append(page.chunks, c)
      /\ new.free_space = page.free_space - (Size[c] + LenSize)
  BY <1>1 DEF WithChunk, Header
<1>5. /\ Len(new.chunks) = n + 1 /\ new.chunks[n + 1] = c
      /\ \A i \in 1 .. n : new.chunks[i] = page.chunks[i]
  BY <1>1, <1>3, <1>4, AppendProperties
<1>. DEFINE u == [i \in 0 .. n + 1 |-> IF i = n + 1 THEN t[n] + Size[c] + LenSize ELSE t[i]]
<1>6. /\ u \in [0 .. n + 1 -> Int]
      /\ u[n + 1] = t[n] + Size[c] + LenSize
      /\ \A i \in 0 .. n : u[i] = t[i]
  BY <1>3
<1>. HIDE DEF u
<1>7. Sums(new, u)
  <2>1. u[0] = 0
    <3>1. t[0] = 0
      BY <1>2 DEF Sums
    <3>2. 0 \in 0 .. n
      BY <1>3
    <3>. QED BY <1>6, <3>1, <3>2
  <2>2. ASSUME NEW i \in 1 .. n + 1
        PROVE  u[i] = u[i - 1] + Size[new.chunks[i]] + LenSize
    <3>1. CASE i = n + 1
      <4>1. i - 1 = n /\ n \in 0 .. n
        BY <3>1, <1>3
      <4>. QED BY <3>1, <4>1, <1>5, <1>6
    <3>2. CASE i # n + 1
      <4>1. i \in 1 .. n /\ i \in 0 .. n /\ i - 1 \in 0 .. n
        BY <3>2, <1>3
      <4>2. t[i] = t[i - 1] + Size[page.chunks[i]] + LenSize
        BY <4>1, <1>1, <1>2 DEF Sums
      <4>. QED BY <4>1, <4>2, <1>5, <1>6
    <3>. QED BY <3>1, <3>2
  <2>. QED BY <2>1, <2>2, <1>5 DEF Sums
<1>8. new.free_space = Capacity - u[n + 1]
  <2>1. t[n] \in Int
    BY <1>3
  <2>. QED BY <2>1, <1>2, <1>3, <1>4, <1>6, SMTT(30)
<1>9. new.chunks # <<>>
  BY <1>3, <1>5
<1>. QED BY <1>1, <1>5, <1>6, <1>7, <1>8, <1>9 DEF Accounted

\* A replacement in place gives back the old record and takes the new one.
LEMMA WithReplacedAccounted ==
  ASSUME NEW page \in Header, NEW c \in Chunk, NEW i \in DOMAIN page.chunks,
         Accounted(page)
  PROVE  Accounted(WithReplaced(page, i, c)) /\ WithReplaced(page, i, c).chunks # <<>>
<1>0. LenSize \in Int
  BY ConstantFacts
<1>1. PICK n, new, old : /\ n = Len(page.chunks) /\ new = WithReplaced(page, i, c)
                         /\ old = page.chunks[i]
  OBVIOUS
<1>2. PICK t \in [0 .. n -> Int] : Sums(page, t) /\ page.free_space = Capacity - t[n]
  BY <1>1 DEF Accounted
<1>3. /\ n \in Nat /\ page.chunks \in Seq(Chunk) /\ i \in 1 .. n /\ old \in Chunk
      /\ LenSize \in Int /\ Capacity \in Int
  BY <1>1, ConstantFacts DEF Header
<1>4. \A x \in Chunk : Size[x] \in Int
  BY ConstantFacts
<1>5. /\ new.chunks = [page.chunks EXCEPT ![i] = c]
      /\ new.free_space = page.free_space + Size[old] - Size[c]
  BY <1>1 DEF WithReplaced, Header
<1>6. /\ Len(new.chunks) = n /\ new.chunks[i] = c
      /\ \A j \in 1 .. n : j # i => new.chunks[j] = page.chunks[j]
  <2>1. PICK P, R : P = page.chunks /\ R = new.chunks
    OBVIOUS
  <2>2. P \in Seq(Chunk) /\ n = Len(P) /\ i \in 1 .. Len(P) /\ R = [P EXCEPT ![i] = c]
    BY <1>1, <1>3, <1>5, <2>1
  <2>3. Len(R) = Len(P) /\ \A j \in 1 .. Len(P) : R[j] = IF j = i THEN c ELSE P[j]
    BY <2>2, ExceptSeq
  <2>. QED BY <1>3, <2>1, <2>2, <2>3
<1>. DEFINE u == [j \in 0 .. n |-> IF j < i THEN t[j] ELSE t[j] - Size[old] + Size[c]]
<1>7. /\ u \in [0 .. n -> Int]
      /\ \A j \in 0 .. n : u[j] = IF j < i THEN t[j] ELSE t[j] - Size[old] + Size[c]
  BY <1>3, <1>4, SMTT(60)
<1>. HIDE DEF u
<1>8. Sums(new, u)
  <2>1. u[0] = 0
    <3>1. t[0] = 0
      BY <1>2 DEF Sums
    <3>2. i \in 1 .. n /\ n \in Nat
      BY <1>3
    <3>3. 0 < i /\ 0 \in 0 .. n
      BY <3>2
    <3>. QED BY <1>7, <3>1, <3>3
  <2>2. ASSUME NEW j \in 1 .. n
        PROVE  u[j] = u[j - 1] + Size[new.chunks[j]] + LenSize
    <3>1. /\ j \in 0 .. n /\ j - 1 \in 0 .. n /\ t[j] \in Int /\ t[j - 1] \in Int
          /\ page.chunks[j] \in Chunk
      BY <1>1, <1>3
    <3>2. t[j] = t[j - 1] + Size[page.chunks[j]] + LenSize
      BY <1>1, <1>2 DEF Sums
    <3>3. /\ Size[page.chunks[j]] \in Int /\ Size[old] \in Int /\ Size[c] \in Int
      BY <3>1, <1>3, <1>4
    <3>4. CASE j < i
      <4>1. u[j] = t[j] /\ u[j - 1] = t[j - 1] /\ new.chunks[j] = page.chunks[j]
        BY <3>1, <3>4, <1>3, <1>6, <1>7
      <4>. QED BY <3>2, <4>1
    <3>5. CASE j = i
      <4>1. u[j] = t[j] - Size[old] + Size[c] /\ u[j - 1] = t[j - 1]
        BY <3>1, <3>5, <1>3, <1>7, SMTT(30)
      <4>2. new.chunks[j] = c /\ page.chunks[j] = old
        BY <3>5, <1>1, <1>6
      <4>3. t[j] = t[j - 1] + Size[old] + LenSize /\ Size[new.chunks[j]] = Size[c]
        BY <3>2, <4>2
      <4>4. t[j] - Size[old] + Size[c] = t[j - 1] + Size[c] + LenSize
        BY <3>1, <3>3, <4>3, <1>0
      <4>. QED BY <4>1, <4>3, <4>4
    <3>6. CASE j > i
      <4>1. ~ (j < i) /\ ~ (j - 1 < i) /\ j # i
        BY <3>6, <1>3
      <4>2. /\ u[j] = t[j] - Size[old] + Size[c]
            /\ u[j - 1] = t[j - 1] - Size[old] + Size[c]
        BY <3>1, <4>1, <1>7
      <4>3. new.chunks[j] = page.chunks[j]
        BY <4>1, <1>6
      <4>4. t[j] - Size[old] + Size[c]
              = (t[j - 1] - Size[old] + Size[c]) + Size[page.chunks[j]] + LenSize
        BY <3>1, <3>2, <3>3, <1>0, SMTT(30)
      <4>. QED BY <4>2, <4>3, <4>4
    <3>. QED BY <3>4, <3>5, <3>6, <1>3
  <2>. QED BY <2>1, <2>2, <1>6 DEF Sums
<1>9. new.free_space = Capacity - u[n]
  <2>1. t[n] \in Int /\ Size[old] \in Int /\ Size[c] \in Int
    BY <1>3, <1>4
  <2>2. u[n] = t[n] - Size[old] + Size[c]
    BY <1>3, <1>7
  <2>. QED BY <2>1, <2>2, <1>2, <1>3, <1>5, SMTT(30)
<1>10. new.chunks # <<>>
  BY <1>3, <1>6
<1>. QED BY <1>1, <1>6, <1>7, <1>8, <1>9, <1>10 DEF Accounted

\* delete_chunk gives back the record and its length field.
LEMMA WithoutChunkAccounted ==
  ASSUME NEW page \in Header, NEW i \in DOMAIN page.chunks, Accounted(page)
  PROVE  /\ Accounted(WithoutChunk(page, i))
         /\ Len(page.chunks) > 1 => WithoutChunk(page, i).chunks # <<>>
<1>0. LenSize \in Int
  BY ConstantFacts
<1>1. PICK n, new, old : /\ n = Len(page.chunks) /\ new = WithoutChunk(page, i)
                         /\ old = page.chunks[i]
  OBVIOUS
<1>2. PICK t \in [0 .. n -> Int] : Sums(page, t) /\ page.free_space = Capacity - t[n]
  BY <1>1 DEF Accounted
<1>3. /\ n \in Nat /\ page.chunks \in Seq(Chunk) /\ i \in 1 .. n /\ old \in Chunk
      /\ LenSize \in Int /\ Capacity \in Int
  BY <1>1, ConstantFacts DEF Header
<1>4. \A x \in Chunk : Size[x] \in Int
  BY ConstantFacts
<1>5. /\ new.chunks = RemoveAt(page.chunks, i)
      /\ new.free_space = page.free_space + Size[old] + LenSize
  BY <1>1 DEF WithoutChunk, Header
<1>6. /\ Len(new.chunks) = n - 1
      /\ \A j \in 1 .. n - 1 :
           new.chunks[j] = IF j < i THEN page.chunks[j] ELSE page.chunks[j + 1]
  BY <1>1, <1>3, <1>5, RemoveAtFacts, SMTT(30)
<1>. DEFINE u == [j \in 0 .. n - 1 |-> IF j < i THEN t[j] ELSE t[j + 1] - Size[old] - LenSize]
<1>7. /\ u \in [0 .. n - 1 -> Int]
      /\ \A j \in 0 .. n - 1 :
           u[j] = IF j < i THEN t[j] ELSE t[j + 1] - Size[old] - LenSize
  BY <1>3, <1>4, SMTT(60)
<1>. HIDE DEF u
<1>8. \A j \in 1 .. n : /\ t[j] = t[j - 1] + Size[page.chunks[j]] + LenSize
                        /\ t[j] \in Int /\ t[j - 1] \in Int
                        /\ Size[page.chunks[j]] \in Int
  <2> SUFFICES ASSUME NEW j \in 1 .. n
               PROVE  /\ t[j] = t[j - 1] + Size[page.chunks[j]] + LenSize
                      /\ t[j] \in Int /\ t[j - 1] \in Int
                      /\ Size[page.chunks[j]] \in Int
    OBVIOUS
  <2>1. j \in 0 .. n /\ j - 1 \in 0 .. n /\ page.chunks[j] \in Chunk
    BY <1>1, <1>3
  <2>. QED BY <2>1, <1>1, <1>2, <1>4 DEF Sums
<1>9. Sums(new, u)
  <2>1. u[0] = 0
    <3>1. 0 \in 0 .. n - 1 /\ 0 < i
      BY <1>3
    <3>2. t[0] = 0
      BY <1>2 DEF Sums
    <3>. QED BY <3>1, <3>2, <1>7
  <2>2. ASSUME NEW j \in 1 .. n - 1
        PROVE  u[j] = u[j - 1] + Size[new.chunks[j]] + LenSize
    <3>1. /\ j \in 0 .. n - 1 /\ j - 1 \in 0 .. n - 1
          /\ j \in 1 .. n /\ j + 1 \in 1 .. n /\ (j + 1) - 1 = j
      BY <1>3
    <3>2. CASE j < i
      <4>1. u[j] = t[j] /\ u[j - 1] = t[j - 1] /\ new.chunks[j] = page.chunks[j]
        BY <3>1, <3>2, <1>3, <1>6, <1>7
      <4>. QED BY <3>1, <4>1, <1>8
    <3>3. CASE j = i
      <4>0. ~ (j < i) /\ j - 1 < i
        BY <3>3, <1>3
      <4>1. /\ u[j] = t[j + 1] - Size[old] - LenSize /\ u[j - 1] = t[j - 1]
            /\ new.chunks[j] = page.chunks[j + 1] /\ page.chunks[j] = old
        BY <3>1, <3>3, <4>0, <1>1, <1>6, <1>7
      <4>2. t[j + 1] = t[j] + Size[page.chunks[j + 1]] + LenSize
        BY <3>1, <1>8
      <4>3. t[j] = t[j - 1] + Size[old] + LenSize
        BY <3>1, <4>1, <1>8
      <4>4. /\ t[j] \in Int /\ t[j - 1] \in Int /\ t[j + 1] \in Int
            /\ Size[old] \in Int /\ Size[page.chunks[j + 1]] \in Int
        BY <3>1, <1>3, <1>4, <1>8
      <4>5. t[j] - Size[old] - LenSize = t[j - 1]
        BY <4>3, <4>4, <1>0, SMTT(60)
      <4>6. t[j + 1] - Size[old] - LenSize
              = (t[j] - Size[old] - LenSize) + Size[page.chunks[j + 1]] + LenSize
        BY <4>2, <4>4, <1>0, SMTT(30)
      <4>. QED BY <4>1, <4>5, <4>6
    <3>4. CASE j > i
      <4>0. ~ (j < i) /\ ~ (j - 1 < i)
        BY <3>4, <1>3
      <4>1. /\ u[j] = t[j + 1] - Size[old] - LenSize
            /\ u[j - 1] = t[(j - 1) + 1] - Size[old] - LenSize
            /\ new.chunks[j] = page.chunks[j + 1]
        BY <3>1, <4>0, <1>6, <1>7
      <4>2. (j - 1) + 1 = j
        OBVIOUS
      <4>3. t[j + 1] = t[j] + Size[page.chunks[j + 1]] + LenSize
        BY <3>1, <1>8
      <4>4. /\ t[j] \in Int /\ t[j + 1] \in Int
            /\ Size[old] \in Int /\ Size[page.chunks[j + 1]] \in Int
        BY <3>1, <1>3, <1>4, <1>8
      <4>5. t[j + 1] - Size[old] - LenSize
              = (t[j] - Size[old] - LenSize) + Size[page.chunks[j + 1]] + LenSize
        BY <4>3, <4>4, <1>0, SMTT(60)
      <4>. QED BY <4>1, <4>2, <4>5
    <3>. QED BY <3>2, <3>3, <3>4, <1>3
  <2>. QED BY <2>1, <2>2, <1>6 DEF Sums
<1>10. new.free_space = Capacity - u[n - 1]
  <2>1. t[n] \in Int /\ t[n - 1] \in Int /\ Size[old] \in Int
    BY <1>3, <1>4
  <2>2. CASE i = n
    <3>1. n - 1 \in 0 .. n - 1 /\ n - 1 < i
      BY <2>2, <1>3
    <3>2. u[n - 1] = t[n - 1] /\ page.chunks[n] = old
      BY <2>2, <3>1, <1>1, <1>7
    <3>3. t[n] = t[n - 1] + Size[old] + LenSize
      BY <2>2, <3>2, <1>3, <1>8
    <3>4. Capacity - t[n] + Size[old] + LenSize = Capacity - t[n - 1]
      BY <2>1, <3>3, <1>3, SMTT(30)
    <3>. QED BY <3>2, <3>4, <1>2, <1>5
  <2>3. CASE i # n
    <3>1. n - 1 \in 0 .. n - 1 /\ ~ (n - 1 < i) /\ (n - 1) + 1 = n
      BY <2>3, <1>3
    <3>2. u[n - 1] = t[n] - Size[old] - LenSize
      BY <3>1, <1>7
    <3>3. Capacity - t[n] + Size[old] + LenSize = Capacity - (t[n] - Size[old] - LenSize)
      BY <2>1, <1>3, SMTT(30)
    <3>. QED BY <3>2, <3>3, <1>2, <1>5
  <2>. QED BY <2>2, <2>3
<1>11. n > 1 => new.chunks # <<>>
  BY <1>3, <1>6
<1>12. n - 1 \in Nat
  BY <1>3
<1>. QED BY <1>1, <1>6, <1>7, <1>9, <1>10, <1>11 DEF Accounted

-----------------------------------------------------------------------------
(* What the calls of page.c do to the type and the links of every page.     *)

\* `free_page` unlinks page num and puts it in front of the free list.
LEMMA FreedFacts ==
  ASSUME NEW d \in [Page -> Header], NEW sch \in Schema, NEW num \in Page,
         sch.free_page # 0 => d[sch.free_page].type = "FREE",
         d[num].type # "FREE",
         d[num].next # num, d[num].prev # num,
         NEW D, D = FreedDisk(d, sch, num)
  PROVE  /\ D \in [Page -> Header]
         /\ D[num].type = "FREE" /\ D[num].next = sch.free_page
         /\ Blank(D[num])
         /\ \A q \in Page \ {num} :
              /\ D[q].type = d[q].type
              /\ D[q].free_space = d[q].free_space
              /\ D[q].chunks = d[q].chunks
              /\ D[q].next = IF q = d[num].prev THEN d[num].next ELSE d[q].next
              /\ d[q].type # "FREE" =>
                   D[q].prev = IF q = d[num].next THEN d[num].prev ELSE d[q].prev
<1>1. /\ d[num].next \in PageNum /\ d[num].prev \in PageNum
      /\ num \in PageNum /\ sch.free_page \in PageNum
  BY ConstantFacts, SMTT(30) DEF Header, Schema, Page, PageNum
<1> DEFINE nxt == d[num].next
           prv == d[num].prev
           A == SetPrev(d, nxt, prv)
           B == SetNext(A, prv, nxt)
           C == [B EXCEPT ![num] = FreeHeader(sch.free_page)]
<1>2. /\ A \in [Page -> Header]
      /\ \A q \in Page :
           /\ A[q].type = d[q].type
           /\ A[q].next = d[q].next
           /\ A[q].free_space = d[q].free_space
           /\ A[q].chunks = d[q].chunks
           /\ A[q].prev = IF q = nxt THEN prv ELSE d[q].prev
  <2>. HIDE DEF nxt, prv
  <2>. QED BY <1>1, SetPrevFacts DEF nxt, prv
<1>3. /\ B \in [Page -> Header]
      /\ \A q \in Page :
           /\ B[q].type = A[q].type
           /\ B[q].prev = A[q].prev
           /\ B[q].free_space = A[q].free_space
           /\ B[q].chunks = A[q].chunks
           /\ B[q].next = IF q = prv THEN nxt ELSE A[q].next
  <2>. HIDE DEF nxt, prv, A
  <2>. QED BY <1>1, <1>2, SetNextFacts DEF nxt, prv
<1>4. /\ FreeHeader(sch.free_page) \in Header
      /\ FreeHeader(sch.free_page).type = "FREE"
      /\ FreeHeader(sch.free_page).next = sch.free_page
      /\ Blank(FreeHeader(sch.free_page))
  BY <1>1, FreeHeaderFacts DEF FreeHeader, Blank
<1>5. /\ C \in [Page -> Header]
      /\ C[num] = FreeHeader(sch.free_page)
      /\ \A q \in Page \ {num} : C[q] = B[q]
  <2>. HIDE DEF B
  <2>. QED BY <1>3, <1>4
<1>6. D = SetPrev(C, sch.free_page, num)
  BY DEF FreedDisk, Unlinked
<1>7. /\ D \in [Page -> Header]
      /\ \A q \in Page :
           /\ D[q].type = C[q].type
           /\ D[q].next = C[q].next
           /\ D[q].free_space = C[q].free_space
           /\ D[q].chunks = C[q].chunks
           /\ D[q].prev = IF q = sch.free_page THEN num ELSE C[q].prev
  <2>. HIDE DEF C
  <2>. QED BY <1>1, <1>5, <1>6, SetPrevFacts
<1>8. \A q \in Page : q = sch.free_page => d[q].type = "FREE"
  BY ConstantFacts DEF Page
<1>. HIDE DEF A, B, C
<1>9. Blank(D[num])
  BY <1>4, <1>5, <1>7 DEF Blank
<1>. QED BY <1>2, <1>3, <1>4, <1>5, <1>7, <1>8, <1>9 DEF nxt, prv

\* One relocation of `shrink`: page from is copied to page to, and its
\* neighbours name it by its new number.
LEMMA MovedFacts ==
  ASSUME NEW d \in [Page -> Header], NEW from \in Page, NEW to \in Page,
         d[from].next # from, d[from].prev # from,
         d[from].next # to, d[from].prev # to, from # to,
         NEW D, D = MovedDisk(d, from, to)
  PROVE  /\ D \in [Page -> Header]
         /\ D[to] = d[from]
         /\ \A q \in Page \ {to} :
              /\ D[q].type = d[q].type
              /\ D[q].free_space = d[q].free_space
              /\ D[q].chunks = d[q].chunks
              /\ D[q].next = IF q = d[from].prev THEN to ELSE d[q].next
              /\ D[q].prev = IF q = d[from].next THEN to ELSE d[q].prev
<1>1. /\ d[from].next \in PageNum /\ d[from].prev \in PageNum
      /\ to \in PageNum
  <2>1. d[from] \in Header
    OBVIOUS
  <2>2. to \in PageNum
    BY ConstantFacts DEF Page, PageNum
  <2>. QED BY <2>1, <2>2 DEF Header
<1> DEFINE nxt == d[from].next
           prv == d[from].prev
           A == SetPrev(d, nxt, to)
           B == SetNext(A, prv, to)
<1>2. /\ A \in [Page -> Header]
      /\ \A q \in Page :
           /\ A[q].type = d[q].type
           /\ A[q].next = d[q].next
           /\ A[q].free_space = d[q].free_space
           /\ A[q].chunks = d[q].chunks
           /\ A[q].prev = IF q = nxt THEN to ELSE d[q].prev
  <2>. HIDE DEF nxt, prv
  <2>. QED BY <1>1, SetPrevFacts DEF nxt, prv
<1>3. /\ B \in [Page -> Header]
      /\ \A q \in Page :
           /\ B[q].type = A[q].type
           /\ B[q].prev = A[q].prev
           /\ B[q].free_space = A[q].free_space
           /\ B[q].chunks = A[q].chunks
           /\ B[q].next = IF q = prv THEN to ELSE A[q].next
  <2>. HIDE DEF nxt, prv, A
  <2>. QED BY <1>1, <1>2, SetNextFacts DEF nxt, prv
<1>4. /\ D \in [Page -> Header]
      /\ D[to] = d[from]
      /\ \A q \in Page \ {to} : D[q] = B[q]
  <2>1. D = [B EXCEPT ![to] = d[from]]
    BY DEF MovedDisk
  <2>. HIDE DEF B
  <2>. QED BY <1>3, <2>1
<1>. HIDE DEF A, B
<1>. QED BY <1>2, <1>3, <1>4 DEF nxt, prv

-----------------------------------------------------------------------------
(* Induction, as the existence of a least counterexample.                  *)

\* A set of natural numbers that has an element has a least one.
LEMMA NatMin ==
  ASSUME NEW T \in SUBSET Nat, T # {}
  PROVE  \E m \in T : \A n \in T : m <= n
<1>1. \E m \in T : \A n \in T : ~ (<<n, m>> \in OpToRel(<, Nat))
  BY NatLessThanWellFounded, WFMin
<1>2. PICK m \in T : \A n \in T : ~ (<<n, m>> \in OpToRel(<, Nat))
  BY <1>1
<1>3. ASSUME NEW n \in T PROVE m <= n
  <2>1. <<n, m>> \in Nat \X Nat
    BY <1>2
  <2>2. ~ (<<n, m>>[1] < <<n, m>>[2])
    BY <1>2, <2>1 DEF OpToRel
  <2>. QED BY <2>2
<1>. QED BY <1>3

-----------------------------------------------------------------------------
(* PagesFrom.                                                              *)

\* What walk[n] is in the file d, and the equation that defines walk.
Row(d, w, n) ==
  [p \in PageNum |-> IF p = 0 \/ n = 0 THEN <<>> ELSE <<p>> \o w[n - 1][d[p].next]]

Walk(d, w, m) == w = [n \in 0 .. m |-> Row(d, w, n)]

\* The equation has a solution, for any file and any number of steps.
LEMMA WalkExists ==
  ASSUME NEW d, NEW m \in Nat
  PROVE  \E w : Walk(d, w, m)
<1>. DEFINE T == {n \in Nat : ~ \E w : Walk(d, w, n)}
<1> SUFFICES ASSUME T # {} PROVE FALSE
  OBVIOUS
<1>1. PICK k \in T : \A n \in T : k <= n
  <2>. HIDE DEF T
  <2>1. T \in SUBSET Nat
    BY DEF T
  <2>. QED BY <2>1, NatMin
<1>2. k # 0
  <2>. DEFINE z == [n \in 0 .. 0 |-> [p \in PageNum |-> <<>>]]
  <2>1. \A n \in 0 .. 0 : Row(d, z, n) = [p \in PageNum |-> <<>>]
    BY DEF Row
  <2>2. Walk(d, z, 0)
    <3>. HIDE DEF z
    <3>1. z = [n \in 0 .. 0 |-> Row(d, z, n)]
      BY <2>1 DEF z
    <3>. QED BY <3>1 DEF Walk
  <2>. QED BY <2>2
<1>3. k - 1 \in Nat /\ k - 1 \notin T
  BY <1>1, <1>2
<1>4. PICK w : Walk(d, w, k - 1)
  BY <1>3
<1>. DEFINE v == [n \in 0 .. k |-> IF n = k THEN Row(d, w, k) ELSE w[n]]
<1>5. \A n \in 0 .. k : Row(d, v, n) = v[n]
  <2>1. Row(d, v, k) = Row(d, w, k)
    <3>1. v[k - 1] = w[k - 1]
      BY <1>2, <1>3
    <3>. HIDE DEF v
    <3>. QED BY <3>1 DEF Row
  <2>2. ASSUME NEW n \in 0 .. k - 1 PROVE Row(d, v, n) = w[n]
    <3>1. w[n] = Row(d, w, n)
      BY <1>4 DEF Walk
    <3>2. n # 0 => v[n - 1] = w[n - 1]
      BY <1>3
    <3>3. Row(d, v, n) = Row(d, w, n)
      <4>. HIDE DEF v
      <4>1. CASE n = 0
        BY <4>1 DEF Row
      <4>2. CASE n # 0
        BY <4>2, <3>2 DEF Row
      <4>. QED BY <4>1, <4>2
    <3>. QED BY <3>1, <3>3
  <2>3. \A n \in 0 .. k : n = k \/ n \in 0 .. k - 1
    BY <1>3
  <2>4. k \in 0 .. k
    BY <1>3
  <2>. QED BY <2>1, <2>2, <2>3, <2>4
<1>6. Walk(d, v, k)
  <2>1. v = [n \in 0 .. k |-> v[n]]
    OBVIOUS
  <2>. HIDE DEF v
  <2>. QED BY <2>1, <1>5 DEF Walk
<1>. QED BY <1>6

\* PagesFrom is read off a solution of the equation.
LEMMA PagesFromWalk ==
  ASSUME NEW d
  PROVE  \E w : /\ \A n \in 0 .. MaxPage + 1 : w[n] = Row(d, w, n)
                /\ \A h : PagesFrom(d, h) = w[MaxPage + 1][h]
<1>. DEFINE w0 == CHOOSE w : Walk(d, w, MaxPage + 1)
<1>1. Walk(d, w0, MaxPage + 1)
  <2>1. MaxPage + 1 \in Nat
    BY ConstantFacts
  <2>2. \E w : Walk(d, w, MaxPage + 1)
    BY <2>1, WalkExists
  <2>. QED BY <2>2
<1>2. \A h : PagesFrom(d, h) = w0[MaxPage + 1][h]
  BY DEF PagesFrom, Walk, Row
<1>3. \A n \in 0 .. MaxPage + 1 : w0[n] = Row(d, w0, n)
  <2>. HIDE DEF w0
  <2>. QED BY <1>1 DEF Walk
<1>. QED BY <1>2, <1>3

\* An element in front of a sequence, element by element.
LEMMA InFront ==
  ASSUME NEW S, NEW e \in S, NEW k \in Nat, NEW t, t \in [1 .. k -> S]
  PROVE  <<e>> \o t = [j \in 1 .. k + 1 |-> IF j = 1 THEN e ELSE t[j - 1]]
<1>1. t \in Seq(S) /\ Len(t) = k /\ <<e>> \in Seq(S) /\ Len(<<e>>) = 1
  BY SeqDef
<1>2. Len(<<e>> \o t) = k + 1 /\ <<e>> \o t \in Seq(S)
  BY <1>1, ConcatProperties
<1>3. \A j \in 1 .. k + 1 : (<<e>> \o t)[j] = IF j = 1 THEN e ELSE t[j - 1]
  BY <1>1, ConcatProperties
<1>. QED BY <1>2, <1>3

\* A chain of pages that ends with next_page 0 is what PagesFrom makes of its
\* first page.
LEMMA PagesFromChain ==
  ASSUME NEW d, NEW n \in 0 .. MaxPage, NEW s \in [1 .. n -> Page],
         \A i \in 1 .. n : d[s[i]].next = IF i = n THEN 0 ELSE s[i+1],
         NEW h, h = IF n = 0 THEN 0 ELSE s[1]
  PROVE  PagesFrom(d, h) = s
<1>1. PICK w : /\ \A m \in 0 .. MaxPage + 1 : w[m] = Row(d, w, m)
               /\ \A g : PagesFrom(d, g) = w[MaxPage + 1][g]
  BY PagesFromWalk
<1>2. MaxPage \in Nat \ {0} /\ n \in Nat /\ Page \subseteq PageNum /\ 0 \in PageNum
      /\ 0 \notin Page
  BY ConstantFacts DEF Page, PageNum
\* The last k pages of the chain, and the page they start with.
<1>. DEFINE start(k) == IF k = 0 THEN 0 ELSE s[n - k + 1]
            part(k) == [j \in 1 .. k |-> s[n - k + j]]
            Bad(k) == \E m \in k .. MaxPage + 1 : w[m][start(k)] # part(k)
            T == {k \in 0 .. n : Bad(k)}
<1>3. T = {}
  <2> SUFFICES ASSUME T # {} PROVE FALSE
    OBVIOUS
  <2>1. PICK k \in T : \A j \in T : k <= j
    <3>. HIDE DEF Bad
    <3>1. T \in SUBSET Nat
      BY <1>2
    <3>. HIDE DEF T
    <3>. QED BY <3>1, NatMin
  <2>2. PICK m \in k .. MaxPage + 1 : w[m][start(k)] # part(k)
    BY <2>1
  <2>3. k \in 0 .. n /\ m \in 0 .. MaxPage + 1
    BY <1>2, <2>1
  <2>4. w[m] = Row(d, w, m)
    BY <1>1, <2>3
  <2>5. CASE k = 0
    <3>1. w[m][0] = <<>>
      BY <2>4, <1>2 DEF Row
    <3>2. start(k) = 0 /\ part(k) = <<>>
      BY <2>5
    <3>. QED BY <3>1, <3>2, <2>2
  <2>6. CASE k # 0
    <3>. DEFINE p == s[n - k + 1]
    <3>1. n - k + 1 \in 1 .. n /\ p \in Page /\ p # 0 /\ p \in PageNum
      BY <2>3, <2>6, <1>2
    <3>2. d[p].next = start(k - 1)
      <4>1. CASE k = 1
        <5>1. n - k + 1 = n
          BY <4>1, <1>2
        <5>. QED BY <5>1, <3>1, <4>1
      <4>2. CASE k # 1
        <5>1. n - k + 1 # n /\ n - (k - 1) + 1 = (n - k + 1) + 1 /\ k - 1 # 0
          BY <4>2, <2>3, <2>6, <1>2
        <5>. QED BY <5>1, <3>1
      <4>. QED BY <4>1, <4>2
    <3>3. k - 1 \notin T
      <4>1. ~ (k <= k - 1)
        BY <2>3, <1>2
      <4>. HIDE DEF T
      <4>. QED BY <4>1, <2>1
    <3>4. k - 1 \in 0 .. n /\ m # 0 /\ m - 1 \in k - 1 .. MaxPage + 1
      BY <2>2, <2>3, <2>6, <1>2
    <3>5. w[m - 1][start(k - 1)] = part(k - 1)
      BY <3>3, <3>4
    <3>6. w[m][p] = <<p>> \o part(k - 1)
      <4>. HIDE DEF p, start, part, T
      <4>1. w[m][p] = <<p>> \o w[m - 1][d[p].next]
        BY <2>4, <3>1, <3>4 DEF Row
      <4>. QED BY <4>1, <3>2, <3>5
    <3>7. part(k - 1) \in [1 .. k - 1 -> Page] /\ k - 1 \in Nat
      <4>1. \A j \in 1 .. k - 1 : n - (k - 1) + j \in 1 .. n
        BY <2>3, <1>2
      <4>. QED BY <4>1, <3>4, <1>2
    <3>8. <<p>> \o part(k - 1)
            = [j \in 1 .. (k - 1) + 1 |-> IF j = 1 THEN p ELSE part(k - 1)[j - 1]]
      <4>1. PICK q : q = part(k - 1)
        OBVIOUS
      <4>2. q \in [1 .. k - 1 -> Page] /\ p \in Page /\ k - 1 \in Nat
        BY <4>1, <3>1, <3>7
      <4>. HIDE DEF p, part
      <4>3. <<p>> \o q = [j \in 1 .. (k - 1) + 1 |-> IF j = 1 THEN p ELSE q[j - 1]]
        BY <4>2, InFront, SMTT(30)
      <4>. QED BY <4>1, <4>3
    <3>9. (k - 1) + 1 = k
      BY <2>3, <1>2
    <3>10. \A j \in 1 .. k : (IF j = 1 THEN p ELSE part(k - 1)[j - 1]) = s[n - k + j]
      <4>1. ASSUME NEW j \in 1 .. k, j # 1 PROVE part(k - 1)[j - 1] = s[n - k + j]
        <5>1. j - 1 \in 1 .. k - 1 /\ n - (k - 1) + (j - 1) = n - k + j
          BY <4>1, <2>3, <1>2
        <5>. QED BY <5>1
      <4>. QED BY <4>1
    <3>11. w[m][p] = part(k)
      <4>1. w[m][p] = [j \in 1 .. k |-> IF j = 1 THEN p ELSE part(k - 1)[j - 1]]
        BY <3>6, <3>8, <3>9
      <4>. QED BY <4>1, <3>10, SMTT(30)
    <3>12. start(k) = p
      BY <2>6
    <3>. QED BY <3>11, <3>12, <2>2
  <2>. QED BY <2>5, <2>6
<1>4. w[MaxPage + 1][start(n)] = part(n)
  <2>1. n \in 0 .. n /\ MaxPage + 1 \in n .. MaxPage + 1
    BY <1>2
  <2>2. ~ Bad(n)
    <3>. HIDE DEF Bad
    <3>. QED BY <2>1, <1>3
  <2>. QED BY <2>1, <2>2
<1>5. start(n) = h
  <2>1. n - n + 1 = 1
    BY <1>2
  <2>. QED BY <2>1
<1>6. part(n) = s
  <2>1. \A j \in 1 .. n : n - n + j = j
    BY <1>2
  <2>. QED BY <2>1
<1>. QED BY <1>1, <1>4, <1>5, <1>6

\* As many different pages as there are numbers up to n are at most MaxPage.
LEMMA PagesBounded ==
  ASSUME NEW n \in Nat, NEW s \in [1 .. n -> Page],
         \A i, j \in 1 .. n : s[i] = s[j] => i = j
  PROVE  /\ n <= MaxPage
         /\ Cardinality({s[i] : i \in 1 .. n}) = n
<1>1. /\ IsFiniteSet(Page) /\ Cardinality(Page) = MaxPage /\ MaxPage \in Nat \ {0}
      /\ IsFiniteSet(1 .. n) /\ Cardinality(1 .. n) = n
  <2>1. MaxPage \in Nat \ {0} /\ 1 \in Int /\ MaxPage \in Int /\ n \in Int
    BY ConstantFacts
  <2>2. /\ IsFiniteSet(1 .. MaxPage)
        /\ Cardinality(1 .. MaxPage) = IF 1 > MaxPage THEN 0 ELSE MaxPage - 1 + 1
    BY <2>1, FS_Interval
  <2>3. /\ IsFiniteSet(1 .. n)
        /\ Cardinality(1 .. n) = IF 1 > n THEN 0 ELSE n - 1 + 1
    BY <2>1, FS_Interval
  <2>. QED BY <2>1, <2>2, <2>3 DEF Page
<1>2. s \in Injection(1 .. n, Page)
  BY DEF Injection, IsInjective
<1>3. n <= MaxPage
  BY <1>1, <1>2, FS_Injection
<1>4. Cardinality({s[i] : i \in 1 .. n}) = n
  <2>1. s \in [1 .. n -> {s[i] : i \in 1 .. n}]
    OBVIOUS
  <2>2. s \in Bijection(1 .. n, {s[i] : i \in 1 .. n})
    BY <2>1 DEF Bijection, Injection, Surjection, IsInjective
  <2>. QED BY <1>1, <2>2, FS_Bijection DEF ExistsBijection
<1>. QED BY <1>3, <1>4

-----------------------------------------------------------------------------
(* Folds.                                                                  *)

\* A fold over the finite set S: the elements are taken one by one, as ch
\* chooses, and F[x] is what element x makes of what there is so far.
Folded(S, base, F, ch, w) ==
  \A s \in SUBSET S :
    w[s] = IF s = {} THEN base ELSE F[ch[s]][w[s \ {ch[s]}]]

\* The recursion has a solution, with values where those of F are.
LEMMA FoldExists ==
  ASSUME NEW S, IsFiniteSet(S), NEW V, NEW base \in V,
         NEW F \in [S -> [V -> V]],
         NEW ch, \A s \in SUBSET S : s # {} => ch[s] \in s
  PROVE  \E w \in [SUBSET S -> V] : Folded(S, base, F, ch, w)
<1>. DEFINE Small(k) == {s \in SUBSET S : Cardinality(s) <= k}
            Solves(w, k) ==
              \A s \in Small(k) : w[s] = IF s = {} THEN base ELSE F[ch[s]][w[s \ {ch[s]}]]
            Bad(k) == ~ \E w \in [SUBSET S -> V] : Solves(w, k)
            T == {k \in Nat : Bad(k)}
<1>1. ASSUME NEW s \in SUBSET S
      PROVE  /\ IsFiniteSet(s) /\ Cardinality(s) \in Nat
             /\ Cardinality(s) <= Cardinality(S)
             /\ s # {} => /\ s \ {ch[s]} \in SUBSET S
                          /\ Cardinality(s \ {ch[s]}) = Cardinality(s) - 1
             /\ s = {} <=> Cardinality(s) = 0
  <2>1. IsFiniteSet(s) /\ Cardinality(s) \in Nat /\ Cardinality(s) <= Cardinality(S)
    BY FS_Subset, FS_CardinalityType
  <2>2. s = {} <=> Cardinality(s) = 0
    BY <2>1, FS_EmptySet
  <2>3. ASSUME s # {} PROVE Cardinality(s \ {ch[s]}) = Cardinality(s) - 1
    <3>1. ch[s] \in s
      BY <2>3
    <3>. QED BY <2>1, <3>1, FS_RemoveElement
  <2>. QED BY <2>1, <2>2, <2>3
<1>2. T = {}
  <2> SUFFICES ASSUME T # {} PROVE FALSE
    OBVIOUS
  <2>. HIDE DEF Bad
  <2>1. PICK k \in T : \A j \in T : k <= j
    <3>1. T \in SUBSET Nat
      OBVIOUS
    <3>. HIDE DEF T
    <3>. QED BY <3>1, NatMin
  <2>2. k \in Nat /\ Bad(k)
    BY <2>1
  <2>3. CASE k = 0
    <3>. DEFINE z == [s \in SUBSET S |-> base]
    <3>1. z \in [SUBSET S -> V] /\ \A s \in SUBSET S : z[s] = base
      OBVIOUS
    <3>2. \A s \in Small(0) : s = {}
      <4> SUFFICES ASSUME NEW s \in SUBSET S, Cardinality(s) <= 0 PROVE s = {}
        OBVIOUS
      <4>1. Cardinality(s) \in Nat /\ (s = {} <=> Cardinality(s) = 0)
        BY <1>1
      <4>. QED BY <4>1
    <3>. HIDE DEF z
    <3>3. Solves(z, 0)
      BY <3>1, <3>2
    <3>. QED BY <2>2, <2>3, <3>1, <3>3 DEF Bad
  <2>4. CASE k # 0
    <3>1. k - 1 \in Nat /\ k - 1 \notin T
      BY <2>1, <2>2, <2>4
    <3>2. PICK w \in [SUBSET S -> V] : Solves(w, k - 1)
      BY <3>1 DEF Bad
    <3>. DEFINE v == [s \in SUBSET S |-> IF s = {} THEN base ELSE F[ch[s]][w[s \ {ch[s]}]]]
    <3>3. v \in [SUBSET S -> V]
      <4> SUFFICES ASSUME NEW s \in SUBSET S, s # {} PROVE F[ch[s]][w[s \ {ch[s]}]] \in V
        OBVIOUS
      <4>1. ch[s] \in S /\ s \ {ch[s]} \in SUBSET S
        OBVIOUS
      <4>2. w[s \ {ch[s]}] \in V /\ F[ch[s]] \in [V -> V]
        BY <4>1
      <4>. QED BY <4>2
    <3>4. \A s \in Small(k - 1) : v[s] = w[s]
      <4> SUFFICES ASSUME NEW s \in Small(k - 1) PROVE v[s] = w[s]
        OBVIOUS
      <4>1. w[s] = IF s = {} THEN base ELSE F[ch[s]][w[s \ {ch[s]}]]
        BY <3>2
      <4>. QED BY <4>1
    <3>5. Solves(v, k)
      <4> SUFFICES ASSUME NEW s \in Small(k)
                   PROVE  v[s] = IF s = {} THEN base ELSE F[ch[s]][v[s \ {ch[s]}]]
        OBVIOUS
      <4>1. CASE s = {}
        BY <4>1
      <4>2. CASE s # {}
        <5>1. s \ {ch[s]} \in Small(k - 1)
          <6>1. s \in SUBSET S /\ Cardinality(s) <= k
            OBVIOUS
          <6>2. /\ Cardinality(s) \in Nat /\ s \ {ch[s]} \in SUBSET S
                /\ Cardinality(s \ {ch[s]}) = Cardinality(s) - 1
            BY <4>2, <6>1, <1>1
          <6>3. Cardinality(s \ {ch[s]}) <= k - 1
            BY <6>1, <6>2, <2>2
          <6>. QED BY <6>2, <6>3
        <5>2. v[s \ {ch[s]}] = w[s \ {ch[s]}]
          <6>. HIDE DEF v, Small
          <6>. QED BY <5>1, <3>4
        <5>. QED BY <5>2
      <4>. QED BY <4>1, <4>2
    <3>. HIDE DEF v
    <3>. QED BY <2>2, <3>3, <3>5 DEF Bad
  <2>. QED BY <2>3, <2>4
<1>3. Cardinality(S) \in Nat
  BY FS_CardinalityType
<1>4. PICK w \in [SUBSET S -> V] : Solves(w, Cardinality(S))
  <2>1. Cardinality(S) \notin T
    BY <1>2
  <2>. QED BY <1>3, <2>1
<1>5. Small(Cardinality(S)) = SUBSET S
  BY <1>1
<1>. QED BY <1>4, <1>5 DEF Folded

\* FoldLeft takes the highest position of a set of positions last.
Top(s) == CHOOSE x \in s : \A y \in s : x >= y

LEMMA TopFacts ==
  ASSUME NEW m \in Nat
  PROVE  /\ \A s \in SUBSET (1 .. m) : s # {} => Top(s) \in s
         /\ \A k \in 1 .. m : /\ 1 .. k \in SUBSET (1 .. m) /\ 1 .. k # {}
                              /\ Top(1 .. k) = k
                              /\ (1 .. k) \ {k} = 1 .. k - 1
<1>1. ASSUME NEW s \in SUBSET (1 .. m), s # {}
      PROVE  Top(s) \in s
  <2>. DEFINE T == {m - x : x \in s}
  <2>1. T \in SUBSET Nat /\ T # {}
    <3>1. \A x \in s : m - x \in Nat
      OBVIOUS
    <3>. QED BY <1>1, <3>1
  <2>2. PICK j \in T : \A i \in T : j <= i
    <3>. HIDE DEF T
    <3>. QED BY <2>1, NatMin
  <2>3. PICK x \in s : j = m - x
    BY <2>2
  <2>4. \A y \in s : x >= y
    <3> SUFFICES ASSUME NEW y \in s PROVE x >= y
      OBVIOUS
    <3>1. m - x <= m - y
      BY <2>2, <2>3
    <3>2. x \in Int /\ y \in Int
      OBVIOUS
    <3>. QED BY <3>1, <3>2
  <2>5. \E z \in s : \A y \in s : z >= y
    BY <2>4
  <2>. QED BY <2>5 DEF Top
<1>2. ASSUME NEW k \in 1 .. m
      PROVE  /\ 1 .. k \in SUBSET (1 .. m) /\ 1 .. k # {}
             /\ Top(1 .. k) = k
             /\ (1 .. k) \ {k} = 1 .. k - 1
  <2>1. \A y \in 1 .. k : k >= y
    OBVIOUS
  <2>2. \A x \in 1 .. k : (\A y \in 1 .. k : x >= y) => x = k
    BY <2>1
  <2>. QED BY <2>1, <2>2 DEF Top
<1>. QED BY <1>1, <1>2

FoldedLeft(m, base, F, w) ==
  \A s \in SUBSET (1 .. m) :
    w[s] = IF s = {} THEN base ELSE F[Top(s)][w[s \ {Top(s)}]]

\* The same for a fold over the positions of a sequence.
LEMMA FoldLeftExists ==
  ASSUME NEW m \in Nat, NEW V, NEW base \in V, NEW F \in [1 .. m -> [V -> V]]
  PROVE  \E w \in [SUBSET (1 .. m) -> V] : FoldedLeft(m, base, F, w)
<1>1. PICK S : S = 1 .. m /\ IsFiniteSet(S)
  BY FS_Interval
<1>2. PICK ch \in [SUBSET S -> {Top(s) : s \in SUBSET S}] :
        \A s \in SUBSET S : ch[s] = Top(s)
  <2>1. [s \in SUBSET S |-> Top(s)] \in [SUBSET S -> {Top(s) : s \in SUBSET S}]
    OBVIOUS
  <2>. QED BY <2>1
<1>3. /\ F \in [S -> [V -> V]]
      /\ \A s \in SUBSET S : s # {} => ch[s] \in s
  <2>1. \A s \in SUBSET S : s # {} => Top(s) \in s
    BY <1>1, TopFacts
  <2>. QED BY <1>1, <1>2, <2>1
<1>4. PICK w \in [SUBSET S -> V] : Folded(S, base, F, ch, w)
  BY <1>1, <1>3, FoldExists
<1>5. \A s \in SUBSET (1 .. m) : ch[s] = Top(s)
  BY <1>1, <1>2
<1>6. /\ w \in [SUBSET (1 .. m) -> V]
      /\ \A s \in SUBSET (1 .. m) : w[s] = IF s = {} THEN base ELSE F[ch[s]][w[s \ {ch[s]}]]
  BY <1>1, <1>4 DEF Folded
<1>7. \A s \in SUBSET (1 .. m) :
        w[s] = IF s = {} THEN base ELSE F[Top(s)][w[s \ {Top(s)}]]
  BY <1>5, <1>6
<1>. QED BY <1>6, <1>7 DEF FoldedLeft

\* What is folded of the first k positions, for each k in turn.
LEMMA FoldedPrefixes ==
  ASSUME NEW m \in Nat, NEW w, NEW t, w[{}] = t[0],
         \A k \in 1 .. m : w[1 .. k - 1] = t[k - 1] => w[1 .. k] = t[k]
  PROVE  w[1 .. m] = t[m]
<1>. DEFINE T == {k \in 0 .. m : w[1 .. k] # t[k]}
<1>1. T = {}
  <2> SUFFICES ASSUME T # {} PROVE FALSE
    OBVIOUS
  <2>1. PICK k \in T : \A j \in T : k <= j
    <3>1. T \in SUBSET Nat
      OBVIOUS
    <3>. HIDE DEF T
    <3>. QED BY <3>1, NatMin
  <2>2. k \in 0 .. m /\ w[1 .. k] # t[k]
    BY <2>1
  <2>3. CASE k = 0
    <3>1. 1 .. k = {}
      BY <2>3
    <3>. QED BY <2>2, <2>3, <3>1
  <2>4. CASE k # 0
    <3>1. k \in 1 .. m /\ k - 1 \in 0 .. m /\ ~ (k <= k - 1)
      BY <2>2, <2>4
    <3>2. k - 1 \notin T
      <4>. HIDE DEF T
      <4>. QED BY <3>1, <2>1
    <3>3. w[1 .. k - 1] = t[k - 1]
      BY <3>1, <3>2
    <3>. QED BY <2>2, <3>1, <3>3
  <2>. QED BY <2>3, <2>4
<1>2. m \in 0 .. m
  OBVIOUS
<1>. QED BY <1>1, <1>2

\* What the fold computes of a page's records is the last of their sums.
LEMMA UsedBytes ==
  ASSUME NEW page \in Header, NEW t, Sums(page, t)
  PROVE  FoldLeft(LAMBDA n, c : n + Size[c] + LenSize, 0, page.chunks)
           = t[Len(page.chunks)]
<1>1. PICK q, m : q = page.chunks /\ m = Len(q)
  OBVIOUS
<1>2. m \in Nat /\ DOMAIN q = 1 .. m /\ \A i \in 1 .. m : q[i] \in Chunk
  BY <1>1 DEF Header
<1>. DEFINE Solves(w) ==
              w = [s \in SUBSET (1 .. m) |->
                     IF s = {} THEN 0 ELSE w[s \ {Top(s)}] + Size[q[Top(s)]] + LenSize]
            w0 == CHOOSE w : Solves(w)
<1>3. FoldLeft(LAMBDA n, c : n + Size[c] + LenSize, 0, q) = w0[1 .. m]
  BY <1>2 DEF FoldLeft, MapThenFoldSet, Max, Top
<1>4. \E w : Solves(w)
  <2>. DEFINE F == [i \in 1 .. m |-> [v \in Int |-> v + Size[q[i]] + LenSize]]
  <2>1. F \in [1 .. m -> [Int -> Int]]
    <3>1. \A i \in 1 .. m : Size[q[i]] \in Int
      BY <1>2, SizeAssumption
    <3>2. LenSize \in Int
      BY DEF LenSize
    <3>. QED BY <3>1, <3>2
  <2>2. PICK w \in [SUBSET (1 .. m) -> Int] : FoldedLeft(m, 0, F, w)
    <3>1. 0 \in Int
      OBVIOUS
    <3>. HIDE DEF F
    <3>. QED BY <1>2, <2>1, <3>1, FoldLeftExists
  <2>3. ASSUME NEW s \in SUBSET (1 .. m), s # {}
        PROVE  w[s] = w[s \ {Top(s)}] + Size[q[Top(s)]] + LenSize
    <3>1. Top(s) \in 1 .. m /\ w[s \ {Top(s)}] \in Int
      BY <1>2, <2>2, <2>3, TopFacts
    <3>2. w[s] = F[Top(s)][w[s \ {Top(s)}]]
      <4>. HIDE DEF F
      <4>. QED BY <2>2, <2>3 DEF FoldedLeft
    <3>. QED BY <3>1, <3>2
  <2>4. {} \in SUBSET (1 .. m) /\ w[{}] = 0
    <3>. HIDE DEF F
    <3>. QED BY <2>2 DEF FoldedLeft
  <2>5. w = [s \in SUBSET (1 .. m) |-> w[s]]
    BY <2>2
  <2>6. Solves(w)
    BY <2>3, <2>4, <2>5
  <2>. QED BY <2>6
<1>5. \A s \in SUBSET (1 .. m) :
        w0[s] = IF s = {} THEN 0 ELSE w0[s \ {Top(s)}] + Size[q[Top(s)]] + LenSize
  <2>1. Solves(w0)
    <3>. HIDE DEF Solves
    <3>. QED BY <1>4
  <2>. HIDE DEF w0
  <2>. QED BY <2>1
<1>. HIDE DEF w0
<1>6. ASSUME NEW k \in 1 .. m
      PROVE  w0[1 .. k] = w0[1 .. k - 1] + Size[q[k]] + LenSize
  BY <1>2, <1>5, TopFacts, ZenonT(30)
<1>7. \A k \in 1 .. m : t[k] = t[k - 1] + Size[q[k]] + LenSize
  BY <1>1 DEF Sums
<1>8. w0[{}] = t[0]
  BY <1>5 DEF Sums
<1>9. w0[1 .. m] = t[m]
  BY <1>2, <1>6, <1>7, <1>8, FoldedPrefixes
<1>. QED BY <1>1, <1>3, <1>9

-----------------------------------------------------------------------------
(* shrink, the loop as a fold.                                             *)

\* The state of the loop: a file, its schema, and where the free list goes on.
Loop == [disk : [Page -> Header], schema : Schema, free_num : PageNum]

\* Whatever the links of a file look like, following them gives page numbers.
LEMMA PagesFromType ==
  ASSUME NEW d \in [Page -> Header], NEW h \in PageNum
  PROVE  PagesFrom(d, h) \in Seq(Page)
<1>1. PICK w : /\ \A n \in 0 .. MaxPage + 1 : w[n] = Row(d, w, n)
               /\ \A g : PagesFrom(d, g) = w[MaxPage + 1][g]
  BY PagesFromWalk
<1>2. MaxPage \in Nat /\ MaxPage + 1 \in 0 .. MaxPage + 1
  BY ConstantFacts
<1>. DEFINE Bad(n) == \E p \in PageNum : w[n][p] \notin Seq(Page)
            T == {n \in 0 .. MaxPage + 1 : Bad(n)}
<1>3. T = {}
  <2> SUFFICES ASSUME T # {} PROVE FALSE
    OBVIOUS
  <2>1. PICK n \in T : \A j \in T : n <= j
    <3>. HIDE DEF Bad
    <3>1. T \in SUBSET Nat
      BY <1>2
    <3>. HIDE DEF T
    <3>. QED BY <3>1, NatMin
  <2>2. PICK p \in PageNum : w[n][p] \notin Seq(Page)
    BY <2>1
  <2>3. n \in 0 .. MaxPage + 1
    BY <2>1
  <2>4. w[n][p] = IF p = 0 \/ n = 0 THEN <<>> ELSE <<p>> \o w[n - 1][d[p].next]
    <3>1. w[n] = Row(d, w, n)
      BY <1>1, <2>3
    <3>2. Row(d, w, n)[p] = IF p = 0 \/ n = 0 THEN <<>> ELSE <<p>> \o w[n - 1][d[p].next]
      BY <2>2, Zenon DEF Row
    <3>. QED BY <3>1, <3>2, Zenon
  <2>5. p # 0 /\ n # 0
    BY <2>2, <2>4
  <2>6. p \in Page /\ d[p].next \in PageNum
    <3>1. p \in Page
      BY <2>5, ConstantFacts DEF Page, PageNum
    <3>2. d[p] \in Header
      BY <3>1
    <3>. QED BY <3>1, <3>2 DEF Header
  <2>7. n - 1 \in 0 .. MaxPage + 1 /\ ~ (n <= n - 1)
    BY <1>2, <2>3, <2>5
  <2>8. n - 1 \notin T
    <3>. HIDE DEF T
    <3>. QED BY <2>1, <2>7
  <2>9. w[n - 1][d[p].next] \in Seq(Page)
    BY <2>6, <2>7, <2>8
  <2>10. <<p>> \in Seq(Page)
    BY <2>6, SeqDef
  <2>11. <<p>> \o w[n - 1][d[p].next] \in Seq(Page)
    BY <2>9, <2>10, ConcatProperties
  <2>. QED BY <2>2, <2>4, <2>5, <2>11
<1>. QED BY <1>1, <1>2, <1>3

\* The places in a list of pages that lie up to page p, and the first of them;
\* 0 if there is none.
UpTo(s, p) == {i \in 1 .. Len(s) : s[i] <= p}
FirstUpTo(s, p) == IF UpTo(s, p) # {} THEN Min(UpTo(s, p)) ELSE 0

\* That one is the least.
LEMMA FirstUpToFacts ==
  ASSUME NEW s, Len(s) \in Nat, NEW p
  PROVE  /\ UpTo(s, p) = {} => FirstUpTo(s, p) = 0
         /\ UpTo(s, p) # {} => /\ FirstUpTo(s, p) \in UpTo(s, p)
                               /\ FirstUpTo(s, p) # 0
                               /\ \A j \in UpTo(s, p) : FirstUpTo(s, p) <= j
<1>1. ASSUME UpTo(s, p) # {}
      PROVE  /\ Min(UpTo(s, p)) \in UpTo(s, p)
             /\ \A j \in UpTo(s, p) : Min(UpTo(s, p)) <= j
  <2>1. UpTo(s, p) \in SUBSET Nat
    BY DEF UpTo
  <2>2. \E i \in UpTo(s, p) : \A j \in UpTo(s, p) : i <= j
    BY <1>1, <2>1, NatMin
  <2>. QED BY <2>2 DEF Min
<1>2. 0 \notin UpTo(s, p)
  BY DEF UpTo
<1>. QED BY <1>1, <1>2 DEF FirstUpTo

\* What is left of the free list, and the page of it that takes the place of p.
FreeLeft(at) == PagesFrom(at.disk, at.free_num)
Target(at, p) == FreeLeft(at)[FirstUpTo(FreeLeft(at), p)]

\* One round of the loop moves page p to the first free page below it.
LEMMA RelocatedIs ==
  ASSUME NEW at, NEW p
  PROVE  Relocated(at, p) =
           IF at.disk[p].type = "FREE" THEN at
           ELSE IF FirstUpTo(FreeLeft(at), p) = 0 THEN [at EXCEPT !.free_num = 0]
           ELSE [disk |-> MovedDisk(at.disk, p, Target(at, p)),
                 schema |-> MovedSchema(at.disk, at.schema, p, Target(at, p)),
                 free_num |-> at.disk[Target(at, p)].next]
BY DEF Relocated, SelectInSeq, FirstUpTo, UpTo, FreeLeft, Target

\* It leaves a state of the loop.
LEMMA RelocatedType ==
  ASSUME NEW at \in Loop, NEW p \in Page
  PROVE  Relocated(at, p) \in Loop
<1>1. /\ at.disk \in [Page -> Header] /\ at.schema \in Schema /\ at.free_num \in PageNum
      /\ 0 \in PageNum /\ Page \subseteq PageNum
      /\ at = [disk |-> at.disk, schema |-> at.schema, free_num |-> at.free_num]
  BY ConstantFacts DEF Loop, Page, PageNum
<1>2. [at EXCEPT !.free_num = 0] \in Loop
  BY <1>1 DEF Loop
<1>3. ASSUME FirstUpTo(FreeLeft(at), p) # 0
      PROVE  [disk |-> MovedDisk(at.disk, p, Target(at, p)),
              schema |-> MovedSchema(at.disk, at.schema, p, Target(at, p)),
              free_num |-> at.disk[Target(at, p)].next] \in Loop
  <2>1. FreeLeft(at) \in Seq(Page)
    BY <1>1, PagesFromType DEF FreeLeft
  <2>2. Len(FreeLeft(at)) \in Nat
    BY <2>1, LenProperties
  <2>3. FirstUpTo(FreeLeft(at), p) \in 1 .. Len(FreeLeft(at))
    BY <1>3, <2>2, FirstUpToFacts DEF UpTo
  <2>4. PICK to \in Page : to = Target(at, p)
    BY <2>1, <2>3, ElementOfSeq DEF Target
  <2>5. at.disk[to].next \in PageNum /\ at.disk[p] \in Header
        /\ at.disk[p].next \in PageNum /\ at.disk[p].prev \in PageNum
    BY <1>1 DEF Header
  <2>6. MovedDisk(at.disk, p, to) \in [Page -> Header]
    <3>. DEFINE A == SetPrev(at.disk, at.disk[p].next, to)
                B == SetNext(A, at.disk[p].prev, to)
    <3>1. A \in [Page -> Header]
      BY <1>1, <2>5, SetPrevFacts
    <3>2. B \in [Page -> Header]
      <4>. HIDE DEF A
      <4>. QED BY <1>1, <2>5, <3>1, SetNextFacts
    <3>3. MovedDisk(at.disk, p, to) = [B EXCEPT ![to] = at.disk[p]]
      BY DEF MovedDisk
    <3>. HIDE DEF B
    <3>. QED BY <2>5, <3>2, <3>3
  <2>7. MovedSchema(at.disk, at.schema, p, to) \in Schema
    BY <1>1 DEF MovedSchema, Schema
  <2>. QED BY <2>4, <2>5, <2>6, <2>7 DEF Loop
<1>. QED BY <1>2, <1>3, RelocatedIs

\* The whole loop for the pages from m down, and the states it goes through.
Relocations(m, at) == FoldLeft(Relocated, at, [k \in 1 .. m |-> m + 1 - k])

Trace(m, at, t) ==
  /\ t[0] = at
  /\ \A k \in 1 .. m : t[k] = Relocated(t[k - 1], m + 1 - k)

\* The fold ends where they end.
LEMMA RelocationsTraced ==
  ASSUME NEW m \in 0 .. MaxPage, NEW at \in Loop
  PROVE  \E t \in [0 .. m -> Loop] : Trace(m, at, t) /\ Relocations(m, at) = t[m]
<1>0. m \in Nat /\ \A k \in 1 .. m : m + 1 - k \in Page /\ m + 1 - k \in 1 .. m
  BY ConstantFacts DEF Page
<1>1. PICK q : q = [k \in 1 .. m |-> m + 1 - k]
  OBVIOUS
<1>2. DOMAIN q = 1 .. m /\ \A k \in 1 .. m : q[k] = m + 1 - k /\ q[k] \in Page
  BY <1>0, <1>1
<1>. DEFINE Solves(w) ==
              w = [s \in SUBSET (1 .. m) |->
                     IF s = {} THEN at ELSE Relocated(w[s \ {Top(s)}], q[Top(s)])]
            w0 == CHOOSE w : Solves(w)
<1>3. FoldLeft(Relocated, at, q) = w0[1 .. m]
  BY <1>2 DEF FoldLeft, MapThenFoldSet, Max, Top
<1>4. PICK v \in [SUBSET (1 .. m) -> Loop] : Solves(v)
  <2>. DEFINE F == [k \in 1 .. m |-> [x \in Loop |-> Relocated(x, q[k])]]
  <2>1. F \in [1 .. m -> [Loop -> Loop]]
    BY <1>2, RelocatedType
  <2>2. PICK w \in [SUBSET (1 .. m) -> Loop] : FoldedLeft(m, at, F, w)
    <3>. HIDE DEF F
    <3>. QED BY <1>0, <2>1, FoldLeftExists
  <2>3. ASSUME NEW s \in SUBSET (1 .. m), s # {}
        PROVE  w[s] = Relocated(w[s \ {Top(s)}], q[Top(s)])
    <3>1. Top(s) \in 1 .. m /\ w[s \ {Top(s)}] \in Loop
      BY <1>0, <2>2, <2>3, TopFacts
    <3>2. w[s] = F[Top(s)][w[s \ {Top(s)}]]
      <4>. HIDE DEF F
      <4>. QED BY <2>2, <2>3 DEF FoldedLeft
    <3>. QED BY <3>1, <3>2
  <2>4. {} \in SUBSET (1 .. m) /\ w[{}] = at
    <3>. HIDE DEF F
    <3>. QED BY <2>2 DEF FoldedLeft
  <2>5. w = [s \in SUBSET (1 .. m) |-> w[s]]
    BY <2>2
  <2>6. Solves(w)
    BY <2>3, <2>4, <2>5
  <2>. QED BY <2>6
<1>5. \A s \in SUBSET (1 .. m) :
        w0[s] = IF s = {} THEN at ELSE Relocated(w0[s \ {Top(s)}], q[Top(s)])
  <2>1. Solves(w0)
    <3>. HIDE DEF Solves
    <3>. QED BY <1>4
  <2>. HIDE DEF w0
  <2>. QED BY <2>1
<1>. HIDE DEF w0
<1>6. ASSUME NEW k \in 1 .. m
      PROVE  w0[1 .. k] = Relocated(w0[1 .. k - 1], m + 1 - k)
  <2>1. 1 .. k \in SUBSET (1 .. m) /\ 1 .. k # {} /\ Top(1 .. k) = k
        /\ (1 .. k) \ {k} = 1 .. k - 1
    BY <1>0, TopFacts
  <2>2. w0[1 .. k] = Relocated(w0[(1 .. k) \ {Top(1 .. k)}], q[Top(1 .. k)])
    BY <1>5, <2>1
  <2>. QED BY <1>2, <2>1, <2>2
<1>7. w0[{}] = at
  BY <1>5
<1>. DEFINE t == [k \in 0 .. m |-> w0[1 .. k]]
<1>8. t[0] = at /\ \A k \in 1 .. m : t[k] = Relocated(t[k - 1], m + 1 - k)
  <2>1. 1 .. 0 = {} /\ 0 \in 0 .. m
    BY <1>0
  <2>2. \A k \in 1 .. m : k \in 0 .. m /\ k - 1 \in 0 .. m
    BY <1>0
  <2>. QED BY <1>6, <1>7, <2>1, <2>2
<1>9. t \in [0 .. m -> Loop]
  <2>. DEFINE T == {k \in 0 .. m : t[k] \notin Loop}
  <2>1. T = {}
    <3> SUFFICES ASSUME T # {} PROVE FALSE
      OBVIOUS
    <3>. HIDE DEF t
    <3>1. PICK k \in T : \A j \in T : k <= j
      <4>1. T \in SUBSET Nat
        OBVIOUS
      <4>. HIDE DEF T
      <4>. QED BY <4>1, NatMin
    <3>2. k \in 1 .. m /\ k - 1 \in 0 .. m /\ ~ (k <= k - 1)
      BY <1>0, <1>8, <3>1
    <3>3. t[k - 1] \in Loop
      BY <3>1, <3>2
    <3>4. t[k] \in Loop
      BY <1>0, <1>8, <3>2, <3>3, RelocatedType
    <3>. QED BY <3>1, <3>4
  <2>. QED BY <2>1
<1>10. Relocations(m, at) = t[m]
  <2>1. m \in 0 .. m
    BY <1>0
  <2>. QED BY <1>1, <1>3, <2>1 DEF Relocations
<1>. HIDE DEF t
<1>. QED BY <1>8, <1>9, <1>10 DEF Trace

\* The first round can be taken on its own.
LEMMA FirstRound ==
  ASSUME NEW m \in 1 .. MaxPage, NEW at \in Loop
  PROVE  Relocations(m, at) = Relocations(m - 1, Relocated(at, m))
<1>0. m \in Nat /\ m \in 0 .. MaxPage /\ m - 1 \in 0 .. MaxPage /\ m \in Page
  BY ConstantFacts DEF Page
<1>1. PICK t \in [0 .. m -> Loop] : Trace(m, at, t) /\ Relocations(m, at) = t[m]
  BY <1>0, RelocationsTraced
<1>2. PICK next \in Loop : next = Relocated(at, m)
  BY <1>0, RelocatedType
<1>3. PICK u \in [0 .. m - 1 -> Loop] :
        Trace(m - 1, next, u) /\ Relocations(m - 1, next) = u[m - 1]
  BY <1>0, RelocationsTraced
<1>. DEFINE T == {k \in 0 .. m - 1 : u[k] # t[k + 1]}
<1>4. T = {}
  <2> SUFFICES ASSUME T # {} PROVE FALSE
    OBVIOUS
  <2>1. PICK k \in T : \A j \in T : k <= j
    <3>1. T \in SUBSET Nat
      BY <1>0
    <3>. HIDE DEF T
    <3>. QED BY <3>1, NatMin
  <2>2. k \in 0 .. m - 1 /\ k + 1 \in 1 .. m
    BY <1>0, <2>1
  <2>3. t[k + 1] = Relocated(t[k], m - k)
    <3>1. (k + 1) - 1 = k /\ m + 1 - (k + 1) = m - k
      BY <1>0, <2>2
    <3>. QED BY <1>1, <2>2, <3>1 DEF Trace
  <2>4. CASE k = 0
    BY <1>0, <1>1, <1>2, <1>3, <2>1, <2>3, <2>4 DEF Trace
  <2>5. CASE k # 0
    <3>1. k \in 1 .. m - 1 /\ k - 1 \in 0 .. m - 1 /\ (m - 1) + 1 - k = m - k
          /\ ~ (k <= k - 1) /\ (k - 1) + 1 = k
      BY <1>0, <2>2, <2>5
    <3>2. k - 1 \notin T
      <4>. HIDE DEF T
      <4>. QED BY <2>1, <3>1
    <3>3. u[k - 1] = t[k]
      BY <3>1, <3>2
    <3>4. u[k] = Relocated(u[k - 1], m - k)
      BY <1>3, <3>1 DEF Trace
    <3>. QED BY <2>1, <2>3, <3>3, <3>4
  <2>. QED BY <2>4, <2>5
<1>5. m - 1 \in 0 .. m - 1 /\ (m - 1) + 1 = m
  BY <1>0
<1>. QED BY <1>1, <1>2, <1>3, <1>4, <1>5

\* Without a free page left, nothing moves any more.
LEMMA NothingMoves ==
  ASSUME NEW m \in 0 .. MaxPage, NEW at \in Loop, at.free_num = 0
  PROVE  Relocations(m, at) = at
<1>0. m \in Nat /\ m \in 0 .. m
  BY ConstantFacts
<1>1. \A p : Relocated(at, p) = at
  <2> SUFFICES ASSUME NEW p PROVE Relocated(at, p) = at
    OBVIOUS
  <2>1. FreeLeft(at) = <<>>
    <3>1. PICK w : /\ \A n \in 0 .. MaxPage + 1 : w[n] = Row(at.disk, w, n)
                   /\ \A h : PagesFrom(at.disk, h) = w[MaxPage + 1][h]
      BY PagesFromWalk
    <3>2. MaxPage + 1 \in 0 .. MaxPage + 1 /\ 0 \in PageNum
      BY ConstantFacts DEF PageNum
    <3>3. w[MaxPage + 1][0] = <<>>
      BY <3>1, <3>2 DEF Row
    <3>. QED BY <3>1, <3>3 DEF FreeLeft
  <2>2. FirstUpTo(FreeLeft(at), p) = 0
    BY <2>1 DEF FirstUpTo, UpTo
  <2>3. [at EXCEPT !.free_num = 0] = at
    BY DEF Loop
  <2>. QED BY <2>2, <2>3, RelocatedIs
<1>2. PICK t \in [0 .. m -> Loop] : Trace(m, at, t) /\ Relocations(m, at) = t[m]
  BY RelocationsTraced
<1>. DEFINE T == {k \in 0 .. m : t[k] # at}
<1>3. T = {}
  <2> SUFFICES ASSUME T # {} PROVE FALSE
    OBVIOUS
  <2>1. PICK k \in T : \A j \in T : k <= j
    <3>1. T \in SUBSET Nat
      BY <1>0
    <3>. HIDE DEF T
    <3>. QED BY <3>1, NatMin
  <2>2. k # 0
    BY <1>2, <2>1 DEF Trace
  <2>3. k \in 1 .. m /\ k - 1 \in 0 .. m /\ ~ (k <= k - 1)
    BY <1>0, <2>1, <2>2
  <2>4. t[k - 1] = at
    BY <2>1, <2>3
  <2>. QED BY <1>1, <1>2, <2>1, <2>3, <2>4 DEF Trace
<1>. QED BY <1>0, <1>2, <1>3
=============================================================================
