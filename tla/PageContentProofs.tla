-------------------------- MODULE PageContentProofs -------------------------
(***************************************************************************)
(* What following a list of pages finds, and how it changes when a page of *)
(* the list gets other records, is added, is taken out or is moved: facts  *)
(* about a file, for the proof that the page store implements RecordLists. *)
(***************************************************************************)
EXTENDS PageFileProofs, Bags

-----------------------------------------------------------------------------
(* The records of several pages, one page after the other.                 *)

\* t[k]: the records of the first k of n pages, of which the i-th has c[i].
Joined(n, c, t) ==
  /\ t \in [0 .. n -> Seq(Chunk)]
  /\ t[0] = <<>>
  /\ \A i \in 1 .. n : t[i] = t[i - 1] \o c[i]

\* All of them.
Total(n, c, recs) == \E t : Joined(n, c, t) /\ recs = t[n]

\* What is found when the list is followed.
LEMMA TotalFound ==
  ASSUME NEW d \in [Page -> Header], NEW n \in Nat, NEW s \in [1 .. n -> Page]
  PROVE  Total(n, [i \in 1 .. n |-> d[s[i]].chunks],
               FoldLeft(LAMBDA recs, p : recs \o d[p].chunks, <<>>, s))
<1>. DEFINE Solves(w) ==
              w = [x \in SUBSET (1 .. n) |->
                     IF x = {} THEN <<>> ELSE w[x \ {Top(x)}] \o d[s[Top(x)]].chunks]
            w0 == CHOOSE w : Solves(w)
<1>1. FoldLeft(LAMBDA recs, p : recs \o d[p].chunks, <<>>, s) = w0[1 .. n]
  <2>1. DOMAIN s = 1 .. n
    OBVIOUS
  <2>. QED BY <2>1 DEF FoldLeft, MapThenFoldSet, Max, Top
<1>2. \A i \in 1 .. n : d[s[i]].chunks \in Seq(Chunk)
  BY DEF Header
<1>3. PICK w \in [SUBSET (1 .. n) -> Seq(Chunk)] : Solves(w)
  <2>. DEFINE F == [i \in 1 .. n |-> [v \in Seq(Chunk) |-> v \o d[s[i]].chunks]]
  <2>1. F \in [1 .. n -> [Seq(Chunk) -> Seq(Chunk)]]
    BY <1>2, ConcatProperties
  <2>2. PICK w \in [SUBSET (1 .. n) -> Seq(Chunk)] : FoldedLeft(n, <<>>, F, w)
    <3>1. <<>> \in Seq(Chunk)
      OBVIOUS
    <3>. HIDE DEF F
    <3>. QED BY <2>1, <3>1, FoldLeftExists
  <2>3. ASSUME NEW x \in SUBSET (1 .. n), x # {}
        PROVE  w[x] = w[x \ {Top(x)}] \o d[s[Top(x)]].chunks
    <3>1. Top(x) \in 1 .. n /\ w[x \ {Top(x)}] \in Seq(Chunk)
      BY <2>2, <2>3, TopFacts
    <3>2. w[x] = F[Top(x)][w[x \ {Top(x)}]]
      <4>. HIDE DEF F
      <4>. QED BY <2>2, <2>3 DEF FoldedLeft
    <3>. QED BY <3>1, <3>2
  <2>4. {} \in SUBSET (1 .. n) /\ w[{}] = <<>>
    <3>. HIDE DEF F
    <3>. QED BY <2>2 DEF FoldedLeft
  <2>5. w = [x \in SUBSET (1 .. n) |-> w[x]]
    BY <2>2
  <2>6. Solves(w)
    BY <2>3, <2>4, <2>5
  <2>. QED BY <2>2, <2>6
<1>4. Solves(w0)
  <2>. HIDE DEF Solves
  <2>. QED BY <1>3
<1>5. \A x \in SUBSET (1 .. n) :
        w0[x] = IF x = {} THEN <<>> ELSE w0[x \ {Top(x)}] \o d[s[Top(x)]].chunks
  <2>. HIDE DEF w0
  <2>. QED BY <1>4
<1>. HIDE DEF w0
<1>6. ASSUME NEW k \in 1 .. n
      PROVE  w0[1 .. k] = w0[1 .. k - 1] \o d[s[k]].chunks
  <2>1. 1 .. k \in SUBSET (1 .. n) /\ 1 .. k # {} /\ Top(1 .. k) = k
        /\ (1 .. k) \ {k} = 1 .. k - 1
    BY TopFacts
  <2>. QED BY <1>5, <2>1, ZenonT(30)
<1>. DEFINE t == [k \in 0 .. n |-> w0[1 .. k]]
<1>7. w0[{}] = <<>> /\ 1 .. 0 = {}
  <2>1. {} \in SUBSET (1 .. n) /\ 1 .. 0 = {}
    OBVIOUS
  <2>. QED BY <1>5, <2>1
<1>8. \A k \in 0 .. n : w0[1 .. k] \in Seq(Chunk)
  <2>. DEFINE Bad(k) == w0[1 .. k] \notin Seq(Chunk)
              T == {k \in 0 .. n : Bad(k)}
  <2> SUFFICES ASSUME T # {} PROVE FALSE
    OBVIOUS
  <2>1. PICK k \in T : \A j \in T : k <= j
    <3>. HIDE DEF Bad
    <3>1. T \in SUBSET Nat
      OBVIOUS
    <3>. HIDE DEF T
    <3>. QED BY <3>1, NatMin
  <2>2. k # 0
    <3>1. w0[1 .. k] \notin Seq(Chunk) /\ <<>> \in Seq(Chunk)
      BY <2>1
    <3>. QED BY <1>7, <3>1
  <2>3. k \in 1 .. n /\ k - 1 \in 0 .. n /\ ~ (k <= k - 1)
    BY <2>1, <2>2
  <2>4. k - 1 \notin T
    <3>. HIDE DEF T
    <3>. QED BY <2>1, <2>3
  <2>5. w0[1 .. k - 1] \in Seq(Chunk)
    BY <2>3, <2>4
  <2>6. w0[1 .. k] \in Seq(Chunk)
    <3>1. d[s[k]].chunks \in Seq(Chunk) /\ w0[1 .. k] = w0[1 .. k - 1] \o d[s[k]].chunks
      BY <1>2, <1>6, <2>3
    <3>. QED BY <2>5, <3>1, ConcatProperties
  <2>. QED BY <2>1, <2>6
<1>9. t \in [0 .. n -> Seq(Chunk)] /\ t[0] = <<>> /\ t[n] = w0[1 .. n]
  BY <1>7, <1>8
<1>10. \A i \in 1 .. n : t[i] = t[i - 1] \o d[s[i]].chunks
  <2> SUFFICES ASSUME NEW i \in 1 .. n PROVE t[i] = t[i - 1] \o d[s[i]].chunks
    OBVIOUS
  <2>1. i \in 0 .. n /\ i - 1 \in 0 .. n
    OBVIOUS
  <2>2. t[i] = w0[1 .. i] /\ t[i - 1] = w0[1 .. i - 1]
    BY <2>1
  <2>. QED BY <1>6, <2>2
<1>. HIDE DEF t
<1>11. Joined(n, [i \in 1 .. n |-> d[s[i]].chunks], t)
  BY <1>9, <1>10 DEF Joined
<1>. QED BY <1>1, <1>9, <1>11 DEF Total

\* Sequences of records, one behind the other.
LEMMA Concatenated ==
  /\ \A x, y \in Seq(Chunk) : x \o y \in Seq(Chunk)
  /\ \A x \in Seq(Chunk) : x \o <<>> = x
  /\ \A x, y, z \in Seq(Chunk) : (x \o y) \o z = x \o (y \o z)
<1>1. ASSUME NEW x \in Seq(Chunk), NEW y \in Seq(Chunk) PROVE x \o y \in Seq(Chunk)
  BY ConcatProperties
<1>2. ASSUME NEW x \in Seq(Chunk) PROVE x \o <<>> = x
  BY ConcatEmptySeq
<1>3. ASSUME NEW x \in Seq(Chunk), NEW y \in Seq(Chunk), NEW z \in Seq(Chunk)
      PROVE  (x \o y) \o z = x \o (y \o z)
  BY ConcatAssociative
<1>. QED BY <1>1, <1>2, <1>3

\* Sequence r1 has A where r2 has B.
DifferIn(r1, A, r2, B) ==
  \E P, Q \in Seq(Chunk) : r1 = (P \o A) \o Q /\ r2 = (P \o B) \o Q

\* Of n pages, all but the j-th have the same records.
SameBut(n, j, c1, c2) ==
  /\ c1 \in [1 .. n -> Seq(Chunk)]
  /\ c2 \in [1 .. n -> Seq(Chunk)]
  /\ \A i \in 1 .. n : i # j => c1[i] = c2[i]

\* Then the records of that page stand between the same two sequences.
LEMMA TotalDiffers ==
  ASSUME NEW n \in Nat, NEW j \in 1 .. n, NEW c1, NEW c2, SameBut(n, j, c1, c2),
         NEW r1, NEW r2, Total(n, c1, r1), Total(n, c2, r2)
  PROVE  DifferIn(r1, c1[j], r2, c2[j])
<1>0. /\ c1 \in [1 .. n -> Seq(Chunk)] /\ c2 \in [1 .. n -> Seq(Chunk)]
      /\ \A i \in 1 .. n : i # j => c1[i] = c2[i]
  BY DEF SameBut
<1>1. PICK t1 : Joined(n, c1, t1) /\ r1 = t1[n]
  BY DEF Total
<1>2. PICK t2 : Joined(n, c2, t2) /\ r2 = t2[n]
  BY DEF Total
<1>. DEFINE P == t1[j - 1]
            Behind(m) == \E Q \in Seq(Chunk) :
                           t1[m] = (P \o c1[j]) \o Q /\ t2[m] = (P \o c2[j]) \o Q
            Bad(m) == ~ IF m < j THEN t1[m] = t2[m] ELSE Behind(m)
            T == {m \in 0 .. n : Bad(m)}
<1>3. /\ t1 \in [0 .. n -> Seq(Chunk)] /\ t1[0] = <<>>
      /\ \A i \in 1 .. n : t1[i] = t1[i - 1] \o c1[i]
      /\ t2 \in [0 .. n -> Seq(Chunk)] /\ t2[0] = <<>>
      /\ \A i \in 1 .. n : t2[i] = t2[i - 1] \o c2[i]
  BY <1>1, <1>2 DEF Joined
<1>4. T = {}
  <2> SUFFICES ASSUME T # {} PROVE FALSE
    OBVIOUS
  <2>. HIDE DEF Bad
  <2>1. PICK m \in T : \A i \in T : m <= i
    <3>1. T \in SUBSET Nat
      OBVIOUS
    <3>. HIDE DEF T
    <3>. QED BY <3>1, NatMin
  <2>2. m \in 0 .. n /\ Bad(m)
    BY <2>1
  <2>3. CASE m = 0
    <3>1. m < j
      BY <2>3
    <3>. QED BY <2>2, <2>3, <3>1, <1>3 DEF Bad
  <2>4. CASE m # 0
    <3>1. m \in 1 .. n /\ m - 1 \in 0 .. n /\ ~ (m <= m - 1)
      BY <2>2, <2>4
    <3>2. ~ Bad(m - 1)
      <4>1. m - 1 \notin T
        <5>. HIDE DEF T
        <5>. QED BY <2>1, <3>1
      <4>. QED BY <3>1, <4>1
    <3>3. t1[m] = t1[m - 1] \o c1[m] /\ t2[m] = t2[m - 1] \o c2[m]
      BY <1>3, <3>1
    <3>. HIDE DEF Behind
    <3>4. CASE m < j
      <4>1. m - 1 < j /\ m # j
        BY <3>1, <3>4
      <4>2. t1[m - 1] = t2[m - 1] /\ c1[m] = c2[m]
        BY <1>0, <3>1, <3>2, <4>1 DEF Bad
      <4>. QED BY <2>2, <3>3, <3>4, <4>2 DEF Bad
    <3>5. CASE m = j
      <4>1. m - 1 < j /\ ~ (m < j)
        BY <3>1, <3>5
      <4>2. t1[m - 1] = P /\ t2[m - 1] = P /\ P \in Seq(Chunk)
        BY <3>1, <3>2, <3>5, <4>1, <1>3 DEF Bad
      <4>3. /\ t1[m] = (P \o c1[j]) /\ t2[m] = P \o c2[j]
            /\ P \o c1[j] \in Seq(Chunk) /\ P \o c2[j] \in Seq(Chunk)
        <5>1. c1[j] \in Seq(Chunk) /\ c2[j] \in Seq(Chunk)
          BY <1>0
        <5>. HIDE DEF P
        <5>. QED BY <3>3, <3>5, <4>2, <5>1, ConcatProperties
      <4>4. t1[m] = (P \o c1[j]) \o <<>> /\ t2[m] = (P \o c2[j]) \o <<>>
        <5>. HIDE DEF P
        <5>. QED BY <4>3, ConcatEmptySeq
      <4>5. <<>> \in Seq(Chunk)
        OBVIOUS
      <4>6. Behind(m)
        BY <4>4, <4>5 DEF Behind
      <4>. QED BY <2>2, <4>1, <4>6 DEF Bad
    <3>6. CASE m > j
      <4>1. ~ (m - 1 < j) /\ ~ (m < j) /\ m # j
        BY <3>1, <3>6
      <4>2. PICK Q \in Seq(Chunk) :
              t1[m - 1] = (P \o c1[j]) \o Q /\ t2[m - 1] = (P \o c2[j]) \o Q
        BY <3>2, <4>1 DEF Bad, Behind
      <4>3. c1[m] = c2[m] /\ c1[m] \in Seq(Chunk)
        BY <1>0, <3>1, <4>1
      <4>4. P \in Seq(Chunk)
        BY <1>3
      <4>. HIDE DEF P
      <4>5. /\ P \o c1[j] \in Seq(Chunk) /\ P \o c2[j] \in Seq(Chunk)
            /\ Q \o c1[m] \in Seq(Chunk)
        <5>1. c1[j] \in Seq(Chunk) /\ c2[j] \in Seq(Chunk)
          BY <1>0
        <5>. QED BY <4>3, <4>4, <5>1, ConcatProperties
      <4>6. /\ t1[m] = (P \o c1[j]) \o (Q \o c1[m])
            /\ t2[m] = (P \o c2[j]) \o (Q \o c1[m])
        <5>1. PICK X, Y, y : X = P \o c1[j] /\ Y = P \o c2[j] /\ y = c1[m]
          OBVIOUS
        <5>2. X \in Seq(Chunk) /\ Y \in Seq(Chunk) /\ y \in Seq(Chunk)
          BY <4>2, <4>5, <5>1
        <5>3. \A x, z \in Seq(Chunk) : (x \o Q) \o z = x \o (Q \o z)
          BY Concatenated
        <5>4. (X \o Q) \o y = X \o (Q \o y)
          BY <5>2, <5>3
        <5>5. (Y \o Q) \o y = Y \o (Q \o y)
          BY <5>2, <5>3
        <5>. QED BY <3>3, <4>2, <4>3, <5>1, <5>4, <5>5
      <4>7. Behind(m)
        BY <4>5, <4>6 DEF Behind
      <4>. QED BY <2>2, <4>1, <4>7 DEF Bad
    <3>. QED BY <3>1, <3>4, <3>5, <3>6
  <2>. QED BY <2>3, <2>4
<1>5. Behind(n)
  <2>1. n \in 0 .. n /\ ~ (n < j)
    OBVIOUS
  <2>2. ~ Bad(n)
    <3>. HIDE DEF Bad
    <3>. QED BY <1>4, <2>1
  <2>. HIDE DEF Behind
  <2>. QED BY <2>1, <2>2
<1>6. P \in Seq(Chunk)
  BY <1>3
<1>. HIDE DEF P
<1>. QED BY <1>1, <1>2, <1>5, <1>6 DEF DifferIn

\* There is one sequence of all records.
LEMMA TotalUnique ==
  ASSUME NEW n \in Nat, NEW c \in [1 .. n -> Seq(Chunk)],
         NEW r1, NEW r2, Total(n, c, r1), Total(n, c, r2)
  PROVE  r1 = r2
<1>1. PICK t1 : Joined(n, c, t1) /\ r1 = t1[n]
  BY DEF Total
<1>2. PICK t2 : Joined(n, c, t2) /\ r2 = t2[n]
  BY DEF Total
<1>. DEFINE T == {m \in 0 .. n : t1[m] # t2[m]}
<1>3. T = {}
  <2> SUFFICES ASSUME T # {} PROVE FALSE
    OBVIOUS
  <2>1. PICK m \in T : \A i \in T : m <= i
    <3>1. T \in SUBSET Nat
      OBVIOUS
    <3>. HIDE DEF T
    <3>. QED BY <3>1, NatMin
  <2>2. m # 0
    BY <1>1, <1>2, <2>1 DEF Joined
  <2>3. m \in 1 .. n /\ m - 1 \in 0 .. n /\ ~ (m <= m - 1)
    BY <2>1, <2>2
  <2>4. m - 1 \notin T
    <3>. HIDE DEF T
    <3>. QED BY <2>1, <2>3
  <2>5. t1[m - 1] = t2[m - 1]
    BY <2>3, <2>4
  <2>. QED BY <1>1, <1>2, <2>1, <2>3, <2>5 DEF Joined
<1>4. n \in 0 .. n
  OBVIOUS
<1>. QED BY <1>1, <1>2, <1>3, <1>4

\* A page without records can as well be left out.
LeftOut(n, j, c, b) ==
  /\ c \in [1 .. n + 1 -> Seq(Chunk)]
  /\ c[j] = <<>>
  /\ b \in [1 .. n -> Seq(Chunk)]
  /\ \A i \in 1 .. n : b[i] = IF i < j THEN c[i] ELSE c[i + 1]

\* What is found is the same.
LEMMA TotalWithout ==
  ASSUME NEW n \in Nat, NEW j \in 1 .. n + 1, NEW c, NEW b, LeftOut(n, j, c, b),
         NEW recs, Total(n + 1, c, recs)
  PROVE  Total(n, b, recs)
<1>0. /\ c \in [1 .. n + 1 -> Seq(Chunk)] /\ c[j] = <<>>
      /\ b \in [1 .. n -> Seq(Chunk)]
      /\ \A i \in 1 .. n : b[i] = IF i < j THEN c[i] ELSE c[i + 1]
  BY DEF LeftOut
<1>1. PICK t : Joined(n + 1, c, t) /\ recs = t[n + 1]
  BY DEF Total
<1>2. /\ t \in [0 .. n + 1 -> Seq(Chunk)] /\ t[0] = <<>>
      /\ \A i \in 1 .. n + 1 : t[i] = t[i - 1] \o c[i]
  BY <1>1 DEF Joined
<1>3. t[j] = t[j - 1]
  <2>1. j - 1 \in 0 .. n + 1 /\ t[j - 1] \in Seq(Chunk)
    BY <1>2
  <2>. QED BY <1>0, <1>2, <2>1, ConcatEmptySeq
<1>. DEFINE u == [i \in 0 .. n |-> IF i < j THEN t[i] ELSE t[i + 1]]
<1>4. \A i \in 0 .. n : u[i] = IF i < j THEN t[i] ELSE t[i + 1]
  OBVIOUS
<1>5. u \in [0 .. n -> Seq(Chunk)] /\ u[0] = <<>>
  <2>1. \A i \in 0 .. n : i \in 0 .. n + 1 /\ i + 1 \in 0 .. n + 1
    OBVIOUS
  <2>2. 0 \in 0 .. n /\ 0 < j
    OBVIOUS
  <2>. QED BY <1>2, <2>1, <2>2
<1>. HIDE DEF u
<1>6. ASSUME NEW i \in 1 .. n PROVE u[i] = u[i - 1] \o b[i]
  <2>1. /\ i \in 0 .. n /\ i - 1 \in 0 .. n /\ i \in 1 .. n + 1 /\ i + 1 \in 1 .. n + 1
        /\ (i + 1) - 1 = i /\ (i - 1) + 1 = i
    OBVIOUS
  <2>2. CASE i < j
    <3>1. i - 1 < j
      BY <2>2
    <3>2. u[i] = t[i] /\ u[i - 1] = t[i - 1] /\ b[i] = c[i]
      BY <1>0, <1>4, <2>1, <2>2, <3>1
    <3>. QED BY <1>2, <2>1, <3>2
  <2>3. CASE ~ (i < j)
    <3>1. u[i] = t[i + 1] /\ b[i] = c[i + 1]
      BY <1>0, <1>4, <2>1, <2>3
    <3>2. u[i - 1] = t[i]
      <4>1. CASE i = j
        <5>1. i - 1 < j
          BY <4>1
        <5>. QED BY <1>3, <1>4, <2>1, <4>1, <5>1
      <4>2. CASE i # j
        <5>1. ~ (i - 1 < j)
          BY <2>3, <4>2
        <5>. QED BY <1>4, <2>1, <5>1
      <4>. QED BY <4>1, <4>2
    <3>3. t[i + 1] = t[i] \o c[i + 1]
      BY <1>2, <2>1
    <3>. QED BY <3>1, <3>2, <3>3
  <2>. QED BY <2>2, <2>3
<1>7. u[n] = t[n + 1]
  <2>1. n \in 0 .. n
    OBVIOUS
  <2>2. CASE j = n + 1
    <3>1. n < j /\ j - 1 = n
      BY <2>2
    <3>2. u[n] = t[n]
      BY <1>4, <2>1, <3>1
    <3>. QED BY <1>3, <2>2, <3>1, <3>2
  <2>3. CASE j # n + 1
    <3>1. ~ (n < j)
      BY <2>3
    <3>. QED BY <1>4, <2>1, <3>1
  <2>. QED BY <2>2, <2>3
<1>. QED BY <1>1, <1>5, <1>6, <1>7 DEF Total, Joined

-----------------------------------------------------------------------------
(* One record more, less or other in a sequence.                           *)

\* A sequence between two others: its length, and what is where.
LEMMA Between ==
  ASSUME NEW P \in Seq(Chunk), NEW A \in Seq(Chunk), NEW Q \in Seq(Chunk),
         NEW r, r = (P \o A) \o Q
  PROVE  /\ r \in Seq(Chunk)
         /\ Len(r) = Len(P) + Len(A) + Len(Q)
         /\ \A i \in 1 .. Len(P) : r[i] = P[i]
         /\ \A i \in 1 .. Len(A) : r[Len(P) + i] = A[i]
         /\ \A i \in 1 .. Len(Q) : r[Len(P) + Len(A) + i] = Q[i]
<1>1. PICK p, a, q : p = Len(P) /\ a = Len(A) /\ q = Len(Q)
  OBVIOUS
<1>2. p \in Nat /\ a \in Nat /\ q \in Nat
  BY <1>1
<1>3. PICK t : t = P \o A
  OBVIOUS
<1>4. /\ t \in Seq(Chunk) /\ Len(t) = p + a
      /\ \A i \in 1 .. p + a : t[i] = IF i <= p THEN P[i] ELSE A[i - p]
  BY <1>1, <1>3, ConcatProperties
<1>5. /\ r \in Seq(Chunk) /\ Len(r) = p + a + q
      /\ \A i \in 1 .. p + a + q : r[i] = IF i <= p + a THEN t[i] ELSE Q[i - (p + a)]
  BY <1>1, <1>3, <1>4, ConcatProperties
<1>6. ASSUME NEW i \in 1 .. p PROVE r[i] = P[i]
  <2>1. i \in 1 .. p + a /\ i \in 1 .. p + a + q /\ i <= p /\ i <= p + a
    BY <1>2
  <2>. QED BY <1>4, <1>5, <2>1
<1>7. ASSUME NEW i \in 1 .. a PROVE r[p + i] = A[i]
  <2>1. /\ p + i \in 1 .. p + a /\ p + i \in 1 .. p + a + q /\ ~ (p + i <= p)
        /\ p + i <= p + a /\ (p + i) - p = i
    BY <1>2
  <2>. QED BY <1>4, <1>5, <2>1
<1>8. ASSUME NEW i \in 1 .. q PROVE r[p + a + i] = Q[i]
  <2>1. /\ p + a + i \in 1 .. p + a + q /\ ~ (p + a + i <= p + a)
        /\ (p + a + i) - (p + a) = i
    BY <1>2
  <2>. QED BY <1>5, <2>1
<1>. QED BY <1>1, <1>5, <1>6, <1>7, <1>8

\* A record is taken out of the middle one of three sequences.
LEMMA OneTaken ==
  ASSUME NEW A \in Seq(Chunk), NEW i \in 1 .. Len(A), NEW B, B = RemoveAt(A, i),
         NEW r1, NEW r2, DifferIn(r1, B, r2, A)
  PROVE  \E k \in DOMAIN r2 : r2[k] = A[i] /\ r1 = RemoveAt(r2, k)
<1>1. PICK P \in Seq(Chunk), Q \in Seq(Chunk) :
        r1 = (P \o B) \o Q /\ r2 = (P \o A) \o Q
  BY DEF DifferIn
<1>2. PICK p, a, q : p = Len(P) /\ a = Len(A) /\ q = Len(Q)
  OBVIOUS
<1>3. p \in Nat /\ a \in Nat /\ q \in Nat /\ i \in 1 .. a
  BY <1>2
<1>4. /\ B \in Seq(Chunk) /\ Len(B) = a - 1
      /\ \A j \in 1 .. a - 1 : B[j] = IF j < i THEN A[j] ELSE A[j + 1]
  BY <1>2, RemoveAtFacts
<1>5. /\ r2 \in Seq(Chunk) /\ Len(r2) = p + a + q
      /\ \A j \in 1 .. p : r2[j] = P[j]
      /\ \A j \in 1 .. a : r2[p + j] = A[j]
      /\ \A j \in 1 .. q : r2[p + a + j] = Q[j]
  BY <1>1, <1>2, Between
<1>6. /\ r1 \in Seq(Chunk) /\ Len(r1) = p + (a - 1) + q
      /\ \A j \in 1 .. p : r1[j] = P[j]
      /\ \A j \in 1 .. a - 1 : r1[p + j] = B[j]
      /\ \A j \in 1 .. q : r1[p + (a - 1) + j] = Q[j]
  <2>1. PICK b : b = Len(B)
    OBVIOUS
  <2>2. /\ r1 \in Seq(Chunk) /\ Len(r1) = p + b + q
        /\ \A j \in 1 .. p : r1[j] = P[j]
        /\ \A j \in 1 .. b : r1[p + j] = B[j]
        /\ \A j \in 1 .. q : r1[p + b + j] = Q[j]
    <3>1. B \in Seq(Chunk) /\ r1 = (P \o B) \o Q
      BY <1>1, <1>4
    <3>. QED BY <1>2, <2>1, <3>1, Between
  <2>3. b = a - 1
    BY <1>4, <2>1
  <2>. QED BY <2>2, <2>3
<1>7. PICK k : k = p + i
  OBVIOUS
<1>8. k \in 1 .. Len(r2) /\ k \in DOMAIN r2 /\ r2[k] = A[i]
  BY <1>3, <1>5, <1>7
<1>9. PICK r : r = RemoveAt(r2, k)
  OBVIOUS
<1>10. /\ r \in Seq(Chunk) /\ Len(r) = p + a + q - 1
       /\ \A j \in 1 .. p + a + q - 1 : r[j] = IF j < k THEN r2[j] ELSE r2[j + 1]
  <2>1. PICK m : m = Len(r2)
    OBVIOUS
  <2>2. /\ r \in Seq(Chunk) /\ Len(r) = m - 1
        /\ \A j \in 1 .. m - 1 : r[j] = IF j < k THEN r2[j] ELSE r2[j + 1]
    BY <1>5, <1>8, <1>9, <2>1, RemoveAtFacts
  <2>3. m - 1 = p + a + q - 1
    BY <1>3, <1>5, <2>1
  <2>. QED BY <2>2, <2>3
<1>11. Len(r1) = Len(r) /\ Len(r) = p + a + q - 1
  BY <1>3, <1>6, <1>10
<1>12. ASSUME NEW j \in 1 .. Len(r) PROVE r1[j] = r[j]
  <2>0. j \in 1 .. p + a + q - 1 /\ j \in Int
    BY <1>11
  <2>1. CASE j <= p
    <3>1. j \in 1 .. p /\ j < k
      BY <1>3, <1>7, <2>0, <2>1
    <3>. QED BY <1>5, <1>6, <1>10, <2>0, <3>1
  <2>2. CASE p < j /\ j <= p + (a - 1)
    <3>1. PICK m : m = j - p
      OBVIOUS
    <3>2. /\ m \in 1 .. a - 1 /\ m \in 1 .. a /\ m + 1 \in 1 .. a
          /\ j = p + m /\ j + 1 = p + (m + 1) /\ (j < k <=> m < i)
      BY <1>3, <1>7, <2>0, <2>2, <3>1
    <3>3. r1[j] = B[m] /\ r2[j] = A[m] /\ r2[j + 1] = A[m + 1]
      BY <1>5, <1>6, <3>2
    <3>4. B[m] = IF m < i THEN A[m] ELSE A[m + 1]
      BY <1>4, <3>2
    <3>. QED BY <1>10, <2>0, <3>2, <3>3, <3>4
  <2>3. CASE p + (a - 1) < j
    <3>1. PICK m : m = j - (p + (a - 1))
      OBVIOUS
    <3>2. /\ m \in 1 .. q /\ j = p + (a - 1) + m /\ j + 1 = p + a + m /\ ~ (j < k)
      BY <1>3, <1>7, <2>0, <2>3, <3>1
    <3>3. r1[j] = Q[m] /\ r2[j + 1] = Q[m]
      BY <1>5, <1>6, <3>2
    <3>. QED BY <1>10, <2>0, <3>2, <3>3
  <2>. QED BY <1>3, <2>0, <2>1, <2>2, <2>3
<1>13. r1 = r
  BY <1>6, <1>10, <1>11, <1>12, SeqEqual
<1>. QED BY <1>8, <1>9, <1>13

\* A record of the middle one of three sequences is replaced.
LEMMA OneReplaced ==
  ASSUME NEW A \in Seq(Chunk), NEW i \in 1 .. Len(A), NEW c \in Chunk,
         NEW B, B = [A EXCEPT ![i] = c],
         NEW r1, NEW r2, DifferIn(r1, A, r2, B)
  PROVE  \E k \in DOMAIN r1 : r2 = [r1 EXCEPT ![k] = c]
<1>1. PICK P \in Seq(Chunk), Q \in Seq(Chunk) :
        r1 = (P \o A) \o Q /\ r2 = (P \o B) \o Q
  BY DEF DifferIn
<1>2. PICK p, a, q : p = Len(P) /\ a = Len(A) /\ q = Len(Q)
  OBVIOUS
<1>3. p \in Nat /\ a \in Nat /\ q \in Nat /\ i \in 1 .. a
  BY <1>2
<1>4. /\ B \in Seq(Chunk) /\ Len(B) = a
      /\ \A j \in 1 .. a : B[j] = IF j = i THEN c ELSE A[j]
  BY <1>2, ExceptSeq
<1>5. /\ r1 \in Seq(Chunk) /\ Len(r1) = p + a + q
      /\ \A j \in 1 .. p : r1[j] = P[j]
      /\ \A j \in 1 .. a : r1[p + j] = A[j]
      /\ \A j \in 1 .. q : r1[p + a + j] = Q[j]
  BY <1>1, <1>2, Between
<1>6. /\ r2 \in Seq(Chunk) /\ Len(r2) = p + a + q
      /\ \A j \in 1 .. p : r2[j] = P[j]
      /\ \A j \in 1 .. a : r2[p + j] = B[j]
      /\ \A j \in 1 .. q : r2[p + a + j] = Q[j]
  BY <1>1, <1>2, <1>4, Between
<1>7. PICK k : k = p + i
  OBVIOUS
<1>8. k \in 1 .. Len(r1) /\ k \in DOMAIN r1
  BY <1>3, <1>5, <1>7
<1>9. PICK r : r = [r1 EXCEPT ![k] = c]
  OBVIOUS
<1>10. /\ r \in Seq(Chunk) /\ Len(r) = p + a + q
       /\ \A j \in 1 .. p + a + q : r[j] = IF j = k THEN c ELSE r1[j]
  BY <1>5, <1>8, <1>9, ExceptSeq
<1>12. ASSUME NEW j \in 1 .. Len(r) PROVE r2[j] = r[j]
  <2>0. j \in 1 .. p + a + q /\ j \in Int
    BY <1>10
  <2>1. CASE j <= p
    <3>1. j \in 1 .. p /\ j # k
      BY <1>3, <1>7, <2>0, <2>1
    <3>. QED BY <1>5, <1>6, <1>10, <2>0, <3>1
  <2>2. CASE p < j /\ j <= p + a
    <3>1. PICK m : m = j - p
      OBVIOUS
    <3>2. m \in 1 .. a /\ j = p + m /\ (j = k <=> m = i)
      BY <1>3, <1>7, <2>0, <2>2, <3>1
    <3>3. r2[j] = B[m] /\ r1[j] = A[m]
      BY <1>5, <1>6, <3>2
    <3>4. B[m] = IF m = i THEN c ELSE A[m]
      BY <1>4, <3>2
    <3>. QED BY <1>10, <2>0, <3>2, <3>3, <3>4
  <2>3. CASE p + a < j
    <3>1. PICK m : m = j - (p + a)
      OBVIOUS
    <3>2. m \in 1 .. q /\ j = p + a + m /\ j # k
      BY <1>3, <1>7, <2>0, <2>3, <3>1
    <3>3. r2[j] = Q[m] /\ r1[j] = Q[m]
      BY <1>5, <1>6, <3>2
    <3>. QED BY <1>10, <2>0, <3>2, <3>3
  <2>. QED BY <1>3, <2>0, <2>1, <2>2, <2>3
<1>13. r2 = r
  <2>1. Len(r2) = Len(r)
    BY <1>6, <1>10
  <2>. QED BY <1>6, <1>10, <1>12, <2>1, SeqEqual
<1>. QED BY <1>8, <1>9, <1>13

\* The record added last, taken out.
LEMMA AppendTaken ==
  ASSUME NEW A \in Seq(Chunk), NEW c \in Chunk, NEW B, B = Append(A, c)
  PROVE  /\ B \in Seq(Chunk)
         /\ Len(A) + 1 \in 1 .. Len(B)
         /\ B[Len(A) + 1] = c
         /\ A = RemoveAt(B, Len(A) + 1)
<1>1. PICK a : a = Len(A) /\ a \in Nat
  OBVIOUS
<1>2. /\ B \in Seq(Chunk) /\ Len(B) = a + 1 /\ B[a + 1] = c
      /\ \A i \in 1 .. a : B[i] = A[i]
  BY <1>1, AppendProperties
<1>3. PICK R : R = RemoveAt(B, a + 1)
  OBVIOUS
<1>4. a + 1 \in 1 .. Len(B)
  BY <1>1, <1>2
<1>5. /\ R \in Seq(Chunk) /\ Len(R) = (a + 1) - 1
      /\ \A j \in 1 .. (a + 1) - 1 : R[j] = IF j < a + 1 THEN B[j] ELSE B[j + 1]
  BY <1>2, <1>3, <1>4, RemoveAtFacts
<1>6. Len(R) = a /\ \A j \in 1 .. a : R[j] = A[j]
  BY <1>1, <1>2, <1>5
<1>7. A = R
  BY <1>1, <1>5, <1>6, SeqEqual
<1>. QED BY <1>1, <1>2, <1>3, <1>4, <1>7

\* A list of one record, taken out.
LEMMA OnlyOne ==
  ASSUME NEW c \in Chunk
  PROVE  /\ <<c>> \in Seq(Chunk) /\ 1 \in 1 .. Len(<<c>>) /\ <<c>>[1] = c
         /\ <<>> = RemoveAt(<<c>>, 1)
<1>1. PICK A, B : A = <<>> /\ B = Append(<<>>, c)
  OBVIOUS
<1>2. A \in Seq(Chunk) /\ B = Append(A, c) /\ Len(A) + 1 = 1
  BY <1>1
<1>3. /\ B \in Seq(Chunk) /\ Len(A) + 1 \in 1 .. Len(B)
      /\ B[Len(A) + 1] = c /\ A = RemoveAt(B, Len(A) + 1)
  BY <1>2, AppendTaken
<1>4. B = <<c>>
  BY <1>1
<1>. QED BY <1>1, <1>2, <1>3, <1>4

-----------------------------------------------------------------------------
(* A bag of lists.                                                         *)

\* The bag of what C gives for the members of H.
Gathered(C, H) ==
  [l \in {C[h] : h \in H} |-> Cardinality({h \in H : C[h] = l})]

\* One member more is one list more.
LEMMA GatheredPlus ==
  ASSUME NEW H, IsFiniteSet(H), NEW C, NEW a, a \notin H
  PROVE  Gathered(C, H \cup {a}) = Gathered(C, H) (+) SetToBag({C[a]})
<1>. DEFINE K == H \cup {a}
            on(l) == {h \in H : C[h] = l}
            Sum(l) == (IF l \in DOMAIN Gathered(C, H) THEN Gathered(C, H)[l] ELSE 0)
                      + (IF l \in DOMAIN SetToBag({C[a]}) THEN SetToBag({C[a]})[l] ELSE 0)
<1>1. /\ DOMAIN Gathered(C, H) = {C[h] : h \in H}
      /\ DOMAIN SetToBag({C[a]}) = {C[a]}
      /\ SetToBag({C[a]})[C[a]] = 1
  BY DEF Gathered, SetToBag
<1>2. \A l : IsFiniteSet(on(l)) /\ Cardinality(on(l)) \in Nat
  <2> SUFFICES ASSUME NEW l PROVE IsFiniteSet(on(l)) /\ Cardinality(on(l)) \in Nat
    OBVIOUS
  <2>1. on(l) \in SUBSET H
    OBVIOUS
  <2>. HIDE DEF on
  <2>. QED BY <2>1, FS_Subset, FS_CardinalityType
<1>3. \A l \in {C[h] : h \in H} : Gathered(C, H)[l] = Cardinality(on(l))
  BY DEF Gathered
<1>4. \A l \in {C[h] : h \in K} :
        Cardinality({h \in K : C[h] = l}) = Sum(l)
  <2> SUFFICES ASSUME NEW l \in {C[h] : h \in K}
               PROVE  Cardinality({h \in K : C[h] = l}) = Sum(l)
    OBVIOUS
  <2>0. l \notin {C[h] : h \in H} => Cardinality(on(l)) = 0
    <3>1. l \notin {C[h] : h \in H} => on(l) = {}
      OBVIOUS
    <3>. HIDE DEF on
    <3>. QED BY <3>1, FS_EmptySet
  <2>1. CASE l = C[a]
    <3>1. {h \in K : C[h] = l} = on(l) \cup {a} /\ a \notin on(l)
      BY <2>1
    <3>. HIDE DEF on
    <3>2. Cardinality(on(l) \cup {a}) = Cardinality(on(l)) + 1
      BY <1>2, <3>1, FS_AddElement
    <3>3. Cardinality(on(l)) + 1 = Sum(l)
      BY <1>1, <1>2, <1>3, <2>0, <2>1
    <3>. QED BY <3>1, <3>2, <3>3
  <2>2. CASE l # C[a]
    <3>1. {h \in K : C[h] = l} = on(l) /\ l \in {C[h] : h \in H}
      BY <2>2
    <3>. HIDE DEF on
    <3>2. Cardinality(on(l)) = Sum(l)
      BY <1>1, <1>2, <1>3, <2>2, <3>1
    <3>. QED BY <3>1, <3>2
  <2>. QED BY <2>1, <2>2
<1>5. {C[h] : h \in K} = DOMAIN Gathered(C, H) \cup DOMAIN SetToBag({C[a]})
  BY <1>1
<1>6. Gathered(C, K) = [l \in {C[h] : h \in K} |-> Sum(l)]
  <2>. HIDE DEF Sum
  <2>. QED BY <1>4 DEF Gathered
<1>. QED BY <1>5, <1>6 DEF (+)

\* The lists of a bag occur in it.
GatheredBag(B) == B \in [DOMAIN B -> Nat \ {0}]

\* It is a bag of the contents.
LEMMA GatheredType ==
  ASSUME NEW H, IsFiniteSet(H), NEW C
  PROVE  GatheredBag(Gathered(C, H)) /\ DOMAIN Gathered(C, H) = {C[h] : h \in H}
<1>1. DOMAIN Gathered(C, H) = {C[h] : h \in H}
  BY DEF Gathered
<1>2. ASSUME NEW a \in H
      PROVE  Cardinality({h \in H : C[h] = C[a]}) \in Nat \ {0}
  <2>. DEFINE on == {h \in H : C[h] = C[a]}
  <2>1. on \in SUBSET H /\ a \in on
    OBVIOUS
  <2>. HIDE DEF on
  <2>2. IsFiniteSet(on) /\ Cardinality(on) \in Nat
    BY <2>1, FS_Subset, FS_CardinalityType
  <2>3. Cardinality(on) # 0
    BY <2>1, <2>2, FS_EmptySet
  <2>. QED BY <2>2, <2>3 DEF on
<1>3. \A l \in {C[h] : h \in H} : Gathered(C, H)[l] \in Nat \ {0}
  BY <1>2 DEF Gathered
<1>4. Gathered(C, H) = [l \in {C[h] : h \in H} |-> Gathered(C, H)[l]]
  BY DEF Gathered
<1>. QED BY <1>1, <1>3, <1>4 DEF GatheredBag

\* What was put into a bag can be taken out again.
LEMMA TakenOut ==
  ASSUME NEW B, GatheredBag(B), NEW l
  PROVE  (B (+) SetToBag({l})) (-) SetToBag({l}) = B
<1>. DEFINE S == SetToBag({l})
            P == B (+) S
            M == [e \in DOMAIN P |-> IF e \in DOMAIN S THEN P[e] - S[e] ELSE P[e]]
<1>1. DOMAIN S = {l} /\ S[l] = 1
  BY DEF SetToBag
<1>2. \A e \in DOMAIN B : B[e] \in Nat \ {0}
  BY DEF GatheredBag
<1>3. B = [e \in DOMAIN B |-> B[e]]
  BY DEF GatheredBag
<1>4. /\ DOMAIN P = DOMAIN B \cup {l}
      /\ \A e \in DOMAIN P :
           P[e] = (IF e \in DOMAIN B THEN B[e] ELSE 0) + (IF e \in DOMAIN S THEN S[e] ELSE 0)
  <2>. HIDE DEF S
  <2>. QED BY <1>1 DEF (+)
<1>. HIDE DEF S, P
<1>5. \A e \in DOMAIN P : M[e] = IF e \in DOMAIN B THEN B[e] ELSE 0
  <2> SUFFICES ASSUME NEW e \in DOMAIN P
               PROVE  M[e] = IF e \in DOMAIN B THEN B[e] ELSE 0
    OBVIOUS
  <2>1. M[e] = IF e \in DOMAIN S THEN P[e] - S[e] ELSE P[e]
    OBVIOUS
  <2>. HIDE DEF M
  <2>. QED BY <1>1, <1>2, <1>4, <2>1
<1>6. DOMAIN M = DOMAIN P
  OBVIOUS
<1>7. P (-) S = [e \in {e \in DOMAIN M : M[e] > 0} |-> M[e]]
  BY DEF (-)
<1>. HIDE DEF M
<1>8. {e \in DOMAIN M : M[e] > 0} = DOMAIN B
  BY <1>2, <1>4, <1>5, <1>6
<1>9. [e \in {e \in DOMAIN M : M[e] > 0} |-> M[e]] = [e \in DOMAIN B |-> B[e]]
  BY <1>4, <1>5, <1>8
<1>. QED BY <1>3, <1>7, <1>9 DEF P, S

\* Of R, C and D give the same.
SameOn(R, C, D) == \A h \in R : D[h] = C[h]

\* Nothing else matters.
LEMMA GatheredSame ==
  ASSUME NEW C, NEW D, NEW R, SameOn(R, C, D)
  PROVE  Gathered(D, R) = Gathered(C, R)
<1>. USE DEF SameOn
<1>1. {D[h] : h \in R} = {C[h] : h \in R}
  OBVIOUS
<1>2. \A l : {h \in R : D[h] = l} = {h \in R : C[h] = l}
  OBVIOUS
<1>. QED BY <1>1, <1>2 DEF Gathered

\* A list is begun, or ended.
LEMMA OneMoreList ==
  ASSUME NEW C, NEW D, NEW R, IsFiniteSet(R), SameOn(R, C, D), NEW b, b \notin R,
         NEW A, A = Gathered(C, R), NEW B, B = Gathered(D, R \cup {b})
  PROVE  /\ B = A (+) SetToBag({D[b]})
         /\ A = B (-) SetToBag({D[b]})
         /\ BagIn(D[b], B)
<1>1. Gathered(D, R) = Gathered(C, R)
  BY GatheredSame
<1>2. B = A (+) SetToBag({D[b]})
  BY <1>1, GatheredPlus
<1>3. B (-) SetToBag({D[b]}) = A
  <2>1. PICK l : l = D[b]
    OBVIOUS
  <2>2. GatheredBag(A)
    BY GatheredType
  <2>3. (A (+) SetToBag({l})) (-) SetToBag({l}) = A
    BY <2>2, TakenOut
  <2>. QED BY <1>2, <2>1, <2>3
<1>4. BagIn(D[b], B)
  BY DEF Gathered, BagToSet, BagIn
<1>. QED BY <1>2, <1>3, <1>4

-----------------------------------------------------------------------------
(* What is on a list.                                                      *)

\* What `find` meets when it follows the list from page h of file d.
ContentIn(d, h) ==
  [kind |-> d[h].type,
   recs |-> FoldLeft(LAMBDA recs, p : recs \o d[p].chunks, <<>>, PagesFrom(d, h))]

\* The same, of every page.
Contents(d) == [h \in Page |-> ContentIn(d, h)]

\* The bag that ListBag computes, of file d and its heads H.
ListBagIn(d, H) ==
  FoldSet(LAMBDA h, bag : bag (+) SetToBag({ContentIn(d, h)}), EmptyBag, H)

\* It does not depend on the order in which the heads are taken.
LEMMA ListBagGathers ==
  ASSUME NEW d, NEW H \in SUBSET Page, IsFiniteSet(H)
  PROVE  ListBagIn(d, H) = Gathered(Contents(d), H)
<1>. DEFINE C == Contents(d)
            Solves(w) == w = [s \in SUBSET H |->
                               IF s = {} THEN EmptyBag
                               ELSE w[s \ {CHOOSE x \in s : TRUE}]
                                      (+) SetToBag({ContentIn(d, CHOOSE x \in s : TRUE)})]
            w0 == CHOOSE w : Solves(w)
            g == [s \in SUBSET H |-> Gathered(C, s)]
<1>0. \A h \in H : C[h] = ContentIn(d, h)
  BY DEF Contents
<1>1. ListBagIn(d, H) = w0[H]
  BY DEF ListBagIn, FoldSet, MapThenFoldSet
<1>. HIDE DEF C
<1>2. ASSUME NEW s \in SUBSET H, s # {}, NEW x, x = CHOOSE y \in s : TRUE
      PROVE  Gathered(C, s) = Gathered(C, s \ {x}) (+) SetToBag({ContentIn(d, x)})
  <2>1. x \in s /\ s = (s \ {x}) \cup {x} /\ x \notin s \ {x}
    BY <1>2
  <2>2. IsFiniteSet(s \ {x})
    BY <1>2, FS_Subset
  <2>3. PICK t : t = s \ {x}
    OBVIOUS
  <2>4. Gathered(C, t \cup {x}) = Gathered(C, t) (+) SetToBag({C[x]})
    BY <2>1, <2>2, <2>3, GatheredPlus, ZenonT(30)
  <2>. QED BY <1>0, <2>1, <2>3, <2>4
<1>3. Gathered(C, {}) = EmptyBag
  <2>1. {C[h] : h \in {}} = {}
    OBVIOUS
  <2>2. Gathered(C, {}) = [l \in {} |-> Cardinality({h \in {} : C[h] = l})]
    BY <2>1 DEF Gathered
  <2>. QED BY <2>2 DEF EmptyBag, SetToBag
<1>4. Solves(g)
  <2>1. ASSUME NEW s \in SUBSET H
        PROVE  g[s] = IF s = {} THEN EmptyBag
                      ELSE g[s \ {CHOOSE x \in s : TRUE}]
                             (+) SetToBag({ContentIn(d, CHOOSE x \in s : TRUE)})
    <3>1. CASE s = {}
      BY <1>3, <3>1
    <3>2. CASE s # {}
      <4>1. PICK x : x = CHOOSE y \in s : TRUE
        OBVIOUS
      <4>2. g[s] = Gathered(C, s) /\ g[s \ {x}] = Gathered(C, s \ {x})
        OBVIOUS
      <4>. QED BY <1>2, <3>2, <4>1, <4>2
    <3>. QED BY <3>1, <3>2
  <2>2. g = [s \in SUBSET H |-> g[s]]
    OBVIOUS
  <2>. HIDE DEF g
  <2>. QED BY <2>1, <2>2
<1>5. Solves(w0)
  <2>. HIDE DEF Solves, g
  <2>. QED BY <1>4
<1>6. \A s \in SUBSET H :
        w0[s] = IF s = {} THEN EmptyBag
                ELSE w0[s \ {CHOOSE x \in s : TRUE}]
                       (+) SetToBag({ContentIn(d, CHOOSE x \in s : TRUE)})
  <2>. HIDE DEF w0
  <2>. QED BY <1>5
<1>. HIDE DEF w0
<1>7. w0[H] = Gathered(C, H)
  <2>. DEFINE Bad(s) == w0[s] # Gathered(C, s)
              T == {Cardinality(s) : s \in {s \in SUBSET H : Bad(s)}}
  <2>. HIDE DEF Bad
  <2>0. \A s \in SUBSET H : IsFiniteSet(s) /\ Cardinality(s) \in Nat
    BY FS_Subset, FS_CardinalityType
  <2>1. SUFFICES ASSUME T # {} PROVE FALSE
    BY DEF Bad
  <2>2. PICK m \in T : \A i \in T : m <= i
    <3>1. T \in SUBSET Nat
      BY <2>0
    <3>. HIDE DEF T
    <3>. QED BY <2>1, <3>1, NatMin
  <2>3. PICK s \in SUBSET H : Bad(s) /\ m = Cardinality(s)
    BY <2>2
  <2>4. CASE s = {}
    BY <1>3, <1>6, <2>3, <2>4 DEF Bad
  <2>5. CASE s # {}
    <3>1. PICK x : x = CHOOSE y \in s : TRUE
      OBVIOUS
    <3>2. x \in s
      BY <2>5, <3>1
    <3>3. PICK t : t = s \ {x}
      OBVIOUS
    <3>4. t \in SUBSET H /\ Cardinality(t) = Cardinality(s) - 1
      BY <2>0, <2>3, <3>2, <3>3, FS_RemoveElement
    <3>5. ~ Bad(t)
      <4>1. ~ (m <= Cardinality(t))
        BY <2>0, <2>3, <3>4
      <4>2. Cardinality(t) \notin T
        <5>. HIDE DEF T
        <5>. QED BY <2>2, <4>1
      <4>. QED BY <3>4, <4>2
    <3>6. w0[s] = w0[t] (+) SetToBag({ContentIn(d, x)})
      BY <1>6, <2>5, <3>1, <3>3
    <3>7. Gathered(C, s) = Gathered(C, t) (+) SetToBag({ContentIn(d, x)})
      BY <1>2, <2>5, <3>1, <3>3
    <3>. QED BY <2>3, <3>5, <3>6, <3>7 DEF Bad
  <2>. QED BY <2>4, <2>5
<1>. QED BY <1>1, <1>7 DEF C

\* The n pages of file d from h on are those of s.
Chained(d, h, n, s) ==
  /\ n \in 1 .. MaxPage
  /\ s \in [1 .. n -> Page]
  /\ s[1] = h
  /\ \A i \in 1 .. n : d[s[i]].next = IF i = n THEN 0 ELSE s[i+1]

\* The records of each of these pages.
ChunksOn(d, n, s) == [i \in 1 .. n |-> d[s[i]].chunks]

\* What is on each of them is a sequence of records.
LEMMA ChunksOnFacts ==
  ASSUME NEW d \in [Page -> Header], NEW n \in Nat, NEW s \in [1 .. n -> Page]
  PROVE  /\ ChunksOn(d, n, s) \in [1 .. n -> Seq(Chunk)]
         /\ \A i \in 1 .. n : ChunksOn(d, n, s)[i] = d[s[i]].chunks
BY DEF ChunksOn, Header

\* `find` meets the records of these pages, one page after the other.
LEMMA ContentTotal ==
  ASSUME NEW d \in [Page -> Header], NEW h, NEW n, NEW s, Chained(d, h, n, s)
  PROVE  /\ ContentIn(d, h) = [kind |-> d[h].type, recs |-> ContentIn(d, h).recs]
         /\ ContentIn(d, h).kind = d[h].type
         /\ Total(n, ChunksOn(d, n, s), ContentIn(d, h).recs)
<1>1. n \in 1 .. MaxPage /\ s \in [1 .. n -> Page] /\ n \in Nat /\ n \in 0 .. MaxPage
  BY ConstantFacts DEF Chained
<1>2. PagesFrom(d, h) = s
  <2>1. /\ \A i \in 1 .. n : d[s[i]].next = IF i = n THEN 0 ELSE s[i+1]
        /\ h = IF n = 0 THEN 0 ELSE s[1]
    BY <1>1 DEF Chained
  <2>. QED BY <1>1, <2>1, PagesFromChain, SMTT(30)
<1>3. Total(n, ChunksOn(d, n, s), FoldLeft(LAMBDA recs, p : recs \o d[p].chunks, <<>>, s))
  BY <1>1, TotalFound DEF ChunksOn
<1>4. PICK r : r = FoldLeft(LAMBDA recs, p : recs \o d[p].chunks, <<>>, s)
  OBVIOUS
<1>5. ContentIn(d, h) = [kind |-> d[h].type, recs |-> r]
  BY <1>2, <1>4 DEF ContentIn
<1>6. PICK l : l = ContentIn(d, h)
  OBVIOUS
<1>7. l.recs = r /\ l.kind = d[h].type /\ l = [kind |-> d[h].type, recs |-> r]
  BY <1>5, <1>6
<1>8. l = [kind |-> d[h].type, recs |-> l.recs]
  BY <1>7
<1>9. Total(n, ChunksOn(d, n, s), l.recs)
  BY <1>3, <1>4, <1>7
<1>. QED BY <1>6, <1>7, <1>8, <1>9

\* The same records, on as many pages, are the same list, whatever the pages.
LEMMA ContentKept ==
  ASSUME NEW d \in [Page -> Header], NEW h, NEW n, NEW s, Chained(d, h, n, s),
         NEW D \in [Page -> Header], NEW g, NEW u, Chained(D, g, n, u),
         \A i \in 1 .. n : D[u[i]].chunks = d[s[i]].chunks,
         D[g].type = d[h].type
  PROVE  ContentIn(D, g) = ContentIn(d, h)
<1>1. n \in Nat /\ s \in [1 .. n -> Page] /\ u \in [1 .. n -> Page]
  BY DEF Chained
<1>2. PICK c : c = ChunksOn(d, n, s)
  OBVIOUS
<1>3. c = ChunksOn(D, n, u) /\ c \in [1 .. n -> Seq(Chunk)]
  <2>1. ChunksOn(d, n, s) = ChunksOn(D, n, u)
    BY DEF ChunksOn
  <2>. QED BY <1>1, <1>2, <2>1, ChunksOnFacts
<1>4. PICK r1, r2 : r1 = ContentIn(d, h).recs /\ r2 = ContentIn(D, g).recs
  OBVIOUS
<1>5. Total(n, c, r1) /\ Total(n, c, r2)
  <2>1. Total(n, ChunksOn(d, n, s), ContentIn(d, h).recs)
    BY ContentTotal
  <2>2. Total(n, ChunksOn(D, n, u), ContentIn(D, g).recs)
    BY ContentTotal
  <2>. QED BY <1>2, <1>3, <1>4, <2>1, <2>2
<1>6. r1 = r2
  BY <1>1, <1>3, <1>5, TotalUnique
<1>7. ContentIn(d, h) = [kind |-> d[h].type, recs |-> r1]
  BY <1>4, ContentTotal
<1>8. ContentIn(D, g) = [kind |-> D[g].type, recs |-> r2]
  BY <1>4, ContentTotal
<1>. QED BY <1>6, <1>7, <1>8

\* When one page of a list has other records, the list differs where that page
\* stands and nowhere else.
LEMMA ContentDiffers ==
  ASSUME NEW d \in [Page -> Header], NEW h, NEW n, NEW s, Chained(d, h, n, s),
         NEW D \in [Page -> Header], NEW g, NEW u, Chained(D, g, n, u),
         NEW j \in 1 .. n,
         \A i \in 1 .. n : i # j => D[u[i]].chunks = d[s[i]].chunks
  PROVE  DifferIn(ContentIn(d, h).recs, d[s[j]].chunks,
                  ContentIn(D, g).recs, D[u[j]].chunks)
<1>1. n \in Nat /\ s \in [1 .. n -> Page] /\ u \in [1 .. n -> Page]
  BY DEF Chained
<1>2. PICK c1, c2 : c1 = ChunksOn(d, n, s) /\ c2 = ChunksOn(D, n, u)
  OBVIOUS
<1>3. /\ c1 \in [1 .. n -> Seq(Chunk)] /\ c2 \in [1 .. n -> Seq(Chunk)]
      /\ \A i \in 1 .. n : c1[i] = d[s[i]].chunks /\ c2[i] = D[u[i]].chunks
  BY <1>1, <1>2, ChunksOnFacts
<1>4. PICK r1, r2 : r1 = ContentIn(d, h).recs /\ r2 = ContentIn(D, g).recs
  OBVIOUS
<1>5. Total(n, c1, r1) /\ Total(n, c2, r2)
  <2>1. Total(n, ChunksOn(d, n, s), ContentIn(d, h).recs)
    BY ContentTotal
  <2>2. Total(n, ChunksOn(D, n, u), ContentIn(D, g).recs)
    BY ContentTotal
  <2>. QED BY <1>2, <1>4, <2>1, <2>2
<1>6. SameBut(n, j, c1, c2)
  BY <1>3 DEF SameBut
<1>7. DifferIn(r1, c1[j], r2, c2[j])
  BY <1>1, <1>5, <1>6, TotalDiffers
<1>. QED BY <1>3, <1>4, <1>7

\* A page without records is taken out of a list.
Shorter(d, s, j, D, n, u) ==
  /\ j \in 1 .. n + 1 /\ d[s[j]].chunks = <<>>
  /\ \A i \in 1 .. n :
       D[u[i]].chunks = IF i < j THEN d[s[i]].chunks ELSE d[s[i + 1]].chunks

\* Who follows the list finds the same.
LEMMA ContentShorter ==
  ASSUME NEW n \in Nat \ {0}, NEW l, l = n + 1,
         NEW d \in [Page -> Header], NEW h, NEW s, Chained(d, h, l, s),
         NEW D \in [Page -> Header], NEW g, NEW u, Chained(D, g, n, u),
         NEW j, Shorter(d, s, j, D, n, u),
         D[g].type = d[h].type
  PROVE  ContentIn(D, g) = ContentIn(d, h)
<1>0. /\ Chained(d, h, n + 1, s)
      /\ j \in 1 .. n + 1 /\ d[s[j]].chunks = <<>>
      /\ \A i \in 1 .. n :
           D[u[i]].chunks = IF i < j THEN d[s[i]].chunks ELSE d[s[i + 1]].chunks
  BY DEF Shorter
<1>1. n + 1 \in Nat /\ s \in [1 .. n + 1 -> Page] /\ u \in [1 .. n -> Page]
  BY <1>0 DEF Chained
<1>2. PICK c, b : c = ChunksOn(d, n + 1, s) /\ b = ChunksOn(D, n, u)
  OBVIOUS
<1>3. PICK m : m = n + 1
  OBVIOUS
<1>4. c \in [1 .. n + 1 -> Seq(Chunk)] /\ \A i \in 1 .. n + 1 : c[i] = d[s[i]].chunks
  <2>1. /\ ChunksOn(d, m, s) \in [1 .. m -> Seq(Chunk)]
        /\ \A i \in 1 .. m : ChunksOn(d, m, s)[i] = d[s[i]].chunks
    BY <1>1, <1>3, ChunksOnFacts
  <2>. QED BY <1>2, <1>3, <2>1
<1>5. b \in [1 .. n -> Seq(Chunk)] /\ \A i \in 1 .. n : b[i] = D[u[i]].chunks
  BY <1>1, <1>2, ChunksOnFacts
<1>6. PICK r1, r2 : r1 = ContentIn(d, h).recs /\ r2 = ContentIn(D, g).recs
  OBVIOUS
<1>7. Total(n + 1, c, r1) /\ Total(n, b, r2)
  <2>1. Total(m, ChunksOn(d, m, s), ContentIn(d, h).recs)
    BY <1>0, <1>3, ContentTotal
  <2>2. Total(n, ChunksOn(D, n, u), ContentIn(D, g).recs)
    BY ContentTotal
  <2>. QED BY <1>2, <1>3, <1>6, <2>1, <2>2
<1>8. \A i \in 1 .. n : b[i] = IF i < j THEN c[i] ELSE c[i + 1]
  <2>1. \A i \in 1 .. n : i \in 1 .. n + 1 /\ i + 1 \in 1 .. n + 1
    OBVIOUS
  <2>. QED BY <1>0, <1>4, <1>5, <2>1
<1>9. c[j] = <<>> /\ n \in Nat /\ j \in 1 .. n + 1
  BY <1>0, <1>4
<1>10. Total(n, b, r1)
  <2>1. LeftOut(n, j, c, b)
    BY <1>4, <1>5, <1>8, <1>9 DEF LeftOut
  <2>. QED BY <1>7, <1>9, <2>1, TotalWithout
<1>11. r1 = r2
  BY <1>5, <1>7, <1>9, <1>10, TotalUnique
<1>12. ContentIn(d, h) = [kind |-> d[h].type, recs |-> r1]
  <2>1. ContentIn(d, h) = [kind |-> d[h].type, recs |-> ContentIn(d, h).recs]
    BY <1>0, <1>3, ContentTotal
  <2>. QED BY <1>6, <2>1
<1>13. ContentIn(D, g) = [kind |-> D[g].type, recs |-> r2]
  BY <1>6, ContentTotal
<1>. QED BY <1>11, <1>12, <1>13

\* A list of one page has the records of the page.
LEMMA OnePageList ==
  ASSUME NEW d \in [Page -> Header], NEW h \in Page, d[h].next = 0,
         NEW c \in Chunk, d[h].chunks = <<c>>
  PROVE  ContentIn(d, h) = [kind |-> d[h].type, recs |-> <<c>>]
<1>1. PICK n : n = 1
  OBVIOUS
<1>2. PICK s : s = [i \in 1 .. 1 |-> h]
  OBVIOUS
<1>3. n \in 1 .. MaxPage /\ n \in Nat
  <2>1. MaxPage \in Nat /\ MaxPage >= 1
    BY PageAssumption
  <2>. QED BY <1>1, <2>1
<1>4. s \in [1 .. n -> Page] /\ s[1] = h /\ \A i \in 1 .. n : i = n /\ s[i] = h
  BY <1>1, <1>2
<1>5. Chained(d, h, n, s)
  BY <1>3, <1>4 DEF Chained
<1>6. PICK b, r : b = ChunksOn(d, n, s) /\ r = ContentIn(d, h).recs
  OBVIOUS
<1>7. Total(n, b, r) /\ ContentIn(d, h) = [kind |-> d[h].type, recs |-> r]
  BY <1>5, <1>6, ContentTotal
<1>8. b \in [1 .. n -> Seq(Chunk)] /\ b[1] = <<c>>
  <2>1. 1 \in 1 .. n
    BY <1>1
  <2>2. b \in [1 .. n -> Seq(Chunk)] /\ \A i \in 1 .. n : b[i] = d[s[i]].chunks
    BY <1>3, <1>4, <1>6, ChunksOnFacts
  <2>. QED BY <1>4, <2>1, <2>2
<1>9. PICK t : Joined(n, b, t) /\ r = t[n]
  BY <1>7 DEF Total
<1>10. r = <<>> \o <<c>>
  <2>1. \A i \in 1 .. n : t[i] = t[i - 1] \o b[i]
    BY <1>9 DEF Joined
  <2>2. 1 \in 1 .. n /\ 1 - 1 = 0
    BY <1>1
  <2>3. t[1] = t[0] \o b[1] /\ t[0] = <<>>
    BY <1>9, <2>1, <2>2 DEF Joined
  <2>. QED BY <1>1, <1>8, <1>9, <2>3
<1>11. r = <<c>>
  BY <1>10
<1>. QED BY <1>7, <1>11

-----------------------------------------------------------------------------
(* A page is put in front of a list, taken out of it, moved.               *)

\* Page p in front of the n pages of s.
Preceded(p, n, s) == [i \in 1 .. n + 1 |-> IF i = 1 THEN p ELSE s[i - 1]]

\* They are one page more, and still no more than the file has.
LEMMA PrecededFacts ==
  ASSUME NEW p \in Page, NEW n \in Nat \ {0}, NEW s \in [1 .. n -> Page],
         \A i \in 1 .. n : s[i] # p,
         \A i, j \in 1 .. n : s[i] = s[j] => i = j
  PROVE  /\ Preceded(p, n, s) \in [1 .. n + 1 -> Page]
         /\ Preceded(p, n, s)[1] = p
         /\ \A i \in 1 .. n : Preceded(p, n, s)[i + 1] = s[i]
         /\ n + 1 \in 1 .. MaxPage
<1>1. PICK u : u = Preceded(p, n, s)
  OBVIOUS
<1>2. u \in [1 .. n + 1 -> Page]
  <2>1. \A i \in 1 .. n + 1 : i # 1 => i - 1 \in 1 .. n
    OBVIOUS
  <2>2. \A i \in 1 .. n + 1 : (IF i = 1 THEN p ELSE s[i - 1]) \in Page
    BY <2>1
  <2>. QED BY <1>1, <2>2 DEF Preceded
<1>3. u[1] = p
  <2>1. 1 \in 1 .. n + 1
    OBVIOUS
  <2>. QED BY <1>1, <2>1 DEF Preceded
<1>4. \A i \in 1 .. n : u[i + 1] = s[i]
  <2>1. \A i \in 1 .. n : i + 1 \in 1 .. n + 1 /\ i + 1 # 1 /\ (i + 1) - 1 = i
    OBVIOUS
  <2>. QED BY <1>1, <2>1 DEF Preceded
<1>5. \A i, j \in 1 .. n + 1 : u[i] = u[j] => i = j
  <2>1. \A i \in 1 .. n + 1 : i = 1 \/ \E m \in 1 .. n : i = m + 1
    <3>1. \A i \in 1 .. n + 1 : i # 1 => i - 1 \in 1 .. n /\ i = (i - 1) + 1
      OBVIOUS
    <3>. QED BY <3>1
  <2> SUFFICES ASSUME NEW i \in 1 .. n + 1, NEW j \in 1 .. n + 1, u[i] = u[j] PROVE i = j
    OBVIOUS
  <2>2. \A l \in 1 .. n : u[l + 1] = s[l] /\ u[l + 1] # p /\ u[l + 1] # u[1]
    BY <1>3, <1>4
  <2>3. CASE i = 1 /\ j = 1
    BY <2>3
  <2>4. CASE i = 1 /\ j # 1
    <3>1. PICK l \in 1 .. n : j = l + 1
      BY <2>1, <2>4
    <3>. QED BY <2>2, <2>4, <3>1
  <2>5. CASE i # 1 /\ j = 1
    <3>1. PICK l \in 1 .. n : i = l + 1
      BY <2>1, <2>5
    <3>. QED BY <2>2, <2>5, <3>1
  <2>6. CASE i # 1 /\ j # 1
    <3>1. PICK l \in 1 .. n : i = l + 1
      BY <2>1, <2>6
    <3>2. PICK m \in 1 .. n : j = m + 1
      BY <2>1, <2>6
    <3>3. s[l] = s[m]
      BY <2>2, <3>1, <3>2
    <3>4. l = m
      BY <3>3
    <3>. QED BY <3>1, <3>2, <3>4
  <2>. QED BY <2>3, <2>4, <2>5, <2>6
<1>6. n + 1 \in 1 .. MaxPage
  <2>1. PICK m : m = n + 1
    OBVIOUS
  <2>2. m \in Nat /\ u \in [1 .. m -> Page] /\ \A i, j \in 1 .. m : u[i] = u[j] => i = j
    BY <1>2, <1>5, <2>1
  <2>3. m <= MaxPage
    BY <2>2, PagesBounded
  <2>. QED BY <2>1, <2>3, ConstantFacts
<1>. QED BY <1>1, <1>2, <1>3, <1>4, <1>6

\* No page is twice among the n pages of s.
Distinct(n, s) == \A i, j \in 1 .. n : s[i] = s[j] => i = j

\* Page p is none of these pages, which in file D have what they have in d.
LeftAlone(p, d, n, s, D) ==
  \A i \in 1 .. n : /\ s[i] # p
                    /\ D[s[i]].next = d[s[i]].next
                    /\ D[s[i]].chunks = d[s[i]].chunks

\* A page that is put in front of a list adds its records to the list.
LEMMA PutInFront ==
  ASSUME NEW d \in [Page -> Header], NEW h, NEW n, NEW s, Chained(d, h, n, s),
         Distinct(n, s),
         NEW D \in [Page -> Header], NEW p \in Page,
         D[p].next = h, D[p].type = d[h].type, LeftAlone(p, d, n, s, D)
  PROVE  DifferIn(ContentIn(d, h).recs, <<>>, ContentIn(D, p).recs, D[p].chunks)
<1>1. /\ n \in Nat \ {0} /\ n \in 1 .. MaxPage
      /\ s \in [1 .. n -> Page] /\ s[1] = h
      /\ \A i \in 1 .. n : d[s[i]].next = IF i = n THEN 0 ELSE s[i+1]
  BY ConstantFacts DEF Chained
<1>0. \A i \in 1 .. n : /\ s[i] # p
                         /\ D[s[i]].next = d[s[i]].next
                         /\ D[s[i]].chunks = d[s[i]].chunks
  BY DEF LeftAlone
<1>2. PICK u : u = Preceded(p, n, s)
  OBVIOUS
<1>3. /\ u \in [1 .. n + 1 -> Page] /\ u[1] = p
      /\ \A i \in 1 .. n : u[i + 1] = s[i]
      /\ n + 1 \in 1 .. MaxPage
  <2>1. \A i \in 1 .. n : s[i] # p
    BY <1>0
  <2>2. \A i, j \in 1 .. n : s[i] = s[j] => i = j
    BY DEF Distinct
  <2>. QED BY <1>1, <1>2, <2>1, <2>2, PrecededFacts
<1>4. PICK m : m = n + 1
  OBVIOUS
<1>5. \A i \in 1 .. m : i = 1 \/ \E l \in 1 .. n : i = l + 1
  <2>1. \A i \in 1 .. n + 1 : i # 1 => i - 1 \in 1 .. n /\ i = (i - 1) + 1
    BY <1>1
  <2>. QED BY <1>4, <2>1
<1>6. Chained(D, p, m, u)
  <2>1. D[u[1]].next = IF 1 = m THEN 0 ELSE u[1 + 1]
    <3>1. 1 # m /\ 1 \in 1 .. n
      BY <1>1, <1>4
    <3>. QED BY <1>1, <1>3, <3>1
  <2>2. ASSUME NEW l \in 1 .. n
        PROVE  D[u[l + 1]].next = IF l + 1 = m THEN 0 ELSE u[(l + 1) + 1]
    <3>1. D[u[l + 1]].next = IF l = n THEN 0 ELSE s[l + 1]
      <4>1. u[l + 1] = s[l] /\ D[s[l]].next = d[s[l]].next
        BY <1>0, <1>3
      <4>2. d[s[l]].next = IF l = n THEN 0 ELSE s[l + 1]
        BY <1>1
      <4>. QED BY <4>1, <4>2
    <3>2. l = n <=> l + 1 = m
      BY <1>1, <1>4
    <3>3. l # n => l + 1 \in 1 .. n
      BY <1>1
    <3>. QED BY <1>3, <3>1, <3>2, <3>3
  <2>3. \A i \in 1 .. m : D[u[i]].next = IF i = m THEN 0 ELSE u[i + 1]
    BY <1>5, <2>1, <2>2
  <2>. QED BY <1>3, <1>4, <2>3 DEF Chained
<1>7. PICK E : E = [D EXCEPT ![p].chunks = <<>>]
  OBVIOUS
<1>8. /\ E \in [Page -> Header]
      /\ E[p].chunks = <<>> /\ E[p].next = D[p].next /\ E[p].type = D[p].type
      /\ \A q \in Page : q # p => E[q] = D[q]
  <2>1. PICK x : x = D[p]
    OBVIOUS
  <2>2. x \in Header /\ <<>> \in Seq(Chunk)
    BY <2>1
  <2>3. PICK y : y = [x EXCEPT !.chunks = <<>>]
    OBVIOUS
  <2>4. y \in Header /\ y.chunks = <<>> /\ y.next = x.next /\ y.type = x.type
    BY <2>2, <2>3 DEF Header
  <2>5. E = [D EXCEPT ![p] = y]
    BY <1>7, <2>1, <2>3
  <2>. QED BY <2>1, <2>4, <2>5
<1>9. Chained(E, p, m, u)
  <2>1. \A i \in 1 .. m : E[u[i]].next = D[u[i]].next
    <3>1. \A i \in 1 .. m : u[i] \in Page
      BY <1>3, <1>4
    <3>. QED BY <1>8, <3>1
  <2>. QED BY <1>6, <2>1 DEF Chained
<1>10. ContentIn(E, p) = ContentIn(d, h)
  <2>1. \A i \in 1 .. n :
          d[s[i]].chunks = IF i < 1 THEN E[u[i]].chunks ELSE E[u[i + 1]].chunks
    <3> SUFFICES ASSUME NEW i \in 1 .. n
                 PROVE d[s[i]].chunks = IF i < 1 THEN E[u[i]].chunks ELSE E[u[i + 1]].chunks
      OBVIOUS
    <3>1. ~ (i < 1)
      OBVIOUS
    <3>2. E[u[i + 1]].chunks = D[s[i]].chunks
      BY <1>0, <1>1, <1>3, <1>8
    <3>. QED BY <1>0, <3>1, <3>2
  <2>2. 1 \in 1 .. n + 1 /\ E[u[1]].chunks = <<>>
    BY <1>1, <1>3, <1>8
  <2>3. d[h].type = E[p].type
    BY <1>8
  <2>4. PICK v : v = 1
    OBVIOUS
  <2>5. Shorter(E, u, v, d, n, s)
    BY <2>1, <2>2, <2>4 DEF Shorter
  <2>6. n \in Nat \ {0} /\ E \in [Page -> Header] /\ Chained(E, p, m, u)
    BY <1>1, <1>8, <1>9
  <2>. QED BY <1>4, <2>3, <2>5, <2>6, ContentShorter, SMTT(30)
<1>11. DifferIn(ContentIn(E, p).recs, E[u[1]].chunks, ContentIn(D, p).recs, D[u[1]].chunks)
  <2>1. 1 \in 1 .. m
    BY <1>1, <1>4
  <2>2. \A i \in 1 .. m : i # 1 => D[u[i]].chunks = E[u[i]].chunks
    <3>1. ASSUME NEW l \in 1 .. n PROVE D[u[l + 1]].chunks = E[u[l + 1]].chunks
      <4>1. u[l + 1] = s[l] /\ s[l] \in Page /\ s[l] # p
        BY <1>0, <1>1, <1>3
      <4>. QED BY <1>8, <4>1
    <3>. QED BY <1>5, <3>1
  <2>. QED BY <1>6, <1>8, <1>9, <2>1, <2>2, ContentDiffers
<1>. QED BY <1>3, <1>8, <1>10, <1>11

\* The pages of s but for the one at j.
Without(j, n, s) == [i \in 1 .. n |-> IF i < j THEN s[i] ELSE s[i + 1]]

\* The page at j is unlinked from its neighbours.
Bridged(d, n, s, j, D) ==
  \A i \in 1 .. n + 1 : i # j =>
    /\ D[s[i]].chunks = d[s[i]].chunks
    /\ D[s[i]].next = IF i + 1 = j THEN d[s[j]].next ELSE d[s[i]].next

\* What free_page leaves of a list when it has linked the neighbours of a page
\* to each other: the other pages, in their order, with their records.
LEMMA BridgedChain ==
  ASSUME NEW n \in Nat \ {0},
         NEW d \in [Page -> Header], NEW h, NEW s, Chained(d, h, n + 1, s),
         NEW j \in 1 .. n + 1, NEW D, Bridged(d, n, s, j, D),
         NEW u, u = Without(j, n, s)
  PROVE  /\ Chained(D, IF j = 1 THEN s[2] ELSE h, n, u)
         /\ \A i \in 1 .. n :
              D[u[i]].chunks = IF i < j THEN d[s[i]].chunks ELSE d[s[i + 1]].chunks
<1>1. /\ n + 1 \in 1 .. MaxPage
      /\ s \in [1 .. n + 1 -> Page] /\ s[1] = h
      /\ \A i \in 1 .. n + 1 : d[s[i]].next = IF i = n + 1 THEN 0 ELSE s[i+1]
  BY DEF Chained
<1>2. \A i \in 1 .. n : u[i] = IF i < j THEN s[i] ELSE s[i + 1]
  BY DEF Without
<1>3. u \in [1 .. n -> Page]
  <2>1. \A i \in 1 .. n : i \in 1 .. n + 1 /\ i + 1 \in 1 .. n + 1
    OBVIOUS
  <2>2. \A i \in 1 .. n : (IF i < j THEN s[i] ELSE s[i + 1]) \in Page
    BY <1>1, <2>1
  <2>. QED BY <2>2 DEF Without
<1>4. n \in 1 .. MaxPage
  <2>1. n <= MaxPage
    BY <1>1, ConstantFacts
  <2>. QED BY <2>1, ConstantFacts
<1>5. u[1] = IF j = 1 THEN s[2] ELSE h
  <2>1. 1 \in 1 .. n /\ (1 < j <=> j # 1) /\ 1 + 1 = 2
    OBVIOUS
  <2>. QED BY <1>1, <1>2, <2>1
<1>6. ASSUME NEW i \in 1 .. n, i < j
      PROVE  /\ D[u[i]].next = IF i = n THEN 0 ELSE u[i + 1]
             /\ D[u[i]].chunks = d[s[i]].chunks
  <2>1. i \in 1 .. n + 1 /\ i # j /\ u[i] = s[i]
    BY <1>2, <1>6
  <2>2. /\ D[u[i]].next = IF i + 1 = j THEN d[s[j]].next ELSE d[s[i]].next
        /\ D[u[i]].chunks = d[s[i]].chunks
    BY <2>1 DEF Bridged
  <2>3. CASE i + 1 = j
    <3>1. i = n <=> j = n + 1
      BY <2>3
    <3>2. i # n => u[i + 1] = s[j + 1]
      <4>1. i # n => i + 1 \in 1 .. n /\ ~ (i + 1 < j)
        BY <2>3
      <4>. QED BY <1>2, <2>3, <4>1
    <3>3. d[s[j]].next = IF j = n + 1 THEN 0 ELSE s[j + 1]
      BY <1>1
    <3>. QED BY <2>2, <2>3, <3>1, <3>2, <3>3
  <2>4. CASE i + 1 # j
    <3>1. i # n /\ i # n + 1 /\ i + 1 \in 1 .. n /\ i + 1 < j
      BY <1>6, <2>4
    <3>2. u[i + 1] = s[i + 1]
      BY <1>2, <3>1
    <3>3. d[s[i]].next = s[i + 1]
      BY <1>1, <2>1, <3>1
    <3>. QED BY <2>2, <2>4, <3>1, <3>2, <3>3
  <2>. QED BY <2>2, <2>3, <2>4
<1>7. ASSUME NEW i \in 1 .. n, ~ (i < j)
      PROVE  /\ D[u[i]].next = IF i = n THEN 0 ELSE u[i + 1]
             /\ D[u[i]].chunks = d[s[i + 1]].chunks
  <2>1. /\ i + 1 \in 1 .. n + 1 /\ i + 1 # j /\ (i + 1) + 1 # j
        /\ (i = n <=> i + 1 = n + 1)
    BY <1>7
  <2>2. u[i] = s[i + 1]
    BY <1>2, <1>7
  <2>3. D[s[i + 1]].next = d[s[i + 1]].next /\ D[s[i + 1]].chunks = d[s[i + 1]].chunks
    BY <2>1 DEF Bridged
  <2>4. d[s[i + 1]].next = IF i = n THEN 0 ELSE s[(i + 1) + 1]
    BY <1>1, <2>1
  <2>5. i # n => u[i + 1] = s[(i + 1) + 1]
    <3>1. i # n => i + 1 \in 1 .. n /\ ~ (i + 1 < j)
      BY <1>7
    <3>. QED BY <1>2, <3>1
  <2>. QED BY <2>2, <2>3, <2>4, <2>5
<1>8. \A i \in 1 .. n : D[u[i]].next = IF i = n THEN 0 ELSE u[i + 1]
  BY <1>6, <1>7
<1>9. \A i \in 1 .. n :
        D[u[i]].chunks = IF i < j THEN d[s[i]].chunks ELSE d[s[i + 1]].chunks
  BY <1>6, <1>7
<1>. QED BY <1>3, <1>4, <1>5, <1>8, <1>9 DEF Chained

\* When a page leaves a list, its records do, and the others stay.
LEMMA TakenFromList ==
  ASSUME NEW n \in Nat \ {0},
         NEW d \in [Page -> Header], NEW h, NEW s, Chained(d, h, n + 1, s),
         Distinct(n + 1, s),
         NEW j \in 1 .. n + 1, NEW D \in [Page -> Header], Bridged(d, n, s, j, D),
         NEW g, g = IF j = 1 THEN s[2] ELSE h,
         D[g].type = d[h].type
  PROVE  DifferIn(ContentIn(d, h).recs, d[s[j]].chunks, ContentIn(D, g).recs, <<>>)
<1>1. PICK m : m = n + 1
  OBVIOUS
<1>2. PICK u : u = Without(j, n, s)
  OBVIOUS
<1>3. s \in [1 .. m -> Page] /\ Chained(d, h, m, s) /\ j \in 1 .. m /\ s[1] = h
  BY <1>1 DEF Chained
<1>4. /\ Chained(D, g, n, u)
      /\ \A i \in 1 .. n :
           D[u[i]].chunks = IF i < j THEN d[s[i]].chunks ELSE d[s[i + 1]].chunks
  BY <1>2, BridgedChain
<1>5. PICK p : p = s[j]
  OBVIOUS
<1>6. p \in Page /\ \A i \in 1 .. m : i # j => s[i] # p
  BY <1>1, <1>3, <1>5 DEF Distinct
<1>7. PICK E : E = [d EXCEPT ![p].chunks = <<>>]
  OBVIOUS
<1>8. /\ E \in [Page -> Header]
      /\ E[p].chunks = <<>> /\ E[p].next = d[p].next /\ E[p].type = d[p].type
      /\ \A q \in Page : q # p => E[q] = d[q]
  <2>1. PICK x : x = d[p]
    OBVIOUS
  <2>2. x \in Header /\ <<>> \in Seq(Chunk)
    BY <1>6, <2>1
  <2>3. PICK y : y = [x EXCEPT !.chunks = <<>>]
    OBVIOUS
  <2>4. y \in Header /\ y.chunks = <<>> /\ y.next = x.next /\ y.type = x.type
    BY <2>2, <2>3 DEF Header
  <2>5. E = [d EXCEPT ![p] = y]
    BY <1>7, <2>1, <2>3
  <2>. QED BY <1>6, <2>1, <2>4, <2>5
<1>9. \A i \in 1 .. m : /\ E[s[i]].next = d[s[i]].next
                        /\ E[s[i]].type = d[s[i]].type
                        /\ i # j => E[s[i]].chunks = d[s[i]].chunks
  BY <1>3, <1>6, <1>8
<1>10. Chained(E, h, m, s)
  BY <1>3, <1>9 DEF Chained
<1>11. DifferIn(ContentIn(d, h).recs, d[s[j]].chunks, ContentIn(E, h).recs, E[s[j]].chunks)
  <2>1. \A i \in 1 .. m : i # j => E[s[i]].chunks = d[s[i]].chunks
    BY <1>9
  <2>2. PICK v, c : v = s /\ c = j
    OBVIOUS
  <2>3. /\ c \in 1 .. m /\ Chained(d, h, m, s) /\ Chained(E, h, m, v) /\ E \in [Page -> Header]
        /\ \A i \in 1 .. m : i # c => E[v[i]].chunks = d[s[i]].chunks
    BY <1>3, <1>8, <1>10, <2>1, <2>2
  <2>4. DifferIn(ContentIn(d, h).recs, d[s[c]].chunks, ContentIn(E, h).recs, E[v[c]].chunks)
    BY <2>3, ContentDiffers, SMTT(30)
  <2>. QED BY <2>2, <2>4
<1>12. ContentIn(D, g) = ContentIn(E, h)
  <2>1. ASSUME NEW i \in 1 .. n
        PROVE  D[u[i]].chunks = IF i < j THEN E[s[i]].chunks ELSE E[s[i + 1]].chunks
    <3>1. /\ i \in 1 .. m /\ i + 1 \in 1 .. m
          /\ i < j => i # j
          /\ ~ (i < j) => i + 1 # j
      BY <1>1, <1>3
    <3>. QED BY <1>4, <1>9, <3>1
  <2>2. E[h].type = d[h].type
    <3>1. 1 \in 1 .. m
      BY <1>1
    <3>. QED BY <1>3, <1>9, <3>1
  <2>3. E[s[j]].chunks = <<>> /\ Chained(E, h, n + 1, s) /\ D[g].type = E[h].type
    BY <1>1, <1>5, <1>8, <1>10, <2>2
  <2>4. Chained(D, g, n, u)
    BY <1>4
  <2>5. Shorter(E, s, j, D, n, u)
    BY <1>1, <1>3, <2>1, <2>3 DEF Shorter
  <2>. QED BY <1>1, <1>8, <1>10, <2>3, <2>4, <2>5, ContentShorter
<1>. QED BY <1>5, <1>8, <1>11, <1>12

\* Page from is now page to.
Renamed(d, n, s, j, to, D) ==
  \A i \in 1 .. n :
    IF i = j THEN D[to].chunks = d[s[j]].chunks /\ D[to].next = d[s[j]].next
    ELSE /\ D[s[i]].chunks = d[s[i]].chunks
         /\ D[s[i]].next = IF i + 1 = j THEN to ELSE d[s[i]].next

\* Then the list, which may start with page to, has the records it had.
LEMMA RenamedList ==
  ASSUME NEW d \in [Page -> Header], NEW h, NEW n, NEW s, Chained(d, h, n, s),
         NEW j \in 1 .. n, NEW to \in Page, NEW D \in [Page -> Header],
         Renamed(d, n, s, j, to, D),
         NEW g, g = IF j = 1 THEN to ELSE h,
         D[g].type = d[h].type
  PROVE  ContentIn(D, g) = ContentIn(d, h)
<1>1. /\ n \in 1 .. MaxPage /\ s \in [1 .. n -> Page] /\ s[1] = h
      /\ \A i \in 1 .. n : d[s[i]].next = IF i = n THEN 0 ELSE s[i+1]
  BY DEF Chained
<1>2. PICK u : u = [s EXCEPT ![j] = to]
  OBVIOUS
<1>3. /\ u \in [1 .. n -> Page]
      /\ \A i \in 1 .. n : u[i] = IF i = j THEN to ELSE s[i]
  BY <1>1, <1>2
<1>4. u[1] = g
  <2>1. 1 \in 1 .. n
    BY <1>1
  <2>. QED BY <1>1, <1>3, <2>1
<1>5. ASSUME NEW i \in 1 .. n
      PROVE  /\ D[u[i]].next = IF i = n THEN 0 ELSE u[i + 1]
             /\ D[u[i]].chunks = d[s[i]].chunks
  <2>0. i # n => i + 1 \in 1 .. n
    BY <1>1
  <2>1. d[s[i]].next = IF i = n THEN 0 ELSE s[i + 1]
    BY <1>1
  <2>2. CASE i = j
    <3>1. u[i] = to /\ D[to].chunks = d[s[i]].chunks /\ D[to].next = d[s[i]].next
      BY <1>3, <2>2 DEF Renamed
    <3>2. i # n => u[i + 1] = s[i + 1]
      <4>1. i + 1 # j
        BY <2>2
      <4>. QED BY <1>3, <2>0, <4>1
    <3>. QED BY <2>1, <3>1, <3>2
  <2>3. CASE i # j
    <3>1. /\ u[i] = s[i] /\ D[s[i]].chunks = d[s[i]].chunks
          /\ D[s[i]].next = IF i + 1 = j THEN to ELSE d[s[i]].next
      BY <1>3, <2>3 DEF Renamed
    <3>2. i + 1 = j => i # n
      BY <1>1
    <3>3. i # n => u[i + 1] = IF i + 1 = j THEN to ELSE s[i + 1]
      BY <1>3, <2>0
    <3>. QED BY <2>1, <3>1, <3>2, <3>3
  <2>. QED BY <2>2, <2>3
<1>6. Chained(D, g, n, u)
  BY <1>1, <1>3, <1>4, <1>5 DEF Chained
<1>7. \A i \in 1 .. n : D[u[i]].chunks = d[s[i]].chunks
  BY <1>5
<1>. QED BY <1>6, <1>7, ContentKept
=============================================================================
