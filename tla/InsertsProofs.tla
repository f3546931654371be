--------------------------- MODULE InsertsProofs ---------------------------
(***************************************************************************)
(* Inserts, where one insertion comes after the other: an inductive        *)
(* invariant, and what follows from it.                                    *)
(***************************************************************************)
EXTENDS Inserts, GraphStoreProofs, FiniteSetTheorems

\* The index record of the file f names a page that is yet to be written.
Unwritten(f) ==
  GetIndex(f, Name).first # 0 /\ f.disk[GetIndex(f, Name).first].type # "NODE"

\* The pages of the nodes' list: while the first one is yet to be written, those
\* that the file b had before.
HeadIn(f, b) == IF Unwritten(f) THEN GetIndex(b, Name).first ELSE GetIndex(f, Name).first
NodesIn(f, b) == PagesFrom(f.disk, HeadIn(f, b))

Nodes == NodesIn(file, begun)

\* A page that get_free_page has supplied, in memory.
FreshPage(p, first) ==
  /\ p \in Header /\ p.type = "NODE" /\ p.next = first
  /\ p.chunks = <<>> /\ p.free_space = Capacity

Held(first) ==
  IF first = 0 THEN NoPageHeld ELSE [num |-> first, page |-> file.disk[first]]

\* What the writer at work knows of the file.
Writing(w) ==
  LET first == index[w].first
  IN  /\ node[w] \in NewNodes \cap Record /\ node[w].id \notin answered
      /\ index[w] \in IndexRecord /\ index[w].name = Name
      /\ index[w] = GetIndex(begun, Name)
      /\ pc[w] # "adding" => OnDisk = index[w]
      /\ pc[w] \in {"constructed", "opened", "allocating"} => fresh[w] = NoPageHeld
      /\ pc[w] \in {"opened", "allocating"} => schema[w] = file.schema
      /\ pc[w] \in {"allocating", "saving", "linking"} => page[w] = Held(first)
      /\ pc[w] = "saving" =>
           /\ fresh[w].num = AllocNum(file.schema) /\ fresh[w].num \in Page
           /\ schema[w] = AllocSchema(file.disk, file.schema)
           /\ FreshPage(fresh[w].page, first)
      /\ pc[w] = "linking" =>
           first # 0 /\ Taken(file, fresh[w].num) /\ FreshPage(fresh[w].page, first)
      /\ pc[w] \in {"counting", "adding"} =>
           \/ /\ fresh[w].num = 0 /\ first # 0
              /\ page[w] = Held(first) /\ Fits(file.disk[first], node[w])
           \/ Taken(file, fresh[w].num) /\ FreshPage(fresh[w].page, first)
      /\ pc[w] = "adding" =>
           OnDisk = [index[w] EXCEPT !.first = Target(w).num, !.count = @ + 1]

\* A selection that has found the ids sn and reads page nx next is on the list
\* with the rest of what is due ahead of it, or on its way there.
Finding(f, n, s, ans, nx, sn, du, ea) ==
  /\ sn \in Seq(NodeId) /\ IsInjective(sn) /\ ToSet(sn) \subseteq ans
  /\ \/ nx = 0 /\ (ea \/ du \subseteq ToSet(sn))
     \/ \E j \in 1 .. n :
          /\ nx = s[j] /\ ToSet(sn) \cap IdsFrom(f, n, s, j) = {}
          /\ ea \/ du \subseteq ToSet(sn) \cup IdsFrom(f, n, s, j)
     \/ nx \in Page /\ f.disk[nx].type \in {"FREE", "NONE"} /\ sn = <<>> /\ ea

PCs == {"idle", "dead", "constructed", "opened", "allocating", "saving", "linking",
        "counting", "adding", "finding", "found"}

Function(f, S) == f = [x \in S |-> f[x]]

Typed ==
  /\ pc \in [Session -> PCs]
  /\ Function(index, Session) /\ Function(schema, Session)
  /\ Function(page, Writer) /\ Function(fresh, Writer) /\ Function(node, Writer)
  /\ Function(next, Reader) /\ Function(seen, Reader)
  /\ Function(due, Reader) /\ Function(early, Reader)
  /\ torn \in BOOLEAN
  /\ \A w \in Writer : pc[w] \notin {"finding", "found"}
  /\ \A r \in Reader : pc[r] \in {"idle", "dead", "finding", "found"}

NodesThere ==
  /\ Good(file, Name, HeadIn(file, begun), Len(Nodes), Nodes)
  /\ answered = IdsFrom(file, Len(Nodes), Nodes, 1)
  /\ Unwritten(file) => OnDisk.first \in Page /\ file.disk[OnDisk.first].type \in {"FREE", "NONE"}

OneAtATime ==
  /\ Unwritten(file) => torn \/ \E w \in Writer : pc[w] = "adding"
  /\ torn => \A w \in Writer : ~ Busy(w)
  /\ \A v, w \in Writer : Busy(v) /\ Busy(w) => v = w

ReadersOK ==
  \A r \in Reader :
    /\ pc[r] = "finding" =>
         Finding(file, Len(Nodes), Nodes, answered, next[r], seen[r], due[r], early[r])
    /\ pc[r] = "found" =>
         IsInjective(seen[r]) /\ (early[r] \/ due[r] \subseteq ToSet(seen[r]))

IInv ==
  Typed /\ NodesThere /\ OneAtATime /\ (\A w \in Writer : Busy(w) => Writing(w)) /\ ReadersOK

-----------------------------------------------------------------------------
(* Selections.                                                             *)

LEMMA IdsEmpty ==
  ASSUME NEW f, NEW n, NEW s, NEW j, j .. n = {}
  PROVE  IdsFrom(f, n, s, j) = {}
BY DEF IdsFrom

\* What is found from page s[j] on is on it or further behind.
LEMMA IdsSplit ==
  ASSUME NEW f, NEW n \in Nat, NEW s, NEW j \in 1 .. n
  PROVE  IdsFrom(f, n, s, j) = IdsOn(f, s[j]) \cup IdsFrom(f, n, s, j + 1)
<1>1. \A i : i \in j .. n <=> i = j \/ i \in j + 1 .. n
  OBVIOUS
<1>. QED BY <1>1 DEF IdsFrom

\* The ids of one page are not on the pages behind it.
LEMMA IdsApart ==
  ASSUME NEW f, NEW h, NEW n \in Nat, NEW s, NodesListed(f, h, n, s), NEW j \in 1 .. n
  PROVE  IdsOn(f, s[j]) \cap IdsFrom(f, n, s, j + 1) = {}
<1> SUFFICES ASSUME NEW x \in IdsOn(f, s[j]), x \in IdsFrom(f, n, s, j + 1)
             PROVE  FALSE
  OBVIOUS
<1>1. PICK k \in DOMAIN f.disk[s[j]].chunks : x = f.disk[s[j]].chunks[k].id
  BY DEF IdsOn
<1>2. PICK i \in j + 1 .. n : x \in IdsOn(f, s[i])
  BY DEF IdsFrom
<1>3. PICK l \in DOMAIN f.disk[s[i]].chunks : x = f.disk[s[i]].chunks[l].id
  BY <1>2 DEF IdsOn
<1>4. i \in 1 .. n /\ i # j
  OBVIOUS
<1>5. \A a, b \in 1 .. n :
        \A k1 \in DOMAIN f.disk[s[a]].chunks, l1 \in DOMAIN f.disk[s[b]].chunks :
          f.disk[s[a]].chunks[k1].id = f.disk[s[b]].chunks[l1].id => a = b
  BY DEF NodesListed
<1>. QED BY <1>1, <1>3, <1>4, <1>5

\* A write that leaves the nodes where they are.
LEMMA FindingKept ==
  ASSUME NEW f, NEW g, NEW n \in Nat, NEW s, NEW ans, NEW nx, NEW sn, NEW du, NEW ea,
         Finding(f, n, s, ans, nx, sn, du, ea), SameIds(f, g, n, s),
         \A p \in Page : g.disk[p].type = f.disk[p].type
  PROVE  Finding(g, n, s, ans, nx, sn, du, ea)
<1>1. \A j \in 1 .. n : IdsFrom(g, n, s, j) = IdsFrom(f, n, s, j)
  BY DEF SameIds
<1>. QED BY <1>1 DEF Finding

\* A node more on the first page of the list.
LEMMA FindingPutFirst ==
  ASSUME NEW f, NEW g, NEW n \in Nat, NEW s, NEW ans, NEW nx, NEW sn, NEW du, NEW ea,
         NEW id, id \notin ans,
         Finding(f, n, s, ans, nx, sn, du, ea),
         \A p \in Page : g.disk[p].type = f.disk[p].type,
         IdsFrom(g, n, s, 1) = IdsFrom(f, n, s, 1) \cup {id},
         \A j \in 2 .. n : IdsFrom(g, n, s, j) = IdsFrom(f, n, s, j)
  PROVE  Finding(g, n, s, ans \cup {id}, nx, sn, du, ea)
<1>1. sn \in Seq(NodeId) /\ IsInjective(sn) /\ ToSet(sn) \subseteq ans
  BY DEF Finding
<1>2. \A j \in 1 .. n : j = 1 \/ j \in 2 .. n
  OBVIOUS
<1>3. ASSUME NEW j \in 1 .. n, nx = s[j], ToSet(sn) \cap IdsFrom(f, n, s, j) = {},
             ea \/ du \subseteq ToSet(sn) \cup IdsFrom(f, n, s, j)
      PROVE  /\ ToSet(sn) \cap IdsFrom(g, n, s, j) = {}
             /\ ea \/ du \subseteq ToSet(sn) \cup IdsFrom(g, n, s, j)
  <2>1. \/ IdsFrom(g, n, s, j) = IdsFrom(f, n, s, j)
        \/ IdsFrom(g, n, s, j) = IdsFrom(f, n, s, j) \cup {id}
    BY <1>2
  <2>2. id \notin ToSet(sn)
    BY <1>1
  <2>. QED BY <1>3, <2>1, <2>2
<1>. QED BY <1>1, <1>3 DEF Finding

\* A new first page with a node: t[1] .. t[m] are the page p and s[1] .. s[n].
Fronted(t, m, p, n, s) ==
  m = n + 1 /\ t = [i \in 1 .. n + 1 |-> IF i = 1 THEN p ELSE s[i - 1]]

\* ... which is written to f and gives g.
NewFront(f, g, m, t, p, n, s) ==
  /\ Fronted(t, m, p, n, s)
  /\ \A q \in Page : q # p => g.disk[q] = f.disk[q]
  /\ \A j \in 1 .. n : IdsFrom(g, m, t, j + 1) = IdsFrom(f, n, s, j)

LEMMA FindingPutFresh ==
  ASSUME NEW f, NEW g, NEW n \in Nat, NEW s, NEW m, NEW t, NEW ans, NEW nx, NEW sn, NEW du,
         NEW ea, NEW id, id \notin ans, NEW p,
         Finding(f, n, s, ans, nx, sn, du, ea), NewFront(f, g, m, t, p, n, s)
  PROVE  Finding(g, m, t, ans \cup {id}, nx, sn, du, ea)
<1>0. /\ Fronted(t, m, p, n, s)
      /\ \A q \in Page : q # p => g.disk[q] = f.disk[q]
      /\ \A j \in 1 .. n : IdsFrom(g, m, t, j + 1) = IdsFrom(f, n, s, j)
  BY DEF NewFront
<1>1. sn \in Seq(NodeId) /\ IsInjective(sn) /\ ToSet(sn) \subseteq ans
  BY DEF Finding
<1>2. t[1] = p /\ 1 \in 1 .. m /\ \A j \in 1 .. n : j + 1 \in 1 .. m /\ t[j + 1] = s[j]
  BY <1>0 DEF Fronted
<1>3. CASE nx = 0 /\ (ea \/ du \subseteq ToSet(sn))
  BY <1>1, <1>3 DEF Finding
<1>4. ASSUME NEW j \in 1 .. n, nx = s[j], ToSet(sn) \cap IdsFrom(f, n, s, j) = {},
             ea \/ du \subseteq ToSet(sn) \cup IdsFrom(f, n, s, j)
      PROVE  Finding(g, m, t, ans \cup {id}, nx, sn, du, ea)
  <2>1. PICK k \in 1 .. m : k = j + 1
    BY <1>2
  <2>2. nx = t[k] /\ IdsFrom(g, m, t, k) = IdsFrom(f, n, s, j)
    BY <1>0, <1>2, <1>4, <2>1
  <2>. QED BY <1>1, <1>4, <2>2 DEF Finding
<1>5. CASE nx \in Page /\ f.disk[nx].type \in {"FREE", "NONE"} /\ sn = <<>> /\ ea
  <2>1. CASE nx = p
    <3>1. ToSet(sn) = {}
      BY <1>5 DEF ToSet
    <3>. QED BY <1>1, <1>2, <1>5, <2>1, <3>1 DEF Finding
  <2>2. CASE nx # p
    BY <1>0, <1>1, <1>5, <2>2 DEF Finding
  <2>. QED BY <2>1, <2>2
<1>. QED BY <1>3, <1>4, <1>5 DEF Finding

\* What FindPage adds to what was found.
IdsInOrder(f, p) == [k \in DOMAIN f.disk[p].chunks |-> f.disk[p].chunks[k].id]

\* Two sequences without repetitions that have nothing in common.
LEMMA ConcatInjective ==
  ASSUME NEW S, NEW a \in Seq(S), NEW b \in Seq(S), IsInjective(a), IsInjective(b),
         ToSet(a) \cap ToSet(b) = {}
  PROVE  /\ a \o b \in Seq(S) /\ IsInjective(a \o b)
         /\ ToSet(a \o b) = ToSet(a) \cup ToSet(b)
<1>1. PICK m \in Nat, n \in Nat : m = Len(a) /\ n = Len(b)
  OBVIOUS
<1>2. /\ DOMAIN a = 1 .. m /\ DOMAIN b = 1 .. n /\ DOMAIN (a \o b) = 1 .. m + n
      /\ a \o b \in Seq(S)
      /\ \A i \in 1 .. m + n : (a \o b)[i] = IF i <= m THEN a[i] ELSE b[i - m]
  BY <1>1
<1>3. \A i \in 1 .. m + n : \/ i \in 1 .. m /\ (a \o b)[i] = a[i]
                            \/ i - m \in 1 .. n /\ i > m /\ (a \o b)[i] = b[i - m]
  BY <1>2
<1>4. ASSUME NEW i \in 1 .. m + n, NEW j \in 1 .. m + n, (a \o b)[i] = (a \o b)[j]
      PROVE  i = j
  <2>1. \A k \in 1 .. m : a[k] \in ToSet(a)
    BY <1>2 DEF ToSet
  <2>2. \A k \in 1 .. n : b[k] \in ToSet(b)
    BY <1>2 DEF ToSet
  <2>3. CASE i \in 1 .. m /\ j \in 1 .. m
    BY <1>2, <1>4, <2>3 DEF IsInjective
  <2>4. CASE i > m /\ j > m
    <3>1. PICK x \in 1 .. n, y \in 1 .. n : x = i - m /\ y = j - m
      BY <1>3, <2>4
    <3>2. b[x] = b[y]
      BY <1>2, <1>4, <2>4, <3>1
    <3>3. x = y
      BY <3>2, <1>2 DEF IsInjective
    <3>. QED BY <3>1, <3>3
  <2>. QED BY <1>3, <1>4, <2>1, <2>2, <2>3, <2>4
<1>5. ToSet(a \o b) \subseteq ToSet(a) \cup ToSet(b)
  BY <1>2, <1>3 DEF ToSet
<1>6. ToSet(a) \subseteq ToSet(a \o b)
  <2>1. \A i \in 1 .. m : i \in 1 .. m + n /\ (a \o b)[i] = a[i]
    BY <1>2
  <2>. QED BY <2>1, <1>2 DEF ToSet
<1>7. ToSet(b) \subseteq ToSet(a \o b)
  <2> SUFFICES ASSUME NEW i \in 1 .. n
               PROVE  b[i] \in ToSet(a \o b)
    BY <1>2 DEF ToSet
  <2>1. PICK j \in 1 .. m + n : j = m + i
    OBVIOUS
  <2>2. (a \o b)[j] = b[i]
    BY <1>2, <2>1
  <2>. QED BY <1>2, <2>2 DEF ToSet
<1>. QED BY <1>2, <1>4, <1>5, <1>6, <1>7 DEF IsInjective

\* The nodes of a page of the list.
LEMMA IdsInOrderFacts ==
  ASSUME NEW f, NEW h, NEW n \in Nat, NEW s, Filed(f), NodesListed(f, h, n, s), NEW j \in 1 .. n
  PROVE  /\ IdsInOrder(f, s[j]) \in Seq(NodeId) /\ IsInjective(IdsInOrder(f, s[j]))
         /\ ToSet(IdsInOrder(f, s[j])) = IdsOn(f, s[j])
<1>1. s[j] \in Page
  BY DEF NodesListed, ChainOf, Chain
<1>2. PICK c : c = f.disk[s[j]].chunks
  OBVIOUS
<1>3. PICK m \in Nat : /\ m = Len(c) /\ DOMAIN c = 1 .. m
                       /\ \A k \in 1 .. m : c[k] \in Record
  BY <1>1, <1>2, PageTyped
<1>4. \A k \in 1 .. m : c[k].rec = "NODE"
  BY <1>2, <1>3 DEF NodesListed
<1>5. \A k \in 1 .. m : c[k].id \in NodeId
  <2> SUFFICES ASSUME NEW k \in 1 .. m PROVE c[k].id \in NodeId
    OBVIOUS
  <2>1. c[k] \in NodeRecord
    BY <1>3, <1>4 DEF Record, IndexRecord, LinkRecord
  <2>. QED BY <2>1 DEF NodeRecord
<1>6. \A k, l \in 1 .. m : c[k].id = c[l].id => k = l
  <2>1. \A k \in DOMAIN f.disk[s[j]].chunks, l \in DOMAIN f.disk[s[j]].chunks :
          f.disk[s[j]].chunks[k].id = f.disk[s[j]].chunks[l].id => j = j /\ k = l
    BY DEF NodesListed
  <2>. QED BY <1>2, <1>3, <2>1
<1>7. IdsInOrder(f, s[j]) = [k \in 1 .. m |-> c[k].id]
  BY <1>2, <1>3 DEF IdsInOrder
<1>8. IdsOn(f, s[j]) = {c[k].id : k \in 1 .. m}
  BY <1>2, <1>3 DEF IdsOn
<1>9. PICK t : t = [k \in 1 .. m |-> c[k].id]
  OBVIOUS
<1>10. t \in [1 .. m -> NodeId]
  BY <1>5, <1>9
<1>11. t \in Seq(NodeId)
  BY <1>10, SeqDef
<1>12. IsInjective(t)
  BY <1>6, <1>9 DEF IsInjective
<1>13. ToSet(t) = {c[k].id : k \in 1 .. m}
  BY <1>9 DEF ToSet
<1>. QED BY <1>7, <1>8, <1>9, <1>11, <1>12, <1>13

\* A selection goes on to the next page of the list, or comes onto it.
LEMMA FindingOn ==
  ASSUME NEW f, NEW name, NEW h, NEW n, NEW s, NEW nx, NEW sn, NEW du, NEW ea,
         Good(f, name, h, n, s), nx # 0,
         Finding(f, n, s, IdsFrom(f, n, s, 1), nx, sn, du, ea)
  PROVE  /\ nx \in Page
         /\ Finding(f, n, s, IdsFrom(f, n, s, 1), f.disk[nx].next,
                    sn \o IdsInOrder(f, nx), du, ea)
<1>1. /\ Filed(f) /\ NodesListed(f, h, n, s) /\ PagesSound(f, n, s)
      /\ n \in Nat /\ s \in [1 .. n -> Page]
  BY Constants DEF Good, NodesListed, ChainOf, Chain
<1>2. sn \in Seq(NodeId) /\ IsInjective(sn) /\ ToSet(sn) \subseteq IdsFrom(f, n, s, 1)
  BY DEF Finding
<1>3. ASSUME NEW j \in 1 .. n, nx = s[j], ToSet(sn) \cap IdsFrom(f, n, s, j) = {},
             ea \/ du \subseteq ToSet(sn) \cup IdsFrom(f, n, s, j)
      PROVE  Finding(f, n, s, IdsFrom(f, n, s, 1), f.disk[nx].next,
                     sn \o IdsInOrder(f, nx), du, ea)
  <2>1. IdsFrom(f, n, s, j) = IdsOn(f, nx) \cup IdsFrom(f, n, s, j + 1)
    <3>1. IdsFrom(f, n, s, j) = IdsOn(f, s[j]) \cup IdsFrom(f, n, s, j + 1)
      BY <1>1, IdsSplit
    <3>. QED BY <1>3, <3>1
  <2>2. IdsOn(f, nx) \cap IdsFrom(f, n, s, j + 1) = {}
    <3>1. IdsOn(f, s[j]) \cap IdsFrom(f, n, s, j + 1) = {}
      BY <1>1, IdsApart
    <3>. QED BY <1>3, <3>1
  <2>3. PICK o : o = IdsInOrder(f, nx)
    OBVIOUS
  <2>4. o \in Seq(NodeId) /\ IsInjective(o) /\ ToSet(o) = IdsOn(f, nx)
    <3>1. /\ IdsInOrder(f, s[j]) \in Seq(NodeId) /\ IsInjective(IdsInOrder(f, s[j]))
          /\ ToSet(IdsInOrder(f, s[j])) = IdsOn(f, s[j])
      BY <1>1, IdsInOrderFacts
    <3>. QED BY <1>3, <2>3, <3>1
  <2>5. ToSet(sn) \cap ToSet(o) = {}
    BY <1>3, <2>1, <2>4
  <2>6. /\ sn \o o \in Seq(NodeId) /\ IsInjective(sn \o o)
        /\ ToSet(sn \o o) = ToSet(sn) \cup ToSet(o)
    BY <1>2, <2>4, <2>5, ConcatInjective
  <2>7. IdsFrom(f, n, s, j) \subseteq IdsFrom(f, n, s, 1)
    BY DEF IdsFrom
  <2>8. ToSet(sn \o o) \subseteq IdsFrom(f, n, s, 1)
    BY <1>2, <2>1, <2>4, <2>6, <2>7
  <2>9. f.disk[nx].next = IF j = n THEN 0 ELSE s[j + 1]
    BY <1>1, <1>3 DEF NodesListed, ChainOf, Chain
  <2>10. CASE j = n
    <3>1. j + 1 .. n = {}
      BY <2>10, <1>1
    <3>2. IdsFrom(f, n, s, j + 1) = {}
      BY <3>1, IdsEmpty
    <3>3. ea \/ du \subseteq ToSet(sn \o o)
      BY <1>3, <2>1, <2>4, <2>6, <3>2
    <3>. QED BY <2>3, <2>6, <2>8, <2>9, <2>10, <3>3 DEF Finding
  <2>11. CASE j # n
    <3>1. PICK k \in 1 .. n : k = j + 1
      BY <2>11, <1>1
    <3>2. ToSet(sn \o o) \cap IdsFrom(f, n, s, k) = {}
      BY <1>3, <2>1, <2>2, <2>4, <2>6, <3>1
    <3>3. ea \/ du \subseteq ToSet(sn \o o) \cup IdsFrom(f, n, s, k)
      BY <1>3, <2>1, <2>4, <2>6, <3>1
    <3>4. f.disk[nx].next = s[k]
      BY <2>9, <2>11, <3>1
    <3>. QED BY <2>3, <2>6, <2>8, <3>2, <3>3, <3>4 DEF Finding
  <2>. QED BY <2>10, <2>11
<1>4. ASSUME nx \in Page, f.disk[nx].type \in {"FREE", "NONE"}, sn = <<>>, ea
      PROVE  Finding(f, n, s, IdsFrom(f, n, s, 1), f.disk[nx].next,
                     sn \o IdsInOrder(f, nx), du, ea)
  <2>1. f.disk[nx].chunks = <<>>
    BY <1>1, <1>4 DEF PagesSound
  <2>2. IdsInOrder(f, nx) = <<>>
    BY <2>1 DEF IdsInOrder
  <2>3. sn \o IdsInOrder(f, nx) = <<>>
    BY <1>4, <2>2
  <2>4. ToSet(<<>>) = {}
    BY DEF ToSet
  <2>5. <<>> \in Seq(NodeId) /\ IsInjective(<<>>) /\ ToSet(<<>>) \subseteq IdsFrom(f, n, s, 1)
    BY <1>2, <1>4
  <2>6. f.disk[nx].next \in PageNum
    BY <1>1, <1>4, PageTyped DEF Header
  <2>7. CASE f.disk[nx].next = 0
    BY <1>4, <2>3, <2>5, <2>7 DEF Finding
  <2>8. CASE f.disk[nx].next # 0
    <3>1. f.disk[nx].next \in Page
      BY <2>6, <2>8, Constants
    <3>2. f.disk[nx].type = "FREE"
      BY <1>1, <1>4, <2>8 DEF PagesSound
    <3>3. \/ f.disk[f.disk[nx].next].type = "FREE"
          \/ \E i \in 1 .. n : f.disk[nx].next = s[i]
      BY <1>1, <1>4, <2>8, <3>2 DEF PagesSound
    <3>4. CASE f.disk[f.disk[nx].next].type = "FREE"
      BY <1>4, <2>3, <2>5, <3>1, <3>4 DEF Finding
    <3>5. CASE \E i \in 1 .. n : f.disk[nx].next = s[i]
      <4>1. PICK i \in 1 .. n : f.disk[nx].next = s[i]
        BY <3>5
      <4>. QED BY <1>4, <2>3, <2>4, <2>5, <4>1 DEF Finding
    <3>. QED BY <3>3, <3>4, <3>5
  <2>. QED BY <2>7, <2>8
<1>5. \/ \E j \in 1 .. n : /\ nx = s[j] /\ ToSet(sn) \cap IdsFrom(f, n, s, j) = {}
                           /\ ea \/ du \subseteq ToSet(sn) \cup IdsFrom(f, n, s, j)
      \/ nx \in Page /\ f.disk[nx].type \in {"FREE", "NONE"} /\ sn = <<>> /\ ea
  BY DEF Finding
<1>6. nx \in Page
  BY <1>1, <1>5
<1>. QED BY <1>3, <1>4, <1>5, <1>6

-----------------------------------------------------------------------------
(* The list that a file has.                                               *)

LEMMA GoodNodes ==
  ASSUME NEW f, NEW name, NEW h, NEW n, NEW s, Good(f, name, h, n, s)
  PROVE  /\ PagesFrom(f.disk, h) = s /\ Len(s) = n /\ n \in Nat /\ s \in [1 .. n -> Page]
         /\ h \in PageNum
         /\ h # 0 => h \in Page /\ f.disk[h].type = "NODE" /\ 1 \in 1 .. n /\ h = s[1]
         /\ f.disk \in [Page -> Header] /\ f.schema \in Schema
<1>1. Chain(f.disk, h, n, s) /\ \A i \in 1 .. n : f.disk[s[i]].type = "NODE"
  BY DEF Good, NodesListed, ChainOf
<1>2. PagesFrom(f.disk, h) = s /\ Len(s) = n
  BY <1>1, ChainFollowed
<1>3. n \in Nat /\ s \in [1 .. n -> Page]
  BY <1>1, Constants DEF Chain
<1>4. ASSUME h # 0
      PROVE  h \in Page /\ f.disk[h].type = "NODE" /\ 1 \in 1 .. n /\ h = s[1]
  <2>1. 1 \in 1 .. n /\ h = s[1] /\ h \in Page
    BY <1>1, <1>4, ChainStart
  <2>. QED BY <1>1, <2>1
<1>5. h \in PageNum
  BY <1>4, Constants
<1>. QED BY <1>2, <1>3, <1>4, <1>5 DEF Good, Filed

\* What an insertion under way has to itself.
LEMMA AtWork ==
  ASSUME IInv, NEW w \in Writer, Busy(w)
  PROVE  /\ ~ torn /\ Writing(w)
         /\ \A v \in Writer : v # w => ~ Busy(v)
         /\ pc[w] # "adding" => ~ Unwritten(file)
         /\ HeadIn(file, begun) = index[w].first
<1>1. ~ torn /\ Writing(w) /\ \A v \in Writer : v # w => ~ Busy(v)
  BY DEF IInv, OneAtATime
<1>2. \A v \in Writer : pc[v] = "adding" => Busy(v)
  BY DEF Busy
<1>3. pc[w] # "adding" => ~ Unwritten(file)
  BY <1>1, <1>2 DEF IInv, OneAtATime
<1>4. CASE pc[w] # "adding"
  <2>1. HeadIn(file, begun) = OnDisk.first /\ OnDisk = index[w]
    BY <1>1, <1>3, <1>4 DEF HeadIn, Writing, OnDisk
  <2>. QED BY <1>1, <1>3, <2>1
<1>5. CASE pc[w] = "adding" /\ Unwritten(file)
  <2>1. HeadIn(file, begun) = GetIndex(begun, Name).first /\ index[w] = GetIndex(begun, Name)
    BY <1>1, <1>5 DEF HeadIn, Writing
  <2>. QED BY <1>1, <1>3, <2>1
<1>6. CASE pc[w] = "adding" /\ ~ Unwritten(file)
  <2>1. /\ OnDisk = [index[w] EXCEPT !.first = Target(w).num, !.count = @ + 1]
        /\ index[w] \in IndexRecord
        /\ \/ fresh[w].num = 0 /\ index[w].first # 0 /\ page[w] = Held(index[w].first)
           \/ Taken(file, fresh[w].num)
    BY <1>1, <1>6 DEF Writing
  <2>2. OnDisk.first = Target(w).num
    BY <2>1 DEF IndexRecord
  <2>3. CASE fresh[w].num = 0 /\ index[w].first # 0 /\ page[w] = Held(index[w].first)
    <3>1. Target(w).num = index[w].first
      BY <2>3 DEF Target, Held
    <3>2. HeadIn(file, begun) = OnDisk.first
      BY <1>6 DEF HeadIn, OnDisk
    <3>. QED BY <1>1, <1>3, <2>2, <3>1, <3>2
  <2>4. CASE Taken(file, fresh[w].num)
    <3>1. fresh[w].num # 0 /\ file.disk[fresh[w].num].type # "NODE"
      BY <2>4, Constants DEF Taken
    <3>2. OnDisk.first = fresh[w].num
      BY <2>2, <3>1 DEF Target
    <3>. QED BY <1>6, <3>1, <3>2 DEF Unwritten, OnDisk
  <2>. QED BY <2>1, <2>3, <2>4
<1>. QED BY <1>4, <1>5, <1>6

Inside == {"constructed", "opened", "allocating", "saving", "linking", "counting", "adding"}

\* Of the writer, what a step of it leaves: other processes are where they were.
LEMMA Stepped ==
  ASSUME Typed, NEW w \in Writer, NEW x \in PCs \ {"finding", "found"},
         pc' = [pc EXCEPT ![w] = x]
  PROVE  /\ pc' \in [Session -> PCs] /\ pc'[w] = x
         /\ \A v \in Session : v # w => pc'[v] = pc[v]
         /\ \A v \in Writer : pc'[v] \notin {"finding", "found"}
         /\ \A r \in Reader : pc'[r] = pc[r] /\ pc'[r] \in {"idle", "dead", "finding", "found"}
<1>1. pc \in [Session -> PCs] /\ w \in Session /\ Writer \subseteq Session /\ Reader \subseteq Session
  BY DEF Typed, Session
<1>2. pc'[w] = x /\ \A v \in Session : v # w => pc'[v] = pc[v]
  BY <1>1
<1>3. \A r \in Reader : r # w
  BY SessionAssumption
<1>. QED BY <1>1, <1>2, <1>3 DEF Typed

\* A step of an insertion that leaves the list of nodes as it is.
LEMMA StepKeeps ==
  ASSUME IInv, NEW w \in Writer, Busy(w), NEW x \in Inside,
         pc' = [pc EXCEPT ![w] = x], UNCHANGED <<reading, answered, begun, torn>>,
         Function(index', Session), Function(schema', Session),
         Function(page', Writer), Function(fresh', Writer), Function(node', Writer),
         NEW h, NEW n, NEW s, h = HeadIn(file, begun), n = Len(Nodes), s = Nodes,
         HeadIn(file', begun') = h, Good(file', Name, h, n, s), SameIds(file, file', n, s),
         \A p \in Page : file'.disk[p].type = file.disk[p].type,
         Unwritten(file') =>
           /\ x = "adding" /\ OnDisk'.first \in Page
           /\ file'.disk[OnDisk'.first].type \in {"FREE", "NONE"},
         Writing(w)'
  PROVE  IInv'
<1>1. /\ pc' \in [Session -> PCs] /\ pc'[w] = x
      /\ \A v \in Session : v # w => pc'[v] = pc[v]
      /\ \A v \in Writer : pc'[v] \notin {"finding", "found"}
      /\ \A r \in Reader : pc'[r] = pc[r] /\ pc'[r] \in {"idle", "dead", "finding", "found"}
  <2>1. Typed /\ x \in PCs \ {"finding", "found"}
    BY DEF IInv, Inside, PCs
  <2>. QED BY <2>1, Stepped
<1>2. next' = next /\ seen' = seen /\ due' = due /\ early' = early
  BY DEF reading
<1>3. Typed'
  BY <1>1, <1>2 DEF IInv, Typed
<1>4. n \in Nat /\ PagesFrom(file'.disk, h) = s /\ Len(s) = n
  BY GoodNodes
<1>5. Nodes' = s
  BY <1>4 DEF Nodes, NodesIn
<1>6. NodesThere'
  <2>1. answered = IdsFrom(file, n, s, 1)
    BY DEF IInv, NodesThere
  <2>2. IdsFrom(file', n, s, 1) = IdsFrom(file, n, s, 1)
    BY DEF SameIds
  <2>. QED BY <1>4, <1>5, <2>1, <2>2 DEF NodesThere
<1>7. /\ ~ torn' /\ \A v \in Writer : v # w => ~ Busy(v)'
      /\ Busy(w)'
  <2>1. ~ torn /\ \A v \in Writer : v # w => ~ Busy(v)
    BY AtWork
  <2>2. \A v \in Writer : v \in Session
    BY DEF Session
  <2>. QED BY <1>1, <2>1, <2>2 DEF Busy, Inside
<1>8. OneAtATime'
  BY <1>1, <1>7 DEF OneAtATime
<1>9. \A v \in Writer : Busy(v)' => Writing(v)'
  BY <1>7
<1>10. ReadersOK'
  <2> SUFFICES ASSUME NEW r \in Reader
               PROVE  /\ pc'[r] = "finding" =>
                           Finding(file', n, s, answered', next'[r], seen'[r], due'[r], early'[r])
                      /\ pc'[r] = "found" =>
                           IsInjective(seen'[r]) /\ (early'[r] \/ due'[r] \subseteq ToSet(seen'[r]))
    BY <1>4, <1>5 DEF ReadersOK
  <2>1. /\ pc[r] = "finding" =>
             Finding(file, n, s, answered, next[r], seen[r], due[r], early[r])
        /\ pc[r] = "found" =>
             IsInjective(seen[r]) /\ (early[r] \/ due[r] \subseteq ToSet(seen[r]))
    BY DEF IInv, ReadersOK
  <2>2. pc[r] = "finding" =>
          Finding(file', n, s, answered, next[r], seen[r], due[r], early[r])
    <3> SUFFICES ASSUME pc[r] = "finding"
                 PROVE  Finding(file', n, s, answered, next[r], seen[r], due[r], early[r])
      OBVIOUS
    <3>. QED BY <1>4, <2>1, FindingKept
  <2>. QED BY <1>1, <1>2, <2>1, <2>2
<1>. QED BY <1>3, <1>6, <1>8, <1>9, <1>10 DEF IInv

\* What is kept for each process.
LEMMA Functions ==
  ASSUME IInv
  PROVE  /\ Function(index, Session) /\ Function(schema, Session)
         /\ Function(page, Writer) /\ Function(fresh, Writer) /\ Function(node, Writer)
         /\ pc \in [Session -> PCs]
         /\ \A w \in Writer : w \in Session
BY DEF IInv, Typed, Session

LEMMA OpenKeeps ==
  ASSUME IInv, NEW w \in Writer, Open(w)
  PROVE  IInv'
<1>1. /\ pc[w] = "constructed" /\ pc' = [pc EXCEPT ![w] = "opened"]
      /\ schema' = [schema EXCEPT ![w] = file.schema]
      /\ UNCHANGED <<file, index, page, fresh, node, reading, answered, begun, torn>>
  BY DEF Open, Goto
<1>2. Busy(w)
  BY <1>1 DEF Busy
<1>3. /\ Function(schema', Session) /\ schema'[w] = file.schema /\ pc'[w] = "opened"
  <2>1. w \in Session /\ Function(schema, Session) /\ pc \in [Session -> PCs]
    BY Functions
  <2>2. pc'[w] = "opened"
    BY <1>1, <2>1
  <2>. QED BY <1>1, <2>1, <2>2 DEF Function
<1>4. Writing(w) /\ ~ Unwritten(file)
  BY <1>1, <1>2, AtWork
<1>5. Writing(w)'
  <2>1. /\ node[w] \in NewNodes \cap Record /\ node[w].id \notin answered
        /\ index[w] \in IndexRecord /\ index[w].name = Name
        /\ index[w] = GetIndex(begun, Name) /\ GetIndex(file, Name) = index[w]
        /\ fresh[w] = NoPageHeld
    BY <1>1, <1>4 DEF Writing, OnDisk
  <2>. QED BY <1>1, <1>3, <2>1 DEF Writing, OnDisk
<1>6. PICK h, n, s : h = HeadIn(file, begun) /\ n = Len(Nodes) /\ s = Nodes
  OBVIOUS
<1>7. Good(file, Name, h, n, s)
  BY <1>6 DEF IInv, NodesThere
<1>8. SameIds(file, file, n, s)
  BY DEF SameIds
<1>9. "opened" \in Inside
  BY DEF Inside
<1>. QED BY <1>1, <1>2, <1>3, <1>4, <1>5, <1>6, <1>7, <1>8, <1>9, Functions, StepKeeps

LEMMA ReadFirstKeeps ==
  ASSUME IInv, NEW w \in Writer, ReadFirst(w)
  PROVE  IInv'
<1>1. PICK first : first = index[w].first
  OBVIOUS
<1>2. PICK x : x = IF first # 0 /\ Fits(file.disk[first], node[w]) THEN "counting" ELSE "allocating"
  OBVIOUS
<1>3. /\ pc[w] = "opened" /\ pc' = [pc EXCEPT ![w] = x]
      /\ page' = [page EXCEPT ![w] = Held(first)]
      /\ UNCHANGED <<file, index, schema, fresh, node, reading, answered, begun, torn>>
  BY <1>1, <1>2 DEF ReadFirst, Goto, Held
<1>4. Busy(w)
  BY <1>3 DEF Busy
<1>5. /\ Function(page', Writer) /\ page'[w] = Held(first) /\ pc'[w] = x
  <2>1. w \in Session /\ Function(page, Writer) /\ pc \in [Session -> PCs]
    BY Functions
  <2>2. pc'[w] = x
    BY <1>3, <2>1
  <2>. QED BY <1>3, <2>1, <2>2 DEF Function
<1>6. Writing(w) /\ ~ Unwritten(file)
  BY <1>3, <1>4, AtWork
<1>7. Writing(w)'
  <2>1. /\ node[w] \in NewNodes \cap Record /\ node[w].id \notin answered
        /\ index[w] \in IndexRecord /\ index[w].name = Name
        /\ index[w] = GetIndex(begun, Name) /\ GetIndex(file, Name) = index[w]
        /\ fresh[w] = NoPageHeld /\ schema[w] = file.schema
    BY <1>3, <1>6 DEF Writing, OnDisk
  <2>2. fresh[w].num = 0
    BY <2>1 DEF NoPageHeld
  <2>3. Held(first)' = Held(first)
    BY <1>3 DEF Held
  <2>4. CASE x = "allocating"
    BY <1>1, <1>3, <1>5, <2>1, <2>3, <2>4 DEF Writing, OnDisk
  <2>5. CASE x = "counting" /\ first # 0 /\ Fits(file.disk[first], node[w])
    BY <1>1, <1>3, <1>5, <2>1, <2>2, <2>3, <2>5 DEF Writing, OnDisk
  <2>. QED BY <1>2, <2>4, <2>5
<1>8. PICK h, n, s : h = HeadIn(file, begun) /\ n = Len(Nodes) /\ s = Nodes
  OBVIOUS
<1>9. Good(file, Name, h, n, s)
  BY <1>8 DEF IInv, NodesThere
<1>10. SameIds(file, file, n, s)
  BY DEF SameIds
<1>11. x \in Inside
  BY <1>2 DEF Inside
<1>. QED BY <1>3, <1>4, <1>5, <1>6, <1>7, <1>8, <1>9, <1>10, <1>11, Functions, StepKeeps

\* The page that get_free_page supplies.
LEMMA SuppliedPage ==
  ASSUME NEW f, NEW n, NEW s, Filed(f), FreeListed(f), PagesSound(f, n, s), NEW first \in PageNum
  PROVE  FreshPage([AllocPage(f.disk, f.schema) EXCEPT !.type = "NODE", !.prev = 0, !.next = first],
                   first)
<1>1. PICK x : x = AllocPage(f.disk, f.schema)
  OBVIOUS
<1>2. x \in Header /\ x.chunks = <<>> /\ x.free_space = Capacity
  BY <1>1, AllocPageFacts
<1>3. PICK y : y = [x EXCEPT !.type = "NODE", !.prev = 0, !.next = first]
  OBVIOUS
<1>4. y.type = "NODE" /\ y.next = first /\ y.chunks = <<>> /\ y.free_space = Capacity
  BY <1>2, <1>3 DEF Header
<1>5. y \in Header
  <2>1. 0 \in PageNum /\ "NODE" \in PageType
    BY Constants DEF PageType
  <2>. QED BY <1>2, <1>3, <2>1 DEF Header
<1>. QED BY <1>1, <1>3, <1>4, <1>5 DEF FreshPage

LEMMA TakePageKeeps ==
  ASSUME IInv, NEW w \in Writer, TakePage(w)
  PROVE  IInv'
<1>1. pc[w] = "allocating"
  BY DEF TakePage, Goto
<1>2. Busy(w)
  BY <1>1 DEF Busy
<1>3. PICK first : first = index[w].first
  OBVIOUS
<1>4. /\ Writing(w) /\ ~ Unwritten(file) /\ HeadIn(file, begun) = first
      /\ schema[w] = file.schema /\ page[w] = Held(first)
      /\ node[w] \in NewNodes \cap Record /\ node[w].id \notin answered
      /\ index[w] \in IndexRecord /\ index[w].name = Name
      /\ index[w] = GetIndex(begun, Name) /\ GetIndex(file, Name) = index[w]
  BY <1>1, <1>2, <1>3, AtWork DEF Writing, OnDisk
<1>5. PICK n, s : n = Len(Nodes) /\ s = Nodes
  OBVIOUS
<1>6. Good(file, Name, first, n, s)
  BY <1>4, <1>5 DEF IInv, NodesThere
<1>7. /\ Filed(file) /\ FreeListed(file) /\ PagesSound(file, n, s)
      /\ first \in PageNum /\ (first # 0 => first \in Page /\ file.disk[first].type = "NODE")
      /\ file.schema \in Schema
  BY <1>6, GoodNodes DEF Good
<1>8. page[w].num = first
  BY <1>4 DEF Held, NoPageHeld
<1>9. PICK num : num = AllocNum(file.schema)
  OBVIOUS
<1>10. /\ num <= MaxPage /\ pc' = [pc EXCEPT ![w] = "saving"]
       /\ fresh' = [fresh EXCEPT
                     ![w] = [num |-> num,
                             page |-> [AllocPage(file.disk, file.schema)
                                         EXCEPT !.type = "NODE", !.prev = 0, !.next = first]]]
       /\ file' = [file EXCEPT !.disk = AllocDisk(file.disk, file.schema)]
       /\ UNCHANGED <<index, page, node, reading, answered, begun, torn>>
  BY <1>4, <1>8, <1>9 DEF TakePage, Goto
<1>11. schema' = [schema EXCEPT ![w] = AllocSchema(file.disk, file.schema)]
  BY <1>4 DEF TakePage
<1>12. /\ Function(fresh', Writer) /\ fresh'[w].num = num
       /\ FreshPage(fresh'[w].page, first) /\ pc'[w] = "saving"
  <2>1. w \in Session /\ Function(fresh, Writer) /\ pc \in [Session -> PCs]
    BY Functions
  <2>2. pc'[w] = "saving"
    BY <1>10, <2>1
  <2>3. PICK y : y = [AllocPage(file.disk, file.schema)
                        EXCEPT !.type = "NODE", !.prev = 0, !.next = first]
    OBVIOUS
  <2>4. FreshPage(y, first)
    BY <1>7, <2>3, SuppliedPage
  <2>5. Function(fresh', Writer) /\ fresh'[w] = [num |-> num, page |-> y]
    BY <1>10, <2>1, <2>3 DEF Function
  <2>. QED BY <2>2, <2>4, <2>5
<1>13. Function(schema', Session) /\ schema'[w] = AllocSchema(file.disk, file.schema)
  <2>1. w \in Session /\ Function(schema, Session)
    BY Functions
  <2>. QED BY <1>11, <2>1 DEF Function
<1>14. PICK g : g = file'
  OBVIOUS
<1>15. g.schema = file.schema /\ g.disk = AllocDisk(file.disk, file.schema)
       /\ g = [disk |-> g.disk, schema |-> g.schema]
  <2>1. file = [disk |-> file.disk, schema |-> file.schema]
    BY <1>7 DEF Filed
  <2>. QED BY <1>10, <1>14, <2>1
<1>16. /\ g.disk \in [Page -> Header]
       /\ \A q \in Page :
            /\ g.disk[q].type = file.disk[q].type
            /\ g.disk[q].next = file.disk[q].next
            /\ g.disk[q].chunks = file.disk[q].chunks
            /\ g.disk[q].free_space = file.disk[q].free_space
            /\ file.disk[q].type # "FREE" => g.disk[q] = file.disk[q]
  BY <1>7, <1>15, AllocDiskFacts
<1>17. Filed(g)
  BY <1>7, <1>15, <1>16 DEF Filed
<1>18. /\ Good(g, Name, first, n, s) /\ SameIds(file, g, n, s)
       /\ GetIndex(g, Name) = GetIndex(file, Name)
  <2>1. \A p \in Page : /\ g.disk[p].type = file.disk[p].type
                        /\ g.disk[p].next = file.disk[p].next
                        /\ g.disk[p].chunks = file.disk[p].chunks
                        /\ g.disk[p].free_space = file.disk[p].free_space
    BY <1>16
  <2>. QED BY <1>6, <1>15, <1>17, <2>1, PrevGood
<1>19. num \in Page
  <2>1. /\ file.schema.free_page \in PageNum /\ file.schema.last_page_num \in PageNum
    BY <1>7 DEF Schema
  <2>. QED BY <1>9, <1>10, <2>1, Constants DEF AllocNum
<1>20. AllocSchema(g.disk, g.schema) = AllocSchema(file.disk, file.schema)
  <2>1. CASE file.schema.free_page # 0
    <3>1. file.schema.free_page \in Page
      BY <1>7, <2>1, Constants DEF Schema
    <3>2. g.disk[file.schema.free_page].next = file.disk[file.schema.free_page].next
      BY <1>16, <3>1
    <3>. QED BY <1>15, <2>1, <3>2 DEF AllocSchema
  <2>2. CASE file.schema.free_page = 0
    BY <1>15, <2>2 DEF AllocSchema
  <2>. QED BY <2>1, <2>2
<1>21. page'[w] = Held(first)'
  <2>1. first # 0 => g.disk[first] = file.disk[first]
    BY <1>7, <1>16
  <2>. QED BY <1>4, <1>10, <1>14, <2>1 DEF Held
<1>22. Writing(w)'
  BY <1>3, <1>4, <1>9, <1>10, <1>12, <1>13, <1>14, <1>15, <1>18, <1>19, <1>20, <1>21
  DEF Writing, OnDisk
<1>23. ~ Unwritten(file') /\ HeadIn(file', begun') = first
  <2>1. GetIndex(g, Name).first = first /\ (first # 0 => g.disk[first].type = "NODE")
    BY <1>3, <1>4, <1>7, <1>16, <1>18
  <2>. QED BY <1>14, <2>1 DEF Unwritten, HeadIn
<1>24. "saving" \in Inside
  BY DEF Inside
<1>25. /\ Function(index', Session) /\ Function(page', Writer) /\ Function(node', Writer)
  BY <1>10, Functions
<1>. QED BY <1>2, <1>4, <1>5, <1>10, <1>12, <1>13, <1>14, <1>16, <1>18, <1>22, <1>23, <1>24, <1>25, StepKeeps

LEMMA SavePage0Keeps ==
  ASSUME IInv, NEW w \in Writer, SavePage0(w)
  PROVE  IInv'
<1>1. pc[w] = "saving"
  BY DEF SavePage0, Goto
<1>2. Busy(w)
  BY <1>1 DEF Busy
<1>3. PICK first : first = index[w].first
  OBVIOUS
<1>4. /\ Writing(w) /\ ~ Unwritten(file) /\ HeadIn(file, begun) = first
      /\ page[w] = Held(first) /\ schema[w] = AllocSchema(file.disk, file.schema)
      /\ fresh[w].num = AllocNum(file.schema) /\ fresh[w].num \in Page
      /\ FreshPage(fresh[w].page, first)
      /\ node[w] \in NewNodes \cap Record /\ node[w].id \notin answered
      /\ index[w] \in IndexRecord /\ index[w].name = Name
      /\ index[w] = GetIndex(begun, Name) /\ GetIndex(file, Name) = index[w]
  BY <1>1, <1>2, <1>3, AtWork DEF Writing, OnDisk
<1>5. PICK n, s : n = Len(Nodes) /\ s = Nodes
  OBVIOUS
<1>6. Good(file, Name, first, n, s)
  BY <1>4, <1>5 DEF IInv, NodesThere
<1>7. /\ Filed(file) /\ n \in Nat
      /\ (first # 0 => first \in Page /\ file.disk[first].type = "NODE")
  BY <1>6, GoodNodes DEF Good
<1>8. page[w].num = first
  BY <1>4 DEF Held, NoPageHeld
<1>9. PICK x : x = IF first = 0 THEN "counting" ELSE "linking"
  OBVIOUS
<1>10. /\ pc' = [pc EXCEPT ![w] = x]
       /\ file' = [file EXCEPT !.schema = AllocSchema(file.disk, file.schema)]
       /\ UNCHANGED <<index, schema, page, fresh, node, reading, answered, begun, torn>>
  BY <1>4, <1>8, <1>9 DEF SavePage0, Goto
<1>11. pc'[w] = x
  <2>1. w \in Session /\ pc \in [Session -> PCs]
    BY Functions
  <2>. QED BY <1>10, <2>1
<1>12. PICK g : g = [disk |-> file.disk, schema |-> AllocSchema(file.disk, file.schema)]
  OBVIOUS
<1>13. file' = g
  <2>1. file = [disk |-> file.disk, schema |-> file.schema]
    BY <1>7 DEF Filed
  <2>. QED BY <1>10, <1>12, <2>1
<1>14. /\ Good(g, Name, first, n, s) /\ GetIndex(g, Name) = GetIndex(file, Name)
       /\ Taken(g, fresh[w].num)
  <2>1. AllocNum(file.schema) \in Page
    BY <1>4
  <2>2. LET g0 == [disk |-> file.disk, schema |-> AllocSchema(file.disk, file.schema)]
        IN  /\ Good(g0, Name, first, n, s) /\ GetIndex(g0, Name) = GetIndex(file, Name)
            /\ Taken(g0, AllocNum(file.schema))
    BY <1>6, <2>1, AllocGood
  <2>. QED BY <1>4, <1>12, <2>2
<1>15. g.disk = file.disk
  BY <1>12
<1>16. SameIds(file, g, n, s)
  BY <1>7, <1>15, IdsKept
<1>17. page'[w] = Held(first)'
  BY <1>4, <1>10, <1>13, <1>15 DEF Held
<1>18. Writing(w)'
  <2>1. CASE first # 0
    <3>1. pc'[w] = "linking"
      BY <1>9, <1>11, <2>1
    <3>. QED BY <1>3, <1>4, <1>10, <1>13, <1>14, <1>17, <2>1, <3>1 DEF Writing, OnDisk
  <2>2. CASE first = 0
    <3>1. pc'[w] = "counting"
      BY <1>9, <1>11, <2>2
    <3>. QED BY <1>3, <1>4, <1>10, <1>13, <1>14, <2>2, <3>1 DEF Writing, OnDisk
  <2>. QED BY <2>1, <2>2
<1>19. ~ Unwritten(file') /\ HeadIn(file', begun') = first
  <2>1. GetIndex(g, Name).first = first /\ (first # 0 => g.disk[first].type = "NODE")
    BY <1>3, <1>4, <1>7, <1>14, <1>15
  <2>. QED BY <1>13, <2>1 DEF Unwritten, HeadIn
<1>20. x \in Inside
  BY <1>9 DEF Inside
<1>21. /\ Function(index', Session) /\ Function(schema', Session) /\ Function(page', Writer)
       /\ Function(fresh', Writer) /\ Function(node', Writer)
  BY <1>10, Functions
<1>22. \A p \in Page : file'.disk[p].type = file.disk[p].type
  BY <1>13, <1>15
<1>23. Good(file', Name, first, n, s) /\ SameIds(file, file', n, s)
  BY <1>13, <1>14, <1>16
<1>24. UNCHANGED <<reading, answered, begun, torn>>
  BY <1>10
<1>25. pc' = [pc EXCEPT ![w] = x] /\ first = HeadIn(file, begun)
  BY <1>4, <1>10
<1>. QED BY <1>2, <1>5, <1>18, <1>19, <1>20, <1>21, <1>22, <1>23, <1>24, <1>25, StepKeeps

\* Nothing has been written to the page since it was read.
LEMMA LinkFirstWrites ==
  ASSUME IInv, NEW w \in Writer, LinkFirst(w)
  PROVE  /\ file'.schema = file.schema
         /\ file'.disk = SetPrev(file.disk, index[w].first, fresh[w].num)
         /\ file' = [disk |-> file'.disk, schema |-> file'.schema]
<1>1. pc[w] = "linking"
  BY DEF LinkFirst, Goto
<1>2. Busy(w)
  BY <1>1 DEF Busy
<1>3. PICK first : first = index[w].first
  OBVIOUS
<1>4. /\ HeadIn(file, begun) = first /\ page[w] = Held(first) /\ first # 0
  BY <1>1, <1>2, <1>3, AtWork DEF Writing
<1>5. Good(file, Name, first, Len(Nodes), Nodes)
  BY <1>4 DEF IInv, NodesThere
<1>6. Filed(file) /\ first \in Page /\ file.disk \in [Page -> Header]
  BY <1>4, <1>5, GoodNodes DEF Good
<1>7. page[w].num = first /\ page[w].page = file.disk[first]
  BY <1>4 DEF Held
<1>8. PICK g : g = file'
  OBVIOUS
<1>9. g = [file EXCEPT !.disk = SetPrev(file.disk, first, fresh[w].num)]
  <2>1. PICK d : d = file.disk
    OBVIOUS
  <2>2. d[first] \in Header
    BY <1>6, <2>1
  <2>3. PICK c : c = d[first].chunks
    OBVIOUS
  <2>4. c \in Seq(Record)
    BY <2>2, <2>3 DEF Header
  <2>5. c = [i \in DOMAIN c |-> c[i]]
    BY <2>4
  <2>6. [i \in DOMAIN c |-> IF i \in DOMAIN c THEN c[i] ELSE c[i]] = c
    BY <2>5
  <2>7. [d[first] EXCEPT !.prev = fresh[w].num,
                         !.chunks = [i \in DOMAIN @ |-> IF i \in DOMAIN c THEN c[i] ELSE @[i]]]
        = [d[first] EXCEPT !.prev = fresh[w].num]
    BY <2>2, <2>3, <2>6 DEF Header
  <2>8. file' = [file EXCEPT !.disk[first] =
                   [d[first] EXCEPT !.prev = fresh[w].num,
                                    !.chunks = [i \in DOMAIN @ |-> IF i \in DOMAIN c THEN c[i] ELSE @[i]]]]
    BY <1>7, <2>1, <2>3 DEF LinkFirst
  <2>9. file' = [file EXCEPT !.disk[first] = [d[first] EXCEPT !.prev = fresh[w].num]]
    BY <2>7, <2>8
  <2>. QED BY <1>4, <1>6, <1>8, <2>1, <2>9 DEF SetPrev
<1>10. file = [disk |-> file.disk, schema |-> file.schema]
  BY <1>6 DEF Filed
<1>. QED BY <1>3, <1>8, <1>9, <1>10

LEMMA LinkFirstKeeps ==
  ASSUME IInv, NEW w \in Writer, LinkFirst(w)
  PROVE  IInv'
<1>1. pc[w] = "linking"
  BY DEF LinkFirst, Goto
<1>2. Busy(w)
  BY <1>1 DEF Busy
<1>3. PICK first : first = index[w].first
  OBVIOUS
<1>4. /\ Writing(w) /\ ~ Unwritten(file) /\ HeadIn(file, begun) = first
      /\ page[w] = Held(first) /\ first # 0 /\ Taken(file, fresh[w].num)
      /\ FreshPage(fresh[w].page, first)
      /\ node[w] \in NewNodes \cap Record /\ node[w].id \notin answered
      /\ index[w] \in IndexRecord /\ index[w].name = Name
      /\ index[w] = GetIndex(begun, Name) /\ GetIndex(file, Name) = index[w]
  BY <1>1, <1>2, <1>3, AtWork DEF Writing, OnDisk
<1>5. PICK n, s : n = Len(Nodes) /\ s = Nodes
  OBVIOUS
<1>6. Good(file, Name, first, n, s)
  BY <1>4, <1>5 DEF IInv, NodesThere
<1>7. /\ Filed(file) /\ n \in Nat /\ first \in Page /\ file.disk[first].type = "NODE"
      /\ file.disk \in [Page -> Header] /\ fresh[w].num \in PageNum
  BY <1>4, <1>6, GoodNodes, Constants DEF Good, Taken
<1>8. page[w].num = first /\ page[w].page = file.disk[first]
  BY <1>4 DEF Held
<1>9. pc' = [pc EXCEPT ![w] = "counting"]
      /\ UNCHANGED <<index, schema, page, fresh, node, reading, answered, begun, torn>>
  BY DEF LinkFirst, Goto
<1>10. pc'[w] = "counting"
  <2>1. w \in Session /\ pc \in [Session -> PCs]
    BY Functions
  <2>. QED BY <1>9, <2>1
<1>11. PICK g : g = file'
  OBVIOUS
<1>13. g.schema = file.schema /\ g.disk = SetPrev(file.disk, first, fresh[w].num)
       /\ g = [disk |-> g.disk, schema |-> g.schema]
  BY <1>3, <1>11, LinkFirstWrites
<1>14. /\ g.disk \in [Page -> Header]
       /\ \A q \in Page : /\ g.disk[q].type = file.disk[q].type
                          /\ g.disk[q].next = file.disk[q].next
                          /\ g.disk[q].chunks = file.disk[q].chunks
                          /\ g.disk[q].free_space = file.disk[q].free_space
  <2>1. first \in PageNum
    BY <1>7, Constants
  <2>. QED BY <1>7, <1>13, <2>1, SetPrevTyped
<1>15. Filed(g)
  BY <1>7, <1>13, <1>14 DEF Filed
<1>16. /\ Good(g, Name, first, n, s) /\ SameIds(file, g, n, s) /\ Free(g) = Free(file)
       /\ GetIndex(g, Name) = GetIndex(file, Name)
  BY <1>6, <1>13, <1>14, <1>15, PrevGood
<1>17. Taken(g, fresh[w].num)
  BY <1>4, <1>13, <1>14, <1>16 DEF Taken
<1>18. Writing(w)'
  BY <1>3, <1>4, <1>9, <1>10, <1>11, <1>16, <1>17 DEF Writing, OnDisk
<1>19. ~ Unwritten(file') /\ HeadIn(file', begun') = first
  <2>1. GetIndex(g, Name).first = first /\ (first # 0 => g.disk[first].type = "NODE")
    BY <1>3, <1>4, <1>7, <1>14, <1>16
  <2>. QED BY <1>11, <2>1 DEF Unwritten, HeadIn
<1>20. "counting" \in Inside
  BY DEF Inside
<1>21. /\ Function(index', Session) /\ Function(schema', Session) /\ Function(page', Writer)
       /\ Function(fresh', Writer) /\ Function(node', Writer)
  BY <1>9, Functions
<1>22. \A p \in Page : file'.disk[p].type = file.disk[p].type
  BY <1>11, <1>14
<1>. QED BY <1>2, <1>4, <1>5, <1>9, <1>11, <1>16, <1>18, <1>19, <1>20, <1>21, <1>22, StepKeeps

\* The index record ix names a page and counts a node more than the one before.
NodeCounted(old, num, ix) == ix = [old EXCEPT !.first = num, !.count = @ + 1]

LEMMA Counted ==
  ASSUME NEW old \in IndexRecord, NEW num \in 0 .. MaxPage, NEW ix, NodeCounted(old, num, ix)
  PROVE  /\ ix \in IndexRecord /\ ix.name = old.name /\ ix.first = num
         /\ ix.rec = "INDEX" /\ ix.count = old.count + 1
<1>1. PICK c \in Nat : c = old.count
  BY DEF IndexRecord
<1>2. c + 1 \in Nat
  OBVIOUS
<1>3. ix = [old EXCEPT !.first = num, !.count = c + 1]
  BY <1>1 DEF NodeCounted
<1>. QED BY <1>1, <1>2, <1>3 DEF IndexRecord

LEMMA CountNodeKeeps ==
  ASSUME IInv, NEW w \in Writer, CountNode(w)
  PROVE  IInv'
<1>1. pc[w] = "counting"
  BY DEF CountNode, Goto
<1>2. Busy(w)
  BY <1>1 DEF Busy
<1>3. PICK first : first = index[w].first
  OBVIOUS
<1>4. /\ Writing(w) /\ ~ Unwritten(file) /\ HeadIn(file, begun) = first
      /\ \/ /\ fresh[w].num = 0 /\ first # 0
            /\ page[w] = Held(first) /\ Fits(file.disk[first], node[w])
         \/ Taken(file, fresh[w].num) /\ FreshPage(fresh[w].page, first)
      /\ node[w] \in NewNodes \cap Record /\ node[w].id \notin answered
      /\ index[w] \in IndexRecord /\ index[w].name = Name
      /\ index[w] = GetIndex(begun, Name) /\ GetIndex(file, Name) = index[w]
  BY <1>1, <1>2, <1>3, AtWork DEF Writing, OnDisk
<1>5. PICK n, s : n = Len(Nodes) /\ s = Nodes
  OBVIOUS
<1>6. Good(file, Name, first, n, s)
  BY <1>4, <1>5 DEF IInv, NodesThere
<1>7. first # 0 => first \in Page /\ file.disk[first].type = "NODE"
  BY <1>6, GoodNodes
<1>8. PICK num : num = Target(w).num
  OBVIOUS
<1>9. \/ num = first /\ first # 0 /\ num \in Page /\ file.disk[num].type = "NODE"
      \/ num = fresh[w].num /\ num # 0 /\ Taken(file, num)
  <2>1. CASE fresh[w].num = 0 /\ first # 0 /\ page[w] = Held(first)
    <3>1. num = first
      BY <1>8, <2>1 DEF Target, Held
    <3>. QED BY <1>7, <2>1, <3>1
  <2>2. CASE Taken(file, fresh[w].num)
    <3>1. fresh[w].num # 0
      BY <2>2, Constants DEF Taken
    <3>. QED BY <1>8, <2>2, <3>1 DEF Target
  <2>. QED BY <1>4, <2>1, <2>2
<1>10. num \in Page
  BY <1>9 DEF Taken
<1>11. PICK ix : ix = [index[w] EXCEPT !.first = num, !.count = @ + 1]
  OBVIOUS
<1>12. ix \in IndexRecord /\ ix.name = Name /\ ix.first = num
  <2>1. num \in 0 .. MaxPage
    BY <1>10, Constants
  <2>2. PICK old \in IndexRecord : old = index[w] /\ old.name = Name
    BY <1>4
  <2>3. NodeCounted(old, num, ix)
    BY <1>11, <2>2 DEF NodeCounted
  <2>. QED BY <2>1, <2>2, <2>3, Counted
<1>13. /\ pc' = [pc EXCEPT ![w] = "adding"] /\ file' = SaveIndex(file, ix)
       /\ UNCHANGED <<index, schema, page, fresh, node, reading, answered, begun, torn>>
  BY <1>8, <1>11 DEF CountNode, Goto
<1>14. pc'[w] = "adding"
  <2>1. w \in Session /\ pc \in [Session -> PCs]
    BY Functions
  <2>. QED BY <1>13, <2>1
<1>15. PICK g : g = file'
  OBVIOUS
<1>16. /\ Good(g, Name, first, n, s) /\ SameIds(file, g, n, s) /\ Free(g) = Free(file)
       /\ GetIndex(g, Name) = ix /\ g.schema = file.schema
       /\ \A p \in Page : /\ g.disk[p].type = file.disk[p].type
                          /\ file.disk[p].type # "INDEX" => g.disk[p] = file.disk[p]
  <2>1. LET g0 == SaveIndex(file, ix)
        IN  /\ Good(g0, Name, first, n, s) /\ Free(g0) = Free(file)
            /\ SameIds(file, g0, n, s) /\ GetIndex(g0, Name) = ix /\ g0.schema = file.schema
            /\ \A p \in Page : /\ g0.disk[p].type = file.disk[p].type
                               /\ file.disk[p].type # "INDEX" => g0.disk[p] = file.disk[p]
    BY <1>6, <1>12, SaveIndexGood
  <2>. QED BY <1>13, <1>15, <2>1
<1>17. Target(w)' = Target(w)
  BY <1>13 DEF Target
<1>18. /\ Writing(w)'
       /\ HeadIn(file', begun') = first
       /\ Unwritten(file') => g.disk[num].type \in {"FREE", "NONE"}
  <2>1. CASE fresh[w].num = 0 /\ first # 0 /\ page[w] = Held(first) /\ Fits(file.disk[first], node[w])
    <3>1. num = first
      BY <1>8, <2>1 DEF Target, Held
    <3>2. g.disk[first] = file.disk[first] /\ g.disk[first].type = "NODE"
      BY <1>7, <1>16, <2>1
    <3>3. page'[w] = Held(first)'
      BY <1>13, <1>15, <2>1, <3>2 DEF Held
    <3>4. ~ Unwritten(file') /\ HeadIn(file', begun') = first
      BY <1>12, <1>15, <1>16, <3>1, <3>2 DEF Unwritten, HeadIn
    <3>5. /\ fresh'[w].num = 0 /\ index'[w].first # 0
          /\ page'[w] = Held(index[w].first)' /\ Fits(file'.disk[index'[w].first], node'[w])
      BY <1>3, <1>13, <1>15, <2>1, <3>2, <3>3
    <3>6. OnDisk' = [index'[w] EXCEPT !.first = Target(w)'.num, !.count = @ + 1]
      BY <1>8, <1>11, <1>13, <1>15, <1>16, <1>17 DEF OnDisk
    <3>7. Writing(w)'
      BY <1>4, <1>13, <1>14, <3>5, <3>6 DEF Writing
    <3>. QED BY <3>4, <3>7
  <2>2. CASE Taken(file, fresh[w].num) /\ FreshPage(fresh[w].page, first)
    <3>1. num = fresh[w].num /\ num # 0
      <4>1. fresh[w].num # 0
        BY <2>2, Constants DEF Taken
      <4>. QED BY <1>8, <4>1 DEF Target
    <3>2. g.disk[num].type \in {"FREE", "NONE"}
      BY <1>10, <1>16, <2>2, <3>1 DEF Taken
    <3>3. Taken(g, num)
      BY <1>16, <2>2, <3>1, <3>2 DEF Taken
    <3>4. Unwritten(file') /\ HeadIn(file', begun') = first
      BY <1>3, <1>4, <1>12, <1>13, <1>15, <1>16, <3>1, <3>2 DEF Unwritten, HeadIn
    <3>5. Writing(w)'
      BY <1>3, <1>4, <1>8, <1>11, <1>13, <1>14, <1>15, <1>16, <1>17, <2>2, <3>1, <3>3
      DEF Writing, OnDisk
    <3>. QED BY <3>2, <3>4, <3>5
  <2>. QED BY <1>4, <2>1, <2>2
<1>19. Unwritten(file') =>
         OnDisk'.first \in Page /\ file'.disk[OnDisk'.first].type \in {"FREE", "NONE"}
  BY <1>10, <1>12, <1>15, <1>16, <1>18 DEF OnDisk
<1>20. "adding" \in Inside
  BY DEF Inside
<1>21. /\ Function(index', Session) /\ Function(schema', Session) /\ Function(page', Writer)
       /\ Function(fresh', Writer) /\ Function(node', Writer)
  BY <1>13, Functions
<1>22. \A p \in Page : file'.disk[p].type = file.disk[p].type
  BY <1>15, <1>16
<1>. QED BY <1>2, <1>4, <1>5, <1>13, <1>15, <1>16, <1>18, <1>19, <1>20, <1>21, <1>22, StepKeeps

\* An insertion ends with a list of nodes on which every selection goes on.
LEMMA StepAdds ==
  ASSUME IInv, NEW w \in Writer, pc[w] = "adding", pc' = [pc EXCEPT ![w] = "idle"],
         UNCHANGED <<index, schema, page, fresh, node, reading, begun, torn>>,
         NEW h, NEW m, NEW t, Good(file', Name, h, m, t), HeadIn(file', begun') = h,
         ~ Unwritten(file'), answered' = IdsFrom(file', m, t, 1),
         \A r \in Reader : pc[r] = "finding" =>
           Finding(file', m, t, answered', next[r], seen[r], due[r], early[r])
  PROVE  IInv'
<1>1. /\ pc' \in [Session -> PCs] /\ pc'[w] = "idle"
      /\ \A v \in Session : v # w => pc'[v] = pc[v]
      /\ \A v \in Writer : pc'[v] \notin {"finding", "found"}
      /\ \A r \in Reader : pc'[r] = pc[r] /\ pc'[r] \in {"idle", "dead", "finding", "found"}
  <2>1. Typed /\ "idle" \in PCs \ {"finding", "found"}
    BY DEF IInv, PCs
  <2>. QED BY <2>1, Stepped
<1>2. next' = next /\ seen' = seen /\ due' = due /\ early' = early
  BY DEF reading
<1>3. Typed'
  BY <1>1, <1>2 DEF IInv, Typed
<1>4. m \in Nat /\ PagesFrom(file'.disk, h) = t /\ Len(t) = m
  BY GoodNodes
<1>5. Nodes' = t
  BY <1>4 DEF Nodes, NodesIn
<1>6. NodesThere'
  BY <1>4, <1>5 DEF NodesThere
<1>7. \A v \in Writer : ~ Busy(v)'
  <2>1. Busy(w)
    BY DEF Busy
  <2>2. \A v \in Writer : v # w => ~ Busy(v)
    BY <2>1, AtWork
  <2>3. \A v \in Writer : v \in Session
    BY DEF Session
  <2>. QED BY <1>1, <2>2, <2>3 DEF Busy
<1>8. OneAtATime'
  BY <1>7 DEF OneAtATime
<1>9. ReadersOK'
  <2> SUFFICES ASSUME NEW r \in Reader
               PROVE  /\ pc'[r] = "finding" =>
                           Finding(file', m, t, answered', next'[r], seen'[r], due'[r], early'[r])
                      /\ pc'[r] = "found" =>
                           IsInjective(seen'[r]) /\ (early'[r] \/ due'[r] \subseteq ToSet(seen'[r]))
    BY <1>4, <1>5 DEF ReadersOK
  <2>1. pc[r] = "found" =>
             IsInjective(seen[r]) /\ (early[r] \/ due[r] \subseteq ToSet(seen[r]))
    BY DEF IInv, ReadersOK
  <2>. QED BY <1>1, <1>2, <2>1
<1>. QED BY <1>3, <1>6, <1>7, <1>8, <1>9 DEF IInv

LEMMA AddChunkKeeps ==
  ASSUME IInv, NEW w \in Writer, AddChunk(w)
  PROVE  IInv'
<1>1. pc[w] = "adding"
  BY DEF AddChunk, Goto
<1>2. Busy(w)
  BY <1>1 DEF Busy
<1>3. PICK first : first = index[w].first
  OBVIOUS
<1>4. /\ Writing(w) /\ HeadIn(file, begun) = first
      /\ \/ /\ fresh[w].num = 0 /\ first # 0
            /\ page[w] = Held(first) /\ Fits(file.disk[first], node[w])
         \/ Taken(file, fresh[w].num) /\ FreshPage(fresh[w].page, first)
      /\ node[w] \in NewNodes \cap Record /\ node[w].id \notin answered
      /\ index[w] \in IndexRecord
      /\ GetIndex(file, Name) = [index[w] EXCEPT !.first = Target(w).num, !.count = @ + 1]
  BY <1>1, <1>2, <1>3, AtWork DEF Writing, OnDisk
<1>5. PICK n, s : n = Len(Nodes) /\ s = Nodes
  OBVIOUS
<1>6. Good(file, Name, first, n, s) /\ answered = IdsFrom(file, n, s, 1)
  BY <1>4, <1>5 DEF IInv, NodesThere
<1>7. n \in Nat /\ (first # 0 => first \in Page /\ file.disk[first].type = "NODE")
  BY <1>6, GoodNodes
<1>8. GetIndex(file, Name).first = Target(w).num
  BY <1>4 DEF IndexRecord
<1>9. PICK new : new = node[w]
  OBVIOUS
<1>10. New(file, n, s, new)
  BY <1>4, <1>6, <1>9 DEF New, NewNodes
<1>11. PICK g : g = file'
  OBVIOUS
<1>12. /\ pc' = [pc EXCEPT ![w] = "idle"]
       /\ g = Put(file, Target(w).num, Target(w).page, new)
       /\ answered' = answered \cup {new.id}
       /\ UNCHANGED <<index, schema, page, fresh, node, reading, begun, torn>>
  BY <1>9, <1>11 DEF AddChunk, Goto
<1>13. \A r \in Reader : pc[r] = "finding" =>
         Finding(file, n, s, answered, next[r], seen[r], due[r], early[r])
  BY <1>5 DEF IInv, ReadersOK
<1>14. CASE fresh[w].num = 0 /\ first # 0 /\ page[w] = Held(first) /\ Fits(file.disk[first], node[w])
  <2>1. g = Put(file, first, file.disk[first], new) /\ Target(w).num = first
    BY <1>12, <1>14 DEF Target, Held
  <2>2. /\ Good(g, Name, first, n, s) /\ GetIndex(g, Name) = GetIndex(file, Name)
        /\ \A p \in Page : g.disk[p].type = file.disk[p].type
        /\ IdsFrom(g, n, s, 1) = IdsFrom(file, n, s, 1) \cup {new.id}
        /\ \A j \in 2 .. n : IdsFrom(g, n, s, j) = IdsFrom(file, n, s, j)
    <3>1. Fits(file.disk[first], new)
      BY <1>9, <1>14
    <3>2. LET g0 == Put(file, first, file.disk[first], new)
          IN  /\ Good(g0, Name, first, n, s) /\ GetIndex(g0, Name) = GetIndex(file, Name)
              /\ first = s[1] /\ 1 \in 1 .. n
              /\ \A p \in Page : g0.disk[p].type = file.disk[p].type
              /\ IdsFrom(g0, n, s, 1) = IdsFrom(file, n, s, 1) \cup {new.id}
              /\ \A j \in 2 .. n : IdsFrom(g0, n, s, j) = IdsFrom(file, n, s, j)
      BY <1>6, <1>10, <1>14, <3>1, PutFirst
    <3>. QED BY <2>1, <3>2
  <2>3. ~ Unwritten(file') /\ HeadIn(file', begun') = first
    BY <1>7, <1>8, <1>11, <1>14, <2>1, <2>2 DEF Unwritten, HeadIn
  <2>4. answered' = IdsFrom(g, n, s, 1)
    BY <1>6, <1>12, <2>2
  <2>5. new.id \notin answered
    BY <1>4, <1>9
  <2>6. \A r \in Reader : pc[r] = "finding" =>
          Finding(g, n, s, answered', next[r], seen[r], due[r], early[r])
    <3> SUFFICES ASSUME NEW r \in Reader, pc[r] = "finding"
                 PROVE  Finding(g, n, s, answered', next[r], seen[r], due[r], early[r])
      OBVIOUS
    <3>1. PICK ans, id : ans = answered /\ id = new.id
      OBVIOUS
    <3>2. /\ Finding(file, n, s, ans, next[r], seen[r], due[r], early[r]) /\ id \notin ans
          /\ \A p \in Page : g.disk[p].type = file.disk[p].type
          /\ IdsFrom(g, n, s, 1) = IdsFrom(file, n, s, 1) \cup {id}
          /\ \A j \in 2 .. n : IdsFrom(g, n, s, j) = IdsFrom(file, n, s, j)
      BY <1>13, <2>2, <2>5, <3>1
    <3>3. Finding(g, n, s, ans \cup {id}, next[r], seen[r], due[r], early[r])
      BY <1>7, <3>2, FindingPutFirst
    <3>. QED BY <1>12, <3>1, <3>3
  <2>. QED BY <1>1, <1>11, <1>12, <2>2, <2>3, <2>4, <2>6, StepAdds
<1>15. CASE Taken(file, fresh[w].num) /\ FreshPage(fresh[w].page, first)
  <2>1. PICK p, x : p = fresh[w].num /\ x = fresh[w].page
    OBVIOUS
  <2>2. /\ Taken(file, p) /\ p # 0 /\ p \in Page /\ x \in Header /\ x.type = "NODE"
        /\ x.next = first /\ x.chunks = <<>> /\ x.free_space = Capacity
    BY <1>15, <2>1, Constants DEF Taken, FreshPage
  <2>3. Target(w).num = p /\ g = Put(file, p, x, new)
    BY <1>12, <2>1, <2>2 DEF Target
  <2>4. PICK m, t : Fronted(t, m, p, n, s)
    BY DEF Fronted
  <2>5. /\ Good(g, Name, p, m, t) /\ GetIndex(g, Name) = GetIndex(file, Name)
        /\ g.disk[p].type = "NODE"
        /\ \A q \in Page : q # p => g.disk[q] = file.disk[q]
        /\ IdsFrom(g, m, t, 1) = IdsFrom(file, n, s, 1) \cup {new.id}
        /\ \A j \in 1 .. n : IdsFrom(g, m, t, j + 1) = IdsFrom(file, n, s, j)
    <3>1. LET g0 == Put(file, p, x, new)
              t0 == [i \in 1 .. n + 1 |-> IF i = 1 THEN p ELSE s[i - 1]]
          IN  /\ Good(g0, Name, p, n + 1, t0) /\ GetIndex(g0, Name) = GetIndex(file, Name)
              /\ g0.disk[p].type = "NODE"
              /\ \A q \in Page : q # p => g0.disk[q] = file.disk[q]
              /\ IdsFrom(g0, n + 1, t0, 1) = IdsFrom(file, n, s, 1) \cup {new.id}
              /\ \A j \in 1 .. n : IdsFrom(g0, n + 1, t0, j + 1) = IdsFrom(file, n, s, j)
      BY <1>6, <1>10, <2>2, PutFresh
    <3>. QED BY <2>3, <2>4, <3>1 DEF Fronted
  <2>6. ~ Unwritten(file') /\ HeadIn(file', begun') = p
    BY <1>8, <1>11, <2>3, <2>5 DEF Unwritten, HeadIn
  <2>7. answered' = IdsFrom(g, m, t, 1)
    BY <1>6, <1>12, <2>5
  <2>8. new.id \notin answered
    BY <1>4, <1>9
  <2>9. \A r \in Reader : pc[r] = "finding" =>
          Finding(g, m, t, answered', next[r], seen[r], due[r], early[r])
    <3> SUFFICES ASSUME NEW r \in Reader, pc[r] = "finding"
                 PROVE  Finding(g, m, t, answered', next[r], seen[r], due[r], early[r])
      OBVIOUS
    <3>1. PICK ans, id : ans = answered /\ id = new.id
      OBVIOUS
    <3>2. /\ Finding(file, n, s, ans, next[r], seen[r], due[r], early[r]) /\ id \notin ans
          /\ NewFront(file, g, m, t, p, n, s)
      BY <1>13, <2>4, <2>5, <2>8, <3>1 DEF NewFront
    <3>3. Finding(g, m, t, ans \cup {id}, next[r], seen[r], due[r], early[r])
      BY <1>7, <3>2, FindingPutFresh
    <3>. QED BY <1>12, <3>1, <3>3
  <2>. QED BY <1>1, <1>11, <1>12, <2>5, <2>6, <2>7, <2>9, StepAdds
<1>. QED BY <1>4, <1>14, <1>15

\* Steps that leave the file alone.
LEMMA NodesStay ==
  ASSUME IInv, file' = file, answered' = answered, HeadIn(file, begun') = HeadIn(file, begun)
  PROVE  Nodes' = Nodes /\ NodesThere'
<1>1. Nodes' = Nodes
  BY DEF Nodes, NodesIn
<1>. QED BY <1>1 DEF IInv, NodesThere, OnDisk

LEMMA ConstructKeeps ==
  ASSUME IInv, Overlap = FALSE, NEW w \in Writer, Construct(w)
  PROVE  IInv'
<1>1. /\ pc[w] = "idle" /\ pc' = [pc EXCEPT ![w] = "constructed"] /\ ~ torn
      /\ \A v \in Writer : ~ Busy(v)
      /\ index' = [index EXCEPT ![w] = OnDisk]
      /\ page' = [page EXCEPT ![w] = NoPageHeld]
      /\ fresh' = [fresh EXCEPT ![w] = NoPageHeld]
      /\ begun' = file
      /\ UNCHANGED <<file, schema, reading, answered, torn>>
  BY DEF Construct, Goto
<1>2. PICK new \in NewNodes \cap Record : new.id \notin answered /\ node' = [node EXCEPT ![w] = new]
  BY DEF Construct
<1>3. /\ pc' \in [Session -> PCs] /\ pc'[w] = "constructed"
      /\ \A v \in Session : v # w => pc'[v] = pc[v]
      /\ \A v \in Writer : pc'[v] \notin {"finding", "found"}
      /\ \A r \in Reader : pc'[r] = pc[r] /\ pc'[r] \in {"idle", "dead", "finding", "found"}
  <2>1. Typed /\ "constructed" \in PCs \ {"finding", "found"}
    BY DEF IInv, PCs
  <2>. QED BY <1>1, <2>1, Stepped
<1>4. next' = next /\ seen' = seen /\ due' = due /\ early' = early
  BY <1>1 DEF reading
<1>5. /\ Function(index', Session) /\ Function(schema', Session) /\ index'[w] = OnDisk
  <2>1. w \in Session /\ Function(index, Session) /\ Function(schema, Session)
    BY Functions
  <2>. QED BY <1>1, <2>1 DEF Function
<1>6. /\ Function(page', Writer) /\ Function(fresh', Writer) /\ Function(node', Writer)
      /\ fresh'[w] = NoPageHeld /\ node'[w] = new
  <2>1. Function(page, Writer) /\ Function(fresh, Writer) /\ Function(node, Writer)
    BY Functions
  <2>2. Function(page', Writer)
    BY <1>1, <2>1 DEF Function
  <2>3. Function(fresh', Writer) /\ fresh'[w] = NoPageHeld
    BY <1>1, <2>1 DEF Function
  <2>4. Function(node', Writer) /\ node'[w] = new
    BY <1>2, <2>1 DEF Function
  <2>. QED BY <2>2, <2>3, <2>4
<1>7. Typed'
  BY <1>1, <1>3, <1>4, <1>5, <1>6 DEF IInv, Typed
<1>8. ~ Unwritten(file)
  <2>1. \A v \in Writer : pc[v] # "adding"
    BY <1>1 DEF Busy
  <2>. QED BY <1>1, <2>1 DEF IInv, OneAtATime
<1>9. HeadIn(file, begun') = HeadIn(file, begun)
  BY <1>8 DEF HeadIn
<1>10. Nodes' = Nodes /\ NodesThere'
  BY <1>1, <1>9, NodesStay
<1>11. \A v \in Writer : v # w => ~ Busy(v)'
  <2>1. \A v \in Writer : v \in Session
    BY DEF Session
  <2>. QED BY <1>1, <1>3, <2>1 DEF Busy
<1>12. OneAtATime'
  BY <1>1, <1>8, <1>11 DEF OneAtATime
<1>13. Writing(w)'
  <2>1. PICK h, n, s : Good(file, Name, h, n, s)
    BY DEF IInv, NodesThere
  <2>2. OnDisk \in IndexRecord /\ OnDisk.name = Name
    BY <2>1, IndexSlotFacts DEF Good, OnDisk
  <2>3. OnDisk' = OnDisk /\ OnDisk = GetIndex(file, Name)
    BY <1>1 DEF OnDisk
  <2>. QED BY <1>1, <1>2, <1>3, <1>5, <1>6, <2>2, <2>3 DEF Writing
<1>14. \A v \in Writer : Busy(v)' => Writing(v)'
  BY <1>11, <1>13
<1>15. ReadersOK'
  BY <1>1, <1>3, <1>4, <1>10 DEF IInv, ReadersOK
<1>. QED BY <1>7, <1>10, <1>12, <1>14, <1>15 DEF IInv

LEMMA KillKeeps ==
  ASSUME IInv, NEW w \in Writer, Kill(w)
  PROVE  IInv'
<1>1. /\ Busy(w) /\ pc' = [pc EXCEPT ![w] = "dead"]
      /\ torn' = (torn \/ (pc[w] = "adding" /\ FirstUnwritten))
      /\ UNCHANGED <<file, index, schema, page, fresh, node, reading, answered, begun>>
  BY DEF Kill
<1>2. /\ pc' \in [Session -> PCs] /\ pc'[w] = "dead"
      /\ \A v \in Session : v # w => pc'[v] = pc[v]
      /\ \A v \in Writer : pc'[v] \notin {"finding", "found"}
      /\ \A r \in Reader : pc'[r] = pc[r] /\ pc'[r] \in {"idle", "dead", "finding", "found"}
  <2>1. Typed /\ "dead" \in PCs \ {"finding", "found"}
    BY DEF IInv, PCs
  <2>. QED BY <1>1, <2>1, Stepped
<1>3. next' = next /\ seen' = seen /\ due' = due /\ early' = early
  BY <1>1 DEF reading
<1>4. Typed'
  BY <1>1, <1>2, <1>3 DEF IInv, Typed
<1>5. Nodes' = Nodes /\ NodesThere'
  BY <1>1, NodesStay
<1>6. \A v \in Writer : ~ Busy(v)'
  <2>1. \A v \in Writer : v # w => ~ Busy(v)
    BY <1>1, AtWork
  <2>2. \A v \in Writer : v \in Session
    BY DEF Session
  <2>. QED BY <1>2, <2>1, <2>2 DEF Busy
<1>7. Unwritten(file) => torn'
  <2>1. SUFFICES ASSUME Unwritten(file) PROVE torn'
    OBVIOUS
  <2>2. ~ torn /\ pc[w] = "adding"
    BY <1>1, <2>1, AtWork
  <2>3. FirstUnwritten
    BY <2>1 DEF FirstUnwritten, Unwritten, OnDisk
  <2>. QED BY <1>1, <2>2, <2>3
<1>8. OneAtATime'
  BY <1>1, <1>6, <1>7 DEF OneAtATime
<1>9. ReadersOK'
  BY <1>1, <1>2, <1>3, <1>5 DEF IInv, ReadersOK
<1>. QED BY <1>4, <1>5, <1>6, <1>8, <1>9 DEF IInv

\* A step of a selection.
LEMMA ReaderSteps ==
  ASSUME IInv, NEW r \in Reader, NEW x \in {"idle", "dead", "finding", "found"},
         pc' = [pc EXCEPT ![r] = x],
         UNCHANGED <<file, index, schema, page, fresh, node, answered, begun, torn>>,
         Function(next', Reader), Function(seen', Reader),
         Function(due', Reader), Function(early', Reader),
         \A q \in Reader : q # r => /\ next'[q] = next[q] /\ seen'[q] = seen[q]
                                    /\ due'[q] = due[q] /\ early'[q] = early[q],
         x = "finding" =>
           Finding(file, Len(Nodes), Nodes, answered, next'[r], seen'[r], due'[r], early'[r]),
         x = "found" =>
           IsInjective(seen'[r]) /\ (early'[r] \/ due'[r] \subseteq ToSet(seen'[r]))
  PROVE  IInv'
<1>1. /\ pc' \in [Session -> PCs] /\ pc'[r] = x
      /\ \A q \in Session : q # r => pc'[q] = pc[q]
      /\ \A v \in Writer : v # r /\ pc'[v] = pc[v]
  <2>1. pc \in [Session -> PCs] /\ r \in Session /\ \A v \in Writer : v \in Session
    BY Functions DEF Session
  <2>2. \A v \in Writer : v # r
    BY SessionAssumption
  <2>3. x \in PCs
    BY DEF PCs
  <2>. QED BY <2>1, <2>2, <2>3
<1>2. \A q \in Reader : q \in Session
  BY DEF Session
<1>3. Typed'
  BY <1>1, <1>2 DEF IInv, Typed
<1>4. Nodes' = Nodes /\ NodesThere'
  BY NodesStay
<1>5. OneAtATime'
  BY <1>1 DEF IInv, OneAtATime, Busy
<1>6. \A v \in Writer : Busy(v)' => Writing(v)'
  <2> SUFFICES ASSUME NEW v \in Writer, Busy(v)'
               PROVE  Writing(v)'
    OBVIOUS
  <2>1. Busy(v) /\ pc'[v] = pc[v]
    BY <1>1 DEF Busy
  <2>2. Writing(v)
    BY <2>1 DEF IInv
  <2>3. OnDisk' = OnDisk /\ Target(v)' = Target(v) /\ Held(index[v].first)' = Held(index[v].first)
    BY DEF OnDisk, Target, Held
  <2>. QED BY <2>1, <2>2, <2>3 DEF Writing
<1>7. ReadersOK'
  <2> SUFFICES ASSUME NEW q \in Reader
               PROVE  /\ pc'[q] = "finding" =>
                           Finding(file, Len(Nodes), Nodes, answered, next'[q], seen'[q], due'[q], early'[q])
                      /\ pc'[q] = "found" =>
                           IsInjective(seen'[q]) /\ (early'[q] \/ due'[q] \subseteq ToSet(seen'[q]))
    BY <1>4 DEF ReadersOK
  <2>1. CASE q = r
    BY <1>1, <2>1
  <2>2. CASE q # r
    <3>1. /\ pc'[q] = pc[q] /\ next'[q] = next[q] /\ seen'[q] = seen[q]
          /\ due'[q] = due[q] /\ early'[q] = early[q]
      BY <1>1, <1>2, <2>2
    <3>. QED BY <3>1 DEF IInv, ReadersOK
  <2>. QED BY <2>1, <2>2
<1>. QED BY <1>3, <1>4, <1>5, <1>6, <1>7 DEF IInv

LEMMA AnswerSelectKeeps ==
  ASSUME IInv, NEW r \in Reader, AnswerSelect(r)
  PROVE  IInv'
<1>1. /\ pc[r] = "finding" /\ next[r] = 0 /\ pc' = [pc EXCEPT ![r] = "found"]
      /\ UNCHANGED <<file, index, schema, page, fresh, node, answered, begun, torn>>
      /\ next' = next /\ seen' = seen /\ due' = due /\ early' = early
  BY DEF AnswerSelect, Goto, reading
<1>2. Finding(file, Len(Nodes), Nodes, answered, next[r], seen[r], due[r], early[r])
  BY <1>1 DEF IInv, ReadersOK
<1>3. \A j \in 1 .. Len(Nodes) : Nodes[j] # 0
  <2>1. PICK h, n, s : Good(file, Name, h, n, s) /\ n = Len(Nodes) /\ s = Nodes
    BY DEF IInv, NodesThere
  <2>2. \A j \in 1 .. n : s[j] \in Page
    BY <2>1, GoodNodes
  <2>. QED BY <2>1, <2>2, Constants
<1>4. 0 \notin Page
  BY Constants
<1>5. IsInjective(seen[r]) /\ (early[r] \/ due[r] \subseteq ToSet(seen[r]))
  BY <1>1, <1>2, <1>3, <1>4 DEF Finding
<1>6. /\ Function(next', Reader) /\ Function(seen', Reader)
      /\ Function(due', Reader) /\ Function(early', Reader)
  BY <1>1 DEF IInv, Typed
<1>. QED BY <1>1, <1>5, <1>6, ReaderSteps

LEMMA FindPageKeeps ==
  ASSUME IInv, NEW r \in Reader, FindPage(r)
  PROVE  IInv'
<1>1. PICK p : p = next[r]
  OBVIOUS
<1>2. /\ pc[r] = "finding" /\ p # 0
      /\ seen' = [seen EXCEPT ![r] = @ \o IdsInOrder(file, p)]
      /\ next' = [next EXCEPT ![r] = file.disk[p].next]
      /\ pc' = pc \/ pc' = [pc EXCEPT ![r] = "dead"]
      /\ UNCHANGED <<file, index, schema, page, fresh, node, due, early, answered, begun, torn>>
  BY <1>1 DEF FindPage, IdsInOrder
<1>3. PICK h, n, s : /\ Good(file, Name, h, n, s) /\ n = Len(Nodes) /\ s = Nodes
                     /\ answered = IdsFrom(file, n, s, 1)
  BY DEF IInv, NodesThere
<1>4. PICK sn, du, ea : sn = seen[r] /\ du = due[r] /\ ea = early[r]
  OBVIOUS
<1>5. Finding(file, n, s, IdsFrom(file, n, s, 1), p, sn, du, ea)
  BY <1>1, <1>2, <1>3, <1>4 DEF IInv, ReadersOK
<1>6. Finding(file, n, s, IdsFrom(file, n, s, 1), file.disk[p].next,
              sn \o IdsInOrder(file, p), du, ea)
  BY <1>2, <1>3, <1>5, FindingOn
<1>7. /\ Function(next', Reader) /\ Function(seen', Reader)
      /\ next'[r] = file.disk[p].next /\ seen'[r] = sn \o IdsInOrder(file, p)
      /\ \A q \in Reader : q # r => next'[q] = next[q] /\ seen'[q] = seen[q]
  <2>1. Function(next, Reader) /\ Function(seen, Reader)
    BY DEF IInv, Typed
  <2>2. /\ Function(next', Reader) /\ next'[r] = file.disk[p].next
        /\ \A q \in Reader : q # r => next'[q] = next[q]
    BY <1>2, <2>1 DEF Function
  <2>3. /\ Function(seen', Reader) /\ seen'[r] = sn \o IdsInOrder(file, p)
        /\ \A q \in Reader : q # r => seen'[q] = seen[q]
    BY <1>2, <1>4, <2>1 DEF Function
  <2>. QED BY <2>2, <2>3
<1>8. /\ Function(due', Reader) /\ Function(early', Reader)
      /\ due' = due /\ early' = early
  BY <1>2 DEF IInv, Typed
<1>9. Finding(file, Len(Nodes), Nodes, answered, next'[r], seen'[r], due'[r], early'[r])
  BY <1>3, <1>4, <1>6, <1>7, <1>8
<1>10. PICK x \in {"finding", "dead"} : pc' = [pc EXCEPT ![r] = x]
  <2>1. pc = [pc EXCEPT ![r] = "finding"]
    <3>1. pc \in [Session -> PCs] /\ r \in Session
      BY Functions DEF Session
    <3>. QED BY <1>2, <3>1
  <2>. QED BY <1>2, <2>1
<1>. QED BY <1>2, <1>7, <1>8, <1>9, <1>10, ReaderSteps

LEMMA SelectKeeps ==
  ASSUME IInv, NEW r \in Reader, Select(r)
  PROVE  IInv'
<1>1. /\ pc' = [pc EXCEPT ![r] = "finding"]
      /\ next' = [next EXCEPT ![r] = OnDisk.first]
      /\ seen' = [seen EXCEPT ![r] = <<>>]
      /\ due' = [due EXCEPT ![r] = answered]
      /\ early' = [early EXCEPT ![r] = FirstUnwritten]
      /\ UNCHANGED <<file, index, schema, page, fresh, node, answered, begun, torn>>
  BY DEF Select, Goto
<1>2. /\ Function(next', Reader) /\ Function(seen', Reader)
      /\ Function(due', Reader) /\ Function(early', Reader)
      /\ \A q \in Reader : q # r => /\ next'[q] = next[q] /\ seen'[q] = seen[q]
                                    /\ due'[q] = due[q] /\ early'[q] = early[q]
      /\ next'[r] = OnDisk.first /\ seen'[r] = <<>> /\ due'[r] = answered
  <2>1. /\ Function(next, Reader) /\ Function(seen, Reader)
        /\ Function(due, Reader) /\ Function(early, Reader)
    BY DEF IInv, Typed
  <2>2. /\ Function(next', Reader) /\ next'[r] = OnDisk.first
        /\ \A q \in Reader : q # r => next'[q] = next[q]
    BY <1>1, <2>1 DEF Function
  <2>3. /\ Function(seen', Reader) /\ seen'[r] = <<>>
        /\ \A q \in Reader : q # r => seen'[q] = seen[q]
    BY <1>1, <2>1 DEF Function
  <2>4. /\ Function(due', Reader) /\ due'[r] = answered
        /\ \A q \in Reader : q # r => due'[q] = due[q]
    BY <1>1, <2>1 DEF Function
  <2>5. /\ Function(early', Reader)
        /\ \A q \in Reader : q # r => early'[q] = early[q]
    BY <1>1, <2>1 DEF Function
  <2>. QED BY <2>2, <2>3, <2>4, <2>5
<1>3. FirstUnwritten => early'[r]
  <2>1. Function(early, Reader)
    BY DEF IInv, Typed
  <2>. QED BY <1>1, <2>1 DEF Function
<1>4. PICK h, n, s : /\ Good(file, Name, h, n, s) /\ n = Len(Nodes) /\ s = Nodes
                     /\ answered = IdsFrom(file, n, s, 1) /\ h = HeadIn(file, begun)
                     /\ Unwritten(file) => /\ OnDisk.first \in Page
                                           /\ file.disk[OnDisk.first].type \in {"FREE", "NONE"}
  BY DEF IInv, NodesThere
<1>5. PICK ans, du, ea, nx : ans = answered /\ du = answered /\ ea = early'[r] /\ nx = OnDisk.first
  OBVIOUS
<1>6. <<>> \in Seq(NodeId) /\ IsInjective(<<>>) /\ ToSet(<<>>) = {}
  BY DEF IsInjective, ToSet
<1>7. Finding(file, n, s, ans, nx, <<>>, du, ea)
  <2>1. CASE Unwritten(file)
    <3>1. FirstUnwritten
      BY <2>1 DEF FirstUnwritten, Unwritten, OnDisk
    <3>2. ea
      BY <1>3, <1>5, <3>1
    <3>. QED BY <1>4, <1>5, <1>6, <2>1, <3>2 DEF Finding
  <2>2. CASE ~ Unwritten(file) /\ h = 0
    <3>1. nx = 0
      BY <1>4, <1>5, <2>2 DEF HeadIn, OnDisk
    <3>2. n = 0
      <4>1. n # 0 => s[1] \in Page /\ h = s[1]
        BY <1>4 DEF Good, NodesListed, ChainOf, Chain
      <4>. QED BY <2>2, <4>1, Constants
    <3>3. 1 .. n = {}
      BY <3>2
    <3>4. IdsFrom(file, n, s, 1) = {}
      BY <3>3, IdsEmpty
    <3>5. du \subseteq ToSet(<<>>)
      BY <1>4, <1>5, <3>4
    <3>. QED BY <1>5, <1>6, <3>1, <3>5 DEF Finding
  <2>3. CASE ~ Unwritten(file) /\ h # 0
    <3>1. nx = h
      BY <1>4, <1>5, <2>3 DEF HeadIn, OnDisk
    <3>2. 1 \in 1 .. n /\ nx = s[1]
      BY <1>4, <2>3, <3>1, GoodNodes
    <3>. QED BY <1>4, <1>5, <1>6, <3>2 DEF Finding
  <2>. QED BY <2>1, <2>2, <2>3
<1>8. Finding(file, Len(Nodes), Nodes, answered, next'[r], seen'[r], due'[r], early'[r])
  BY <1>2, <1>4, <1>5, <1>7
<1>9. "finding" \in {"idle", "dead", "finding", "found"}
  OBVIOUS
<1>. QED BY <1>1, <1>2, <1>8, <1>9, ReaderSteps

-----------------------------------------------------------------------------
(* The first file, and what follows.                                       *)

\* The records of a list are those of its pages.
LEMMA SlotsOf ==
  ASSUME NEW f, NEW h, NEW n \in Nat, NEW s \in [1 .. n -> Page], PagesFrom(f.disk, h) = s
  PROVE  Slots(f, h) = UNION {{<<s[i], k>> : k \in DOMAIN f.disk[s[i]].chunks} : i \in 1 .. n}
<1>1. ToSet(s) = {s[i] : i \in 1 .. n}
  BY DEF ToSet
<1>2. Slots(f, h) = UNION {{<<p, k>> : k \in DOMAIN f.disk[p].chunks} : p \in {s[i] : i \in 1 .. n}}
  BY <1>1 DEF Slots
<1>. QED BY <1>2

LEMMA IdsFound ==
  ASSUME NEW f, NEW h, NEW n \in Nat, NEW s \in [1 .. n -> Page], PagesFrom(f.disk, h) = s
  PROVE  {r.id : r \in Records(f, h)} = IdsFrom(f, n, s, 1)
<1>1. {r.id : r \in Records(f, h)} = {At(f, a).id : a \in Slots(f, h)}
  BY DEF Records
<1>2. {r.id : r \in Records(f, h)} \subseteq IdsFrom(f, n, s, 1)
  <2> SUFFICES ASSUME NEW a \in Slots(f, h)
               PROVE  At(f, a).id \in IdsFrom(f, n, s, 1)
    BY <1>1
  <2>1. PICK i \in 1 .. n : a \in {<<s[i], k>> : k \in DOMAIN f.disk[s[i]].chunks}
    BY SlotsOf
  <2>2. PICK k \in DOMAIN f.disk[s[i]].chunks : a = <<s[i], k>>
    BY <2>1
  <2>3. At(f, a).id = f.disk[s[i]].chunks[k].id
    BY <2>2 DEF At
  <2>. QED BY <2>3, IdsThere
<1>3. IdsFrom(f, n, s, 1) \subseteq {r.id : r \in Records(f, h)}
  <2> SUFFICES ASSUME NEW x \in IdsFrom(f, n, s, 1)
               PROVE  x \in {At(f, a).id : a \in Slots(f, h)}
    BY <1>1
  <2>1. PICK i \in 1 .. n : x \in IdsOn(f, s[i])
    BY DEF IdsFrom
  <2>2. PICK k \in DOMAIN f.disk[s[i]].chunks : x = f.disk[s[i]].chunks[k].id
    BY <2>1 DEF IdsOn
  <2>3. PICK a : a = <<s[i], k>>
    OBVIOUS
  <2>4. a \in Slots(f, h)
    BY <2>3, SlotsOf
  <2>5. At(f, a).id = x
    BY <2>2, <2>3 DEF At
  <2>. QED BY <2>4, <2>5
<1>. QED BY <1>2, <1>3

LEMMA ListAtChain ==
  ASSUME NEW f, NEW h, NEW type, ListAt(f, h, type)
  PROVE  LET s == PagesFrom(f.disk, h)
         IN  ChainOf(f, type, h, Len(s), s) /\ Len(s) \in Nat /\ s \in [1 .. Len(s) -> Page]
<1>1. PICK s : s = PagesFrom(f.disk, h)
  OBVIOUS
<1>2. PICK n : n = Len(s)
  OBVIOUS
<1>3. /\ s \in Seq(Page) /\ n <= MaxPage /\ IsInjective(s)
      /\ h = IF n = 0 THEN 0 ELSE s[1]
      /\ \A i \in 1 .. n : /\ f.disk[s[i]].type = type
                           /\ f.disk[s[i]].next = IF i = n THEN 0 ELSE s[i + 1]
  BY <1>1, <1>2 DEF ListAt
<1>4. n \in Nat /\ s \in [1 .. n -> Page] /\ DOMAIN s = 1 .. n
  BY <1>2, <1>3
<1>5. \A i, j \in 1 .. n : s[i] = s[j] => i = j
  BY <1>3, <1>4 DEF IsInjective
<1>6. n \in 0 .. MaxPage
  BY <1>3, <1>4, Constants
<1>7. Chain(f.disk, h, n, s)
  BY <1>3, <1>4, <1>5, <1>6 DEF Chain
<1>8. ChainOf(f, type, h, n, s)
  BY <1>3, <1>7 DEF ChainOf
<1>. QED BY <1>1, <1>2, <1>4, <1>8

\* Every record of a list is found on its pages.
LEMMA AllRecords ==
  ASSUME NEW f, NEW h, NEW n \in Nat, NEW s \in [1 .. n -> Page], PagesFrom(f.disk, h) = s,
         NEW i \in 1 .. n, NEW k \in DOMAIN f.disk[s[i]].chunks
  PROVE  f.disk[s[i]].chunks[k] \in Records(f, h)
<1>1. <<s[i], k>> \in Slots(f, h)
  BY SlotsOf
<1>2. At(f, <<s[i], k>>) = f.disk[s[i]].chunks[k]
  BY DEF At
<1>. QED BY <1>1, <1>2 DEF Records

LEMMA SoundGood ==
  ASSUME NEW f, Sound(f)
  PROVE  LET h == GetIndex(f, Name).first
             s == PagesFrom(f.disk, h)
         IN  Good(f, Name, h, Len(s), s)
<1>1. PICK h, s, n : h = GetIndex(f, Name).first /\ s = PagesFrom(f.disk, h) /\ n = Len(s)
  OBVIOUS
<1>2. /\ f = [disk |-> f.disk, schema |-> f.schema]
      /\ f.disk \in [Page -> Header] /\ f.schema \in Schema
      /\ ListAt(f, f.schema.first_index, "INDEX")
      /\ \A r \in Indexes(f) : r.rec = "INDEX"
      /\ HasIndex(f, Name) /\ ListAt(f, h, "NODE")
      /\ \A r \in Records(f, h) : r.rec = "NODE"
      /\ \A a, b \in Slots(f, h) : At(f, a).id = At(f, b).id => a = b
      /\ ListAt(f, f.schema.free_page, "FREE")
      /\ Len(PagesFrom(f.disk, f.schema.free_page)) = f.schema.cnt_free
  BY <1>1 DEF Sound
<1>3. Filed(f)
  BY <1>2 DEF Filed
<1>4. Indexed(f, Name)
  <2>1. PICK t, m : t = PagesFrom(f.disk, f.schema.first_index) /\ m = Len(t)
    OBVIOUS
  <2>2. ChainOf(f, "INDEX", f.schema.first_index, m, t) /\ m \in Nat /\ t \in [1 .. m -> Page]
    BY <1>2, <2>1, ListAtChain
  <2>3. \A i \in 1 .. m : \A k \in DOMAIN f.disk[t[i]].chunks : f.disk[t[i]].chunks[k].rec = "INDEX"
    BY <1>2, <2>1, <2>2, AllRecords DEF Indexes
  <2>. QED BY <1>2, <2>1, <2>2, <2>3 DEF Indexed, IndexList
<1>5. FreeListed(f)
  <2>1. PICK t, m : t = PagesFrom(f.disk, f.schema.free_page) /\ m = Len(t)
    OBVIOUS
  <2>2. ChainOf(f, "FREE", f.schema.free_page, m, t)
    BY <1>2, <2>1, ListAtChain
  <2>. QED BY <1>2, <2>1, <2>2 DEF FreeListed
<1>6. NodesListed(f, h, n, s)
  <2>1. ChainOf(f, "NODE", h, n, s) /\ n \in Nat /\ s \in [1 .. n -> Page]
    BY <1>1, <1>2, ListAtChain
  <2>2. \A i \in 1 .. n : \A k \in DOMAIN f.disk[s[i]].chunks : f.disk[s[i]].chunks[k].rec = "NODE"
    BY <1>1, <1>2, <2>1, AllRecords
  <2>3. ASSUME NEW i \in 1 .. n, NEW j \in 1 .. n, NEW k \in DOMAIN f.disk[s[i]].chunks,
               NEW l \in DOMAIN f.disk[s[j]].chunks,
               f.disk[s[i]].chunks[k].id = f.disk[s[j]].chunks[l].id
        PROVE  i = j /\ k = l
    <3>0. n \in Nat /\ s \in [1 .. n -> Page] /\ PagesFrom(f.disk, h) = s
      BY <1>1, <2>1
    <3>1. PICK a, b : a = <<s[i], k>> /\ b = <<s[j], l>>
      OBVIOUS
    <3>2. /\ a \in Slots(f, h) /\ At(f, a) = f.disk[s[i]].chunks[k]
          /\ b \in Slots(f, h) /\ At(f, b) = f.disk[s[j]].chunks[l]
      <4>1. Slots(f, h) = UNION {{<<s[x], y>> : y \in DOMAIN f.disk[s[x]].chunks} : x \in 1 .. n}
        BY <3>0, SlotsOf
      <4>2. a \in Slots(f, h) /\ b \in Slots(f, h)
        BY <3>1, <4>1
      <4>. QED BY <3>1, <4>2 DEF At
    <3>3. <<s[i], k>> = <<s[j], l>>
      BY <1>2, <2>3, <3>1, <3>2
    <3>. QED BY <2>1, <3>3 DEF ChainOf, Chain
  <2>. QED BY <2>1, <2>2, <2>3 DEF NodesListed
<1>7. PagesSound(f, n, s)
  BY DEF Sound, PagesSound, NoPage
<1>. QED BY <1>1, <1>3, <1>4, <1>5, <1>6, <1>7 DEF Good

LEMMA InitHolds ==
  ASSUME InitInserts
  PROVE  IInv
<1>1. Sound(file) /\ begun = file
  BY StartAssumption DEF InitInserts
<1>2. PICK h, s, n : h = OnDisk.first /\ s = PagesFrom(file.disk, h) /\ n = Len(s)
  OBVIOUS
<1>3. Good(file, Name, h, n, s)
  BY <1>1, <1>2, SoundGood DEF OnDisk
<1>4. /\ n \in Nat /\ s \in [1 .. n -> Page] /\ PagesFrom(file.disk, h) = s
      /\ h # 0 => h \in Page /\ file.disk[h].type = "NODE"
  BY <1>3, GoodNodes
<1>5. ~ Unwritten(file) /\ HeadIn(file, begun) = h
  BY <1>2, <1>4 DEF Unwritten, HeadIn, OnDisk
<1>6. Nodes = s
  BY <1>4, <1>5 DEF Nodes, NodesIn
<1>7. answered = IdsFrom(file, n, s, 1)
  <2>1. {r.id : r \in Records(file, h)} = IdsFrom(file, n, s, 1)
    BY <1>4, IdsFound
  <2>. QED BY <1>2, <2>1 DEF InitInserts, Found
<1>8. NodesThere
  BY <1>2, <1>3, <1>5, <1>6, <1>7 DEF NodesThere
<1>9. \A x \in Session : pc[x] = "idle"
  BY DEF InitInserts
<1>10. /\ \A w \in Writer : pc[w] = "idle" /\ ~ Busy(w)
       /\ \A r \in Reader : pc[r] = "idle"
  BY <1>9 DEF Session, Busy
<1>11. OneAtATime
  BY <1>5, <1>10 DEF OneAtATime, InitInserts
<1>12. Typed
  <2>1. pc \in [Session -> PCs] /\ torn \in BOOLEAN
    BY DEF InitInserts, PCs
  <2>2. Function(index, Session) /\ Function(schema, Session)
    BY DEF InitInserts, Function
  <2>3. Function(page, Writer) /\ Function(fresh, Writer) /\ Function(node, Writer)
    BY DEF InitInserts, Function
  <2>4. /\ Function(next, Reader) /\ Function(seen, Reader)
        /\ Function(due, Reader) /\ Function(early, Reader)
    BY DEF InitInserts, Function
  <2>. QED BY <1>10, <2>1, <2>2, <2>3, <2>4 DEF Typed
<1>13. ReadersOK
  BY <1>10 DEF ReadersOK
<1>. QED BY <1>8, <1>10, <1>11, <1>12, <1>13 DEF IInv

LEMMA NextKeeps ==
  ASSUME IInv, Overlap = FALSE, [NextInserts]_allVars
  PROVE  IInv'
<1>1. ASSUME NEW w \in Writer, Write(w)
      PROVE  IInv'
  <2>1. CASE Construct(w)
    BY <2>1, ConstructKeeps
  <2>2. CASE Open(w)
    BY <2>2, OpenKeeps
  <2>3. CASE ReadFirst(w)
    BY <2>3, ReadFirstKeeps
  <2>4. CASE TakePage(w)
    BY <2>4, TakePageKeeps
  <2>5. CASE SavePage0(w)
    BY <2>5, SavePage0Keeps
  <2>6. CASE LinkFirst(w)
    BY <2>6, LinkFirstKeeps
  <2>7. CASE CountNode(w)
    BY <2>7, CountNodeKeeps
  <2>8. CASE AddChunk(w)
    BY <2>8, AddChunkKeeps
  <2>. QED BY <1>1, <2>1, <2>2, <2>3, <2>4, <2>5, <2>6, <2>7, <2>8 DEF Write
<1>2. ASSUME NEW r \in Reader, Read(r)
      PROVE  IInv'
  BY <1>2, SelectKeeps, FindPageKeeps, AnswerSelectKeeps DEF Read
<1>3. CASE UNCHANGED allVars
  <2>1. /\ file' = file /\ begun' = begun /\ answered' = answered /\ torn' = torn
        /\ pc' = pc /\ index' = index /\ schema' = schema /\ page' = page
        /\ fresh' = fresh /\ node' = node
        /\ next' = next /\ seen' = seen /\ due' = due /\ early' = early
    BY <1>3 DEF allVars, local, reading
  <2>2. Typed'
    BY <2>1 DEF IInv, Typed
  <2>3. Nodes' = Nodes /\ NodesThere'
    BY <2>1, NodesStay
  <2>4. OneAtATime'
    BY <2>1 DEF IInv, OneAtATime, Busy
  <2>5. \A w \in Writer : Busy(w)' => Writing(w)'
    <3> SUFFICES ASSUME NEW w \in Writer, Busy(w)'
                 PROVE  Writing(w)'
      OBVIOUS
    <3>1. Writing(w)
      BY <2>1 DEF IInv, Busy
    <3>2. OnDisk' = OnDisk /\ Target(w)' = Target(w) /\ Held(index[w].first)' = Held(index[w].first)
      BY <2>1 DEF OnDisk, Target, Held
    <3>. QED BY <2>1, <3>1, <3>2 DEF Writing
  <2>6. ReadersOK'
    BY <2>1, <2>3 DEF IInv, ReadersOK
  <2>. QED BY <2>2, <2>3, <2>4, <2>5, <2>6 DEF IInv
<1>. QED BY <1>1, <1>2, <1>3, KillKeeps DEF NextInserts

THEOREM InsertsInvariant ==
  ASSUME Overlap = FALSE
  PROVE  SpecInserts => []IInv
<1>1. InitInserts => IInv
  BY InitHolds
<1>2. IInv /\ [NextInserts]_allVars => IInv'
  BY NextKeeps
<1>. QED BY <1>1, <1>2, PTL DEF SpecInserts

\* While no first page is yet to be written, the nodes that the index record
\* leads to are those for which an answer was given, no others.
LEMMA IInvAnswered ==
  ASSUME IInv
  PROVE  AnsweredFound
<1> SUFFICES ASSUME ~ FirstUnwritten
             PROVE  answered \subseteq Found
  BY DEF AnsweredFound
<1>1. ~ Unwritten(file)
  BY DEF FirstUnwritten, Unwritten, OnDisk
<1>2. PICK h, n, s : /\ Good(file, Name, h, n, s) /\ h = HeadIn(file, begun)
                     /\ answered = IdsFrom(file, n, s, 1)
  BY DEF IInv, NodesThere
<1>3. h = OnDisk.first
  BY <1>1, <1>2 DEF HeadIn, OnDisk
<1>4. n \in Nat /\ s \in [1 .. n -> Page] /\ PagesFrom(file.disk, h) = s
  BY <1>2, GoodNodes
<1>5. {r.id : r \in Records(file, h)} = IdsFrom(file, n, s, 1)
  BY <1>4, IdsFound
<1>. QED BY <1>2, <1>3, <1>5 DEF Found

THEOREM InsertsAnsweredFound ==
  ASSUME Overlap = FALSE
  PROVE  SpecInserts => []AnsweredFound
<1>1. SpecInserts => []IInv
  BY InsertsInvariant
<1>2. IInv => AnsweredFound
  BY IInvAnswered
<1>. QED BY <1>1, <1>2, PTL

THEOREM InsertsSelectionComplete ==
  ASSUME Overlap = FALSE
  PROVE  SpecInserts => []SelectionComplete
<1>1. SpecInserts => []IInv
  BY InsertsInvariant
<1>2. IInv => SelectionComplete
  BY DEF IInv, ReadersOK, SelectionComplete
<1>. QED BY <1>1, <1>2, PTL

-----------------------------------------------------------------------------
(* The accesses of one insertion add up to AddNode on the file it found.    *)

\* The query InsertNode of the node n is possible in the file b.
Insertable(b, n) ==
  /\ HasIndex(b, Name) /\ ~ HasNode(b, [index |-> Name, id |-> n.id])
  /\ b.schema.last_page_num - b.schema.cnt_free + 1 <= MaxPage
  /\ \A ix \in Indexes(b) : ix.count < MaxCount

\* What the writer has done so far of AddNode on the file that it found.
Done(w) ==
  LET to == PageFor(begun, "NODE", index[w].first, node[w])
      supplied == ~ (index[w].first # 0 /\ Fits(begun.disk[index[w].first], node[w]))
      disk == AllocDisk(begun.disk, begun.schema)
      sch == AllocSchema(begun.disk, begun.schema)
  IN  /\ Insertable(begun, node[w])
      /\ pc[w] \in {"constructed", "opened", "allocating"} => file = begun
      /\ pc[w] \in {"allocating", "saving", "linking"} => supplied
      /\ pc[w] \in {"saving", "linking"} => fresh[w] = [num |-> to.num, page |-> to.page]
      /\ pc[w] = "saving" => file = [disk |-> disk, schema |-> begun.schema] /\ schema[w] = sch
      /\ pc[w] = "linking" => file = [disk |-> disk, schema |-> sch]
      /\ pc[w] \in {"counting", "adding"} => Target(w) = [num |-> to.num, page |-> to.page]
      /\ pc[w] = "counting" => file = to.file
      /\ pc[w] = "adding" =>
           file = SaveIndex(to.file, [index[w] EXCEPT !.first = to.num, !.count = @ + 1])

SInv == IInv /\ \A w \in Writer : Busy(w) => Done(w)

\* The other writers are in no query before or after.
LEMMA OneWriterDone ==
  ASSUME IInv, NEW w \in Writer, Busy(w), NEW x, pc' = [pc EXCEPT ![w] = x],
         Busy(w)' => Done(w)'
  PROVE  \A v \in Writer : Busy(v)' => Done(v)'
<1> SUFFICES ASSUME NEW v \in Writer, v # w, Busy(v)'
             PROVE  FALSE
  OBVIOUS
<1>1. pc'[v] = pc[v]
  BY Functions
<1>. QED BY <1>1 DEF IInv, OneAtATime, Busy

LEMMA OpenDone ==
  ASSUME SInv, NEW w \in Writer, Open(w)
  PROVE  Done(w)'
<1>1. /\ pc[w] = "constructed" /\ pc' = [pc EXCEPT ![w] = "opened"]
      /\ UNCHANGED <<file, index, page, fresh, node, reading, answered, begun, torn>>
  BY DEF Open, Goto
<1>2. pc'[w] = "opened"
  BY <1>1, Functions DEF SInv
<1>3. Done(w)
  BY <1>1 DEF SInv, Busy
<1>. QED BY <1>1, <1>2, <1>3 DEF Done

LEMMA ReadFirstDone ==
  ASSUME SInv, NEW w \in Writer, ReadFirst(w)
  PROVE  Done(w)'
<1>1. PICK first, n : first = index[w].first /\ n = node[w]
  OBVIOUS
<1>2. PICK x : x = IF first # 0 /\ Fits(file.disk[first], n) THEN "counting" ELSE "allocating"
  OBVIOUS
<1>3. /\ pc[w] = "opened" /\ pc' = [pc EXCEPT ![w] = x]
      /\ page' = [page EXCEPT ![w] = Held(first)]
      /\ UNCHANGED <<file, index, schema, fresh, node, reading, answered, begun, torn>>
  BY <1>1, <1>2 DEF ReadFirst, Goto, Held
<1>4. /\ page'[w] = Held(first) /\ pc'[w] = x
  <2>1. w \in Session /\ Function(page, Writer) /\ pc \in [Session -> PCs]
    BY Functions DEF SInv
  <2>. QED BY <1>3, <2>1 DEF Function
<1>5. Done(w) /\ Writing(w)
  BY <1>3 DEF SInv, IInv, Busy
<1>6. Insertable(begun, n) /\ file = begun /\ fresh[w].num = 0
  BY <1>1, <1>3, <1>5 DEF Done, Writing, NoPageHeld
<1>7. CASE x = "allocating"
  BY <1>1, <1>2, <1>3, <1>4, <1>6, <1>7 DEF Done
<1>8. CASE x = "counting" /\ first # 0 /\ Fits(file.disk[first], n)
  <2>1. PICK to : to = PageFor(begun, "NODE", first, n)
    OBVIOUS
  <2>2. to.file = begun /\ to.num = first /\ to.page = begun.disk[first]
    BY <1>6, <1>8, <2>1 DEF PageFor
  <2>3. Target(w)' = [num |-> to.num, page |-> to.page]
    BY <1>3, <1>4, <1>6, <1>8, <2>2 DEF Target, Held
  <2>. QED BY <1>1, <1>3, <1>4, <1>6, <1>8, <2>1, <2>2, <2>3 DEF Done
<1>. QED BY <1>2, <1>7, <1>8

LEMMA TakePageDone ==
  ASSUME SInv, NEW w \in Writer, TakePage(w)
  PROVE  Done(w)'
<1>1. PICK first, n, to : /\ first = index[w].first /\ n = node[w]
                          /\ to = PageFor(begun, "NODE", first, n)
  OBVIOUS
<1>2. pc[w] = "allocating" /\ pc' = [pc EXCEPT ![w] = "saving"]
      /\ UNCHANGED <<index, page, node, reading, answered, begun, torn>>
  BY DEF TakePage, Goto
<1>3. Done(w) /\ Writing(w) /\ IInv
  BY <1>2 DEF SInv, IInv, Busy
<1>4. /\ Insertable(begun, n) /\ file = begun /\ ~ (first # 0 /\ Fits(begun.disk[first], n))
      /\ schema[w] = begun.schema /\ page[w] = Held(first)
  BY <1>1, <1>2, <1>3 DEF Done, Writing
<1>5. page[w].num = first
  BY <1>4 DEF Held, NoPageHeld
<1>6. PICK num, pg, disk, sch :
        /\ num = AllocNum(begun.schema)
        /\ pg = [AllocPage(begun.disk, begun.schema) EXCEPT !.type = "NODE", !.next = first, !.prev = 0]
        /\ disk = AllocDisk(begun.disk, begun.schema)
        /\ sch = AllocSchema(begun.disk, begun.schema)
  OBVIOUS
<1>7. to.num = num /\ to.page = pg
  BY <1>1, <1>4, <1>6 DEF PageFor
<1>8. pg = [AllocPage(begun.disk, begun.schema) EXCEPT !.type = "NODE", !.prev = 0, !.next = first]
  <2>1. PICK x : x = AllocPage(begun.disk, begun.schema)
    OBVIOUS
  <2>2. Filed(begun) /\ FreeListed(begun) /\ PagesSound(begun, Len(Nodes), Nodes)
    BY <1>3, <1>4 DEF IInv, NodesThere, Good
  <2>3. x \in Header
    BY <2>1, <2>2, AllocPageFacts
  <2>. QED BY <1>6, <2>1, <2>3 DEF Header
<1>9. /\ fresh' = [fresh EXCEPT ![w] = [num |-> num, page |-> pg]]
      /\ file' = [file EXCEPT !.disk = disk]
      /\ schema' = [schema EXCEPT ![w] = sch]
  BY <1>4, <1>5, <1>6, <1>8 DEF TakePage
<1>10. /\ pc'[w] = "saving" /\ schema'[w] = sch
       /\ fresh'[w] = [num |-> to.num, page |-> to.page]
  <2>1. /\ w \in Session /\ pc \in [Session -> PCs]
        /\ Function(fresh, Writer) /\ Function(schema, Session)
    BY <1>3, Functions
  <2>. QED BY <1>2, <1>7, <1>9, <2>1 DEF Function
<1>11. file' = [disk |-> disk, schema |-> begun.schema]
  <2>1. file = [disk |-> file.disk, schema |-> file.schema]
    BY <1>3 DEF IInv, NodesThere, Good, Filed
  <2>. QED BY <1>4, <1>9, <2>1
<1>. QED BY <1>1, <1>2, <1>4, <1>6, <1>10, <1>11 DEF Done

LEMMA SavePage0Done ==
  ASSUME SInv, NEW w \in Writer, SavePage0(w)
  PROVE  Done(w)'
<1>1. PICK first, n, to : /\ first = index[w].first /\ n = node[w]
                          /\ to = PageFor(begun, "NODE", first, n)
  OBVIOUS
<1>2. PICK x : x = IF page[w].num = 0 THEN "counting" ELSE "linking"
  OBVIOUS
<1>3. pc[w] = "saving" /\ pc' = [pc EXCEPT ![w] = x]
      /\ UNCHANGED <<index, schema, page, fresh, node, reading, answered, begun, torn>>
      /\ file' = [file EXCEPT !.schema = schema[w]]
  BY <1>2 DEF SavePage0, Goto
<1>4. Done(w) /\ Writing(w) /\ IInv
  BY <1>3 DEF SInv, IInv, Busy
<1>5. PICK disk, sch : /\ disk = AllocDisk(begun.disk, begun.schema)
                       /\ sch = AllocSchema(begun.disk, begun.schema)
  OBVIOUS
<1>6. /\ Insertable(begun, n) /\ ~ (first # 0 /\ Fits(begun.disk[first], n))
      /\ fresh[w] = [num |-> to.num, page |-> to.page]
      /\ file = [disk |-> disk, schema |-> begun.schema] /\ schema[w] = sch
  BY <1>1, <1>3, <1>4, <1>5 DEF Done
<1>7. page[w] = Held(first) /\ fresh[w].num \in Page
  BY <1>1, <1>3, <1>4 DEF Writing
<1>8. page[w].num = first /\ fresh[w].num # 0
  BY <1>7, Constants DEF Held, NoPageHeld
<1>9. file' = [disk |-> disk, schema |-> sch]
  BY <1>3, <1>6
<1>10. pc'[w] = x
  BY <1>3, <1>4, Functions
<1>11. CASE first = 0
  <2>1. to.file = [disk |-> SetPrev(disk, first, AllocNum(begun.schema)), schema |-> sch]
    BY <1>1, <1>5, <1>6 DEF PageFor
  <2>2. to.file = [disk |-> disk, schema |-> sch]
    BY <1>11, <2>1 DEF SetPrev
  <2>3. Target(w)' = [num |-> to.num, page |-> to.page]
    BY <1>3, <1>6, <1>8 DEF Target
  <2>4. x = "counting"
    BY <1>2, <1>8, <1>11
  <2>. QED BY <1>1, <1>3, <1>6, <1>9, <1>10, <2>2, <2>3, <2>4 DEF Done
<1>12. CASE first # 0
  <2>1. x = "linking"
    BY <1>2, <1>8, <1>12
  <2>. QED BY <1>1, <1>3, <1>5, <1>6, <1>9, <1>10, <2>1 DEF Done
<1>. QED BY <1>11, <1>12

LEMMA LinkFirstDone ==
  ASSUME SInv, NEW w \in Writer, LinkFirst(w)
  PROVE  Done(w)'
<1>1. PICK first, n, to : /\ first = index[w].first /\ n = node[w]
                          /\ to = PageFor(begun, "NODE", first, n)
  OBVIOUS
<1>2. pc[w] = "linking" /\ pc' = [pc EXCEPT ![w] = "counting"]
      /\ UNCHANGED <<index, schema, page, fresh, node, reading, answered, begun, torn>>
  BY DEF LinkFirst, Goto
<1>3. Done(w) /\ Writing(w) /\ IInv
  BY <1>2 DEF SInv, IInv, Busy
<1>4. PICK disk, sch : /\ disk = AllocDisk(begun.disk, begun.schema)
                       /\ sch = AllocSchema(begun.disk, begun.schema)
  OBVIOUS
<1>5. /\ Insertable(begun, n) /\ ~ (first # 0 /\ Fits(begun.disk[first], n))
      /\ fresh[w] = [num |-> to.num, page |-> to.page]
      /\ file = [disk |-> disk, schema |-> sch]
  BY <1>1, <1>2, <1>3, <1>4 DEF Done
<1>6. fresh[w].num \in Page
  BY <1>2, <1>3 DEF Writing, Taken
<1>7. fresh[w].num # 0 /\ fresh[w].num = AllocNum(begun.schema)
  <2>1. to.num = AllocNum(begun.schema)
    BY <1>1, <1>5 DEF PageFor
  <2>. QED BY <1>5, <1>6, <2>1, Constants
<1>8. file' = [disk |-> SetPrev(disk, first, AllocNum(begun.schema)), schema |-> sch]
  <2>1. /\ file'.schema = file.schema
        /\ file'.disk = SetPrev(file.disk, first, fresh[w].num)
        /\ file' = [disk |-> file'.disk, schema |-> file'.schema]
    BY <1>1, <1>3, LinkFirstWrites
  <2>2. file.disk = disk /\ file.schema = sch
    BY <1>5
  <2>. QED BY <1>7, <2>1, <2>2
<1>9. to.file = [disk |-> SetPrev(disk, first, AllocNum(begun.schema)), schema |-> sch]
  BY <1>1, <1>4, <1>5 DEF PageFor
<1>10. Target(w)' = [num |-> to.num, page |-> to.page]
  BY <1>2, <1>5, <1>7 DEF Target
<1>11. pc'[w] = "counting"
  BY <1>2, <1>3, Functions
<1>. QED BY <1>1, <1>2, <1>5, <1>8, <1>9, <1>10, <1>11 DEF Done

LEMMA CountNodeDone ==
  ASSUME SInv, NEW w \in Writer, CountNode(w)
  PROVE  Done(w)'
<1>1. PICK n, to : n = node[w] /\ to = PageFor(begun, "NODE", index[w].first, n)
  OBVIOUS
<1>2. pc[w] = "counting" /\ pc' = [pc EXCEPT ![w] = "adding"]
      /\ UNCHANGED <<index, schema, page, fresh, node, reading, answered, begun, torn>>
      /\ file' = SaveIndex(file, [index[w] EXCEPT !.first = Target(w).num, !.count = @ + 1])
  BY DEF CountNode, Goto
<1>3. Done(w) /\ IInv
  BY <1>2 DEF SInv, Busy
<1>4. /\ Insertable(begun, n) /\ Target(w) = [num |-> to.num, page |-> to.page]
      /\ file = to.file
  BY <1>1, <1>2, <1>3 DEF Done
<1>5. Target(w).num = to.num /\ Target(w)' = Target(w)
  BY <1>2, <1>4 DEF Target
<1>6. file' = SaveIndex(to.file, [index[w] EXCEPT !.first = to.num, !.count = @ + 1])
  BY <1>2, <1>4, <1>5
<1>7. pc'[w] = "adding"
  BY <1>2, <1>3, Functions
<1>. QED BY <1>1, <1>2, <1>4, <1>5, <1>6, <1>7 DEF Done

LEMMA ConstructDone ==
  ASSUME IInv, Overlap = FALSE, NEW w \in Writer, Construct(w)
  PROVE  Done(w)'
<1>1. /\ pc[w] = "idle" /\ pc' = [pc EXCEPT ![w] = "constructed"] /\ ~ torn
      /\ \A v \in Writer : ~ Busy(v)
      /\ Room(Cardinality(Writer)) /\ file' = file /\ begun' = file
      /\ index' = [index EXCEPT ![w] = OnDisk]
  BY DEF Construct, Goto
<1>2. PICK new \in NewNodes \cap Record : new.id \notin answered /\ node' = [node EXCEPT ![w] = new]
  BY DEF Construct
<1>3. pc'[w] = "constructed" /\ index'[w] = OnDisk /\ node'[w] = new
  <2>1. /\ w \in Session /\ pc \in [Session -> PCs]
        /\ Function(index, Session) /\ Function(node, Writer)
    BY Functions
  <2>. QED BY <1>1, <1>2, <2>1 DEF Function
<1>4. ~ Unwritten(file)
  BY <1>1 DEF IInv, OneAtATime, Busy
<1>5. PICK h, n, s : /\ Good(file, Name, h, n, s) /\ h = HeadIn(file, begun)
                     /\ answered = IdsFrom(file, n, s, 1)
  BY DEF IInv, NodesThere
<1>6. h = OnDisk.first /\ OnDisk = GetIndex(file, Name)
  BY <1>4, <1>5 DEF HeadIn, OnDisk
<1>7. /\ Filed(file) /\ HasIndex(file, Name)
      /\ n \in Nat /\ s \in [1 .. n -> Page] /\ PagesFrom(file.disk, h) = s /\ Len(s) = n
  BY <1>5, GoodNodes DEF Good, Indexed
<1>8. NodeSlot(file, OnDisk, new.id) = <<>>
  BY <1>2, <1>5, <1>6, <1>7, NodeSlotNone
<1>9. ~ HasNode(file, [index |-> Name, id |-> new.id])
  BY <1>6, <1>8 DEF HasNode
<1>10. /\ file.schema.last_page_num - file.schema.cnt_free + 1 <= MaxPage
       /\ \A ix \in Indexes(file) : ix.count < MaxCount
  <2>1. Cardinality(Writer) \in Nat /\ Cardinality(Writer) # 0
    BY SessionAssumption, FS_CardinalityType, FS_EmptySet
  <2>2. file.schema.last_page_num \in Int /\ file.schema.cnt_free \in Int /\ MaxPage \in Int
    BY <1>7, Constants DEF Filed, Schema
  <2>. QED BY <1>1, <2>1, <2>2 DEF Room
<1>. QED BY <1>1, <1>3, <1>7, <1>9, <1>10 DEF Done, Insertable

\* The last access of an insertion leaves what AddNode does to the file that it
\* found.
LEMMA AddChunkDone ==
  ASSUME SInv, NEW w \in Writer, AddChunk(w)
  PROVE  /\ Insertable(begun, node[w])
         /\ file' = AddNode(begun, GetIndex(begun, Name), node[w])
         /\ node[w] \in NewNodes
<1>1. PICK ix, n, to : /\ ix = index[w] /\ n = node[w]
                       /\ to = PageFor(begun, "NODE", ix.first, n)
  OBVIOUS
<1>2. pc[w] = "adding" /\ file' = Put(file, Target(w).num, Target(w).page, n)
  BY <1>1 DEF AddChunk, Goto
<1>3. Done(w) /\ Writing(w)
  BY <1>2 DEF SInv, IInv, Busy
<1>4. /\ Insertable(begun, n) /\ Target(w) = [num |-> to.num, page |-> to.page]
      /\ file = SaveIndex(to.file, [ix EXCEPT !.first = to.num, !.count = @ + 1])
  BY <1>1, <1>2, <1>3 DEF Done
<1>5. file' = Put(file, to.num, to.page, n)
  BY <1>2, <1>4
<1>6. file' = AddNode(begun, ix, n)
  BY <1>1, <1>4, <1>5 DEF AddNode
<1>7. ix = GetIndex(begun, Name) /\ n \in NewNodes
  BY <1>1, <1>3 DEF Writing
<1>. QED BY <1>1, <1>4, <1>6, <1>7

\* What a selection leaves as it is.
LEMMA ReadLeaves ==
  ASSUME IInv, NEW r \in Reader, Read(r)
  PROVE  /\ UNCHANGED <<file, index, schema, page, fresh, node, begun>>
         /\ \A w \in Writer : pc'[w] = pc[w]
<1>1. /\ UNCHANGED <<file, index, schema, page, fresh, node, begun>>
      /\ pc' = pc \/ \E x : pc' = [pc EXCEPT ![r] = x]
  BY DEF Read, Select, FindPage, AnswerSelect, Goto
<1>2. \A w \in Writer : w # r
  BY SessionAssumption
<1>. QED BY <1>1, <1>2, Functions

LEMMA FiledFits ==
  ASSUME NEW f, Filed(f)
  PROVE  RecordsFit(f)
<1> SUFFICES ASSUME NEW p \in Page, NEW i \in DOMAIN f.disk[p].chunks
             PROVE  f.disk[p].chunks[i] \in Record
  BY DEF RecordsFit
<1>. QED BY PageTyped

LEMMA DoneStays ==
  ASSUME NEW w \in Writer, Done(w), pc'[w] = pc[w],
         UNCHANGED <<file, index, schema, page, fresh, node, begun>>
  PROVE  Done(w)'
<1>1. Target(w)' = Target(w)
  BY DEF Target
<1>. QED BY <1>1 DEF Done

LEMMA NextDone ==
  ASSUME SInv, Overlap = FALSE, [NextInserts]_allVars
  PROVE  SInv'
<1>1. IInv /\ IInv'
  BY NextKeeps DEF SInv
<1>2. ASSUME NEW w \in Writer, Write(w)
      PROVE  \A v \in Writer : Busy(v)' => Done(v)'
  <2>1. CASE Construct(w)
    <3> SUFFICES ASSUME NEW v \in Writer, Busy(v)'
                 PROVE  v = w
      BY <1>1, <2>1, ConstructDone
    <3>1. ~ Busy(v) /\ pc' = [pc EXCEPT ![w] = "constructed"]
      BY <2>1 DEF Construct, Goto
    <3>. QED BY <1>1, <3>1, Functions DEF Busy
  <2>2. ASSUME NEW x, Busy(w), pc' = [pc EXCEPT ![w] = x], Busy(w)' => Done(w)'
        PROVE  \A v \in Writer : Busy(v)' => Done(v)'
    BY <1>1, <2>2, OneWriterDone
  <2>3. CASE Open(w)
    BY <2>2, <2>3, OpenDone DEF Open, Goto, Busy
  <2>4. CASE ReadFirst(w)
    <3>1. PICK x : pc' = [pc EXCEPT ![w] = x]
      BY <2>4 DEF ReadFirst, Goto
    <3>. QED BY <2>2, <2>4, <3>1, ReadFirstDone DEF ReadFirst, Goto, Busy
  <2>5. CASE TakePage(w)
    BY <2>2, <2>5, TakePageDone DEF TakePage, Goto, Busy
  <2>6. CASE SavePage0(w)
    <3>1. PICK x : pc' = [pc EXCEPT ![w] = x]
      BY <2>6 DEF SavePage0, Goto
    <3>. QED BY <2>2, <2>6, <3>1, SavePage0Done DEF SavePage0, Goto, Busy
  <2>7. CASE LinkFirst(w)
    BY <2>2, <2>7, LinkFirstDone DEF LinkFirst, Goto, Busy
  <2>8. CASE CountNode(w)
    BY <2>2, <2>8, CountNodeDone DEF CountNode, Goto, Busy
  <2>9. CASE AddChunk(w)
    <3>1. pc[w] = "adding" /\ pc' = [pc EXCEPT ![w] = "idle"]
      BY <2>9 DEF AddChunk, Goto
    <3>2. pc'[w] = "idle"
      BY <1>1, <3>1, Functions
    <3>. QED BY <2>2, <3>1, <3>2 DEF Busy
  <2>. QED BY <1>2, <2>1, <2>3, <2>4, <2>5, <2>6, <2>7, <2>8, <2>9 DEF Write
<1>3. ASSUME NEW w \in Writer, Kill(w)
      PROVE  \A v \in Writer : Busy(v)' => Done(v)'
  <2>1. Busy(w) /\ pc' = [pc EXCEPT ![w] = "dead"]
    BY <1>3 DEF Kill
  <2>2. pc'[w] = "dead"
    BY <1>1, <2>1, Functions
  <2>. QED BY <1>1, <2>1, <2>2, OneWriterDone DEF Busy
<1>4. ASSUME NEW r \in Reader, Read(r)
      PROVE  \A v \in Writer : Busy(v)' => Done(v)'
  BY <1>1, <1>4, ReadLeaves, DoneStays DEF SInv, Busy
<1>5. ASSUME UNCHANGED allVars
      PROVE  \A v \in Writer : Busy(v)' => Done(v)'
  BY <1>5, DoneStays DEF SInv, Busy, allVars, local
<1>. QED BY <1>1, <1>2, <1>3, <1>4, <1>5 DEF SInv, NextInserts

-----------------------------------------------------------------------------
(* Whole is GraphStore, so its operators are those of GraphStore, which the  *)
(* prover does not know: the definitions are compared.                       *)

LEMMA WholePages ==
  /\ Whole!Page = Page /\ Whole!PageNum = PageNum
  /\ \A d, h : Whole!PagesFrom(d, h) = PagesFrom(d, h)
<1>1. Whole!Page = Page
  BY DEF Whole!Page, Page
<1>2. Whole!PageNum = PageNum
  BY <1>1 DEF Whole!PageNum, PageNum
<1>3. \A d, h : Whole!PagesFrom(d, h) = PagesFrom(d, h)
  BY <1>2 DEF Whole!PagesFrom, PagesFrom
<1>. QED BY <1>1, <1>2, <1>3

LEMMA WholeIndexSlot ==
  ASSUME NEW f, NEW name, NEW s, s = PagesFrom(f.disk, f.schema.first_index)
  PROVE  Whole!IndexSlot(f, name) = IndexSlot(f, name)
<1>1. s = Whole!PagesFrom(f.disk, f.schema.first_index)
  BY WholePages
<1>2. Whole!IndexSlot(f, name) =
           IF PageHit(f, s, name) = 0 THEN <<>>
           ELSE <<s[PageHit(f, s, name)], NameHit(f, s[PageHit(f, s, name)], name)>>
  BY <1>1
  DEF Whole!IndexSlot, Whole!Find, Whole!SelectInSeq, PageHit, PageHits, NameHit,
      NameHits, Min, Whole!Min
<1>. QED BY <1>2, IndexSlotIs

LEMMA WholeNodeSlot ==
  ASSUME NEW f, NEW ix, NEW id, NEW s, s = PagesFrom(f.disk, ix.first)
  PROVE  Whole!NodeSlot(f, ix, id) = NodeSlot(f, ix, id)
<1>1. s = Whole!PagesFrom(f.disk, ix.first)
  BY WholePages
<1>2. Whole!NodeSlot(f, ix, id) =
           IF IdPage(f, s, id) = 0 THEN <<>>
           ELSE <<s[IdPage(f, s, id)], IdHit(f, s[IdPage(f, s, id)], id)>>
  BY <1>1
  DEF Whole!NodeSlot, Whole!Find, Whole!SelectInSeq, IdPage, IdPages, IdHit, IdHits,
      Min, Whole!Min
<1>. QED BY <1>2, NodeSlotIs

LEMMA WholeRecord ==
  /\ Whole!Record = Record
  /\ Whole!RecordSize = RecordSize
<1>1. \A r : Whole!SizeOf(r) = SizeOf(r)
  BY DEF Whole!SizeOf, SizeOf
<1>2. Whole!IndexRecord = IndexRecord /\ Whole!NodeRecord = NodeRecord /\ Whole!LinkRecord = LinkRecord
  BY
  DEF Whole!IndexRecord, IndexRecord, Whole!NodeRecord, NodeRecord, Whole!LinkRecord,
      LinkRecord, Whole!Ref, Ref, Whole!Index, Index, Whole!End, End, Whole!Page,
      Page, Whole!PageNum, PageNum
<1>3. Whole!Record = Record
  BY <1>1, <1>2 DEF Whole!Record, Record, Whole!MaxSize, MaxSize
<1>. QED BY <1>1, <1>3 DEF Whole!RecordSize, RecordSize

LEMMA WholeFields ==
  /\ \A p, c : Whole!Fits(p, c) <=> Fits(p, c)
  /\ \A p, c : Whole!WithChunk(p, c) = WithChunk(p, c)
  /\ \A p, i, c : Whole!WithReplaced(p, i, c) = WithReplaced(p, i, c)
  /\ \A d, p, v : Whole!SetPrev(d, p, v) = SetPrev(d, p, v)
  /\ \A sch : Whole!AllocNum(sch) = AllocNum(sch)
  /\ \A d, sch : /\ Whole!AllocPage(d, sch) = AllocPage(d, sch)
                 /\ Whole!AllocDisk(d, sch) = AllocDisk(d, sch)
                 /\ Whole!AllocSchema(d, sch) = AllocSchema(d, sch)
<1>1. Whole!LenSize = LenSize /\ Whole!Capacity = Capacity
  BY
  DEF Whole!LenSize, LenSize, Whole!Capacity, Capacity, Whole!PAGE_SIZE, PAGE_SIZE,
      Whole!HeaderSize, HeaderSize
<1>2. \A p, c : Whole!Fits(p, c) <=> Fits(p, c)
  BY <1>1, WholeRecord DEF Whole!Fits, Fits
<1>3. \A p, c : Whole!WithChunk(p, c) = WithChunk(p, c)
  BY <1>1, WholeRecord DEF Whole!WithChunk, WithChunk
<1>4. \A p, i, c : Whole!WithReplaced(p, i, c) = WithReplaced(p, i, c)
  BY <1>1, WholeRecord DEF Whole!WithReplaced, WithReplaced
<1>5. \A d, p, v : Whole!SetPrev(d, p, v) = SetPrev(d, p, v)
  BY DEF Whole!SetPrev, SetPrev
<1>6. \A sch : Whole!AllocNum(sch) = AllocNum(sch)
  BY DEF Whole!AllocNum, AllocNum
<1>7. \A d, sch : Whole!AllocPage(d, sch) = AllocPage(d, sch)
  BY <1>1 DEF Whole!AllocPage, AllocPage, Whole!FreeHeader, FreeHeader
<1>8. \A d, sch : Whole!AllocDisk(d, sch) = AllocDisk(d, sch)
  BY <1>5 DEF Whole!AllocDisk, AllocDisk
<1>9. \A d, sch : Whole!AllocSchema(d, sch) = AllocSchema(d, sch)
  BY DEF Whole!AllocSchema, AllocSchema
<1>. QED BY <1>2, <1>3, <1>4, <1>5, <1>6, <1>7, <1>8, <1>9

LEMMA WholeReads ==
  ASSUME NEW f
  PROVE  /\ \A name : Whole!HasIndex(f, name) <=> HasIndex(f, name)
         /\ \A name : Whole!GetIndex(f, name) = GetIndex(f, name)
         /\ \A end : Whole!HasNode(f, end) <=> HasNode(f, end)
         /\ Whole!Indexes(f) = Indexes(f)
         /\ Whole!RecordsFit(f) <=> RecordsFit(f)
<1>1. \A name : Whole!HasIndex(f, name) <=> HasIndex(f, name)
  BY WholeIndexSlot DEF Whole!HasIndex, HasIndex
<1>2. \A name : Whole!GetIndex(f, name) = GetIndex(f, name)
  BY WholeIndexSlot DEF Whole!GetIndex, GetIndex, Whole!At, At
<1>3. \A end : Whole!HasNode(f, end) <=> HasNode(f, end)
  BY <1>1, <1>2, WholeNodeSlot DEF Whole!HasNode, HasNode
<1>4. Whole!Indexes(f) = Indexes(f)
  BY WholePages
  DEF Whole!Indexes, Indexes, Whole!Records, Records, Whole!Slots, Slots, Whole!At,
      At,
    ToSet, Whole!ToSet
<1>5. Whole!RecordsFit(f) <=> RecordsFit(f)
  BY WholeRecord, WholePages DEF Whole!RecordsFit, RecordsFit
<1>. QED BY <1>1, <1>2, <1>3, <1>4, <1>5

LEMMA WholeWrites ==
  ASSUME NEW f, NEW ix, NEW nd
  PROVE  Whole!AddNode(f, ix, nd) = AddNode(f, ix, nd)
<1>1. \A g, x : Whole!SaveIndex(g, x) = SaveIndex(g, x)
  BY WholeFields, WholeIndexSlot
  DEF Whole!SaveIndex, SaveIndex, Whole!Rewritten, Rewritten
<1>2. \A g, k, first, r : Whole!PageFor(g, k, first, r) = PageFor(g, k, first, r)
  <2> SUFFICES ASSUME NEW g, NEW k, NEW first, NEW r
               PROVE  Whole!PageFor(g, k, first, r) = PageFor(g, k, first, r)
    OBVIOUS
  <2>1. Whole!Fits(g.disk[first], r) <=> Fits(g.disk[first], r)
    BY WholeFields
  <2>2. Whole!AllocNum(g.schema) = AllocNum(g.schema)
    BY WholeFields
  <2>3. /\ Whole!AllocPage(g.disk, g.schema) = AllocPage(g.disk, g.schema)
        /\ Whole!AllocSchema(g.disk, g.schema) = AllocSchema(g.disk, g.schema)
    BY WholeFields
  <2>4. Whole!SetPrev(Whole!AllocDisk(g.disk, g.schema), first, Whole!AllocNum(g.schema))
          = SetPrev(AllocDisk(g.disk, g.schema), first, AllocNum(g.schema))
    BY WholeFields
  <2>. QED BY <2>1, <2>2, <2>3, <2>4 DEF Whole!PageFor, PageFor
<1>3. \A g, num, pg, r : Whole!Put(g, num, pg, r) = Put(g, num, pg, r)
  BY WholeFields DEF Whole!Put, Put
<1>. QED BY <1>1, <1>2, <1>3 DEF Whole!AddNode, AddNode

LEMMA WholeInsert ==
  ASSUME NEW end, NEW text
  PROVE Whole!InsertNode(end, text) <=>
    /\ committed.schema.last_page_num - committed.schema.cnt_free + 1 <= MaxPage
    /\ \A ix \in Indexes(committed) : ix.count < MaxCount
    /\ HasIndex(committed, end.index) /\ ~ HasNode(committed, end)
    /\ committed' = AddNode(committed, GetIndex(committed, end.index),
                     [rec |-> "NODE", id |-> end.id, text |-> text,
                      out |-> <<>>, in |-> <<>>])
    /\ RecordsFit(committed')
BY WholeReads, WholeWrites DEF Whole!InsertNode, Whole!Room

\* The step of an insertion that ends is InsertNode; every other one that is not
\* a death leaves the file as the insertions before had it.
LEMMA StepCommitted ==
  ASSUME SInv, SInv', Overlap = FALSE, [NextInserts]_allVars
  PROVE  \/ \E end \in End, text \in Text : Whole!InsertNode(end, text)
         \/ \E w \in Writer : pc[w] # "dead" /\ pc'[w] = "dead"
         \/ UNCHANGED committed
<1>1. IInv /\ IInv'
  BY DEF SInv
<1>2. ASSUME NEW w \in Writer, Write(w)
      PROVE  \/ \E end \in End, text \in Text : Whole!InsertNode(end, text)
             \/ UNCHANGED committed
  <2>1. CASE Construct(w)
    <3>1. /\ \A v \in Writer : ~ Busy(v)
          /\ pc' = [pc EXCEPT ![w] = "constructed"] /\ begun' = file
      BY <2>1 DEF Construct, Goto
    <3>2. Busy(w)'
      BY <1>1, <3>1, Functions DEF Busy
    <3>. QED BY <3>1, <3>2 DEF committed
  <2>2. ASSUME NEW x \in Inside, Busy(w), pc' = [pc EXCEPT ![w] = x], begun' = begun
        PROVE  UNCHANGED committed
    <3>1. Busy(w)'
      BY <1>1, <2>2, Functions DEF Inside, Busy
    <3>. QED BY <2>2, <3>1 DEF committed
  <2>3. CASE Open(w)
    BY <2>2, <2>3 DEF Open, Goto, Busy, Inside
  <2>4. CASE ReadFirst(w)
    <3>1. PICK x \in {"counting", "allocating"} : pc' = [pc EXCEPT ![w] = x]
      BY <2>4 DEF ReadFirst, Goto
    <3>. QED BY <2>2, <2>4, <3>1 DEF ReadFirst, Goto, Busy, Inside
  <2>5. CASE TakePage(w)
    BY <2>2, <2>5 DEF TakePage, Goto, Busy, Inside
  <2>6. CASE SavePage0(w)
    <3>1. PICK x \in {"counting", "linking"} : pc' = [pc EXCEPT ![w] = x]
      BY <2>6 DEF SavePage0, Goto
    <3>. QED BY <2>2, <2>6, <3>1 DEF SavePage0, Goto, Busy, Inside
  <2>7. CASE LinkFirst(w)
    BY <2>2, <2>7 DEF LinkFirst, Goto, Busy, Inside
  <2>8. CASE CountNode(w)
    BY <2>2, <2>8 DEF CountNode, Goto, Busy, Inside
  <2>9. CASE AddChunk(w)
    <3>1. pc[w] = "adding" /\ pc' = [pc EXCEPT ![w] = "idle"]
      BY <2>9 DEF AddChunk, Goto
    <3>2. Busy(w) /\ \A v \in Writer : ~ Busy(v)'
      <4>1. Busy(w) /\ pc'[w] = "idle"
        BY <1>1, <3>1, Functions DEF Busy
      <4>2. ASSUME NEW v \in Writer, v # w
            PROVE  ~ Busy(v) /\ pc'[v] = pc[v]
        BY <1>1, <3>1, <4>1, <4>2, Functions DEF IInv, OneAtATime
      <4>. QED BY <4>1, <4>2 DEF Busy
    <3>3. committed = begun /\ committed' = file'
      BY <3>2 DEF committed
    <3>4. PICK n : n = node[w]
      OBVIOUS
    <3>5. /\ Insertable(begun, n) /\ file' = AddNode(begun, GetIndex(begun, Name), n)
          /\ n \in NewNodes
      BY <2>9, <3>4, AddChunkDone
    <3>6. /\ n.id \in NodeId /\ n.text \in Text
          /\ n = [rec |-> "NODE", id |-> n.id, text |-> n.text, out |-> <<>>, in |-> <<>>]
      BY <3>5 DEF NewNodes
    <3>7. PICK end : end = [index |-> Name, id |-> n.id]
      OBVIOUS
    <3>8. end \in End /\ end.index = Name /\ end.id = n.id
      BY <3>6, <3>7, IndexAssumption DEF End
    <3>9. RecordsFit(file')
      BY <1>1, FiledFits DEF IInv, NodesThere, Good
    <3>10. Whole!InsertNode(end, n.text)
      BY <3>3, <3>5, <3>6, <3>7, <3>8, <3>9, WholeInsert DEF Insertable
    <3>. QED BY <3>6, <3>8, <3>10
  <2>. QED BY <1>2, <2>1, <2>3, <2>4, <2>5, <2>6, <2>7, <2>8, <2>9 DEF Write
<1>3. ASSUME NEW w \in Writer, Kill(w)
      PROVE  pc[w] # "dead" /\ pc'[w] = "dead"
  BY <1>1, <1>3, Functions DEF Kill, Busy
<1>4. ASSUME NEW r \in Reader, Read(r)
      PROVE  UNCHANGED committed
  BY <1>1, <1>4, ReadLeaves DEF committed, Busy
<1>5. ASSUME UNCHANGED allVars
      PROVE  UNCHANGED committed
  BY <1>5 DEF allVars, local, committed, Busy
<1>. QED BY <1>2, <1>3, <1>4, <1>5 DEF NextInserts

\* Taken apart or as one step, an insertion is the same, also in a file with
\* pages that killed processes left behind.
THEOREM InsertsOneByOneCorrect ==
  ASSUME Overlap = FALSE
  PROVE  SpecInserts => InsertsOneByOne
<1>1. InitInserts => SInv
  BY InitHolds DEF SInv, InitInserts, Busy, Session
<1>2. SInv /\ [NextInserts]_allVars => SInv'
  BY NextDone
<1>3. SInv /\ SInv' /\ [NextInserts]_allVars =>
        [\/ \E end \in End, text \in Text : Whole!InsertNode(end, text)
         \/ \E w \in Writer : pc[w] # "dead" /\ pc'[w] = "dead"]_committed
  BY StepCommitted
<1>. QED BY <1>1, <1>2, <1>3, PTL DEF SpecInserts, InsertsOneByOne
=============================================================================
