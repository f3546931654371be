----------------------------- MODULE GraphStore -----------------------------
(***************************************************************************)
(* The graph layer (server_dir/src/schema.c) on the page file: indexes of  *)
(* nodes and of links, nodes with the references to their links, links.    *)
(*                                                                         *)
(* Each query that `exec` dispatches is one step from the file before it   *)
(* to the file after it; only one query runs at a time.  A query opens the *)
(* file with the schema that the last one saved (PageStore: SavedAtRest),  *)
(* so a file f is its pages f.disk and the schema f.schema of page 0, and  *)
(* a function of schema.c that changes it is an operator from file to file.*)
(*                                                                         *)
(* An index record carries the number of the first page of its list.  This *)
(* is a second copy of what the page headers know, and shrink moves pages  *)
(* without looking at it.                                                  *)
(***************************************************************************)
EXTENDS Integers, Sequences, SequencesExt, FiniteSets

CONSTANTS
  NodeIndex,   \* names of indexes of kind I_NODE
  LinkIndex,   \* names of indexes of kind I_LINK
  NodeId,      \* ids of nodes; `create_node` takes the query's or clock()
  LinkId,      \* ids of links, from clock()
  Text,        \* values of the nodes' string attribute
  TextLen,     \* and their lengths
  MaxPage,     \* bound: the file never grows beyond this page number
  MaxCount,    \* bound: nothing is added once an index counts this many
  MayMoveFirst \* whether a deletion may relocate the first page of a list of
               \* nodes or links, which the code does not handle

ASSUME BoundAssumption == MaxPage \in Nat \ {0}
ASSUME NameAssumption == NodeIndex \cap LinkIndex = {}
ASSUME TextAssumption == TextLen \in [Text -> Nat]
ASSUME MoveAssumption == MayMoveFirst \in BOOLEAN

Index == NodeIndex \cup LinkIndex
Ref == [index : LinkIndex, id : LinkId]              \* link_ref_t
End == [index : NodeIndex, id : NodeId]              \* an end of a link

\* index_t, node_t and link_t as encode_index, encode_node and encode_link
\* put them into a page.  A name stands for its type_id too.
IndexRecord == [rec : {"INDEX"}, name : Index, count : Nat, first : 0 .. MaxPage]
NodeRecord == [rec : {"NODE"}, id : NodeId, text : Text, out : Seq(Ref), in : Seq(Ref)]
LinkRecord == [rec : {"LINK"}, id : LinkId, from : End, to : End]

\* Their encoded sizes; a node index describes one attribute.
SizeOf(r) ==
  CASE r.rec = "INDEX" -> IF r.name \in NodeIndex THEN 60 ELSE 40
    [] r.rec = "NODE"  -> 4 + (4 + TextLen[r.text]) + (4 + 8 * Len(r.out))
                            + (4 + 8 * Len(r.in))
    [] r.rec = "LINK"  -> 20

MaxSize == 4068              \* what an empty page takes, with the length field

\* Bound: no record outgrows a page, which the code does not look at.
Record == {r \in IndexRecord \cup NodeRecord \cup LinkRecord : SizeOf(r) <= MaxSize}

RecordSize == [r \in Record |-> SizeOf(r)]

INSTANCE PageFile WITH Kind <- {"INDEX", "NODE", "LINK"},
                       Chunk <- Record, Size <- RecordSize

VARIABLE file       \* [disk, schema]

-----------------------------------------------------------------------------
(* Reading: `find` goes through the pages of a list from its first one.    *)

\* The positions <<page, i>> of the records of the list at h.
Slots(f, h) ==
  UNION {{<<p, i>> : i \in DOMAIN f.disk[p].chunks} : p \in ToSet(PagesFrom(f.disk, h))}

At(f, slot) == f.disk[slot[1]].chunks[slot[2]]

Records(f, h) == {At(f, slot) : slot \in Slots(f, h)}

\* Where the first record is that passes the test, page by page and in a page
\* chunk by chunk; <<>> if none does.
Find(f, h, Test(_)) ==
  LET pages == PagesFrom(f.disk, h)
      HitIn(p) == SelectInSeq(f.disk[p].chunks, Test)
      hit == SelectInSeq(pages, LAMBDA p : HitIn(p) # 0)
  IN  IF hit = 0 THEN <<>> ELSE <<pages[hit], HitIn(pages[hit])>>

IndexSlot(f, name) == Find(f, f.schema.first_index, LAMBDA r : r.name = name)
NodeSlot(f, ix, id) == Find(f, ix.first, LAMBDA r : r.id = id)

Indexes(f) == Records(f, f.schema.first_index)
HasIndex(f, name) == IndexSlot(f, name) # <<>>
GetIndex(f, name) == At(f, IndexSlot(f, name))      \* get_first_index
HasNode(f, end) ==
  HasIndex(f, end.index) /\ NodeSlot(f, GetIndex(f, end.index), end.id) # <<>>


-----------------------------------------------------------------------------
(* Writing.                                                                *)

\* The page a record goes to: the first one of its list, or a new page that
\* get_free_page supplies and that goes in front of it.  Returns the file and
\* the page as it is held in memory; the page is written by Put.
PageFor(f, kind, first, record) ==
  IF first # 0 /\ Fits(f.disk[first], record)
  THEN [file |-> f, num |-> first, page |-> f.disk[first]]
  ELSE [file |-> [disk |-> SetPrev(AllocDisk(f.disk, f.schema), first, AllocNum(f.schema)),
                  schema |-> AllocSchema(f.disk, f.schema)],
        num |-> AllocNum(f.schema),
        page |-> [AllocPage(f.disk, f.schema)
                    EXCEPT !.type = kind, !.next = first, !.prev = 0]]

\* add_chunk to a page that PageFor returned.
Put(f, num, page, record) == [f EXCEPT !.disk[num] = WithChunk(page, record)]

Rewritten(f, slot, record) ==
  [f EXCEPT !.disk[slot[1]] = WithReplaced(@, slot[2], record)]

\* save_index: an index record keeps its size, so it is rewritten in place.
SaveIndex(f, ix) == Rewritten(f, IndexSlot(f, ix.name), ix)

\* Mistake: the last record of a page leaves an empty page in the list.
RemovedLeavesPage(f, slot) ==
  [f EXCEPT !.disk[slot[1]] = WithoutChunk(@, slot[2])]

\* delete_chunk, with free_page and shrink when they are due.
Removed(f, slot) ==
  LET freed == FreedSchema(f.disk, f.schema, slot[1])
      disk == FreedDisk(f.disk, f.schema, slot[1])
  IN  IF Len(f.disk[slot[1]].chunks) > 1
      THEN [f EXCEPT !.disk[slot[1]] = WithoutChunk(@, slot[2])]
      ELSE IF ShrinkDue(freed) THEN Shrunk(disk, freed)
      ELSE [disk |-> disk, schema |-> freed]

\* Mistake: the new node is not counted.
AddNodeUncounted(f, ix, node) ==
  LET target == PageFor(f, "NODE", ix.first, node)
      counted == [ix EXCEPT !.first = target.num]
  IN  Put(SaveIndex(target.file, counted), target.num, target.page, node)

\* add_node.  ix is the index as the query has read it.
AddNode(f, ix, node) ==
  LET target == PageFor(f, "NODE", ix.first, node)
      counted == [ix EXCEPT !.first = target.num, !.count = @ + 1]
  IN  Put(SaveIndex(target.file, counted), target.num, target.page, node)

\* Mistake: the old copy of a node that has to move stays.
ReplaceNodeKeepsOld(f, ix, slot, node) ==
  IF ReplacementFits(f.disk[slot[1]], slot[2], node)
  THEN Rewritten(f, slot, node)
  ELSE AddNode(f, ix, node)

\* A node with a new attribute value or reference: rewritten in place, or
\* removed and added again as if it were a new node.
ReplaceNode(f, ix, slot, node) ==
  IF ReplacementFits(f.disk[slot[1]], slot[2], node)
  THEN Rewritten(f, slot, node)
  ELSE AddNode(Removed(f, slot), ix, node)

\* add_link_to_node.
AddLinkToNode(f, end, ref, isFrom) ==
  LET ix == GetIndex(f, end.index)
      slot == NodeSlot(f, ix, end.id)
      node == At(f, slot)
  IN  ReplaceNode(f, ix, slot, IF isFrom THEN [node EXCEPT !.out = Append(@, ref)]
                               ELSE [node EXCEPT !.in = Append(@, ref)])

\* Mistake: the two ends are confused.
AddLinkSwapped(f, ix, link) ==
  LET target == PageFor(f, "LINK", ix.first, link)
      ref == [index |-> ix.name, id |-> link.id]
      referred == AddLinkToNode(AddLinkToNode(target.file, link.from, ref, FALSE),
                                link.to, ref, TRUE)
      counted == [ix EXCEPT !.first = target.num, !.count = @ + 1]
  IN  Put(SaveIndex(referred, counted), target.num, target.page, link)

\* add_link.  The page for the link is read or allocated first and written
\* last, after both nodes were rewritten or moved.
AddLink(f, ix, link) ==
  LET target == PageFor(f, "LINK", ix.first, link)
      ref == [index |-> ix.name, id |-> link.id]
      referred == AddLinkToNode(AddLinkToNode(target.file, link.from, ref, TRUE),
                                link.to, ref, FALSE)
      counted == [ix EXCEPT !.first = target.num, !.count = @ + 1]
  IN  Put(SaveIndex(referred, counted), target.num, target.page, link)

\* Mistake: the from node is taken out before the to node is looked for.
LinkDeathTakenOut(f, ix, link) ==
  LET target == PageFor(f, "LINK", ix.first, link)
  IN  IF HasNode(f, link.from)
      THEN Removed(target.file, NodeSlot(f, GetIndex(f, link.from.index), link.from.id))
      ELSE target.file

\* What add_link leaves when a node is missing and the process dies of it: the
\* page for the link is allocated, and the from node has its reference already
\* when it is the to node that is not there.
LinkDeath(f, ix, link) ==
  LET target == PageFor(f, "LINK", ix.first, link)
      ref == [index |-> ix.name, id |-> link.id]
  IN  IF HasNode(f, link.from) THEN AddLinkToNode(target.file, link.from, ref, TRUE)
      ELSE target.file

\* delete_node_by_id: the index record is saved before the page is freed.
DeleteNodeById(f, ix, slot) ==
  LET page == f.disk[slot[1]]
      first == IF Len(page.chunks) = 1 /\ ix.first = slot[1] THEN page.next
               ELSE ix.first
  IN  Removed(SaveIndex(f, [ix EXCEPT !.first = first, !.count = @ - 1]), slot)

\* delete_index_by_name: a non-empty index stays, though the reply is the same.
DeleteIndexByName(f, name) ==
  IF GetIndex(f, name).count = 0 THEN Removed(f, IndexSlot(f, name)) ELSE f

\* add_index of a name that is not taken.
AddIndex(f, ix) ==
  LET target == PageFor(f, "INDEX", f.schema.first_index, ix)
      added == Put(target.file, target.num, target.page, ix)
  IN  [added EXCEPT !.schema.first_index = target.num]

\* create_index.
NewIndex(name) == [rec |-> "INDEX", name |-> name, count |-> 0, first |-> 0]


-----------------------------------------------------------------------------
(* The queries.  `exec` gets the index record that norm_construct has read  *)
(* from the same file, and DELETE's is taken to be found like the others'.  *)

ListKind(name) == IF name \in NodeIndex THEN "NODE" ELSE "LINK"

\* Every index names a page of its own kind that is the first of a list.
HeadsNamed(f) ==
  \A ix \in Indexes(f) :
    ix.first # 0 => /\ f.disk[ix.first].type = ListKind(ix.name)
                    /\ f.disk[ix.first].prev = 0

\* The bounds: n more pages fit below MaxPage, no count is at MaxCount, and the
\* nodes that are written are records.
Room(n) ==
  /\ file.schema.last_page_num - file.schema.cnt_free + n <= MaxPage
  /\ \A ix \in Indexes(file) : ix.count < MaxCount

RecordsFit(f) ==
  \A p \in Page : \A i \in DOMAIN f.disk[p].chunks : f.disk[p].chunks[i] \in Record

Init ==
  file = [disk |-> [p \in Page |-> NoPage],
          schema |-> [first_index |-> 0, free_page |-> 0,
                      cnt_free |-> 0, last_page_num |-> 0]]

InsertIndex(name) ==
  /\ Room(1)
  /\ ~ HasIndex(file, name)
  /\ file' = AddIndex(file, NewIndex(name))

\* Bound: a node that is there is not added a second time.
InsertNode(end, text) ==
  /\ Room(1)
  /\ HasIndex(file, end.index) /\ ~ HasNode(file, end)
  /\ file' = AddNode(file, GetIndex(file, end.index),
                     [rec |-> "NODE", id |-> end.id, text |-> text,
                      out |-> <<>>, in |-> <<>>])
  /\ RecordsFit(file')

\* set_node_attribute.
SetNode(end, text) ==
  /\ Room(1)
  /\ HasNode(file, end)
  /\ LET ix == GetIndex(file, end.index)
         slot == NodeSlot(file, ix, end.id)
     IN  file' = ReplaceNode(file, ix, slot, [At(file, slot) EXCEPT !.text = text])
  /\ RecordsFit(file')

\* clock() is taken to give a new link id each time.
InsertLink(name, id, from, to) ==
  /\ Room(3)
  /\ HasIndex(file, name)
  /\ \A r \in Records(file, GetIndex(file, name).first) : r.id # id
  /\ HasNode(file, from) /\ HasNode(file, to)
  /\ file' = AddLink(file, GetIndex(file, name),
                     [rec |-> "LINK", id |-> id, from |-> from, to |-> to])
  /\ RecordsFit(file')

DeleteNode(end) ==
  /\ HasNode(file, end)
  /\ LET ix == GetIndex(file, end.index)
     IN  file' = DeleteNodeById(file, ix, NodeSlot(file, ix, end.id))
  /\ ~ MayMoveFirst => HeadsNamed(file')

DeleteIndex(name) ==
  /\ HasIndex(file, name)
  /\ file' = DeleteIndexByName(file, name)
  /\ ~ MayMoveFirst => HeadsNamed(file')

Next ==
  \/ \E name \in Index : InsertIndex(name) \/ DeleteIndex(name)
  \/ \E end \in End : \/ DeleteNode(end)
                      \/ \E text \in Text : InsertNode(end, text) \/ SetNode(end, text)
  \/ \E name \in LinkIndex, id \in LinkId, from, to \in End :
        InsertLink(name, id, from, to)

Spec == Init /\ [][Next]_file

-----------------------------------------------------------------------------
TypeOK ==
  /\ file.disk \in [Page -> Header]
  /\ file.schema \in Schema

\* Every index still names the first page of its list, so that its records can
\* be found: DELETE answers "node successfully deleted", and says nothing of
\* the other nodes.  (delete_node_by_id, shrink)
FirstPagesKept == HeadsNamed(file)

LivePages(f) == {p \in Page : f.disk[p].type \in {"INDEX", "NODE", "LINK"}}

\* Every page with nodes or links is on the list of exactly one index: dropping
\* an index, emptying a list or moving a grown node to another page leaves no
\* page that no query reaches and no page that two indexes share.
PagesOwned ==
  \A p \in LivePages(file) :
    file.disk[p].type # "INDEX" =>
      Cardinality({ix \in Indexes(file) :
                     p \in ToSet(PagesFrom(file.disk, ix.first))}) = 1

\* An index counts at least the records of its list, so that `delete_index`
\* only ever drops an index whose list is empty.
CountsCover ==
  \A ix \in Indexes(file) : ix.count >= Cardinality(Slots(file, ix.first))

\* Each reference that a node carries leads to a link that has the node as that
\* end, and no node carries one twice: check_pattern follows them without a
\* test.  This survives nodes that outgrow their page and move while the link
\* is being added, and links from a node to itself.
RefsNameLinks ==
  \A ix \in {x \in Indexes(file) : x.name \in NodeIndex} :
    \A n \in Records(file, ix.first) :
      LET end == [index |-> ix.name, id |-> n.id]
          LinkOf(ref) == At(file, Find(file, GetIndex(file, ref.index).first,
                                       LAMBDA r : r.id = ref.id))
      IN  /\ \A ref \in ToSet(n.out) : LinkOf(ref).from = end
          /\ \A ref \in ToSet(n.in) : LinkOf(ref).to = end
          /\ IsInjective(n.out) /\ IsInjective(n.in)

\* The lists that queries read, from the index records on: for each index its
\* name and the records, without the references of nodes.
Listed(f) ==
  {[name |-> ix.name,
    recs |-> {IF r.rec = "NODE" THEN [r EXCEPT !.out = <<>>, !.in = <<>>] ELSE r :
                r \in Records(f, ix.first)}] : ix \in Indexes(f)}

\* A link to or from a node that is not there kills the process in the middle of
\* add_link, from every file there can be.  No node, link or index is lost by
\* that, even when the from node has moved to another page on the way, and no
\* page of a list is on the free list.  (add_link, add_link_to_node)
LinkDeathLosesNothing ==
  \A ix \in {x \in Indexes(file) : x.name \in LinkIndex}, from, to \in End :
    (Room(3) /\ ~ (HasNode(file, from) /\ HasNode(file, to))) =>
      \A id \in LinkId :
        LET left == LinkDeath(file, ix, [rec |-> "LINK", id |-> id, from |-> from, to |-> to])
        IN  /\ Listed(left) = Listed(file)
            /\ \A x \in Indexes(left) :
                 ToSet(PagesFrom(left.disk, x.first))
                   \cap ToSet(PagesFrom(left.disk, left.schema.free_page)) = {}

\* The page file stays well-formed under the calls as schema.c makes them, with
\* pages held in memory while other pages are allocated and written: neighbours
\* name each other, the free list has the free pages, and free_space is exact.
FileSound ==
  LET d == file.disk
      free == PagesFrom(d, file.schema.free_page)
  IN  /\ \A p \in LivePages(file) :
           /\ d[p].next # 0 => /\ d[d[p].next].type = d[p].type
                               /\ d[d[p].next].prev = p
           /\ d[p].prev # 0 => d[d[p].prev].next = p
           /\ d[p].free_space = Capacity - FoldLeft(LAMBDA n, r : n + SizeOf(r) + LenSize,
                                                    0, d[p].chunks)
           /\ d[p].free_space >= 0
      /\ ToSet(free) = {p \in Page : d[p].type = "FREE"}
      /\ Len(free) = file.schema.cnt_free
=============================================================================
