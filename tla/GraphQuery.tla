----------------------------- MODULE GraphQuery -----------------------------
(***************************************************************************)
(* The queries that read (schema.c: check_pattern and the enumerations), as *)
(* operators on the file, and what they should answer in terms of the      *)
(* graph.                                                                  *)
(*                                                                         *)
(* A SELECT of nodes is a chain of levels: nodes of the first index, with  *)
(* neighbours in the second, that have neighbours in the third, and so on. *)
(* The server answers with a tree.  Here a tree is the sequence of its     *)
(* rows, the nodes on each way from the root to a leaf; a node without a   *)
(* row is one the server leaves out.                                       *)
(***************************************************************************)
EXTENDS GraphStoreRefinement

CONSTANTS
  NoFilter,   \* a level without a filter
  Gone,       \* in an answer, the end of a link that is not there
  Patterns    \* bound: the chains of levels that the runs ask for

\* select_q with its inner ones; a filter asks for a text.
Level == [index : NodeIndex, text : Text \cup {NoFilter}]
ASSUME PatternAssumption == NoFilter \notin Text /\ Patterns \subseteq Seq(Level)

\* Gone stands for the process that dies: the node at the other end of a link
\* is not found, and check_pattern dereferences the null pointer.
ASSUME GoneAssumption == Gone \notin End

-----------------------------------------------------------------------------
\* check_node, for a filter that is one `eq` on the text (others: Filter).
CheckNode(level, node) == level.text \in {NoFilter, node.text}

GetLink(f, ref) ==
  At(f, Find(f, GetIndex(f, ref.index).first, LAMBDA r : r.id = ref.id))

\* Mistake: links are only followed in their own direction.
NextEndsOneWay(f, node, index) ==
  SelectSeq([i \in DOMAIN node.out |-> GetLink(f, node.out[i]).to],
            LAMBDA end : end.index = index)

\* The nodes that check_pattern goes on to, in its order: to the far ends of
\* the links out and then of the links in, if they are of the index it wants.
NextEnds(f, node, index) ==
  SelectSeq([i \in DOMAIN node.out |-> GetLink(f, node.out[i]).to]
              \o [i \in DOMAIN node.in |-> GetLink(f, node.in[i]).from],
            LAMBDA end : end.index = index)

\* check_pattern: the rows for a node at level k of the pattern.  Answers of
\* neighbours are put in front of those that are there.
RowsFrom(f, pattern) ==
  LET last == Len(pattern)
      rows[k \in 1 .. last, end \in End] ==
        IF ~ HasNode(f, end) THEN <<<<Gone>>>>
        ELSE LET node == At(f, NodeSlot(f, GetIndex(f, end.index), end.id))
                 Prefixed(rs) == [i \in DOMAIN rs |-> <<end>> \o rs[i]]
             IN  IF ~ CheckNode(pattern[k], node) THEN <<>>
                 ELSE IF k = last THEN <<<<end>>>>
                 ELSE FoldLeft(LAMBDA rs, next : Prefixed(rows[k + 1, next]) \o rs,
                               <<>>, NextEnds(f, node, pattern[k + 1].index))
  IN  rows

\* The slots of the list at h as find gets to them.
SlotsInOrder(f, h) ==
  LET pages == PagesFrom(f.disk, h)
  IN  FlattenSeq([j \in DOMAIN pages |->
                    [i \in DOMAIN f.disk[pages[j]].chunks |-> <<pages[j], i>>]])

\* node_enumerate: a tree for each node of the first index that has one.
NodeEnumerate(f, pattern) ==
  LET index == pattern[1].index
      slots == SlotsInOrder(f, GetIndex(f, index).first)
      rows == RowsFrom(f, pattern)
  IN  FoldLeft(LAMBDA rs, slot :
                 rows[1, [index |-> index, id |-> At(f, slot).id]] \o rs,
               <<>>, slots)

\* A link with the nodes at its ends.
WithEnds(f, id, from, to) ==
  LET EndNode(end) == IF HasNode(f, end) THEN end ELSE Gone
  IN  [id |-> id, from |-> EndNode(from), to |-> EndNode(to)]

\* Mistake: the same node is looked up for both ends.
LinkEnumerateOneEnd(f, name) ==
  FoldLeft(LAMBDA rs, slot : LET l == At(f, slot)
                             IN  <<WithEnds(f, l.id, l.from, l.from)>> \o rs,
           <<>>, SlotsInOrder(f, GetIndex(f, name).first))

\* link_enumerate: the links of the index, the last one in front.
LinkEnumerate(f, name) ==
  FoldLeft(LAMBDA rs, slot : LET l == At(f, slot)
                             IN  <<WithEnds(f, l.id, l.from, l.to)>> \o rs,
           <<>>, SlotsInOrder(f, GetIndex(f, name).first))

-----------------------------------------------------------------------------
(* What a query should answer: the walks through the graph that NodesFound *)
(* and LinksFound make up.                                                 *)

EndOfNode(n) == [index |-> n.index, id |-> n.id]

\* Node k is of the index and passes the filter of level k, and step k goes from
\* it to node k + 1 along a link that node k has as its start, or against one
\* that it has as its end.  (A node that was created again under the id of a
\* deleted one does not have that one's links.)
IsWalk(pattern, w) ==
  /\ \A k \in DOMAIN pattern :
       w.nodes[k].index = pattern[k].index /\ pattern[k].text \in {NoFilter, w.nodes[k].text}
  /\ \A k \in DOMAIN w.steps :
       LET link == w.steps[k].link
           ref == [index |-> link.index, id |-> link.id]
       IN  IF w.steps[k].along
           THEN ref \in w.nodes[k].out /\ link.to = EndOfNode(w.nodes[k + 1])
           ELSE ref \in w.nodes[k].in /\ link.from = EndOfNode(w.nodes[k + 1])

Walks(pattern) ==
  LET step == [link : LinksFound, along : BOOLEAN]
  IN  {w \in [nodes : [DOMAIN pattern -> NodesFound],
              steps : [1 .. Len(pattern) - 1 -> step]] : IsWalk(pattern, w)}

Row(w) == [k \in DOMAIN w.nodes |-> EndOfNode(w.nodes[k])]

Askable(pattern) == \A k \in DOMAIN pattern : HasIndex(file, pattern[k].index)

\* A link with an end that was deleted.
Dangling == \E l \in LinksFound : ~ HasNode(file, l.from) \/ ~ HasNode(file, l.to)

Answered(rows) == \A i \in DOMAIN rows : Gone \notin ToSet(rows[i])

\* The rows of an answer are the walks of the pattern, each as often as there are
\* ways along the links, whatever pages nodes and links have moved to; and the
\* server dies over a SELECT of nodes only if a node was deleted whose links
\* stay.  A walk may take a link again, also straight back, as check_pattern does
\* not know which link it came by.  So an answer has every row of what the MATCH
\* clauses of example.graphql:8 and :23 ask for, which use a link once, and others.
SelectExact ==
  \A pattern \in {p \in Patterns : Askable(p)} :
    LET rows == NodeEnumerate(file, pattern)
        walks == Walks(pattern)
    IN  IF Answered(rows)
        THEN /\ {Row(w) : w \in walks} \subseteq ToSet(rows)
             /\ \A row \in ToSet(rows) :
                  Cardinality({i \in DOMAIN rows : rows[i] = row})
                    = Cardinality({w \in walks : Row(w) = row})
        ELSE Dangling

\* A SELECT of links answers each link once with the nodes at its two ends, and
\* dies only over a link whose end was deleted.
LinkSelectExact ==
  \A name \in {n \in LinkIndex : HasIndex(file, n)} :
    LET rows == LinkEnumerate(file, name)
        found == {l \in LinksFound : l.index = name}
    IN  /\ Len(rows) = Cardinality(found)
        /\ {[index |-> name, id |-> r.id, from |-> r.from, to |-> r.to] : r \in ToSet(rows)}
             = found
           \/ Dangling
=============================================================================
