------------------------------- MODULE Graph --------------------------------
(***************************************************************************)
(* What the database promises to its clients: a graph of named indexes,    *)
(* nodes with an attribute, and directed links between nodes.  A node      *)
(* carries the references to the links it is an end of.                    *)
(***************************************************************************)
EXTENDS Naturals, FiniteSets

CONSTANTS NodeIndex, LinkIndex, NodeId, LinkId, Text

VARIABLES
  indexes,   \* names of the indexes
  nodes,     \* a set of nodes [index, id, text, out, in]
  links      \* a set of links [index, id, from, to]

graph == <<indexes, nodes, links>>

EndOf(n) == [index |-> n.index, id |-> n.id]
RefTo(l) == [index |-> l.index, id |-> l.id]

Init == indexes = {} /\ nodes = {} /\ links = {}

InsertIndex(name) ==
  /\ name \notin indexes
  /\ indexes' = indexes \cup {name}
  /\ UNCHANGED <<nodes, links>>

\* Only an index without elements goes.
DeleteIndex(name) ==
  /\ name \in indexes
  /\ \A e \in nodes \cup links : e.index # name
  /\ indexes' = indexes \ {name}
  /\ UNCHANGED <<nodes, links>>

InsertNode(end, text) ==
  /\ end.index \in indexes
  /\ \A n \in nodes : EndOf(n) # end
  /\ nodes' = nodes \cup {[index |-> end.index, id |-> end.id, text |-> text,
                           out |-> {}, in |-> {}]}
  /\ UNCHANGED <<indexes, links>>

SetNode(n, text) ==
  /\ nodes' = (nodes \ {n}) \cup {[n EXCEPT !.text = text]}
  /\ UNCHANGED <<indexes, links>>

\* The links of a deleted node stay.
DeleteNode(n) ==
  /\ nodes' = nodes \ {n}
  /\ UNCHANGED <<indexes, links>>

\* Both ends get a reference to the link, a loop gets two.
InsertLink(l) ==
  /\ l.index \in indexes
  /\ \A m \in links : RefTo(m) # RefTo(l)
  /\ {l.from, l.to} \subseteq {EndOf(n) : n \in nodes}
  /\ links' = links \cup {l}
  /\ nodes' = {[n EXCEPT !.out = @ \cup {r \in {RefTo(l)} : l.from = EndOf(n)},
                         !.in = @ \cup {r \in {RefTo(l)} : l.to = EndOf(n)}] : n \in nodes}
  /\ UNCHANGED indexes

End == [index : NodeIndex, id : NodeId]

Next ==
  \/ \E name \in NodeIndex \cup LinkIndex : InsertIndex(name) \/ DeleteIndex(name)
  \/ \E end \in End, text \in Text : InsertNode(end, text)
  \/ \E n \in nodes : DeleteNode(n) \/ \E text \in Text : SetNode(n, text)
  \/ \E l \in [index : LinkIndex, id : LinkId, from : End, to : End] : InsertLink(l)

Spec == Init /\ [][Next]_graph
=============================================================================
