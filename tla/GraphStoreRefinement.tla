------------------------ MODULE GraphStoreRefinement ------------------------
(***************************************************************************)
(* The graph layer implements Graph: what queries find by going from the   *)
(* schema through the index records to the lists changes as the query asks *)
(* and in no other way, on whatever pages the records are.                 *)
(***************************************************************************)
EXTENDS GraphStore

Found(kind, Element(_, _)) ==
  UNION {{Element(ix, r) : r \in Records(file, ix.first)} :
           ix \in {x \in Indexes(file) : ListKind(x.name) = kind}}

NodesFound ==
  Found("NODE", LAMBDA ix, n : [index |-> ix.name, id |-> n.id, text |-> n.text,
                                out |-> ToSet(n.out), in |-> ToSet(n.in)])
LinksFound ==
  Found("LINK", LAMBDA ix, l : [index |-> ix.name, id |-> l.id,
                                from |-> l.from, to |-> l.to])

Abstract == INSTANCE Graph WITH
  indexes <- {ix.name : ix \in Indexes(file)},
  nodes <- NodesFound,
  links <- LinksFound

\* Each query changes the graph that queries find as Graph says: a node that
\* outgrows its page and moves keeps its text and references, a relocated page
\* takes its records along, and nothing else is touched.
RefinesGraph == Abstract!Spec
=============================================================================
