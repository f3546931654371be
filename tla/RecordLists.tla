---------------------------- MODULE RecordLists -----------------------------
(***************************************************************************)
(* What the page store promises to the code above it: a collection of      *)
(* lists of records.  A record is put into a list, rewritten or removed;   *)
(* nothing else ever happens to the records, whatever pages they are on.   *)
(* Two lists may hold the same records, so the collection is a bag.        *)
(***************************************************************************)
EXTENDS Naturals, Sequences, SequencesExt, Bags

CONSTANTS Kind, Chunk

VARIABLE lists      \* a bag of lists [kind, recs]

Init == lists = EmptyBag

\* List m is list l with record c added to it, the others in their order.
WithOneMore(l, m, c) ==
  /\ m.kind = l.kind
  /\ \E i \in DOMAIN m.recs : m.recs[i] = c /\ l.recs = RemoveAt(m.recs, i)

\* List m is list l with one record replaced by c.
WithOneChanged(l, m, c) ==
  /\ m.kind = l.kind
  /\ \E i \in DOMAIN l.recs : m.recs = [l.recs EXCEPT ![i] = c]

\* One of the lists l becomes list m.
Becomes(l, m) == lists' = (lists (-) SetToBag({l})) (+) SetToBag({m})

Insert(c) ==
  \E l \in BagToSet(lists), m \in BagToSet(lists') :
    WithOneMore(l, m, c) /\ Becomes(l, m)

Rewrite(c) ==
  \E l \in BagToSet(lists), m \in BagToSet(lists') :
    WithOneChanged(l, m, c) /\ Becomes(l, m)

Withdraw(c) ==
  \E l \in BagToSet(lists), m \in BagToSet(lists') :
    WithOneMore(m, l, c) /\ Becomes(l, m)

\* A record starts a list; there is one list of index records.
Start(k, c) ==
  /\ k = "INDEX" => \A l \in BagToSet(lists) : l.kind # "INDEX"
  /\ lists' = lists (+) SetToBag({[kind |-> k, recs |-> <<c>>]})

\* The list of the last record goes with it.
End(k, c) ==
  LET l == [kind |-> k, recs |-> <<c>>]
  IN  BagIn(l, lists) /\ lists' = lists (-) SetToBag({l})

Next ==
  \/ \E c \in Chunk : Insert(c) \/ Rewrite(c) \/ Withdraw(c)
  \/ \E k \in Kind, c \in Chunk : Start(k, c) \/ End(k, c)

Spec == Init /\ [][Next]_lists
=============================================================================
