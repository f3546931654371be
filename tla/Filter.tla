------------------------------- MODULE Filter -------------------------------
(***************************************************************************)
(* The filter of a SELECT: what parse_sel makes of the client's syntax     *)
(* tree, and check_node's loop over it for one node after the other.       *)
(*                                                                         *)
(* parse_sel turns the tree into an array of conditions, and check_node    *)
(* wants all of them.  The tree's `and` and `or` look the same afterwards; *)
(* three of six comparisons, and attributes that the index does not have,  *)
(* restrict nothing.                                                       *)
(***************************************************************************)
EXTENDS Integers, Sequences, FiniteSets

CONSTANTS
  Attr,       \* the attributes of the index
  Numeric,    \* those with a type INT, DOUBLE or BOOL; the others are STRING
  Number,     \* their values
  Text,       \* values of the others
  Contains,   \* the pairs <<t, u>> of texts where u is a part of t
  NoFilter,   \* the level has no filter
  Filters     \* bound: the syntax trees that the runs ask for

ASSUME AttrAssumption == Numeric \subseteq Attr
ASSUME NumberAssumption == Number \subseteq Int
ASSUME ContainsAssumption == \A t \in Text : <<t, t>> \in Contains

Cmp == {"GREATER", "LOWER", "EQUAL", "GREATER_EQUAL", "LOWER_EQUAL", "SUBSTR"}

\* An attribute compared to a value of its type.
IsCond(c) ==
  /\ c.type = "CONDITIONAL_N" /\ c.cmp \in Cmp
  /\ c.name \in Attr => c.val \in (IF c.name \in Numeric THEN Number ELSE Text)

\* logical_op of the grammar; the right operand of `not` is absent.
IsLogical(l) == l.type = "LOGICAL_N" /\ l.op \in {"AND", "OR", "NOT"}

ASSUME FilterAssumption ==
  \A f \in Filters \ {NoFilter} : IsLogical(f) \/ IsCond(f)

VARIABLES
  filter,     \* the tree as the message has it
  conds,      \* select_q.conditionals
  node,       \* the attributes of the node that check_node looks at
  i, flag,    \* its loop
  pc

vars == <<filter, conds, node, i, flag, pc>>

Node == {n \in [Attr -> Number \cup Text] :
           \A a \in Attr : n[a] \in (IF a \in Numeric THEN Number ELSE Text)}

-----------------------------------------------------------------------------
\* parse_log can use two operands that are conditions.  An operator on the left
\* makes it write through a pointer beyond its only one; one on the right, or
\* none there, makes it read through a null pointer.
Parseable(op) ==
  /\ op.left.type = "CONDITIONAL_N"
  /\ op.op # "NOT" /\ op.right.type = "CONDITIONAL_N"

\* Mistake: both operands go to the same place.
ConditionalsOverwritten(f) ==
  IF f = NoFilter THEN <<>> ELSE IF IsLogical(f) THEN <<f.right>> ELSE <<f>>

\* The conditions of a filter, the right operand first.
Conditionals(f) ==
  IF f = NoFilter THEN <<>> ELSE IF IsLogical(f) THEN <<f.right, f.left>> ELSE <<f>>

\* Mistake: "at least" falls through to "greater".
PassesStrict(c, n) ==
  c.name \in Attr =>
    /\ c.cmp = "EQUAL" => n[c.name] = c.val
    /\ c.name \in Numeric /\ c.cmp \in {"GREATER", "GREATER_EQUAL"} => n[c.name] > c.val
    /\ c.name \in Numeric /\ c.cmp = "LOWER" => n[c.name] < c.val

\* What check_node asks of one condition.  A text has its quotes, and so the
\* comparison of as many characters as the filter's text has is equality.
Passes(c, n) ==
  c.name \in Attr =>
    /\ c.cmp = "EQUAL" => n[c.name] = c.val
    /\ c.name \in Numeric /\ c.cmp = "GREATER" => n[c.name] > c.val
    /\ c.name \in Numeric /\ c.cmp = "LOWER" => n[c.name] < c.val

-----------------------------------------------------------------------------
Init ==
  /\ filter \in Filters
  /\ conds = <<>>
  /\ node \in Node
  /\ i = 1 /\ flag = TRUE
  /\ pc = "parse"

\* parse_sel and parse_log.
ParseSel ==
  /\ pc = "parse"
  /\ filter # NoFilter /\ IsLogical(filter) => Parseable(filter)
  /\ conds' = Conditionals(filter)
  /\ pc' = "check"
  /\ UNCHANGED <<filter, node, i, flag>>

\* ... which the process does not survive, or not with its memory intact.
ParseDies ==
  /\ pc = "parse"
  /\ filter # NoFilter /\ IsLogical(filter) /\ ~ Parseable(filter)
  /\ pc' = "gone"
  /\ UNCHANGED <<filter, conds, node, i, flag>>

\* check_node: one condition.
CheckCond ==
  /\ pc = "check" /\ i <= Len(conds) /\ flag
  /\ flag' = Passes(conds[i], node)
  /\ i' = i + 1
  /\ UNCHANGED <<filter, conds, node, pc>>

\* Its return.
CheckEnds ==
  /\ pc = "check"
  /\ i > Len(conds) \/ ~ flag
  /\ pc' = "answered"
  /\ UNCHANGED <<filter, conds, node, i, flag>>

\* node_enumerate goes on to another node, with the same conditions.
NextNode ==
  /\ pc = "answered"
  /\ node' \in Node
  /\ i' = 1 /\ flag' = TRUE
  /\ pc' = "check"
  /\ UNCHANGED <<filter, conds>>

Next == ParseSel \/ ParseDies \/ CheckCond \/ CheckEnds \/ NextNode

Spec == Init /\ [][Next]_vars

-----------------------------------------------------------------------------
(* What a filter means, from the names that the grammar gives its parts.   *)

\* The comparison is one for the type of the attribute.
Sensible(c) ==
  /\ c.name \in Attr
  /\ c.cmp = "EQUAL" \/ (c.cmp = "SUBSTR") = (c.name \notin Numeric)

CondHolds(c, n) ==
  CASE c.cmp = "GREATER"       -> n[c.name] > c.val
    [] c.cmp = "LOWER"         -> n[c.name] < c.val
    [] c.cmp = "EQUAL"         -> n[c.name] = c.val
    [] c.cmp = "GREATER_EQUAL" -> n[c.name] >= c.val
    [] c.cmp = "LOWER_EQUAL"   -> n[c.name] <= c.val
    [] c.cmp = "SUBSTR"        -> <<n[c.name], c.val>> \in Contains

\* The conditions of a filter that parse_log can use.
Operands(f) ==
  IF f = NoFilter THEN {} ELSE IF IsLogical(f) THEN {f.left, f.right} ELSE {f}

IsOr(f) == f # NoFilter /\ IsLogical(f) /\ f.op = "OR"

Holds(f, n) ==
  IF IsOr(f) THEN \E c \in Operands(f) : CondHolds(c, n)
  ELSE \A c \in Operands(f) : CondHolds(c, n)

\* A node that is selected satisfies the filter, if this compares with eq, gt
\* and lt only, whether it is `and` or `or` that joins two conditions.
\* (check_node, parse_log)
SelectedSatisfy ==
  /\ pc = "answered" /\ flag
  /\ \A c \in Operands(filter) : Sensible(c) /\ c.cmp \in {"GREATER", "LOWER", "EQUAL"}
  => Holds(filter, node)

\* A node is left out only because it does not satisfy the filter, unless this is
\* an `or`, of which parse_log makes an `and`.  The comparisons that check_node
\* does not know leave out nothing.
LeftOutFail ==
  /\ pc = "answered" /\ ~ flag
  /\ ~ IsOr(filter)
  /\ \A c \in Operands(filter) : Sensible(c)
  => ~ Holds(filter, node)
=============================================================================
