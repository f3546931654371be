------------------------------ MODULE MCFilter ------------------------------
(* Instance of Filter for TLC: all pairs of conditions on a number and a   *)
(* text, and operators within operators.                                   *)
EXTENDS Filter

CONSTANTS part, whole, other

MCContains == {<<t, t>> : t \in Text} \cup {<<whole, part>>}

MCCond ==
  LET cond(names, vals) ==
        [type : {"CONDITIONAL_N"}, name : names, cmp : Cmp, val : vals]
  IN  cond({"born"}, Number) \cup cond({"name"}, Text) \cup cond({"height"}, {1})

MCFilters ==
  LET logical(ops, ls, rs) ==
        [type : {"LOGICAL_N"}, op : ops, left : ls, right : rs]
      some == [type |-> "CONDITIONAL_N", name |-> "born", cmp |-> "EQUAL", val |-> 1]
      not == logical({"NOT"}, {some}, {NoFilter})
      pairs == logical({"AND", "OR"}, MCCond, MCCond)
      simple == {some} \cup not \cup logical({"AND"}, {some}, {some})
  IN  {NoFilter} \cup MCCond \cup not \cup pairs
        \cup logical({"OR"}, simple, simple)
=============================================================================
