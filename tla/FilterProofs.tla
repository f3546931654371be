---------------------------- MODULE FilterProofs ----------------------------
(***************************************************************************)
(* Proofs about the filter of a SELECT, for any attributes, any values,    *)
(* any number of nodes and any syntax trees.                               *)
(*                                                                         *)
(* The two properties speak of the end of check_node's loop; what makes    *)
(* them inductive is the loop's invariant: flag says whether the conditions*)
(* before the i-th hold, and the conditions are the filter's operands.     *)
(***************************************************************************)
EXTENDS Filter, TLAPS

\* The trees that parse_log can use, and the conditions it makes of them.
Usable(f) == f # NoFilter /\ IsLogical(f) => Parseable(f)

\* What check_node has found out of the first i - 1 conditions.
LoopInv ==
  /\ i \in Nat \ {0} /\ flag \in BOOLEAN
  /\ flag => \A k \in 1 .. i - 1 : k \in DOMAIN conds => Passes(conds[k], node)
  /\ ~ flag => \E k \in DOMAIN conds : ~ Passes(conds[k], node)

IInv ==
  /\ pc \in {"parse", "gone", "check", "answered"}
  /\ pc \in {"check", "answered"} => Usable(filter) /\ conds = Conditionals(filter)
  /\ pc \in {"parse", "check", "answered"} => LoopInv
  /\ pc = "parse" => i = 1 /\ flag = TRUE
  /\ pc = "answered" /\ flag => i > Len(conds)

-----------------------------------------------------------------------------
\* The array has one condition for each operand of the tree, and no other.
LEMMA ConditionalsFacts ==
  ASSUME NEW f
  PROVE  /\ Len(Conditionals(f)) \in Nat
         /\ DOMAIN Conditionals(f) = 1 .. Len(Conditionals(f))
         /\ \A k \in DOMAIN Conditionals(f) : Conditionals(f)[k] \in Operands(f)
         /\ \A c \in Operands(f) : \E k \in DOMAIN Conditionals(f) : c = Conditionals(f)[k]
<1>1. CASE f = NoFilter
  BY <1>1 DEF Conditionals, Operands
<1>2. CASE f # NoFilter /\ IsLogical(f)
  <2>1. Conditionals(f) = <<f.right, f.left>> /\ Operands(f) = {f.left, f.right}
    BY <1>2 DEF Conditionals, Operands
  <2>2. /\ Len(<<f.right, f.left>>) = 2 /\ DOMAIN <<f.right, f.left>> = 1 .. 2
        /\ <<f.right, f.left>>[1] = f.right /\ <<f.right, f.left>>[2] = f.left
    OBVIOUS
  <2>. QED BY <2>1, <2>2
<1>3. CASE f # NoFilter /\ ~ IsLogical(f)
  BY <1>3 DEF Conditionals, Operands
<1>. QED BY <1>1, <1>2, <1>3

\* A comparison that fits the attribute's type and that check_node knows is
\* what its name says.
LEMMA PassesHolds ==
  ASSUME NEW c, NEW n, Sensible(c), c.cmp \in {"GREATER", "LOWER", "EQUAL"}, Passes(c, n)
  PROVE  CondHolds(c, n)
<1>1. CASE c.cmp = "EQUAL"
  BY <1>1 DEF Sensible, Passes, CondHolds
<1>2. CASE c.cmp = "GREATER"
  BY <1>2 DEF Sensible, Passes, CondHolds
<1>3. CASE c.cmp = "LOWER"
  BY <1>3 DEF Sensible, Passes, CondHolds
<1>. QED BY <1>1, <1>2, <1>3

\* Whatever check_node turns a node down for does not hold of it.
LEMMA FailsFail ==
  ASSUME NEW c, NEW n, Sensible(c), ~ Passes(c, n)
  PROVE  ~ CondHolds(c, n)
<1>1. CASE c.cmp = "EQUAL"
  BY <1>1 DEF Passes, CondHolds
<1>2. CASE c.cmp = "GREATER"
  BY <1>2 DEF Passes, CondHolds
<1>3. CASE c.cmp = "LOWER"
  BY <1>3 DEF Passes, CondHolds
<1>. QED BY <1>1, <1>2, <1>3 DEF Passes

LEMMA InitIInv == Init => IInv
BY DEF Init, IInv, LoopInv

LEMMA NextIInv == IInv /\ [Next]_vars => IInv'
<1> SUFFICES ASSUME IInv, [Next]_vars PROVE IInv'
  OBVIOUS
<1>1. CASE UNCHANGED vars
  BY <1>1 DEF IInv, LoopInv, vars
<1>2. CASE ParseSel
  BY <1>2 DEF IInv, LoopInv, ParseSel, Usable
<1>3. CASE ParseDies
  BY <1>3 DEF IInv, ParseDies
<1>4. CASE CheckCond
  <2>1. /\ pc = "check" /\ i \in Nat \ {0} /\ i <= Len(conds) /\ flag
        /\ flag' = Passes(conds[i], node) /\ i' = i + 1
        /\ UNCHANGED <<filter, conds, node, pc>>
    BY <1>4 DEF CheckCond, IInv, LoopInv
  <2>2. conds = Conditionals(filter) /\ Usable(filter)
    BY <2>1 DEF IInv
  <2>3. DOMAIN conds = 1 .. Len(conds) /\ Len(conds) \in Nat
    BY <2>2, ConditionalsFacts
  <2>4. i \in DOMAIN conds
    BY <2>1, <2>3
  <2>5. flag' \in BOOLEAN
    BY <2>1 DEF Passes
  <2>6. ASSUME flag', NEW k \in 1 .. i' - 1, k \in DOMAIN conds
        PROVE  Passes(conds[k], node)
    <3>1. CASE k = i
      BY <2>1, <2>6, <3>1
    <3>2. CASE k \in 1 .. i - 1
      BY <2>1, <2>6, <3>2 DEF IInv, LoopInv
    <3>. QED BY <2>1, <3>1, <3>2
  <2>7. ASSUME ~ flag' PROVE \E k \in DOMAIN conds : ~ Passes(conds[k], node)
    BY <2>1, <2>4, <2>7
  <2>8. LoopInv'
    <3>1. i' \in Nat \ {0}
      BY <2>1
    <3>. QED BY <2>1, <2>5, <2>6, <2>7, <3>1 DEF LoopInv
  <2>. QED BY <2>1, <2>2, <2>8 DEF IInv, Usable
<1>5. CASE CheckEnds
  BY <1>5 DEF IInv, LoopInv, CheckEnds
<1>6. CASE NextNode
  BY <1>6 DEF IInv, LoopInv, NextNode
<1>. QED BY <1>1, <1>2, <1>3, <1>4, <1>5, <1>6 DEF Next

-----------------------------------------------------------------------------
THEOREM Invariance == Spec => []IInv
BY InitIInv, NextIInv, PTL DEF Spec

\* A selected node satisfies a filter of eq, gt and lt, be it an `and` or an `or`.
THEOREM SelectedSatisfyCorrect == Spec => []SelectedSatisfy
<1>1. IInv => SelectedSatisfy
  <2>. SUFFICES ASSUME IInv, pc = "answered", flag,
                       \A c \in Operands(filter) :
                         Sensible(c) /\ c.cmp \in {"GREATER", "LOWER", "EQUAL"}
                PROVE  Holds(filter, node)
    BY DEF SelectedSatisfy
  <2>1. /\ conds = Conditionals(filter) /\ i > Len(conds) /\ i \in Nat
        /\ \A k \in 1 .. i - 1 : k \in DOMAIN conds => Passes(conds[k], node)
    BY DEF IInv, LoopInv
  <2>2. ASSUME NEW c \in Operands(filter) PROVE CondHolds(c, node)
    <3>1. PICK k \in DOMAIN conds : c = conds[k]
      BY <2>1, ConditionalsFacts
    <3>2. k \in 1 .. i - 1
      BY <2>1, <3>1, ConditionalsFacts
    <3>. QED BY <2>1, <3>1, <3>2, PassesHolds
  <2>3. IsOr(filter) => Operands(filter) # {}
    BY DEF IsOr, Operands
  <2>. QED BY <2>2, <2>3 DEF Holds
<1>. QED BY <1>1, Invariance, PTL

\* A node that is left out does not satisfy the filter, unless this is an `or`.
THEOREM LeftOutFailCorrect == Spec => []LeftOutFail
<1>1. IInv => LeftOutFail
  <2>. SUFFICES ASSUME IInv, pc = "answered", ~ flag, ~ IsOr(filter),
                       \A c \in Operands(filter) : Sensible(c)
                PROVE  ~ Holds(filter, node)
    BY DEF LeftOutFail
  <2>1. PICK k \in DOMAIN conds : ~ Passes(conds[k], node)
    BY DEF IInv, LoopInv
  <2>2. conds[k] \in Operands(filter)
    BY ConditionalsFacts DEF IInv
  <2>. QED BY <2>1, <2>2, FailsFail DEF Holds
<1>. QED BY <1>1, Invariance, PTL
=============================================================================
