------------------------ MODULE ThresholdTreeProofs -------------------------
(***************************************************************************)
(* What one symbol's threshold array guarantees for any set of condition   *)
(* ids, thresholds, tick values and either algorithm.                      *)
(***************************************************************************)
EXTENDS ThresholdTree, SentinelTreeProofs

-----------------------------------------------------------------------------
(***************************************************************************)
(* The inductive invariant.                                                *)
(***************************************************************************)
IInv == /\ algorithm \in Algorithms
        /\ Shape(tree)
        /\ matched \subseteq Int
        /\ algorithm = "drift_sentinel" /\ tree.last_price # None => Bracket(tree)

(* A tree that has seen nothing satisfies the invariant.                   *)
LEMMA InitIInv == Init => IInv
<1> SUFFICES ASSUME Init PROVE IInv
  OBVIOUS
<1>1. PICK t : t = NewTree
  OBVIOUS
<1>2. /\ t.entries = <<>> /\ t.last_price = None
      /\ t.upper_idx = None /\ t.lower_idx = None
  BY <1>1 DEF NewTree
<1>3. t \in Tree
  BY <1>1 DEF NewTree, Tree
<1>4. Ascending(t.entries) /\ NoEmpty(t.entries)
  BY <1>2 DEF Ascending, NoEmpty
<1>5. QED
  BY <1>1, <1>2, <1>3, <1>4 DEF Init, IInv, Shape

(* Adding or removing a threshold.                                         *)
LEMMA EditStep ==
  ASSUME IInv, NEW v \in Thresholds, NEW id \in Ids,
         AddLevel(v, id) \/ RemoveLevel(v, id)
  PROVE  /\ IInv' /\ tree'.last_price = tree.last_price
         /\ matched' = {} /\ algorithm' = algorithm
<1>1. v \in Int
  BY ParameterAssumption
<1>2. /\ tree.entries \in Seq(Level) /\ Ascending(tree.entries) /\ NoEmpty(tree.entries)
      /\ tree \in Tree
  BY TreeFields DEF IInv, Shape
<1>3. PICK e : /\ e \in Seq(Level) /\ Ascending(e) /\ NoEmpty(e)
               /\ tree' = RecomputeSentinels([tree EXCEPT !.entries = e])
  <2>1. CASE AddLevel(v, id)
    BY <1>1, <1>2, <2>1, WithLevelSpec DEF AddLevel, AddThreshold
  <2>2. CASE RemoveLevel(v, id)
    BY <1>1, <1>2, <2>2, WithoutLevelSpec DEF RemoveLevel, RemoveThreshold
  <2>3. QED
    BY <2>1, <2>2
<1>4. PICK t : t = [tree EXCEPT !.entries = e]
  OBVIOUS
<1>5. /\ t \in Tree /\ t.entries = e /\ t.last_price = tree.last_price
      /\ t.upper_idx = tree.upper_idx /\ t.lower_idx = tree.lower_idx
  BY <1>2, <1>3, <1>4 DEF Tree
<1>6. t.last_price = None => t.upper_idx = None /\ t.lower_idx = None
  BY <1>5 DEF IInv, Shape
<1>7. /\ Shape(tree') /\ tree'.last_price = t.last_price
      /\ t.last_price # None => Bracket(tree')
  BY <1>3, <1>4, <1>5, <1>6, RecomputeSpec
<1>8. matched' = {} /\ algorithm' = algorithm
  BY DEF AddLevel, RemoveLevel
<1>9. QED
  BY <1>5, <1>7, <1>8 DEF IInv, Shape, Bracket, AtUpper, AtLower, Ascending, NoEmpty
(* One tick, by either algorithm.                                          *)
LEMMA EvaluateStep ==
  ASSUME IInv, NEW price \in Prices, Evaluate(price)
  PROVE  /\ IInv'
         /\ algorithm' = algorithm
         /\ tree'.last_price = price
         /\ tree.last_price = None => matched' = {}
         /\ tree.last_price # None =>
              /\ \A v \in matched' : \E i \in 1..Len(tree.entries) :
                   v = tree.entries[i].value /\ Between(tree.last_price, v, price)
              /\ \A i \in 1..Len(tree.entries) :
                   /\ Passed(tree.last_price, tree.entries[i].value, price)
                   /\ algorithm = "binary_search" \/ AtUpper(tree, i) \/ AtLower(tree, i)
                   => tree.entries[i].value \in matched'
         /\ algorithm = "binary_search" /\ tree.last_price # None =>
              \A v \in matched' : Passed(tree.last_price, v, price)
<1>1. price \in Int
  BY ParameterAssumption
<1>2. /\ Shape(tree) /\ \A i \in 1..Len(tree.entries) : tree.entries[i].value \in Int
      /\ algorithm \in Algorithms
  BY TreeFields DEF IInv
<1>6. algorithm' = algorithm
  BY DEF Evaluate
<1>3. CASE algorithm = "drift_sentinel"
  <2>1. /\ tree' = DriftAfter(tree, price)
        /\ matched' = {tree.entries[i].value : i \in DriftWalked(tree, price)}
    BY <1>3 DEF Evaluate, Walked
  <2>2. CASE tree.last_price = None
    <3>1. /\ Shape(tree') /\ Bracket(tree') /\ tree'.last_price = price /\ matched' = {}
      BY <1>1, <1>2, <2>1, <2>2, ArmOutcome
    <3>2. QED
      BY <3>1, <2>2, <1>2, <1>3, <1>6 DEF IInv, Shape, Bracket, AtUpper, AtLower, Ascending, NoEmpty
  <2>3. CASE tree.last_price # None
    <3>1. Outcome(tree, tree', DriftWalked(tree, price), price)
      BY <1>1, <1>2, <1>3, <2>1, <2>3, DriftOutcome DEF IInv
    <3>2. Shape(tree') /\ Bracket(tree') /\ tree'.last_price = price
      BY <3>1 DEF Outcome
    <3>3. matched' \subseteq Int
      BY <3>1, <2>1, <1>2 DEF Outcome
    <3>4. IInv'
      BY <3>2, <3>3, <1>2, <1>6 DEF IInv, Shape, Bracket, AtUpper, AtLower, Ascending, NoEmpty
    <3>5. \A v \in matched' : \E i \in 1..Len(tree.entries) :
            v = tree.entries[i].value /\ Between(tree.last_price, v, price)
      BY <3>1, <2>1 DEF Outcome
    <3>6. \A i \in 1..Len(tree.entries) :
            /\ Passed(tree.last_price, tree.entries[i].value, price)
            /\ AtUpper(tree, i) \/ AtLower(tree, i)
            => tree.entries[i].value \in matched'
      BY <3>1, <2>1 DEF Outcome
    <3>7. QED
      BY <3>2, <3>4, <3>5, <3>6, <2>3, <1>3, <1>6
  <2>4. QED
    BY <2>2, <2>3
<1>4. CASE algorithm = "binary_search"
  <2>1. /\ tree' = BinaryAfter(tree, price)
        /\ matched' = {tree.entries[i].value : i \in BinaryWalked(tree, price)}
    BY <1>4 DEF Evaluate, Walked
  <2>2. /\ Shape(tree') /\ tree'.last_price = price
        /\ BinaryWalked(tree, price) =
             IF tree.last_price = None THEN {}
             ELSE {i \in 1..Len(tree.entries) :
                     Passed(tree.last_price, tree.entries[i].value, price)}
    BY <1>1, <1>2, <2>1, BinaryOutcome
  <2>3. CASE tree.last_price = None
    <3>1. matched' = {}
      BY <2>1, <2>2, <2>3
    <3>2. QED
      BY <3>1, <2>2, <2>3, <1>2, <1>4, <1>6 DEF IInv, Shape, Ascending, NoEmpty
  <2>4. CASE tree.last_price # None
    <3>1. \A v \in matched' : \E i \in 1..Len(tree.entries) :
            v = tree.entries[i].value /\ Passed(tree.last_price, v, price)
      BY <2>1, <2>2, <2>4
    <3>2. \A i \in 1..Len(tree.entries) :
            Passed(tree.last_price, tree.entries[i].value, price)
              => tree.entries[i].value \in matched'
      BY <2>1, <2>2, <2>4
    <3>3. matched' \subseteq Int
      BY <3>1, <1>2
    <3>4. IInv'
      BY <3>3, <2>2, <1>2, <1>4, <1>6 DEF IInv, Shape, Ascending, NoEmpty
    <3>5. tree.last_price \in Int
      BY <2>4, <1>2, TreeFields
    <3>6. \A v \in Int : Passed(tree.last_price, v, price)
                           => Between(tree.last_price, v, price)
      BY <3>5, <1>1 DEF Passed, Between
    <3>7. \A v \in matched' : \E i \in 1..Len(tree.entries) :
            v = tree.entries[i].value /\ Between(tree.last_price, v, price)
      BY <3>1, <3>3, <3>6
    <3>8. QED
      BY <3>1, <3>2, <3>4, <3>7, <2>2, <2>4, <1>4, <1>6
  <2>5. QED
    BY <2>3, <2>4
<1>5. QED
  BY <1>2, <1>3, <1>4, ParameterAssumption

(* Every operation on the tree preserves the invariant.                    *)
LEMMA NextIInv == IInv /\ [Next]_vars => IInv'
<1>1. ASSUME IInv, Next PROVE IInv'
  BY <1>1, EditStep, EvaluateStep DEF Next
<1>2. ASSUME IInv, UNCHANGED vars PROVE IInv'
  BY <1>2 DEF vars, IInv, Shape, Bracket, AtUpper, AtLower, Ascending, NoEmpty
<1>3. QED
  BY <1>1, <1>2

(* The invariant holds in every reachable state.                           *)
LEMMA IInvAlways == Spec => []IInv
<1>1. QED
  BY InitIInv, NextIInv, PTL DEF Spec

-----------------------------------------------------------------------------
(***************************************************************************)
(* Theorems                                                                *)
(***************************************************************************)

(* Type correctness of the tree.                                           *)
THEOREM TypeCorrect == Spec => []TypeOK
<1>1. IInv => TypeOK
  BY DEF IInv, Shape, TypeOK
<1>2. QED
  BY <1>1, IInvAlways, PTL

(* The array stays strictly ascending and without empty levels under any   *)
(* sequence of additions, removals and ticks.                              *)
THEOREM ArrayWellFormed == Spec => []WellFormed
<1>1. IInv => WellFormed
  BY DEF IInv, Shape, Ascending, NoEmpty, WellFormed, Levels
<1>2. QED
  BY <1>1, IInvAlways, PTL

(* No slice index of evaluate_drift_sentinel is ever out of bounds.        *)
THEOREM NoIndexPanic == Spec => []IndexInBounds
<1>1. IInv => IndexInBounds
  BY DEF IInv, Shape, IndexInBounds, Levels
<1>2. QED
  BY <1>1, IInvAlways, PTL

(* The sentinels carried from tick to tick bracket the price, leaving at   *)
(* most one level in the gap.                                              *)
THEOREM SentinelsBracket == Spec => []Bracketed
<1>1. IInv => Bracketed
  <2> SUFFICES ASSUME IInv, algorithm = "drift_sentinel", tree.last_price # None
               PROVE  Bracketed
    BY DEF Bracketed
  <2>1. Bracket(tree)
    BY DEF IInv
  <2>2. /\ AboveGap = {i \in Levels : AtUpper(tree, i)}
        /\ BelowGap = {i \in Levels : AtLower(tree, i)}
        /\ Gap = {i \in Levels : ~AtUpper(tree, i) /\ ~AtLower(tree, i)}
    BY DEF AboveGap, BelowGap, Gap, AtUpper, AtLower
  <2>3. QED
    BY <2>1, <2>2 DEF Bracketed, Bracket, Levels
<1>2. QED
  BY <1>1, IInvAlways, PTL

(* Type, order, bounds and bracket together, as the run checks them.       *)
THEOREM TreeStaysConsistent == Spec => []TreeConsistent
<1>. QED
  BY TypeCorrect, ArrayWellFormed, NoIndexPanic, SentinelsBracket, PTL DEF TreeConsistent

(* A level the price passes is returned, unless it is the one in the gap.  *)
THEOREM CrossingsReturned == Spec => MissedOnlyInGap
<1>1. IInv /\ [Next]_vars =>
        [Crossed(tree.last_price, tree'.last_price) \ matched' \subseteq ValuesOf(Gap)]_vars
  <2> SUFFICES ASSUME IInv, Next
               PROVE  Crossed(tree.last_price, tree'.last_price) \ matched' \subseteq ValuesOf(Gap)
    OBVIOUS
  <2>1. ASSUME NEW v \in Thresholds, NEW id \in Ids, AddLevel(v, id) \/ RemoveLevel(v, id)
        PROVE  Crossed(tree.last_price, tree'.last_price) = {}
    <3>1. tree'.last_price = tree.last_price
      BY <2>1, EditStep
    <3>2. tree.last_price # None => tree.last_price \in Int
      BY TreeFields DEF IInv
    <3>3. \A x \in ValuesOf(Levels) : x \in Int
      BY TreeFields DEF IInv, ValuesOf, Levels
    <3>4. QED
      BY <3>1, <3>2, <3>3 DEF Crossed
  <2>2. ASSUME NEW price \in Prices, Evaluate(price)
        PROVE  Crossed(tree.last_price, tree'.last_price) \ matched' \subseteq ValuesOf(Gap)
    <3>1. tree'.last_price = price
      BY <2>2, EvaluateStep
    <3>2. CASE tree.last_price = None
      BY <3>2 DEF Crossed
    <3>3. CASE tree.last_price # None
      <4>1. ASSUME NEW i \in Levels, tree.entries[i].value \in Crossed(tree.last_price, price),
                   tree.entries[i].value \notin matched'
            PROVE  i \in Gap
        <5>1. Passed(tree.last_price, tree.entries[i].value, price)
          BY <4>1, <3>3 DEF Crossed, Passed
        <5>2. ~AtUpper(tree, i) /\ ~AtLower(tree, i)
          BY <5>1, <4>1, <3>3, <2>2, EvaluateStep DEF Levels
        <5>3. QED
          BY <5>2 DEF Gap, AboveGap, BelowGap, AtUpper, AtLower
      <4>2. Crossed(tree.last_price, price) \subseteq ValuesOf(Levels)
        BY DEF Crossed
      <4>3. QED
        BY <4>1, <4>2, <3>1 DEF ValuesOf
    <3>4. QED
      BY <3>2, <3>3
  <2>3. QED
    BY <2>1, <2>2 DEF Next
<1>2. QED
  BY <1>1, IInvAlways, PTL DEF Spec, MissedOnlyInGap

(* A tick returns only levels between the two prices, and nothing else     *)
(* returns any.                                                            *)
THEOREM NothingSpurious == Spec => NoSpuriousMatch
<1>1. IInv /\ [Next]_vars =>
        [matched' \subseteq Touched(tree.last_price, tree'.last_price)]_vars
  <2> SUFFICES ASSUME IInv, Next
               PROVE  matched' \subseteq Touched(tree.last_price, tree'.last_price)
    OBVIOUS
  <2>1. ASSUME NEW v \in Thresholds, NEW id \in Ids, AddLevel(v, id) \/ RemoveLevel(v, id)
        PROVE  matched' = {}
    BY <2>1, EditStep
  <2>2. ASSUME NEW price \in Prices, Evaluate(price)
        PROVE  matched' \subseteq Touched(tree.last_price, tree'.last_price)
    <3>1. tree'.last_price = price /\ price # None
      BY <2>2, EvaluateStep, ParameterAssumption, NoneAssumption
    <3>2. CASE tree.last_price = None
      BY <3>2, <2>2, EvaluateStep
    <3>3. CASE tree.last_price # None
      <4>1. \A v \in matched' : v \in ValuesOf(Levels) /\ Between(tree.last_price, v, price)
        BY <3>3, <2>2, EvaluateStep DEF ValuesOf, Levels
      <4>2. QED
        BY <4>1, <3>1, <3>3 DEF Touched, Between
    <3>4. QED
      BY <3>2, <3>3
  <2>3. QED
    BY <2>1, <2>2 DEF Next
<1>2. QED
  BY <1>1, IInvAlways, PTL DEF Spec, NoSpuriousMatch

(* A tick returns exactly the levels passed: always with the binary        *)
(* search, with the drift sentinel when the gap is empty and the previous  *)
(* price was not on a level.                                               *)
THEOREM TicksExact == Spec => ExactCrossing
<1>1. IInv /\ [Next]_vars =>
        [\A price \in Prices : Clear /\ Evaluate(price) =>
           matched' = Crossed(tree.last_price, price)]_vars
  <2> SUFFICES ASSUME IInv, NEW price \in Prices, Evaluate(price), Clear
               PROVE  matched' = Crossed(tree.last_price, price)
    OBVIOUS
  <2>1. CASE tree.last_price = None
    BY <2>1, EvaluateStep DEF Crossed
  <2>2. CASE tree.last_price # None
    <3>1. price # None
      BY ParameterAssumption, NoneAssumption
    <3>2. algorithm \in {"drift_sentinel", "binary_search"}
      BY ParameterAssumption DEF IInv
    <3>3. \A v \in matched' : v \in ValuesOf(Levels) /\ Passed(tree.last_price, v, price)
      <4>1. CASE algorithm = "binary_search"
        BY <4>1, <2>2, EvaluateStep DEF ValuesOf, Levels
      <4>2. CASE algorithm = "drift_sentinel"
        <5>1. \A v \in matched' : v \in ValuesOf(Levels) /\ Between(tree.last_price, v, price)
          BY <2>2, EvaluateStep DEF ValuesOf, Levels
        <5>2. \A v \in ValuesOf(Levels) : v # tree.last_price /\ v \in Int
          BY <4>2, TreeFields DEF Clear, IInv, ValuesOf, Levels
        <5>3. tree.last_price \in Int /\ price \in Int
          BY <2>2, TreeFields, ParameterAssumption DEF IInv
        <5>4. QED
          BY <5>1, <5>2, <5>3 DEF Between, Passed
      <4>3. QED
        BY <4>1, <4>2, <3>2
    <3>4. \A i \in Levels : algorithm = "binary_search" \/ AtUpper(tree, i) \/ AtLower(tree, i)
      BY <3>2 DEF Clear, Gap, AboveGap, BelowGap, AtUpper, AtLower
    <3>5. \A v \in ValuesOf(Levels) : Passed(tree.last_price, v, price) => v \in matched'
      BY <2>2, <3>4, EvaluateStep DEF ValuesOf, Levels
    <3>6. QED
      BY <2>2, <3>1, <3>3, <3>5 DEF Crossed, Passed
  <2>3. QED
    BY <2>1, <2>2
<1>2. QED
  BY <1>1, IInvAlways, PTL DEF Spec, ExactCrossing
=============================================================================
