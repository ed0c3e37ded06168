----------------------------- MODULE MockEngine -----------------------------
(***************************************************************************)
(* MockEngine: how MockEngineBridgeService, the engine the end-to-end      *)
(* tests run with, tests one condition against one tick, next to what the  *)
(* native strategies ask of the same tick.  A question is one such pair.   *)
(*                                                                         *)
(* An expression is a disjunction of conjunctions of comparisons, which is *)
(* what the native parser makes of OR, AND and comparisons.  A comparison  *)
(* is plain when its number is digits and a point: only those fit the      *)
(* mock's regular expression.  > and <= stand for the six.                 *)
(***************************************************************************)
EXTENDS Integers, Sequences, SequencesExt

CONSTANTS MockNone,          \* strategyParams without a threshold
          Numbers,           \* thresholds, compared numbers and tick values
          MaxTerms           \* bound: conjunctions in an expression and comparisons in one

ASSUME MockAssumption == Numbers \subseteq Int /\ MaxTerms \in Nat \ {0}

Operators == {"cross_above", "greater_than", "greater_than_or_equal", "cross_below", "less_than",
              "less_than_or_equal", "equal", "not_equal"}

Comparisons == [op : {">", "<="}, number : Numbers, plain : BOOLEAN]

Questions ==
  [kind : {"threshold"}, operator : Operators \cup {"unknown"},
   threshold : Numbers \cup {MockNone}, value : Numbers]
  \cup
  [kind : {"expression"}, value : Numbers,
   expression : SeqOf(SeqOf(Comparisons, MaxTerms) \ {<<>>}, MaxTerms) \ {<<>>}]

VARIABLE question

MockInit == question \in Questions
MockNext == \E value \in Numbers : question' = [question EXCEPT !.value = value]   \* the next tick

MockSpec == MockInit /\ [][MockNext]_question

-----------------------------------------------------------------------------
(* A comparison with undefined is false, except that it is different.      *)
MockThreshold(operator, threshold, value) ==
  IF threshold = MockNone THEN operator = "not_equal"
  ELSE CASE operator \in {"greater_than", "cross_above"} -> value > threshold
         [] operator \in {"less_than", "cross_below"}    -> value < threshold
         [] operator = "greater_than_or_equal"           -> value >= threshold
         [] operator = "less_than_or_equal"              -> value <= threshold
         [] operator = "equal"                           -> value = threshold
         [] operator = "not_equal"                       -> value # threshold
         [] OTHER                                        -> FALSE

Compared(c, value) ==
  IF c.op = ">" THEN value > c.number ELSE value <= c.number

MockExpressionAny(expression, value) ==   \* mutant: some part of an AND is enough
  \E c \in Range(expression[1]) : c.plain /\ Compared(c, value)

(* An expression with an OR leaves a part that is no comparison: false.    *)
MockExpression(expression, value) ==
  /\ Len(expression) = 1
  /\ \A c \in Range(expression[1]) : c.plain /\ Compared(c, value)

MockTests(q) ==
  IF q.kind = "threshold" THEN MockThreshold(q.operator, q.threshold, q.value)
  ELSE MockExpression(q.expression, q.value)

-----------------------------------------------------------------------------
(* An unknown operator is cross_above; without a threshold the condition   *)
(* is not stored.  Whether a level was crossed is up to the tick before.   *)
NativeDirection(operator, threshold, value) ==
  /\ threshold # MockNone
  /\ CASE operator \in {"cross_below", "less_than", "less_than_or_equal"} -> value <= threshold
       [] operator = "equal"     -> value = threshold
       [] operator = "not_equal" -> value # threshold
       [] OTHER                  -> value >= threshold

NativeExpression(expression, value) ==
  \E conjunction \in Range(expression) : \A c \in Range(conjunction) : Compared(c, value)

NativeAllows(q) ==
  IF q.kind = "threshold" THEN NativeDirection(q.operator, q.threshold, q.value)
  ELSE NativeExpression(q.expression, q.value)

-----------------------------------------------------------------------------
(* mock-engine-bridge.service.ts:13, "Evaluates threshold_crossing and     *)
(* expression conditions in pure JS": what the mock lets fire in a test    *)
(* may fire in the engine, but for not_equal without a threshold, and a    *)
(* plain conjunction is decided alike.                                     *)
MockMatchesAreNative ==
  /\ MockTests(question) =>
       \/ NativeAllows(question)
       \/ question.kind = "threshold" /\ question.threshold = MockNone
          /\ question.operator = "not_equal"
  /\ /\ question.kind = "expression" /\ Len(question.expression) = 1
     /\ \A c \in Range(question.expression[1]) : c.plain
     => MockTests(question) = NativeAllows(question)

=============================================================================
