------------------------- MODULE MCThresholdStrategy ------------------------
(* Configs that differ in threshold, operator, cooldown and symbol, so that*)
(* an update moves a condition within a tree or between trees.             *)
EXTENDS ThresholdStrategy, TLC

CONSTANTS s, t

Config1(symbol, threshold, operator, cooldown) ==
  [symbol |-> symbol, threshold |-> threshold, operator |-> operator, cooldown |-> cooldown]

MCSymbols == {s, t}
MCConfigs == {Config1(s, 2, "cross_above", 2), Config1(s, 4, "cross_below", None),
              Config1(t, 2, "not_equal", None), Config1(t, None, "cross_above", None)}
MCPrices == {1, 2, 5}
MCTimes == {0, 1, 3}
Symmetry == Permutations(Ids)
=============================================================================
