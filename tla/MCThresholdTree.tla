--------------------------- MODULE MCThresholdTree --------------------------
(* Three threshold values, prices on, between and outside them, two        *)
(* condition ids.                                                          *)
EXTENDS ThresholdTree, TLC

MCThresholds == {2, 4, 6}
MCPrices == 1..7
Symmetry == Permutations(Ids)
=============================================================================
