SPECIFICATION Spec
CONSTANTS
  Ids = {a, b}
  None = None
  s = s
  t = t
  Symbols <- MCSymbols
  Configs <- MCConfigs
  Prices <- MCPrices
  Times <- MCTimes
SYMMETRY Symmetry
INVARIANTS Consistent UndisturbedExact MatchesSound CooldownSpacing
PROPERTIES CrossAboveRisesOrLands
