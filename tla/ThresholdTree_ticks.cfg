SPECIFICATION Spec
CONSTANTS
  Ids = {a, b}
  None = None
  Thresholds <- MCThresholds
  Prices <- MCPrices
  Algorithms = {"drift_sentinel", "binary_search"}
  MaxCopies = 2
SYMMETRY Symmetry
INVARIANTS TreeConsistent
PROPERTIES ExactCrossing MissedOnlyInGap NoSpuriousMatch
