SPECIFICATION Spec
CONSTANTS
  Ids = {a}
  None = None
  Thresholds <- MCThresholds
  Prices <- MCPrices
  Algorithms = {"drift_sentinel"}
  MaxCopies = 1
PROPERTY NoMissedCrossing
