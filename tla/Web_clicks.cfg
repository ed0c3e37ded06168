SPECIFICATION Spec
CONSTANTS
  Fetches = {f, g, h}
  Nothing = Nothing
  MaxSubmits = 2
  Tests = {a, b}
  NoTest = NoTest
  NumSteps = 2
  MaxCancels = 1
SYMMETRY Symmetry
CHECK_DEADLOCK FALSE
INVARIANTS PageConsistent CreatedIsShown ShownIsOneRun ButtonAgrees
