SPECIFICATION Spec
CONSTANTS
  Ids = {a, b}
  None = None
  Types = {"threshold_crossing", "script"}
  Registered = {"threshold_crossing", "script"}
  BatchSize = 1
  ReconcileEvery = 2
  MaxWrites = 2
  MaxErrors = 1
  MaxRestarts = 1
CHECK_DEADLOCK FALSE
INVARIANTS Consistent NothingBehindFilter
PROPERTIES FollowsUnlessLapsed StaleEventuallyRemoved
