SPECIFICATION Spec
CONSTANTS
  Apis = {a1, a2}
  Count = 2
  MaxLen = 3
  MaxEvents = 4
  MaxFaults = 1
  MaxSaveFaults = 1
  MaxBootFaults = 1
  MaxStops = 1
CHECK_DEADLOCK FALSE
INVARIANTS Consistent
PROPERTIES TrackedInOrderAtMostOnce CatchesUp PendingDrains
