SPECIFICATION Spec
CONSTANTS
  SourceKinds = {"redis"}
  BufferSize = 1
  DeliveryCap = 1
  Configured = FALSE
  MaxAttempts = 2
  NumChannels = 1
  MaxTicks = 1
  MaxMatches = 1
  MaxFound = 1
  MaxFaults = 0
  MaxDrops = 0
  MaxCrashes = 0
INVARIANT DeadLettersWereTried
CHECK_DEADLOCK FALSE
