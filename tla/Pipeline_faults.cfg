SPECIFICATION Spec
CONSTANTS
  SourceKinds = {"redis", "websocket"}
  BufferSize = 1
  DeliveryCap = 1
  Configured = TRUE
  MaxAttempts = 2
  NumChannels = 2
  MaxTicks = 2
  MaxMatches = 2
  MaxFound = 2
  MaxFaults = 1
  MaxDrops = 1
  MaxCrashes = 1
CHECK_DEADLOCK FALSE
INVARIANTS Accounted UntakenLeavesATrace
PROPERTIES DrainsUnlessRedisLost InOrderAtMostOnce
