SPECIFICATION Spec
CONSTANTS
  Ids = {a, b}
  None = None
  s1 = s1
  s2 = s2
  Symbols = {s1, s2}
  Configs <- MCConfigs
  Values = {1, 2}
  Times = {0, 1, 2}
  Subscribers = {u}
  Templates = {x}
  Channels = {"email", "in_app"}
  Override = "ses"
  NoDoc = NoDoc
  Deleted = Deleted
  NoPrefs = NoPrefs
  MaxSubscriberWrites = 2
  MaxDocWrites = 3
  MaxStarts = 2
  Names = {"a", "b"}
  Fields = {"x", "y"}
  FieldValues = {1, 2}
  Missing = Missing
  MaxFilters = 2
CHECK_DEADLOCK FALSE
INVARIANTS Consistent UndisturbedExact MatchWatchesTickSymbol
INVARIANTS OneRevisionUsed DefaultHasReason SegmentOnlyNarrows ExtractedAreEnough
