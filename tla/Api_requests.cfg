SPECIFICATION Spec
CONSTANTS
  Alerts = {a, b}
  s = s
  t = t
  Symbols = {s, t}
  None = None
  Gone = Gone
  Configs <- MCConfigs
  Registered = {"threshold_crossing", "expression", "script"}
  MockTypes = {"threshold_crossing", "expression"}
  Slots = {p, q}
  MaxRequests = 3
  MaxRestarts = 1
  MockNone = MockNone
  Numbers = {1, 2}
  MaxTerms = 2
  Orgs = {o}
  Keys = {k}
  OrgNone = OrgNone
  Guards = {g, h}
  Providers <- MCProviders
  ChannelNames = {"in_app", "email"}
  ChNone = ChNone
  Senders = {x, y}
  MaxRegistrations = 4
  MaxSends = 2
  Notes = {m, n}
  Routes <- MCRoutes
  NoNote = NoNote
  Updaters = {u, v}
  FiveMinutes = 0
  MaxClock = 1
  MaxNoteWrites = 3
SYMMETRY Symmetry
CHECK_DEADLOCK FALSE
INVARIANTS EngineConsistent EngineAgreesUnlessLapsed MockMatchesAreNative NoStaleAcceptance ChannelsConsistent NotificationsConsistent ViewsAgree
PROPERTIES SentAtKeptUnlessOverlap
