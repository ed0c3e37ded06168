SPECIFICATION FairRouting
CONSTANTS
  Subscribers = {s}
  Templates = {t}
  Channels = {"email", "in_app"}
  Override = "ses"
  NoDoc = NoDoc
  Deleted = Deleted
  NoPrefs = NoPrefs
  MaxSubscriberWrites = 2
  MaxDocWrites = 2
  MaxStarts = 1
CHECK_DEADLOCK FALSE
PROPERTIES OptOutHonoured
