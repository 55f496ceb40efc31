\* GitHub sends again within the window of the deduper
SPECIFICATION FairSpec
CONSTANTS
  Ids = {d1}
  SyncIds = {}
  Handlers = {h1}
  TTL = 2
  RetryAfter = 1
  MaxTroubles = 1
  None = None
PROPERTIES FailedIsQueuedLater
