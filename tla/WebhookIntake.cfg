\* Two requests at once, a queued and a synchronous delivery
SPECIFICATION FairSpec
CONSTANTS
  Ids = {d1, d2}
  SyncIds = {d2}
  Handlers = {h1, h2}
  TTL = 1
  RetryAfter = 1
  MaxTroubles = 2
  None = None
INVARIANTS QueuedHasJob OneJobPerWindow RejectedLeavesNoTrace
PROPERTIES
  QueuedIsReviewed
  FailedIsQueuedLater
