\* Every form of a payload; two threads and a budget that is spent before the last of
\* two translations; a corpus of four files fetched with a token whose slack, as in the
\* code, is three times the longest call, so that it may end before the third file.
\* Deadlock is no error: a job is done, the last review and the clock of a behaviour end.
CHECK_DEADLOCK FALSE
SPECIFICATION Spec
CONSTANTS
  Owner = owner
  Repo = repo
  User = user
  Number = 7
  Threads = {a, b}
  Languages = 2
  MaxCalls = 2
  Retries = 2
  MaxReviews = 3
  Refs = {r1, r2, r3}
  Blobs = 4
  Capacity = 2
  Life = 6
  Slack = 3
  CallTime = 1
  MaxFaults = 1
  Horizon = 9
INVARIANTS
  QueuedAimsRight
  IdentifiedIsReviewed
  SyncAimsRight
  BudgetPerReview
  RequestsBounded
  FallsBackWhenSpent
  MissingFailedOrLate
