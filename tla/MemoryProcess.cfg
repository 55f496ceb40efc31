\* Deadlock is no error: the jobs are done, or a cancelled process lingers.
CHECK_DEADLOCK FALSE
SPECIFICATION Spec
CONSTANTS
  Jobs = {j1, j2}
  Durations = {1, 2}
  MaxSyncs = 1
  MaxRaises = 1
  MaxAsked = 4
  MaxExits = 1
INVARIANTS NoIncrementLost ScrapeAddsUp
PROPERTIES ImplementsAtMostOnce
