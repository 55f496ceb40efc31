\* Jobs wait behind a review that asks the LLM, posts, or raises, beside a synchronous one.
\* Deadlock is no error: the jobs are done, or a cancelled process lingers.
CHECK_DEADLOCK FALSE
SPECIFICATION Spec
CONSTANTS
  Jobs = {j1, j2}
  Durations = {2}
  MaxSyncs = 1
  MaxRaises = 1
  MaxAsked = 1
  MaxExits = 1
PROPERTIES EventuallyBegun
