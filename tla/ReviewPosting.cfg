\* Two reviewers, one failure of any kind, comments beyond the lookup
\* Deadlock is no error: nothing has to happen on a pull request.
SPECIFICATION Spec
CONSTANTS
  Reviewers = {a, b}
  ListCap = 2
  Unknown = Unknown
  MaxPushes = 2
  MaxReviews = 3
  MaxComments = 2
  MaxDeletions = 1
  Failures = {"files", "refs", "lookup", "write", "check", "process"}
  MaxFaults = 1
INVARIANTS
  OneSentinelComment
  CheckNeverOlder
PROPERTIES
  CommentNeverOlder
CHECK_DEADLOCK FALSE
