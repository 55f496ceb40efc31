\* Deadlock is no error: every component ends.
CHECK_DEADLOCK FALSE
SPECIFICATION Spec
CONSTANTS
  MaxLines = 3
  DiffLines <- PlainLines
  Pulls <- MCPulls
  MaxFileLines = 6
  MinTokens = 2
  MaxUnits = 2
  Complexities = {1, 7, 8, 15, 16}
  MaxMatches = 3
  MaxFindings = 3
  Fallback = fallback
  Reviews <- MCReviews
  MaxAnnotations = 2
INVARIANTS
  LineMapExact
  EveryAddedLineAssessed
  AnnotationsAtHead
  OneDefinitionEach
  NoUnitLost
  VerdictFits
  OwnAnswer
  SecurityFirst
  JudgedByOwnText
