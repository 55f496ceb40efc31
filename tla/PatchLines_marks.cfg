\* Lines that begin like a file header
\* Deadlock is no error: a pull request that adds nothing has nothing to annotate.
SPECIFICATION Spec
CONSTANTS
  MaxLines = 2
  DiffLines <- MarkedLines
  Pulls <- MCPulls
INVARIANTS EveryAddedLineAssessed
CHECK_DEADLOCK FALSE
