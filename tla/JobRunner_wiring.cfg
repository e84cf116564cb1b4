\* The runner with the statement parser main.py wires.
CONSTANTS
  Job = {j1, j2}
  Permits = 2
  StatementParser = "content_only"
  MaxFiles = 1
  MaxTx = 1
SPECIFICATION RunnerSpec
INVARIANT FailsOnlyOnFiles
CHECK_DEADLOCK FALSE
