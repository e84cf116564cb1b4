\* One session with two files of the same name, under the statement parser that
\* app.main wires.
CONSTANTS
  Job = {j1}
  Permits = 2
  StatementParser = "content_only"
  MaxFiles = 2
  MaxTx = 1
  Name = {a, b}
  MaxCrashes = 0
SPECIFICATION Spec
INVARIANT RowPointsToOwnFile
CHECK_DEADLOCK FALSE
