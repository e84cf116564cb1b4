\* Two sessions on one permit, two files each at most, one crash.
CONSTANTS
  Job = {j1, j2}
  Permits = 1
  StatementParser = "with_suffix"
  MaxFiles = 1
  MaxTx = 1
  Name = {a, b}
  MaxCrashes = 1
SPECIFICATION FairSpec
INVARIANTS
  RowsAllOrNothing
  StatusFollowsStream
  RowPointsToNamesake
PROPERTY ParsingSettles
CHECK_DEADLOCK FALSE
