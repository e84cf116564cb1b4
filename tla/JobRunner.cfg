\* Three jobs of up to two receipts and two statements on two permits; what is
\* found in the files does not matter here.
CONSTANTS
  Job = {j1, j2, j3}
  Permits = 2
  StatementParser = "with_suffix"
  MaxFiles = 2
  MaxTx = 0
SPECIFICATION FairRunnerSpec
INVARIANTS
  PermitsConserved
  NoPermitIdle
  ProgressProtocol
PROPERTY RunEnds
CHECK_DEADLOCK FALSE
