SPECIFICATION RouterSpec
CONSTANTS
  File <- MCFile
  MinLines = 4
  Wirings <- MCWirings
INVARIANTS
  ExhaustedAfterAll
  CardNumberNeverFails
  EverySlipReturned
CHECK_DEADLOCK FALSE
