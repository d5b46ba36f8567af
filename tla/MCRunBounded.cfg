SPECIFICATION FairSpec
CONSTANTS
  Limit = 2
  Block = 2
  PipeSize = 1
  MaxBytes <- MCMaxBytes
INVARIANTS
  RunIsClean
PROPERTIES
  RunReturns
CHECK_DEADLOCK FALSE
