SPECIFICATION FairSpec
CONSTANTS
  Limit = 2
  Block = 2
  PipeSize = 1
  MaxBytes <- MCMaxBytes
PROPERTIES
  TimeoutIsRaised
CHECK_DEADLOCK FALSE
