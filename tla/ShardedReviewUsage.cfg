SPECIFICATION ReviewSpec
CONSTANTS
  NumShards = 2
  WorkerCounts = {1, 2}
  Turn <- InOrder
  Keys = {k1}
  Strengths = {1, 2}
  MaxFindings = 2
INVARIANTS
  NoUsageIsLost
CHECK_DEADLOCK FALSE
