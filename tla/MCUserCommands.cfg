SPECIFICATION Spec
CHECK_DEADLOCK FALSE
CONSTANTS
  Commands = {c1, c2}
  Records = {x1, x2}
  MaxLines = 3
  MaxFaults = 2
  Reports <- MCReports
  Wildcards <- MCWildcards
  UserEntries <- MCUserEntries
  Hints = {"design"}
  EventLogs <- MCEventLogs
  MaxFindings = 2
  MaxRuns = 2
  MaxKills = 1
  Procs = {c1, c2}
  r1 = r1
  t1 = t1
  Repos = {r1, r2}
  Trajectories = {t1, t2}
  Limits = {1, 5}
  OverlapStages <- MCOverlapStages
  MaxStops = 2
  MaxMails = 3
SYMMETRY Interchangeable
INVARIANTS
  StoredOnce
  IndexMatchesDocuments
  VerdictsAreOwn
  FeedbackOnlyOrders
  MemoryIsKept
  QueueIsSound
PROPERTIES
  RequestedIsFinal
