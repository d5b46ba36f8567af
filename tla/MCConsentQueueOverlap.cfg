SPECIFICATION QueueSpec
CONSTANTS
  Procs = {p1, p2}
  r1 = r1
  r2 = r2
  t1 = t1
  Repos = {r1, r2}
  Trajectories = {t1}
  Limits = {5}
  OverlapStages <- MCOverlapStages
  MaxStops = 0
  MaxMails = 2
INVARIANTS
  StagedIsListed
