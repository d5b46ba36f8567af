SPECIFICATION Spec
CHECK_DEADLOCK FALSE
CONSTANTS
  Parts = {"call", "review", "trials"}
  MaxConfigured = 3
  ModelCap = 2
  RetryLimits = {0, 2}
  Timeouts = {3}
  Latencies = {0, 1}
  RetryAfters = {0}
  InitialBudget = 2
  BudgetCap = 3
  NumShards = 3
  WorkerCounts = {1, 2}
  Turn <- MCTurn
  Keys = {k1}
  Strengths = {1, 2}
  MaxFindings = 1
  Candidates = {c1, c2}
  SemanticRules = {s1}
  HeuristicRules = {h1}
  Retrieved = {g1}
  MaxRepairs = 1
  MaxDiagnosticFacts = 2
  TrialCounts = {1, 3}
INVARIANTS
  RequestsFollowTheRules
  OutcomeIsJustified
  NothingIsHidden
  ReportIsDeterministic
  TrialsAreSound
PROPERTIES
  CallReturns
  ReviewReturns
  FindingsAreKept
  AuditReturns
