SPECIFICATION FairSpec
CONSTANTS
  FactIds = {f1}
  OtherIds = {h1}
  MaxCallAttempts = 2
INVARIANTS
  EvidenceGate
  FindingsAreReviewed
PROPERTIES
  DebateReturns
  ImplementsContract
CHECK_DEADLOCK FALSE
