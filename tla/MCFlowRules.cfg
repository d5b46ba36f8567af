SPECIFICATION FairSpec
CONSTANTS
  Ids <- MCIds
  Languages = {"python", "go"}
  MaxOps = 5
  RequiredRoles = {"event", "action"}
  EmbeddedRoles = {"event", "action"}
INVARIANTS
  GraphIsSound
  UnreportedIsSafe
  DominatorsAreExact
PROPERTIES
  DominatorsEnd
CHECK_DEADLOCK FALSE
