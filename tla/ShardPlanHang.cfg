SPECIFICATION FairPlanSpec
CONSTANTS
  Files = {1, 2, 3, 4, 5}
  Names = {1, 2, 3}
  Misc = 2
  Spelling <- NoneSpelled
  ChunkSizes = {1, 2, 3}
  Caps = {1, 2, 3}
PROPERTIES
  PlanIsBuilt
CHECK_DEADLOCK FALSE
