SPECIFICATION Spec
INVARIANTS
  ReportIsHonest
  ReaderIsGrounded
  PathsAreMatched
  LinkIsComplete
  RetriesAreFound
  FlowVerdictsAreExact
  PlanIsSound
  DecisionsAreEarned
CONSTANTS
  Wildcards <- MCWildcards
  Requests <- MCRequests
  Registered <- MCRegistered
  Units <- MCUnits
  Adapted <- MCAdapted
  Level <- MCLevel
  Projects <- MCProjects
  MaxFacts = 5
  MaxChars = 6
  MaxRepairs = 1
  Programs <- MCPrograms
  Queries <- MCQueries
  MaxCallDepth = 2
  MaxSteps = 60
  Sources <- MCSources
  Bodies <- MCBodies
  Retriers <- MCRetriers
  Files = {1, 2, 3, 4, 5}
  Names = {1, 2, 3}
  Misc = 3
  Spelling <- MCSpelling
  ChunkSizes = {1, 2, 3}
  Caps = {1, 2, 3}
  Repositories <- MCRepositories
  MaxIntentFiles = 2
  MaxIntents = 3
  Parts = {"engine", "reader", "path", "link", "retry", "taint", "plan", "adjudication"}
