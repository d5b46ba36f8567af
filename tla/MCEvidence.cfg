SPECIFICATION Spec
INVARIANTS
  PatchVerdictsAreEarned
  VerdictsAreEarned
  RetrievalIsExact
  ServedIndexIsSound
  DiagnosisIsFaithful
  AuditIsAccounted
CONSTANTS
  Workspaces <- MCWorkspaces
  Passing <- MCPassing
  BuiltPaths = {"out"}
  MaxCopyFiles = 2
  MaxEdits = 1
  Contents = {"v1", "v2", "v3"}
  Debates <- MCDebates
  Near <- MCNear
  Nodes <- MCNodes
  Within <- MCWithin
  CallEdges <- MCCallEdges
  Typed <- MCTyped
  BindingPrefixes <- MCPrefixes
  Similar <- MCSimilar
  MaxCached = 1
  MaxDiskEdits = 1
  Lengths = {1, 3}
  Questions <- MCQuestions
  MaxFiles = 5
  NamedIn <- MCNamedIn
  Match <- MCMatch
  MaxFound = 3
  MaxContext = 14
  Padding = 2
  Bands <- MCBands
  MaxScope = 3
  HeaderLines = 2
  GuessedLines = 3
  MaxSeeds = 5
  Sessions = {1, 2}
  Versions <- MCVersions
  FirstVersion = "v1"
  Chunked <- MCChunked
  Machines <- MCMachines
  MaxSourceEdits = 2
  Checkouts <- MCCheckouts
  MaxWalked = 9
  MaxDirectories = 4
  MaxSamples = 2
  MaxAttempts = 2
  MaxDependencies = 3
  GitAnswers = {{}, {"commits"}, {"remote", "hot files"}}
  Installed <- MCInstalled
  Setups <- MCSetups
  Answers <- MCAnswers
  GraphFacts = {"node"}
  MaxEntries = 2
  Parts = {"patch", "claim", "retrieval", "index", "tools", "audit"}
