SPECIFICATION RunSpec
CONSTANTS
  Scenarios <- MCScenarios
  Answers <- MCAnswers
  MaxMints = 3
  MaxProbes = 3
  Paths <- MCPaths
  Repos <- MCRepos
  WalkRoots <- MCWalkRoots
  Limits <- MCLimits
  MaxFileBytes = 2
  MaxCumulativeBytes = 3
  MaxIacFiles = 2
  MaxIacBytes = 3
  Nodes <- MCNodes
  Projects <- MCProjects
  MaxSmithyFiles = 4
  MaxSmithyDepth = 1
  MaxSmithyBytes = 2
  MaxSmithyTotal = 4
  u1 = u1
  u2 = u2
  u3 = u3
  u4 = u4
  u5 = u5
  a4 = a4
  a6 = a6
  private = private
  Urls <- MCUrls
  NoUrl = NoUrl
  Https <- MCHttps
  Allowed <- MCAllowed
  LocalNames = {u2}
  Addresses = {a4, a6, private}
  Global = {a4, a6}
  V4 = {a4, private}
  MaxRedirects = 1
  MaxBytes = 2
  MaxTotalBytes = 3
  MaxBody = 3
  Topics <- MCTopics
  Served <- MCServed
  Attributes = {"kind"}
  Files <- MCFiles
  Bundles <- MCBundles
  Outside = Outside
  WellKnown = WellKnown
  MaxClosureFiles = 3
  MaxClosureDepth = 2
  MaxMemberBytes = 2
  MaxClosureBytes = 4
INVARIANTS ContractTypeOK RefusalsAreFinal ContractsHeldOrReported FullIsClosed  FetchesStayInBounds
PROPERTIES RunEnds
CHECK_DEADLOCK FALSE
