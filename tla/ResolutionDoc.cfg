SPECIFICATION Spec
CONSTANTS
  p1 = p1  p2 = p2  p3 = p3
  NoFile = NoFile  NoCandidate = NoCandidate  NoContract = NoContract
  Files <- MCFiles
  TreeFile = "repo.yaml"
  Kept <- MCKept
  Catalogs <- MCCatalogs
  Candidates <- MCCandidates
  Confidence <- MCConfidence
  Gateways <- MCGateways
  SnsScores = {55, 70}
  MaxTopics = 2
  Plan <- MCPlan
INVARIANT SpecPathNamesItsFile
CHECK_DEADLOCK FALSE
