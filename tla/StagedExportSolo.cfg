SPECIFICATION SoloSpec
CONSTANTS
  d1 = d1  d2 = d2  s1 = s1
  b0 = b0  b1 = b1  b2 = b2
  NoDir = NoDir  NoFile = NoFile  Torn = Torn  NoRun = NoRun
  r1 = r1  r2 = r2
  Runs = {r1, r2}
  Files <- MCFiles
  Known <- MCKnown
  Bodies <- MCBodies
  Requests <- MCRequests
  InitialTrees <- MCInitialTrees
  FaultSites <- MCAllFaults
PROPERTIES ReplacesAtomically EveryRunEnds
CHECK_DEADLOCK FALSE
