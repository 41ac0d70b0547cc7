SPECIFICATION Spec
CONSTANTS
  Groups = {"composed", "earlier", "twins", "again"}
  Services = {"a1", "a2", "a3", "l1", "t1", "t2", "t3"}
  Folders <- MCFolders
  Names <- MCNames
  GroupOf <- MCGroupOf
  Attr <- MCAttr
  Inventories <- MCInventories
  Rest <- MCRest
  Http <- MCHttp
  Extra <- MCExtra
  Listing <- MCListing
  MaxCandidates = 2
  NoFolder = NoFolder
  NoJob = NoJob
INVARIANTS TypeOK DryRunWritesNothing EveryoneIsCounted RepoFirst LostOnlyToNamesakes
CHECK_DEADLOCK FALSE
