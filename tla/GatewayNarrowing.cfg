SPECIFICATION Spec
CONSTANTS
  Ids = {1, 2, 3}
  Profiles <- MCProfiles
  Orders <- MCOrders
  Inputs <- MCInputs
  MaxCandidates = 2
  NoGateway = NoGateway
INVARIANTS TypeOK ExactMatchesSurvive DemotedNotDeleted NeverByNameAlone TwinsStayForReview
CHECK_DEADLOCK FALSE
