SPECIFICATION Spec
CONSTANTS
  Ids = {1, 2, 3}
  Profiles <- TwinProfiles
  Orders <- MCOrders
  Inputs <- NobodyExpected
  MaxCandidates = 2
  NoGateway = NoGateway
INVARIANT ExactTwinsNeverSelected
CHECK_DEADLOCK FALSE
