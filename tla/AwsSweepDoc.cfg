SPECIFICATION SweepSpec
CONSTANTS
  Registries <- MCRegistries
  Setups <- MCSetups
  Apis <- Gateway
  Tokens = {t1, t2}
  NoToken = NoToken
  NoStage = NoStage
  Anything = Anything
  MaxPages = 2
  MaxAssociationPages = 2
  PageSize = 1
  MaxServed = 4
INVARIANT AssociationsSayWhatTheyAre
CHECK_DEADLOCK FALSE
