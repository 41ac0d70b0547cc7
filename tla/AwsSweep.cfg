SPECIFICATION SweepSpec
CONSTANTS
  Registries <- MCRegistries
  Setups <- MCSetups
  Apis <- Gateway
  Tokens = {t1, t2}
  NoToken = NoToken
  NoStage = NoStage
  Anything = Anything
  MaxPages = 2
  MaxAssociationPages = 2
  PageSize = 2
  MaxServed = 5
INVARIANTS SweepTypeOK EveryoneHasATurn ListedIsWhole WrongAccountUntouched ProvenanceIsTrue
PROPERTIES VerdictsStand NeverBetweenEquals NativeSurvives SweepEnds
CHECK_DEADLOCK FALSE
