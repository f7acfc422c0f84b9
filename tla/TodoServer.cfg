SPECIFICATION FairServerSpec
CONSTANTS
  Requests = {r1, r2}
  Items = {i, j}
  NoItem = NoItem
  MaxVersion = 4
CHECK_DEADLOCK FALSE
INVARIANTS ListStaysLoadable ItemsAreDistinct NilMeansGraceful
PROPERTIES SuccessIsCurrent SignalEndsProcess RequestsAreAnswered
