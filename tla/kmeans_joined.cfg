SPECIFICATION FairSpecJoined
CONSTANTS
  a = a
  b = b
  c = c
  MapperIds <- TwoIds
  ReducerIds <- TwoIds
  Items <- ItemsABC
  Lines <- LinesPoints
  KeyIds <- Keys01
  KeyOf <- KeysMoving
  HashOf <- HashId
  HasCombine = TRUE
  App = "KMEANS"
  MaxRounds = 3
  Quiet = 1
  MaxFires = 1
INVARIANTS RoundsDoNotMix AnswersExact CentersKept
PROPERTIES ImplementsJob JobCompletes
CHECK_DEADLOCK FALSE
