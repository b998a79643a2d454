SPECIFICATION FairSpec
CONSTANTS
  a = a
  b = b
  c = c
  MapperIds <- TwoIds
  ReducerIds <- TwoIds
  Items <- ItemsAB
  Lines <- LinesTwoPoints
  KeyIds <- Keys01
  KeyOf <- KeysEmptied
  HashOf <- HashId
  HasCombine = FALSE
  App = "KMEANS"
  MaxRounds = 2
  Quiet = 2
  MaxFires = 2
INVARIANTS CentersKept SubscribedBeforePublished
PROPERTIES ImplementsJob JobCompletes
CHECK_DEADLOCK FALSE
