SPECIFICATION Spec
CONSTANTS
  x = x
  MapperIds <- OneId
  ReducerIds <- OneId
  Items <- OneItem
  Lines <- OneLine
  KeyIds <- OneKey
  KeyOf <- OneKeyOf
  HashOf <- OneHash
  HasCombine = TRUE
  App = "WORDCOUNT"
  MaxRounds = 1
  SidAt <- Ids1and2
  SameSecond = FALSE
  Encrypts = {TRUE}
  MaxLives = 2
INVARIANT NotStoppedByOthers
CHECK_DEADLOCK FALSE
