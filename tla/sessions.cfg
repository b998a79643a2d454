SPECIFICATION Spec
CONSTANTS
  x = x
  MapperIds <- OneId
  ReducerIds <- OneId
  Items <- OneItem
  Lines <- OneLine
  KeyIds <- OneKey
  KeyOf <- OneKeyOf
  HashOf <- OneHash
  HasCombine = TRUE
  App = "WORDCOUNT"
  MaxRounds = 1
  SidAt <- Ids1and2and9
  SameSecond = TRUE
  Encrypts = {TRUE, FALSE}
  MaxLives = 2
INVARIANTS OwnSession RegisteredBound NotStoppedByOwn
CHECK_DEADLOCK FALSE
