SPECIFICATION Spec
CONSTANTS
  a = a
  b = b
  c = c
  MapperIds <- OneId
  ReducerIds <- TwoIds
  Items <- ItemsAB
  Lines <- LinesWords
  KeyIds <- Keys12
  KeyOf <- KeysWords
  HashOf <- HashWords
  HasCombine = TRUE
  App = "WORDCOUNT"
  MaxRounds = 1
  Quiet = 2
  MaxFires = 2
INVARIANTS FireOnce
CHECK_DEADLOCK FALSE
