SPECIFICATION FairSpec
CONSTANTS
  a = a
  b = b
  c = c
  MapperIds <- OneId
  ReducerIds <- OneId
  Items <- ItemsAB
  Lines <- LinesWords
  KeyIds <- Keys12
  KeyOf <- KeysWords
  HashOf <- HashWords
  HasCombine = TRUE
  App = "WORDCOUNT"
  MaxRounds = 1
  Quiet = 2
  MaxFires = 1
PROPERTIES AnsweredIsAssigned
CHECK_DEADLOCK FALSE
