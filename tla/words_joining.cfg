SPECIFICATION Spec
CONSTANTS
  a = a
  b = b
  c = c
  MapperIds <- TwoIds
  ReducerIds <- OneId
  Items <- ItemsAB
  Lines <- LinesWords
  KeyIds <- Keys12
  KeyOf <- KeysWords
  HashOf <- HashWords
  HasCombine = TRUE
  App = "WORDCOUNT"
  MaxRounds = 1
  Quiet = 2
  MaxFires = 2
INVARIANTS TypeOK ProtocolErrorFree CountersBelow AnswersExact
PROPERTIES ImplementsJob
CHECK_DEADLOCK FALSE
