SPECIFICATION SpecJoined
CONSTANTS
  a = a
  b = b
  c = c
  MapperIds <- OneId
  ReducerIds <- ElevenIds
  Items <- ItemsA
  Lines <- LinesOne
  KeyIds <- Key10
  KeyOf <- KeysOneWord
  HashOf <- HashTen
  HasCombine = TRUE
  App = "WORDCOUNT"
  MaxRounds = 1
  Quiet = 1
  MaxFires = 1
INVARIANTS DstIdentifiesNode
CHECK_DEADLOCK FALSE
