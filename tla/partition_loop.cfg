SPECIFICATION Spec
CONSTANTS
  Sizes <- ToTwelve
  MapperCounts <- ToFive
INVARIANT LoopTypeOK
INVARIANT InOrder
INVARIANT AllClosed
INVARIANT OnePerMapper
INVARIANT ClosedForm
CHECK_DEADLOCK FALSE
