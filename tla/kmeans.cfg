SPECIFICATION Spec
CONSTANTS
  NumMappers = 2
  Jobs <- TiesAndSpread
  Orders <- TwoOrders
INVARIANT StepsInOrder
PROPERTY ImplementsLloyd
PROPERTY Converges
PROPERTY CostFalls
CHECK_DEADLOCK FALSE
