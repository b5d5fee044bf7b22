CONSTANTS
  upper = upper
  hoedown = hoedown
  Nil = Nil
  Filters <- MCFilters
  Buffering <- MCBuffering
  MaxDepth = 3
  MaxText = 3
SPECIFICATION Spec
CHECK_DEADLOCK FALSE
INVARIANTS FilterInv NothingLost FindsOptionsOnce
PROPERTY ImplementsFilterStack
