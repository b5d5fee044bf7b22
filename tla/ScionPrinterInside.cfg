CONSTANTS
  main = main
  child = child
  Nil = Nil
  Files <- MCFiles
  Identifiers <- MCIdentifiers
  Size = 3
  AnySize = 3
  Chains <- IncludingInside
  MaxItems = 2
  MaxTurns = 2
SPECIFICATION Spec
CHECK_DEADLOCK FALSE
INVARIANT NeverRaises
