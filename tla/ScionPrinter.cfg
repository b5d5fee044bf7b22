CONSTANTS
  main = main
  child = child
  Nil = Nil
  Files <- MCFiles
  Identifiers <- MCIdentifiers
  Size = 6
  AnySize = 4
  Chains <- MCChains
  MaxItems = 2
  MaxTurns = 2
SPECIFICATION FairSpec
CHECK_DEADLOCK FALSE
INVARIANTS LoopsInScope FileIsCurrentInBlocks ProperNeverRaises
PROPERTIES ImplementsFlow RenderingEnds
