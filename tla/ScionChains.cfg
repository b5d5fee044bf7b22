CONSTANTS
  a = a
  b = b
  c = c
  main = main
  child = child
  Nil = Nil
  Identifiers <- MCIdentifiers
  Files <- MCFiles
  ScanSize = 5
  Size = 4
  Chains <- MCChains
  Templates <- MCTemplates
  Tables <- MCTables
SPECIFICATION ChainsSpec
CHECK_DEADLOCK FALSE
INVARIANTS StackCounts FindsFirst ExpansionInv Overridden RefusedOnlyIfRecursive
PROPERTIES StaysBalanced ExpansionEnds
