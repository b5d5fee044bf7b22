CONSTANTS
  Settings <- MCSettings
  BufSize = 4
  IntMax = 7
  LongMax = 15
SPECIFICATION FairSpec
INVARIANTS ConnectionInv InStep
PROPERTIES Answered ConnectionEnds
CHECK_DEADLOCK FALSE
