CONSTANTS
  Workers = {w1, w2}
  Bodies = {0, 2}
  HeadSize = 1
  OutSizes = {1, 2}
  PipeSize = 1
  ChunkSize = 2
  MayFail = {"pipe", "fork", "fdopen", "body", "client"}
SPECIFICATION FairSpec
INVARIANT CgiInv AllSent
PROPERTY CgiEnds
CHECK_DEADLOCK FALSE
