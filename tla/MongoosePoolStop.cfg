CONSTANTS
  Workers = {w1}
  Sockets = {s1, s2, s3}
  Size = 1
  MayFail = {}
  NoThread = NoThread
  NoSocket = NoSocket
SPECIFICATION FairSpec
PROPERTY StopEnds
CHECK_DEADLOCK FALSE
