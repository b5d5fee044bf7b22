CONSTANTS
  Workers = {w1, w2}
  Sockets = {s1, s2, s3}
  Size = 2
  MayFail = {"create", "memory"}
  NoThread = NoThread
  NoSocket = NoSocket
SPECIFICATION FairSpec
INVARIANTS PoolInv ServedOnce
PROPERTIES ImplementsQueue ServedUnlessStopped StopEndsUnlessMissed
CHECK_DEADLOCK FALSE
