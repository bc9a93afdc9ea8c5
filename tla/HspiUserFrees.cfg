SPECIFICATION Spec
CONSTANTS
  BufNum = 6
  ArgNum = 2
  QueueSize = 2
  MaxRx = 3
  MaxTx = 2
  MaxOther = 0
  UserFrees = TRUE
INVARIANT DmaBuffersAllocated
CHECK_DEADLOCK FALSE
