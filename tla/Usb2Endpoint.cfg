SPECIFICATION Spec
CONSTANTS
  Mps = 2
  MaxPacketSizeWithBurst = 4
  TxSizes = {1, 4, 5}
  MaxOut = 3
  MaxTx = 2
  MaxLoss = 2
  MaxReset = 1
  MaxClear = 1
  ClearAnyTime = FALSE
  MaxCalls = 1
  MaxPause = 1
  PauseBare = FALSE
  ResetResumed = FALSE
INVARIANT AckedIsDelivered
INVARIANT HeldIsQuiet
INVARIANT BuffersArriveWhole
PROPERTY EverythingMoves
CHECK_DEADLOCK FALSE
