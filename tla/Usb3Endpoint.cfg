SPECIFICATION Spec
CONSTANTS
  BitOr <- FieldOr
  Mps = 2
  MaxBurst = 3
  MaxPacketSizeWithBurst = 6
  TxSizes = {0, 5, 6, 7}
  OutLens = {0, 1, 2}
  MaxOut = 4
  MaxTx = 2
  MaxReset = 1
INVARIANT OutDelivered
INVARIANT InArrivesWhole
PROPERTY EverythingMoves
CHECK_DEADLOCK FALSE
