SPECIFICATION Spec
CONSTANTS
  BitOr <- FieldOr
  Mps = 2
  MaxBurst = 3
  MaxPacketSizeWithBurst = 6
  TxSizes = {0, 5, 6, 7}
  OutLens = {0, 1, 2}
  MaxOut = 4
  MaxTx = 0
  MaxReset = 0
INVARIANT HeldIsQuiet
CHECK_DEADLOCK FALSE
