SPECIFICATION Spec
CONSTANTS
  Overlap = {"hspi"}
  Sizes = {1, 4096}
  Customs = {0, 8191, 32767}
  MaxPackets = 4
INVARIANT EachPacketReported
INVARIANT BufferStable
CHECK_DEADLOCK FALSE
