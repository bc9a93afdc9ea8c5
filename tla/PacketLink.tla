----------------------------- MODULE PacketLink -----------------------------
(***************************************************************************)
(* What hspi/hspi.h and serdes/serdes.h promise of the board that          *)
(* receives, in terms of what its user sees: the buffers the DMA fills and *)
(* the calls of the receive callback.  DoubleBuffer is how the drivers     *)
(* keep it.                                                                *)
(***************************************************************************)
EXTENDS Sequences

VARIABLES
  rx,         \* the receiver: current buffer, hardware toggle, interrupt flags, pc
  dma,        \* dma[b]: what lies in receive buffer b and in its header register
  call,       \* what the callback that runs was called with
  good,       \* the packets that arrived undamaged
  reported    \* what the callback was called with, call by call

(* "Called on packet reception", "Called when a single packet has been     *)
(* received": each undamaged packet is given to the callback once, in      *)
(* order, with its own buffer, size and custom register, and none is left  *)
(* behind when the handler has finished.                                   *)
EachPacketReported ==
  /\ reported = SubSeq(good, 1, Len(reported))
  /\ rx.pc = "idle" /\ ~rx.done => reported = good

(* "alternating because of double buffering": while the callback works on  *)
(* a buffer, the packet it was called for stays in it.                     *)
BufferStable == rx.pc = "callback" => dma[call.buf].n = call.n
=============================================================================
