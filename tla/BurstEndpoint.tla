--------------------------- MODULE BurstEndpoint ---------------------------
(***************************************************************************)
(* What usb_device.h promises of an endpoint with bursts, where one call   *)
(* of rx_callback gets the packets of several.  Usb3Endpoint is how        *)
(* usb30.c keeps it.                                                       *)
(***************************************************************************)
EXTENDS Endpoint

CONSTANT MaxBurst   \* max_burst of both directions

VARIABLE rxbuf      \* what lies at endp->buffer since the DMA address was set

(* "Called by the usb backend when data has been received on the           *)
(* endpoint": the calls of rx_callback, taken together, got every byte the *)
(* host sent, once and in order, but for what waits in the buffer; and the *)
(* end of each of the host's transfers (a short packet) is the end of what *)
(* one call got.  The DMA stays in endp->buffer, which has room for        *)
(* max_burst packets, in whatever portions the interrupts come.            *)
OutDelivered ==
  LET got == FlattenSeq(delivered)
      waiting == IF user.pc = "main" THEN rxbuf ELSE <<>>
      cuts == {Len(FlattenSeq(SubSeq(delivered, 1, i))) : i \in 0..Len(delivered)}
  IN  /\ got \o waiting = [i \in 1..host.out |-> i]
      /\ \A e \in host.ends : e <= Len(got) => e \in cuts
      /\ Len(rxbuf) <= MaxBurst * Mps

(* "Called by the backend when it has confirmed data has been sent": what  *)
(* the host has taken since the last reset is the completed buffers, whole *)
(* and in order, and a beginning of the one under way.                     *)
InArrivesWhole ==
  LET done == FlattenSeq([i \in 1..Len(completed) |-> Buffer(completed[i])])
      now == IF tx.buf # 0 THEN done \o Buffer(tx.buf) ELSE done
  IN  IsPrefix(done, host.got) /\ IsPrefix(host.got, now)
=============================================================================
