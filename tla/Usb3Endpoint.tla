---------------------------- MODULE Usb3Endpoint ----------------------------
(***************************************************************************)
(* A data endpoint (1..7) of usb/usb30.c, both directions, with bursts.    *)
(*                                                                         *)
(* The controller (external) stores the packets of a burst one after the   *)
(* other at the RX DMA address until the packets it was allowed (NumP) are *)
(* used up or a short one arrives, sends the packets of a buffer from the  *)
(* TX DMA address on, and counts NumP down.  The link repeats damaged      *)
(* packets, so none is lost.                                               *)
(*                                                                         *)
(* The controller is assumed to hold an endpoint from the start of its     *)
(* handler until the handler writes the control register.  The handler     *)
(* means to see to it ("set the endpoint to not ready while processing"),  *)
(* but usb30_out_set and usb30_in_set add bits to the register and take    *)
(* none away; were a burst to go on meanwhile, the handler's later reset   *)
(* of NumP and length would forget its packets.                            *)
(*                                                                         *)
(* rx_callback runs inside the interrupt.  The user keeps to the contract  *)
(* of usb_device.h: no new buffer before the last one is complete.         *)
(***************************************************************************)
EXTENDS BurstEndpoint

CONSTANTS
  BitOr(_, _), \* the | of C on register fields
  OutLens      \* the lengths of the packets the host sends

ASSUME EndpointAssumption ==
  /\ \A a \in 0..1024 : BitOr(a, 0) = a /\ BitOr(0, a) = a
  /\ Mps \in 1..1024 /\ MaxPacketSizeWithBurst \in Nat /\ MaxBurst \in 1..16
  /\ TxSizes \subseteq Nat /\ OutLens \subseteq 0..Mps
  /\ {MaxOut, MaxTx, MaxReset} \subseteq Nat

(* Of Endpoint's variables, rx is RX_CTRL (NumP, ACK or not, short packet, *)
(* length) and its interrupt, tx is TX_CTRL, TX_DMA (buffer, offset) and   *)
(* its interrupt, user tells whether a callback runs, NAK was answered and *)
(* tx_complete is awaited, and host is [on, out, ends, n, got] since the   *)
(* last reset.                                                             *)
VARIABLES
  previously_set_max_burst, rx_total_length, remaining_length, total_bursts,
  resets      \* SET_CONFIGURATION requests still to come

outVars == <<rx, rxbuf, previously_set_max_burst, rx_total_length, delivered>>
inVars == <<tx, remaining_length, total_bursts, given, completed>>
vars == <<outVars, inVars, user, host, resets>>

-----------------------------------------------------------------------------
(* usb30_out_clear_interrupt, usb30_in_clear_interrupt: everything but the *)
(* sequence number.                                                        *)
usb30_out_clear_interrupt(r) ==
  [r EXCEPT !.nump = 0, !.ack = FALSE, !.short = FALSE, !.len = 0, !.irq = FALSE]
usb30_in_clear_interrupt(t) == [t EXCEPT !.nump = 0, !.ack = FALSE, !.len = 0, !.irq = FALSE]

(* usb30_out_set, usb30_in_set: bits are added, none is removed.           *)
usb30_out_set(r, ack, nump) == [r EXCEPT !.nump = BitOr(@, nump), !.ack = @ \/ ack]
usb30_in_set(t, ack, nump, len) ==
  [t EXCEPT !.nump = BitOr(@, nump), !.ack = @ \/ ack, !.len = BitOr(@, len)]

-----------------------------------------------------------------------------
(* usb3_endp_tx_ready for buffer b: full packets, and a last short one     *)
(* unless the buffer ends with a full one.                                 *)
LastPacketSize(size) == IF size > 0 /\ size % Mps = 0 THEN Mps ELSE size % Mps

(* Mutant: a buffer that ends with a full packet gets one more.            *)
PacketsRoundedUp(size) == size \div Mps + 1

TotalPackets(size) == (size \div Mps) + (IF LastPacketSize(size) # Mps THEN 1 ELSE 0)

usb3_endp_tx_ready(t, b, size) ==
  /\ given' = Append(given, size)
  /\ remaining_length' = size
  /\ total_bursts' = TotalPackets(size) % 256
  /\ tx' = usb30_in_set([t EXCEPT !.buf = b, !.off = 0],
                        TRUE, TotalPackets(size), LastPacketSize(size))

endp_tx_set_new_buffer(size) ==
  /\ ~user.awaits /\ Len(given) < MaxTx
  /\ usb3_endp_tx_ready(tx, Len(given) + 1, size)
  /\ user' = [user EXCEPT !.awaits = TRUE]
  /\ UNCHANGED <<outVars, completed, host, resets>>

-----------------------------------------------------------------------------
(* Mutant: a packet sent is a full packet.                                 *)
LengthLeftUnsigned(len, sent) == (len - sent * Mps) % 65536

(* The loop of usb30_ep_in_handler.                                        *)
LengthLeft(len, sent) == IF len >= sent * Mps THEN len - sent * Mps ELSE 0

(* The length of the last of nump packets when len bytes are left.         *)
RearmLength(len, nump) == IF len >= nump * Mps THEN Mps ELSE len - (nump - 1) * Mps

PacketsSent == (total_bursts - tx.nump) % 256

(* Packets are left: arm the endpoint again for at most max_burst of them. *)
InRearm(left) ==
  LET nump == Min2(tx.nump, MaxBurst) IN
  /\ tx' = usb30_in_set(usb30_in_clear_interrupt(tx), TRUE, nump, RearmLength(left, nump))
  /\ total_bursts' = (total_bursts - PacketsSent) % 256
  /\ UNCHANGED <<given, completed, user>>

(* The buffer is through: tx_complete, which may set the next one; the     *)
(* endpoint is made not ready only if it did not.                          *)
InComplete ==
  LET t == usb30_in_clear_interrupt(tx) IN
  /\ completed' = Append(completed, tx.buf)
  /\ \/ /\ tx' = usb30_in_set([t EXCEPT !.off = 0, !.buf = 0], FALSE, 0, 0)
        /\ remaining_length' = 0
        /\ user' = [user EXCEPT !.awaits = FALSE]
        /\ UNCHANGED <<total_bursts, given>>
     \/ /\ Len(given) < MaxTx
        /\ \E size \in Accepted : usb3_endp_tx_ready(t, Len(given) + 1, size)
        /\ UNCHANGED user

usb30_ep_in_handler ==
  LET left == LengthLeft(remaining_length, PacketsSent) IN
  /\ tx.irq /\ user.pc = "main"
  /\ \/ left = 0 /\ InComplete
     \/ left # 0 /\ remaining_length' = left /\ InRearm(left)
  /\ UNCHANGED <<outVars, host, resets>>

-----------------------------------------------------------------------------
(* Mutant: the length of the last packet is taken as full.                 *)
LengthAllFull(sent) == rx_total_length + Mps * sent

(* The length received so far, after sent more packets.                    *)
LengthReceived(sent) ==
  (rx_total_length + (IF rx.short THEN Mps * (sent - 1) + rx.len ELSE Mps * sent)) % 65536

(* What rx_callback finds in length bytes; 0 stands for older contents.    *)
Received(length) == [i \in 1..length |-> IF i <= Len(rxbuf) THEN rxbuf[i] ELSE 0]

(* usb30_ep_out_handler up to rx_callback.  The test for the end of the    *)
(* transfer holds for both values of the short-packet bit.                 *)
usb30_ep_out_handler ==
  LET length == LengthReceived((previously_set_max_burst - rx.nump) % 256) IN
  /\ rx.irq /\ user.pc = "main"
  /\ rx' = usb30_out_set(rx, FALSE, 0)
  /\ rx_total_length' = length
  /\ delivered' = Append(delivered, Received(length))
  /\ user' = [user EXCEPT !.pc = "rx_callback"]
  /\ UNCHANGED <<rxbuf, previously_set_max_burst, inVars, host, resets>>

(* rx_callback returns; what it returns is not looked at.  The endpoint    *)
(* gets its buffer back and max_burst more packets.                        *)
RxCallbackReturns(state) ==
  /\ user.pc = "rx_callback"
  /\ user' = [user EXCEPT !.pc = "main", !.holds = (state = "NAK")]
  /\ rx' = usb30_out_set(usb30_out_clear_interrupt(rx), TRUE, MaxBurst)
  /\ rxbuf' = <<>>
  /\ previously_set_max_burst' = MaxBurst
  /\ rx_total_length' = 0
  /\ UNCHANGED <<delivered, inVars, host, resets>>

(* endp_rx_set_state(ACK): the main loop gives back the buffer; nothing of *)
(* it reaches the backend.                                                 *)
endp_rx_set_state ==
  /\ user.holds /\ user.pc = "main"
  /\ user' = [user EXCEPT !.holds = FALSE]
  /\ UNCHANGED <<outVars, inVars, host, resets>>

-----------------------------------------------------------------------------
RxReset == [nump |-> 0, ack |-> FALSE, short |-> FALSE, len |-> 0, irq |-> FALSE]
TxReset == [nump |-> 0, ack |-> FALSE, len |-> 0, irq |-> FALSE, buf |-> 0, off |-> 0]
HostReset(n) == [on |-> TRUE, out |-> 0, ends |-> {}, got |-> <<>>, n |-> n]

(* usb30_init_endpoints on cleared registers (usb30_device_init clears     *)
(* them): OUT endpoints ready for max_burst packets, IN endpoints not.     *)
InitRx == usb30_out_set(RxReset, TRUE, MaxBurst)
InitTx == usb30_in_set(TxReset, FALSE, 0, 0)

Init ==
  /\ rx = InitRx /\ rxbuf = <<>>
  /\ previously_set_max_burst = MaxBurst /\ rx_total_length = 0
  /\ tx = InitTx /\ remaining_length = 0 /\ total_bursts = 0
  /\ user = [pc |-> "main", holds |-> FALSE, awaits |-> FALSE]
  /\ given = <<>> /\ completed = <<>> /\ delivered = <<>>
  /\ host = HostReset(0)
  /\ resets = MaxReset

(* SET_CONFIGURATION: usb30_reinit_endpoints clears all of both registers. *)
(* The host starts anew; the user's buffer is dropped.                     *)
usb30_reinit_endpoints ==
  /\ resets > 0 /\ user.pc = "main"
  /\ resets' = resets - 1
  /\ rx' = InitRx /\ rxbuf' = <<>>
  /\ previously_set_max_burst' = MaxBurst
  /\ tx' = InitTx
  /\ user' = [user EXCEPT !.awaits = FALSE]
  /\ completed' = <<>> /\ delivered' = <<>>
  /\ host' = HostReset(host.n)
  /\ UNCHANGED <<rx_total_length, remaining_length, total_bursts, given>>

(* The HOT_RESET_FLAG branch of LINK_IRQHandler.  The host leaves the      *)
(* endpoint alone until it has set the configuration again.                *)
HotReset ==
  /\ host.on /\ resets > 0 /\ user.pc = "main"
  /\ tx' = usb30_in_set(tx, FALSE, 0, 0)
  /\ rx' = usb30_out_set(rx, FALSE, 0)
  /\ host' = [host EXCEPT !.on = FALSE]
  /\ UNCHANGED <<rxbuf, previously_set_max_burst, rx_total_length, delivered,
                 remaining_length, total_bursts, given, completed, user, resets>>

-----------------------------------------------------------------------------
(* An OUT packet of len bytes; bytes are numbered in the order sent.       *)
HostOut(len) ==
  /\ host.on /\ host.n < MaxOut /\ user.pc = "main"
  /\ rx.ack /\ rx.nump > 0 /\ ~rx.short
  /\ rx' = [rx EXCEPT !.nump = @ - 1, !.len = len, !.short = (len < Mps), !.irq = TRUE]
  /\ rxbuf' = rxbuf \o [i \in 1..len |-> host.out + i]
  /\ host' = [host EXCEPT !.n = @ + 1, !.out = @ + len,
                          !.ends = IF len < Mps THEN @ \cup {host.out + len} ELSE @]
  /\ UNCHANGED <<previously_set_max_burst, rx_total_length, delivered, inVars, user, resets>>

(* The host takes a packet: a full one, but for the last of the NumP.      *)
HostIn ==
  LET len == IF tx.nump = 1 THEN tx.len ELSE Mps IN
  /\ host.on /\ user.pc = "main"
  /\ tx.ack /\ tx.nump > 0
  /\ tx' = [tx EXCEPT !.nump = @ - 1, !.off = @ + len, !.irq = TRUE]
  /\ host' = [host EXCEPT !.got = @ \o [i \in 1..len |-> [buf |-> tx.buf, off |-> tx.off + i - 1]]]
  /\ UNCHANGED <<outVars, remaining_length, total_bursts, given, completed, user, resets>>

Device == \/ usb30_ep_in_handler \/ usb30_ep_out_handler
          \/ \E state \in {"ACK", "NAK"} : RxCallbackReturns(state)

Next ==
  \/ \E size \in Accepted : endp_tx_set_new_buffer(size)
  \/ endp_rx_set_state
  \/ Device
  \/ \E len \in OutLens : HostOut(len)
  \/ HostIn
  \/ usb30_reinit_endpoints \/ HotReset

(* Interrupts are served; the host goes on sending and polling, and sets   *)
(* the configuration after a hot reset.                                    *)
Spec == /\ Init /\ [][Next]_vars
        /\ WF_vars(Device) /\ WF_vars(\E len \in OutLens : HostOut(len)) /\ WF_vars(HostIn)
        /\ WF_vars(~host.on /\ usb30_reinit_endpoints)

-----------------------------------------------------------------------------
(* "@return new state of endpoint response [...] This will set the         *)
(* response for the next transfer": after NAK, no packet is stored in the  *)
(* buffer the user keeps.                                                  *)
HeldIsQuiet == user.holds => rxbuf = <<>>

(* Nobody waits for ever: in the end the host got rid of all its packets   *)
(* and every buffer the user waits for was completed.                      *)
EverythingMoves == <>[](host.n = MaxOut /\ ~user.awaits)
=============================================================================
