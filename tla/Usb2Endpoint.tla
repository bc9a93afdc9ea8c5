---------------------------- MODULE Usb2Endpoint ----------------------------
(***************************************************************************)
(* A data endpoint (1..15) of usb/usb20.c, both directions: the host's OUT *)
(* packets go to the user's rx_callback, the user's buffers go out in IN   *)
(* packets.  As in Usb2Control a bus transaction and its handler are one   *)
(* step (RB_USB_INT_BUSY); handshakes get lost; the controller (external)  *)
(* acknowledges and drops an OUT packet whose toggle is not the expected   *)
(* one, and the handler ignores it (togok).                                *)
(*                                                                         *)
(* User code runs in the callbacks, inside the interrupt, and in the main  *)
(* loop, where endp_rx_set_state (which takes no critical section) may be  *)
(* interrupted between any two of its accesses, as may endp_tx_set_state   *)
(* where the user does not put it into a critical section;                 *)
(* endp_tx_set_new_buffer is one.  rx_callback answers ACK, NAK or STALL   *)
(* and the main loop calls endp_rx_set_state with any of them at any time. *)
(* The user keeps to the contract of usb_device.h in one thing: no new     *)
(* buffer before the last one is complete.                                 *)
(*                                                                         *)
(* Left out: an endpoint whose TX_CTRL answers ACK with nothing to send    *)
(* (tx.state initialised to ENDP_STATE_ACK, or endp_tx_set_state(ACK) with *)
(* no buffer under way; the firmwares start with ENDP_STATE_NAK), and with *)
(* it the branch for TX_DMA = 0; endp_tx_set_state(STALL); an endpoint     *)
(* whose rx.buffer is NULL.                                                *)
(***************************************************************************)
EXTENDS Endpoint, Functions

CONSTANTS
  MaxLoss,     \* bound on the handshakes lost
  MaxClear,    \* bound on the CLEAR_FEATURE(ENDPOINT_HALT) requests
  ClearAnyTime,  \* that of the IN side comes also while DATA1 is next
  MaxCalls,    \* bound on the calls of endp_rx_set_state beside giving back
  MaxPause,    \* bound on the pauses of a buffer under way, by endp_tx_set_state
  PauseBare,   \* endp_tx_set_state is not in a critical section
  ResetResumed \* a reset may come after endp_tx_set_state(ACK)

ASSUME EndpointAssumption ==
  /\ Mps \in Nat \ {0} /\ MaxPacketSizeWithBurst \in Nat /\ TxSizes \subseteq Nat
  /\ {MaxOut, MaxTx, MaxLoss, MaxReset, MaxClear, MaxCalls, MaxPause} \subseteq Nat
  /\ {ClearAnyTime, PauseBare, ResetResumed} \subseteq BOOLEAN

(* Of Endpoint's variables, rx is endpoints.rx[n].state and the response   *)
(* and toggle of RX_CTRL, tx is endpoints.tx[n].state, TX_CTRL, T_LEN,     *)
(* endp_tx_remaining_bytes and TX_DMA (buffer and offset), user tells      *)
(* whether user code holds the endpoint (it last answered or asked for NAK *)
(* or STALL), and its endp_rx_set_state, and host is [n, out, acked, in,   *)
(* got].                                                                   *)
VARIABLES
  pause,      \* whether user code holds back its buffer, and its endp_tx_set_state
  strayed,    \* what happened that the OUT toggle does not survive (ghost, below)
  budget      \* what is left of the bounds

vars == <<rx, tx, user, pause, given, completed, delivered, host, strayed, budget>>

(* ENDP_STATE_ACK, ENDP_STATE_NAK and ENDP_STATE_STALL.                    *)
Answers == {"ACK", "NAK", "STALL"}

-----------------------------------------------------------------------------
(* usb2_setup_endpoints_in_mask for this endpoint: toggles to DATA0, the   *)
(* responses from .state, nothing to send; endp_tx_remaining_bytes stays.  *)
SetupRx(r) == [r EXCEPT !.res = r.state, !.tog = 0]
SetupTx(t) == [t EXCEPT !.res = t.state, !.tog = 0, !.len = 0, !.off = 0]

(* usb2_endp_tx_ready for buffer b.                                        *)
usb2_endp_tx_ready(t, b, size) ==
  [t EXCEPT !.remaining = size, !.buf = b, !.off = 0, !.len = Min2(size, Mps), !.res = "ACK"]

PacketLen(t) == Min2(t.remaining, Mps)

(* Mutant: the toggle is not switched after the last packet.               *)
LastPacketSameToggle(t) == [t EXCEPT !.remaining = 0, !.len = 0, !.res = "NAK"]

(* usb2_in_transfer_handler up to tx_complete: the last packet, or one     *)
(* before it, was acknowledged.  T_LEN keeps the length of the first       *)
(* packet until the last one is through.                                   *)
LastPacket(t) == [t EXCEPT !.remaining = 0, !.len = 0, !.tog = 1 - @, !.res = "NAK"]

NextPacket(t) ==
  [t EXCEPT !.remaining = @ - PacketLen(t), !.off = @ + PacketLen(t), !.tog = 1 - @]

(* Mutant: the toggle moves whatever the user answers.                     *)
OutHandlerTogglesAlways(r, state) == [r EXCEPT !.state = state, !.res = state, !.tog = 1 - @]

(* Mutant: the user's answer does not reach RX_CTRL.                       *)
OutHandlerStoresOnly(r, state) ==
  [r EXCEPT !.state = state, !.tog = IF state = "ACK" THEN 1 - @ ELSE @]

(* usb2_out_transfer_handler: the user's answer becomes the response, and  *)
(* the toggle moves only with ACK.                                         *)
usb2_out_transfer_handler(r, state) ==
  [r EXCEPT !.state = state, !.res = state, !.tog = IF state = "ACK" THEN 1 - @ ELSE @]

(* Mutant: only the toggle is written.                                     *)
RxSetStateToggleOnly(state, res, tog) ==
  [res |-> res, tog |-> IF res # "ACK" /\ state = "ACK" THEN 1 - tog ELSE tog]

(* usb2_endp_rx_set_state_callback: the new RX_CTRL from the loaded one.   *)
usb2_endp_rx_set_state_callback(state, res, tog) ==
  [res |-> state, tog |-> IF res # "ACK" /\ state = "ACK" THEN 1 - tog ELSE tog]

(* usb2_endp_tx_set_state_callback: the response from .state, the rest     *)
(* from the loaded TX_CTRL.                                                *)
usb2_endp_tx_set_state_callback(t, tog) == [t EXCEPT !.res = t.state, !.tog = tog]

-----------------------------------------------------------------------------
NotCalling == [holds |-> FALSE, pc |-> "idle", res |-> "NAK", tog |-> 0]

Init ==
  /\ rx = [state |-> "ACK", res |-> "ACK", tog |-> 0]
  /\ tx = [state |-> "NAK", res |-> "NAK", tog |-> 0, len |-> 0, remaining |-> 0, buf |-> 0, off |-> 0]
  /\ user = NotCalling
  /\ pause = [on |-> FALSE, storing |-> FALSE, tog |-> 0]
  /\ given = <<>> /\ completed = <<>> /\ delivered = <<>>
  /\ host = [n |-> 1, out |-> 0, acked |-> <<>>, in |-> 0, got |-> <<>>]
  /\ strayed = FALSE
  /\ budget = [loss |-> MaxLoss, reset |-> MaxReset, clear |-> MaxClear,
               calls |-> MaxCalls, pause |-> MaxPause]

(* The main loop is in neither endp_rx_set_state nor endp_tx_set_state.    *)
InLoop == user.pc = "idle" /\ ~pause.storing

(* The user has no buffer under way: none sent since the last reset that   *)
(* is not complete.                                                        *)
NothingPending == InLoop /\ tx.res = "NAK" /\ ~pause.on

(* endp_tx_set_new_buffer from the main loop.                              *)
endp_tx_set_new_buffer(size) ==
  /\ Len(given) < MaxTx
  /\ NothingPending
  /\ given' = Append(given, size)
  /\ tx' = usb2_endp_tx_ready(tx, Len(given) + 1, size)
  /\ UNCHANGED <<rx, user, pause, completed, delivered, host, strayed, budget>>

(* endp_tx_set_state from the main loop, NAK to hold back the buffer under *)
(* way and ACK to let it go: store the state and load TX_CTRL, store the   *)
(* new TX_CTRL.                                                            *)
endp_tx_set_state(state) ==
  /\ InLoop
  /\ \/ /\ state = "NAK" /\ tx.res = "ACK" /\ ~pause.on
        /\ budget.pause > 0
        /\ budget' = [budget EXCEPT !.pause = @ - 1]
     \/ /\ state = "ACK" /\ pause.on
        /\ UNCHANGED budget
  /\ tx' = [tx EXCEPT !.state = state]
  /\ pause' = [on |-> state = "NAK", storing |-> TRUE, tog |-> tx.tog]
  /\ UNCHANGED <<rx, user, given, completed, delivered, host, strayed>>

TxStateStore ==
  /\ pause.storing
  /\ tx' = usb2_endp_tx_set_state_callback(tx, pause.tog)
  /\ pause' = [pause EXCEPT !.storing = FALSE]
  /\ UNCHANGED <<rx, user, given, completed, delivered, host, strayed, budget>>

(* Interrupts are off in the critical section around endp_tx_set_state.    *)
Interruptible == pause.storing => PauseBare

(* The user may call endp_rx_set_state beside giving the endpoint back.    *)
CallsFreely == /\ budget.calls > 0
               /\ budget' = [budget EXCEPT !.calls = @ - 1]

(* endp_rx_set_state from the main loop: store the state, load RX_CTRL,    *)
(* store the new RX_CTRL.  On an endpoint the user does not hold this is   *)
(* straying: NAK or STALL leaves the toggle of a packet that is yet to     *)
(* come, and the ACK after it switches the toggle as if it had come; and   *)
(* the handler may run between the load and the store.                     *)
endp_rx_set_state(state) ==
  /\ InLoop
  /\ \/ user.holds /\ state = "ACK" /\ UNCHANGED budget
     \/ ~(user.holds /\ state = "ACK") /\ CallsFreely
  /\ rx' = [rx EXCEPT !.state = state]
  /\ user' = [user EXCEPT !.holds = (state # "ACK"), !.pc = "load"]
  /\ strayed' = (strayed \/ ~user.holds)
  /\ UNCHANGED <<tx, pause, given, completed, delivered, host>>

RxStateLoad ==
  /\ user.pc = "load"
  /\ user' = [user EXCEPT !.pc = "store", !.res = rx.res, !.tog = rx.tog]
  /\ UNCHANGED <<rx, tx, pause, given, completed, delivered, host, strayed, budget>>

RxStateStore ==
  LET new == usb2_endp_rx_set_state_callback(rx.state, user.res, user.tog) IN
  /\ user.pc = "store"
  /\ rx' = [rx EXCEPT !.res = new.res, !.tog = new.tog]
  /\ user' = [NotCalling EXCEPT !.holds = user.holds]
  /\ UNCHANGED <<tx, pause, given, completed, delivered, host, strayed, budget>>

-----------------------------------------------------------------------------
(* An OUT transaction.  A good packet goes to rx_callback, which answers   *)
(* ACK, or NAK or STALL and keeps the buffer for the main loop.  A host    *)
(* that meets a STALL tries again, with or without CLEAR_FEATURE.          *)
HostOut(lost) ==
  /\ Interruptible /\ rx.res = "ACK" /\ host.n <= MaxOut
  /\ \/ /\ rx.tog = host.out
        /\ delivered' = Append(delivered, host.n)
        /\ \E state \in Answers :
             /\ rx' = usb2_out_transfer_handler(rx, state)
             /\ user' = [user EXCEPT !.holds = (state # "ACK")]
     \/ /\ rx.tog # host.out
        /\ UNCHANGED <<rx, user, delivered>>
  /\ \/ /\ ~lost
        /\ host' = [host EXCEPT !.n = @ + 1, !.out = 1 - @, !.acked = Append(@, host.n)]
        /\ UNCHANGED budget
     \/ /\ lost /\ budget.loss > 0
        /\ budget' = [budget EXCEPT !.loss = @ - 1]
        /\ UNCHANGED host
  /\ UNCHANGED <<tx, pause, given, completed, strayed>>

(* What the controller sends, and the host takes if the toggle is right.   *)
Sent == [i \in 1..tx.len |-> [buf |-> tx.buf, off |-> tx.off + i - 1]]
HostTakes == IF tx.tog = host.in
             THEN [host EXCEPT !.in = 1 - @, !.got = @ \o Sent] ELSE host

(* tx_complete, and what the user does in it: nothing or send the next     *)
(* buffer, and nothing or call endp_rx_set_state; RX_CTRL, loaded before,  *)
(* is stored again after it, so of that call only .state remains.          *)
SendsNext(t) ==
  \/ /\ tx' = [t EXCEPT !.off = 0]
     /\ UNCHANGED given
  \/ \E size \in Accepted :
       /\ Len(given) < MaxTx
       /\ given' = Append(given, size)
       /\ tx' = usb2_endp_tx_ready(t, Len(given) + 1, size)

SetsRxState ==
  \/ UNCHANGED <<rx, user, strayed, budget>>
  \/ \E state \in Answers :
       /\ CallsFreely
       /\ rx' = [rx EXCEPT !.state = state]
       /\ user' = [user EXCEPT !.holds = (state # "ACK")]
       /\ strayed' = TRUE

TxComplete(t) ==
  /\ completed' = Append(completed, t.buf)
  /\ SendsNext(t) /\ SetsRxState

(* An IN transaction and usb2_in_transfer_handler; when the host's ACK is  *)
(* lost there is no interrupt.                                             *)
HostIn(lost) ==
  /\ Interruptible /\ tx.res = "ACK"
  /\ host' = HostTakes
  /\ \/ /\ ~lost /\ PacketLen(tx) = tx.remaining
        /\ TxComplete(LastPacket(tx))
     \/ /\ ~lost /\ PacketLen(tx) # tx.remaining
        /\ tx' = NextPacket(tx)
        /\ UNCHANGED <<rx, user, given, completed, strayed, budget>>
     \/ /\ lost /\ budget.loss > 0
        /\ budget' = [budget EXCEPT !.loss = @ - 1]
        /\ UNCHANGED <<rx, tx, user, given, completed, strayed>>
  /\ UNCHANGED <<pause, delivered>>

(* A bus reset or SET_CONFIGURATION: both sides start again with DATA0;    *)
(* the host gives up the packet it was sending, the user the buffer it was *)
(* holding back.  An endpoint that the user holds keeps its .state, and    *)
(* the ACK that gives it back will switch the new toggle.                  *)
Reset ==
  /\ budget.reset > 0 /\ Interruptible
  /\ ResetResumed \/ tx.state = "NAK"
  /\ rx' = SetupRx(rx) /\ tx' = SetupTx(tx) /\ pause' = [pause EXCEPT !.on = FALSE]
  /\ completed' = <<>>
  /\ host' = [host EXCEPT !.n = @ + 1, !.out = 0, !.in = 0, !.got = <<>>]
  /\ strayed' = (strayed \/ user.holds \/ user.pc # "idle")
  /\ budget' = [budget EXCEPT !.reset = @ - 1]
  /\ UNCHANGED <<user, given, delivered>>

(* CLEAR_FEATURE(ENDPOINT_HALT) of one side: the host starts again with    *)
(* DATA0, the driver does nothing.                                         *)
ClearHalt ==
  /\ budget.clear > 0
  /\ \/ /\ host' = [host EXCEPT !.out = 0]
        /\ strayed' = (strayed \/ host.out = 1)
     \/ /\ ClearAnyTime \/ host.in = 0
        /\ host' = [host EXCEPT !.in = 0]
        /\ UNCHANGED strayed
  /\ budget' = [budget EXCEPT !.clear = @ - 1]
  /\ UNCHANGED <<rx, tx, user, pause, given, completed, delivered>>

(* What the user does not fail to do: give back what it holds or keeps     *)
(* back, and finish the calls it has begun.                                *)
MainLoop == \/ user.holds /\ endp_rx_set_state("ACK")
            \/ RxStateLoad \/ RxStateStore
            \/ endp_tx_set_state("ACK") \/ TxStateStore

Next ==
  \/ \E size \in Accepted : endp_tx_set_new_buffer(size)
  \/ \E state \in Answers : endp_rx_set_state(state)
  \/ MainLoop \/ endp_tx_set_state("NAK")
  \/ \E lost \in BOOLEAN : HostOut(lost) \/ HostIn(lost)
  \/ Reset \/ ClearHalt

(* The main loop gives the endpoint back, the host goes on polling.        *)
Spec == /\ Init /\ [][Next]_vars
        /\ WF_vars(MainLoop) /\ WF_vars(HostOut(FALSE)) /\ WF_vars(HostIn(FALSE))

-----------------------------------------------------------------------------
(* "Called by the usb backend when data has been received on the           *)
(* endpoint": every packet the host saw acknowledged was given to          *)
(* rx_callback, each once and in order, whatever handshakes were lost,     *)
(* however long the user held the endpoint at NAK or STALL and however     *)
(* often it said so again.  Until something strayed: endp_rx_set_state     *)
(* "will affect the next received OUT request" on an endpoint the user     *)
(* does not hold, too, but NAK and then ACK switches the toggle with no    *)
(* packet between, and the next packet is acknowledged and dropped; so is  *)
(* one after a reset, or a CLEAR_FEATURE, that found the endpoint held or  *)
(* at DATA1.                                                               *)
AckedIsDelivered ==
  ~strayed => /\ \A i, j \in 1..Len(delivered) : i < j => delivered[i] < delivered[j]
              /\ Range(host.acked) \subseteq Range(delivered)

(* rx_callback keeps its buffer by answering NAK or STALL: until the main  *)
(* loop gives it back the controller stores no further packet in it.  (A   *)
(* call that strayed may be undone by a handler that runs inside it.)      *)
HeldIsQuiet == ~strayed /\ user.holds => rx.res # "ACK"

(* "Called by the backend when it has confirmed data has been sent": what  *)
(* the host has taken since the last reset is the completed buffers, whole *)
(* and in order, and a beginning of the one under way.                     *)
BuffersArriveWhole ==
  LET done == FlattenSeq([i \in 1..Len(completed) |-> Buffer(completed[i])])
      now == IF tx.res = "ACK" \/ pause.on \/ pause.storing THEN done \o Buffer(tx.buf) ELSE done
  IN  IsPrefix(done, host.got) /\ IsPrefix(host.got, now)

(* The ACK of a call in tx_complete that never reached RX_CTRL.            *)
Forgotten == strayed /\ rx.state = "ACK" /\ rx.res # "ACK"

(* Nobody waits for ever: in the end the host got rid of all its packets   *)
(* and every buffer was sent, unless a reset took it away.  The exception  *)
(* is an endp_rx_set_state(ACK) in tx_complete, which the handler that     *)
(* called it undoes.                                                       *)
EverythingMoves ==
  <>[]((host.n > MaxOut \/ Forgotten) /\ tx.res = "NAK" /\ ~pause.on)
=============================================================================
