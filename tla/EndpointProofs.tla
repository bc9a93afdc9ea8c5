--------------------------- MODULE EndpointProofs ---------------------------
(***************************************************************************)
(* Both directions of a data endpoint, for every packet size, any buffers  *)
(* and any number of packets and resets: first of usb2.c (Usb2Endpoint),   *)
(* with lost handshakes, then of usb30.c (Usb3Endpoint), with bursts.      *)
(*                                                                         *)
(* OUT (OutInv): RX_CTRL answers NAK or STALL from rx_callback's answer to *)
(* the last store of the endp_rx_set_state that gives the endpoint back,   *)
(* and the toggle the handler waits for tells whether it has the host's    *)
(* present packet already.  OutInv is lost where Usb2Endpoint says that    *)
(* something strayed, and each such step can lose or repeat a packet.      *)
(*                                                                         *)
(* IN (InInv): the host has the completed buffers and of the one under way *)
(* what lies before TX_DMA, and the packet there if it has moved its       *)
(* toggle on.  The conditions (SendsWholePackets) are at the theorem.      *)
(***************************************************************************)
EXTENDS Usb2Endpoint, BurstEndpoint, SequenceTheorems, WellFoundedInduction, TLAPS

Resp == {"ACK", "NAK"}      \* of the transmit direction; the other: Answers
Bit == {0, 1}
Byte == [buf : Nat, off : Nat]

Rx == [state : Answers, res : Answers, tog : Bit]
Tx == [state : Resp, res : Resp, tog : Bit, len : Nat, remaining : Nat, buf : Nat, off : Nat]
User == [holds : BOOLEAN, pc : {"idle", "load", "store"}, res : Answers, tog : Bit]
Pause == [on : BOOLEAN, storing : BOOLEAN, tog : Bit]
Host == [n : Nat, out : Bit, acked : Seq(Nat), in : Bit, got : Seq(Byte)]

TypeOK ==
  /\ rx \in Rx /\ tx \in Tx /\ user \in User /\ pause \in Pause /\ host \in Host
  /\ given \in Seq(Nat) /\ completed \in Seq(Nat) /\ delivered \in Seq(Nat)
  /\ strayed \in BOOLEAN

-----------------------------------------------------------------------------
(* The operations on the registers, field by field.                        *)
LEMMA Bits == \A x \in Bit : 1 - x \in Bit /\ 1 - (1 - x) = x /\ 1 - x # x
BY DEF Bit

LEMMA RxHandled ==
  ASSUME NEW r \in Rx, NEW state \in Answers
  PROVE  LET q == usb2_out_transfer_handler(r, state) IN
         /\ q \in Rx /\ q.state = state /\ q.res = state
         /\ q.tog = IF state = "ACK" THEN 1 - r.tog ELSE r.tog
<1>1. r.tog \in Bit /\ 1 - r.tog \in Bit
  BY Bits DEF Rx
<1> QED
  BY <1>1 DEF usb2_out_transfer_handler, Rx

LEMMA RxStored ==
  ASSUME NEW r \in Rx, NEW res \in Answers, NEW tog \in Bit
  PROVE  LET c == usb2_endp_rx_set_state_callback(r.state, res, tog)
             q == [r EXCEPT !.res = c.res, !.tog = c.tog]
         IN  /\ q \in Rx /\ q.state = r.state /\ q.res = r.state
             /\ q.tog = IF res # "ACK" /\ r.state = "ACK" THEN 1 - tog ELSE tog
<1> DEFINE c == usb2_endp_rx_set_state_callback(r.state, res, tog)
<1>1. 1 - tog \in Bit /\ r.state \in Answers
  BY Bits DEF Rx
<1>2. c.res = r.state /\ c.tog = IF res # "ACK" /\ r.state = "ACK" THEN 1 - tog ELSE tog
  BY DEF usb2_endp_rx_set_state_callback
<1>3. c.tog \in Bit
  BY <1>1, <1>2
<1> HIDE DEF c
<1>4. LET q == [r EXCEPT !.res = c.res, !.tog = c.tog] IN
      q \in Rx /\ q.state = r.state /\ q.res = c.res /\ q.tog = c.tog
  BY <1>1, <1>2, <1>3 DEF Rx
<1> QED
  BY <1>2, <1>4 DEF c

LEMMA RxSetUp ==
  ASSUME NEW r \in Rx
  PROVE  SetupRx(r) \in Rx /\ SetupRx(r).state = r.state /\ SetupRx(r).res = r.state /\ SetupRx(r).tog = 0
BY DEF SetupRx, Rx, Bit

LEMMA TxSetUp ==
  ASSUME NEW t \in Tx
  PROVE  LET q == SetupTx(t) IN
         q \in Tx /\ q.state = t.state /\ q.res = t.state /\ q.tog = 0
BY DEF SetupTx, Tx, Bit

LEMMA TxReady ==
  ASSUME NEW t \in Tx, NEW b \in Nat, NEW size \in Nat
  PROVE  LET q == usb2_endp_tx_ready(t, b, size) IN
         /\ q \in Tx /\ q.state = t.state /\ q.res = "ACK" /\ q.tog = t.tog
         /\ q.remaining = size /\ q.buf = b /\ q.off = 0 /\ q.len = Min2(size, Mps)
<1>1. Min2(size, Mps) \in Nat
  BY EndpointAssumption DEF Min2
<1> QED
  BY <1>1 DEF usb2_endp_tx_ready, Tx, Resp

LEMMA TxLast ==
  ASSUME NEW t \in Tx
  PROVE  LET q == LastPacket(t) IN
         /\ q \in Tx /\ q.state = t.state /\ q.res = "NAK" /\ q.tog = 1 - t.tog /\ q.buf = t.buf
         /\ [q EXCEPT !.off = 0] \in Tx
         /\ [q EXCEPT !.off = 0].state = t.state /\ [q EXCEPT !.off = 0].res = "NAK"
         /\ [q EXCEPT !.off = 0].tog = 1 - t.tog
<1>1. 1 - t.tog \in Bit
  BY Bits DEF Tx
<1> QED
  BY <1>1 DEF LastPacket, Tx, Resp

LEMMA TxNext ==
  ASSUME NEW t \in Tx
  PROVE  LET q == NextPacket(t) IN
         /\ q \in Tx /\ q.state = t.state /\ q.res = t.res /\ q.tog = 1 - t.tog /\ q.buf = t.buf
         /\ q.remaining = t.remaining - PacketLen(t) /\ q.off = t.off + PacketLen(t) /\ q.len = t.len
<1>1. 1 - t.tog \in Bit
  BY Bits DEF Tx
<1>2. t.remaining - PacketLen(t) \in Nat /\ t.off + PacketLen(t) \in Nat
  BY EndpointAssumption DEF Tx, PacketLen, Min2
<1> HIDE DEF PacketLen
<1> QED
  BY <1>1, <1>2 DEF NextPacket, Tx

LEMMA TxStored ==
  ASSUME NEW t \in Tx, NEW tog \in Bit
  PROVE  LET q == usb2_endp_tx_set_state_callback(t, tog) IN
         /\ q \in Tx /\ q.state = t.state /\ q.res = t.state /\ q.tog = tog
         /\ q.len = t.len /\ q.remaining = t.remaining /\ q.buf = t.buf /\ q.off = t.off
BY DEF usb2_endp_tx_set_state_callback, Tx

LEMMA SentBytes ==
  ASSUME TypeOK
  PROVE  Sent \in Seq(Byte) /\ Len(Sent) = tx.len /\ tx.len \in Nat
         /\ \A i \in 1..tx.len : Sent[i] = [buf |-> tx.buf, off |-> tx.off + i - 1]
<1>1. tx.len \in Nat /\ tx.buf \in Nat /\ tx.off \in Nat
  BY DEF TypeOK, Tx
<1>2. \A i \in 1..tx.len : tx.off + i - 1 \in Nat
  BY <1>1
<1>3. \A i \in 1..tx.len : [buf |-> tx.buf, off |-> tx.off + i - 1] \in Byte
  BY <1>1, <1>2 DEF Byte
<1> QED
  BY <1>1, <1>3 DEF Sent

(* What the host knows of the packets it sends does not change as it takes *)
(* one.                                                                    *)
LEMMA HostTaken ==
  ASSUME TypeOK
  PROVE  /\ HostTakes \in Host
         /\ HostTakes.n = host.n /\ HostTakes.out = host.out /\ HostTakes.acked = host.acked
         /\ tx.tog = host.in => HostTakes.in = 1 - host.in /\ HostTakes.got = host.got \o Sent
         /\ tx.tog # host.in => HostTakes = host
<1>1. host \in Host /\ host.in \in Bit /\ host.got \in Seq(Byte)
  BY DEF TypeOK, Host
<1>2. 1 - host.in \in Bit /\ host.got \o Sent \in Seq(Byte)
  BY <1>1, Bits, SentBytes
<1>3. CASE tx.tog = host.in
  <2>1. HostTakes = [host EXCEPT !.in = 1 - @, !.got = @ \o Sent]
    BY <1>3 DEF HostTakes
  <2> HIDE DEF Sent, HostTakes
  <2> QED
    BY <1>1, <1>2, <1>3, <2>1 DEF Host
<1>4. CASE tx.tog # host.in
  <2>1. HostTakes = host
    BY <1>4 DEF HostTakes
  <2> QED
    BY <1>1, <1>4, <2>1
<1> QED
  BY <1>3, <1>4

LEMMA HostAcked ==
  ASSUME NEW h \in Host, NEW g, g = [h EXCEPT !.n = @ + 1, !.out = 1 - @, !.acked = Append(@, h.n)]
  PROVE  /\ g \in Host /\ g.n = h.n + 1 /\ g.out = 1 - h.out /\ g.acked = Append(h.acked, h.n)
         /\ g.in = h.in /\ g.got = h.got
<1>1. h.n + 1 \in Nat /\ 1 - h.out \in Bit /\ Append(h.acked, h.n) \in Seq(Nat)
  BY Bits DEF Host
<1> QED
  BY <1>1 DEF Host

-----------------------------------------------------------------------------
(* The steps, field by field.                                              *)
LEMMA OutDoes ==
  ASSUME TypeOK, NEW lost \in BOOLEAN, HostOut(lost)
  PROVE  /\ rx.res = "ACK" /\ Interruptible /\ UNCHANGED <<tx, pause, given, completed, strayed>>
         /\ rx' \in Rx /\ user' \in User /\ host' \in Host /\ delivered' \in Seq(Nat)
         /\ \/ /\ rx.tog = host.out /\ delivered' = Append(delivered, host.n)
               /\ user'.pc = user.pc
               /\ \/ /\ rx'.state = "ACK" /\ rx'.res = "ACK" /\ rx'.tog = 1 - rx.tog /\ ~user'.holds
                  \/ /\ rx'.state # "ACK" /\ rx'.res # "ACK" /\ rx'.tog = rx.tog /\ user'.holds
            \/ rx.tog # host.out /\ UNCHANGED <<rx, user, delivered>>
         /\ host'.in = host.in /\ host'.got = host.got
         /\ \/ /\ host'.n = host.n + 1 /\ host'.out = 1 - host.out
               /\ host'.acked = Append(host.acked, host.n)
            \/ UNCHANGED host
<1>1. rx \in Rx /\ user \in User /\ host \in Host /\ host.n \in Nat /\ delivered \in Seq(Nat)
  BY DEF TypeOK, Host
<1>2. rx.res = "ACK" /\ Interruptible /\ UNCHANGED <<tx, pause, given, completed, strayed>>
  BY DEF HostOut
<1>3. /\ host' \in Host /\ host'.in = host.in /\ host'.got = host.got
      /\ \/ /\ host'.n = host.n + 1 /\ host'.out = 1 - host.out
            /\ host'.acked = Append(host.acked, host.n)
         \/ UNCHANGED host
  <2>1. \/ host' = [host EXCEPT !.n = @ + 1, !.out = 1 - @, !.acked = Append(@, host.n)]
        \/ UNCHANGED host
    BY DEF HostOut
  <2> QED
    BY <1>1, <2>1, HostAcked
<1>4. CASE rx.tog # host.out
  BY <1>1, <1>2, <1>3, <1>4 DEF HostOut
<1>5. CASE rx.tog = host.out
  <2>1. PICK state \in Answers : /\ rx' = usb2_out_transfer_handler(rx, state)
                                 /\ user' = [user EXCEPT !.holds = (state # "ACK")]
    BY <1>5 DEF HostOut
  <2>2. /\ rx' \in Rx /\ rx'.state = state /\ rx'.res = state
        /\ rx'.tog = IF state = "ACK" THEN 1 - rx.tog ELSE rx.tog
    BY <1>1, <2>1, RxHandled
  <2>3. user' \in User /\ user'.pc = user.pc
    BY <1>1, <2>1 DEF User
  <2>4. user'.holds <=> state # "ACK"
    BY <1>1, <2>1 DEF User
  <2>5. delivered' = Append(delivered, host.n) /\ delivered' \in Seq(Nat)
    <3>1. delivered' = Append(delivered, host.n)
      BY <1>5 DEF HostOut
    <3> QED
      BY <1>1, <3>1
  <2>6. CASE state = "ACK"
    BY <1>2, <1>3, <1>5, <2>2, <2>3, <2>4, <2>5, <2>6
  <2>7. CASE state # "ACK"
    BY <1>2, <1>3, <1>5, <2>2, <2>3, <2>4, <2>5, <2>7
  <2> QED
    BY <2>6, <2>7
<1> QED
  BY <1>4, <1>5

(* A buffer is complete: the user has no other, or the next one goes out.  *)
LEMMA CompleteDoes ==
  ASSUME TypeOK, TxComplete(LastPacket(tx))
  PROVE  /\ rx' \in Rx /\ user' \in User /\ (~strayed' => UNCHANGED <<rx, user>>)
         /\ strayed' \in {strayed, TRUE}
         /\ tx' \in Tx /\ tx'.state = tx.state /\ tx'.tog = 1 - tx.tog
         /\ completed' = Append(completed, tx.buf) /\ completed' \in Seq(Nat)
         /\ given' \in Seq(Nat)
         /\ \/ tx'.res = "NAK" /\ UNCHANGED given
            \/ \E size \in Accepted :
                 /\ given' = Append(given, size)
                 /\ tx'.res = "ACK" /\ tx'.remaining = size /\ tx'.buf = Len(given) + 1
                 /\ tx'.off = 0 /\ tx'.len = Min2(size, Mps)
<1>1. tx \in Tx /\ given \in Seq(Nat) /\ completed \in Seq(Nat) /\ tx.buf \in Nat
  BY DEF TypeOK, Tx
<1> DEFINE q == LastPacket(tx)
<1>2. /\ q \in Tx /\ q.state = tx.state /\ q.res = "NAK" /\ q.tog = 1 - tx.tog /\ q.buf = tx.buf
      /\ [q EXCEPT !.off = 0] \in Tx
      /\ [q EXCEPT !.off = 0].state = tx.state /\ [q EXCEPT !.off = 0].res = "NAK"
      /\ [q EXCEPT !.off = 0].tog = 1 - tx.tog
  BY <1>1, TxLast
<1> HIDE DEF q
<1>3. TxComplete(q)
  BY DEF q
<1>4. /\ completed' = Append(completed, tx.buf) /\ completed' \in Seq(Nat)
  BY <1>1, <1>2, <1>3 DEF TxComplete
<1>7. rx' \in Rx /\ user' \in User /\ strayed' \in {strayed, TRUE} /\ (~strayed' => UNCHANGED <<rx, user>>)
  <2>1. rx \in Rx /\ user \in User
    BY DEF TypeOK
  <2>2. CASE UNCHANGED <<rx, user, strayed>>
    BY <2>1, <2>2
  <2>3. ASSUME NEW state \in Answers, rx' = [rx EXCEPT !.state = state],
               user' = [user EXCEPT !.holds = (state # "ACK")], strayed' = TRUE
        PROVE  rx' \in Rx /\ user' \in User
    BY <2>1, <2>3 DEF Rx, User
  <2> QED
    BY <1>3, <2>2, <2>3 DEF TxComplete, SetsRxState
<1>5. CASE tx' = [q EXCEPT !.off = 0] /\ UNCHANGED given
  BY <1>1, <1>2, <1>4, <1>5, <1>7
<1>6. ASSUME NEW size \in Accepted, given' = Append(given, size),
             tx' = usb2_endp_tx_ready(q, Len(given) + 1, size)
      PROVE  /\ given' \in Seq(Nat) /\ tx' \in Tx /\ tx'.state = tx.state /\ tx'.tog = 1 - tx.tog
             /\ tx'.res = "ACK" /\ tx'.remaining = size /\ tx'.buf = Len(given) + 1
             /\ tx'.off = 0 /\ tx'.len = Min2(size, Mps)
  <2>1. size \in Nat /\ Len(given) + 1 \in Nat
    BY <1>1, EndpointAssumption DEF Accepted
  <2>2. Append(given, size) \in Seq(Nat)
    BY <1>1, <2>1
  <2> QED
    BY <1>2, <1>6, <2>1, <2>2, TxReady
<1> QED
  BY <1>3, <1>4, <1>5, <1>6, <1>7 DEF TxComplete, SendsNext

LEMMA InDoes ==
  ASSUME TypeOK, NEW lost \in BOOLEAN, HostIn(lost)
  PROVE  /\ Interruptible /\ tx.res = "ACK" /\ host' = HostTakes
         /\ rx' \in Rx /\ user' \in User /\ (~strayed' => UNCHANGED <<rx, user>>)
         /\ strayed' \in {strayed, TRUE} /\ UNCHANGED <<pause, delivered>>
         /\ \/ PacketLen(tx) = tx.remaining /\ TxComplete(LastPacket(tx))
            \/ /\ PacketLen(tx) # tx.remaining /\ tx' = NextPacket(tx)
               /\ UNCHANGED <<given, completed>>
            \/ UNCHANGED <<tx, given, completed>>
<1>1. rx \in Rx /\ user \in User
  BY DEF TypeOK
<1> QED
  BY <1>1, CompleteDoes DEF HostIn

LEMMA NewBufferDoes ==
  ASSUME TypeOK, NEW size \in Accepted, endp_tx_set_new_buffer(size)
  PROVE  /\ NothingPending /\ given' = Append(given, size) /\ given' \in Seq(Nat)
         /\ tx' \in Tx /\ tx'.state = tx.state /\ tx'.tog = tx.tog
         /\ tx'.res = "ACK" /\ tx'.remaining = size /\ tx'.buf = Len(given) + 1
         /\ tx'.off = 0 /\ tx'.len = Min2(size, Mps)
         /\ UNCHANGED <<rx, user, pause, completed, delivered, host, strayed>>
<1>1. size \in Nat /\ Len(given) + 1 \in Nat /\ tx \in Tx /\ given \in Seq(Nat)
  BY EndpointAssumption DEF Accepted, TypeOK
<1>2. /\ NothingPending /\ given' = Append(given, size)
      /\ tx' = usb2_endp_tx_ready(tx, Len(given) + 1, size)
      /\ UNCHANGED <<rx, user, pause, completed, delivered, host, strayed>>
  BY DEF endp_tx_set_new_buffer
<1>3. Append(given, size) \in Seq(Nat)
  BY <1>1
<1>4. /\ tx' \in Tx /\ tx'.state = tx.state /\ tx'.tog = tx.tog
      /\ tx'.res = "ACK" /\ tx'.remaining = size /\ tx'.buf = Len(given) + 1
      /\ tx'.off = 0 /\ tx'.len = Min2(size, Mps)
  <2> DEFINE b == Len(given) + 1
             q == usb2_endp_tx_ready(tx, b, size)
  <2>1. b \in Nat /\ tx' = q
    BY <1>1, <1>2
  <2> HIDE DEF b
  <2>2. /\ q \in Tx /\ q.state = tx.state /\ q.res = "ACK" /\ q.tog = tx.tog
        /\ q.remaining = size /\ q.buf = b /\ q.off = 0 /\ q.len = Min2(size, Mps)
    BY <1>1, <2>1, TxReady
  <2> HIDE DEF q
  <2> QED
    BY <2>1, <2>2 DEF b
<1> QED
  BY <1>2, <1>3, <1>4

LEMMA TxSetStateDoes ==
  ASSUME TypeOK, NEW state \in Resp, endp_tx_set_state(state)
  PROVE  /\ ~pause.storing /\ UNCHANGED <<rx, user, given, completed, delivered, host, strayed>>
         /\ \/ state = "NAK" /\ tx.res = "ACK" /\ ~pause.on
            \/ state = "ACK" /\ pause.on
         /\ tx' \in Tx /\ tx'.state = state /\ tx'.res = tx.res /\ tx'.tog = tx.tog
         /\ tx'.len = tx.len /\ tx'.remaining = tx.remaining /\ tx'.buf = tx.buf /\ tx'.off = tx.off
         /\ pause' \in Pause /\ (pause'.on <=> state = "NAK") /\ pause'.storing /\ pause'.tog = tx.tog
<1>1. tx \in Tx /\ tx.tog \in Bit
  BY DEF TypeOK, Tx
<1>2. /\ tx' = [tx EXCEPT !.state = state]
      /\ pause' = [on |-> state = "NAK", storing |-> TRUE, tog |-> tx.tog]
  BY DEF endp_tx_set_state
<1>3. /\ tx' \in Tx /\ tx'.state = state /\ tx'.res = tx.res /\ tx'.tog = tx.tog
      /\ tx'.len = tx.len /\ tx'.remaining = tx.remaining /\ tx'.buf = tx.buf /\ tx'.off = tx.off
  BY <1>1, <1>2 DEF Tx
<1>4. pause' \in Pause /\ (pause'.on <=> state = "NAK") /\ pause'.storing /\ pause'.tog = tx.tog
  BY <1>1, <1>2 DEF Pause
<1> QED
  BY <1>3, <1>4 DEF endp_tx_set_state, InLoop

LEMMA TxStoreDoes ==
  ASSUME TypeOK, TxStateStore
  PROVE  /\ pause.storing /\ UNCHANGED <<rx, user, given, completed, delivered, host, strayed>>
         /\ tx' \in Tx /\ tx'.state = tx.state /\ tx'.res = tx.state /\ tx'.tog = pause.tog
         /\ tx'.len = tx.len /\ tx'.remaining = tx.remaining /\ tx'.buf = tx.buf /\ tx'.off = tx.off
         /\ pause' \in Pause /\ (pause'.on <=> pause.on) /\ ~pause'.storing
<1>1. tx \in Tx /\ pause \in Pause /\ pause.tog \in Bit
  BY DEF TypeOK, Pause
<1>2. /\ tx' = usb2_endp_tx_set_state_callback(tx, pause.tog)
      /\ pause' = [pause EXCEPT !.storing = FALSE]
  BY DEF TxStateStore
<1>3. pause' \in Pause /\ (pause'.on <=> pause.on) /\ ~pause'.storing
  BY <1>1, <1>2 DEF Pause
<1> QED
  BY <1>1, <1>2, <1>3, TxStored DEF TxStateStore

LEMMA ResetDoes ==
  ASSUME TypeOK, Reset
  PROVE  /\ Interruptible /\ (strayed' <=> strayed \/ user.holds \/ user.pc # "idle")
         /\ (ResetResumed \/ tx.state = "NAK")
         /\ rx' \in Rx /\ rx'.state = rx.state /\ rx'.res = rx.state /\ rx'.tog = 0
         /\ tx' \in Tx /\ tx'.state = tx.state /\ tx'.res = tx.state /\ tx'.tog = 0
         /\ pause' \in Pause /\ ~pause'.on /\ (pause'.storing <=> pause.storing)
         /\ completed' = <<>> /\ UNCHANGED <<user, given, delivered>>
         /\ host' \in Host /\ host'.n = host.n + 1 /\ host'.out = 0 /\ host'.in = 0 /\ host'.got = <<>>
         /\ host'.acked = host.acked
<1>1. rx \in Rx /\ tx \in Tx /\ pause \in Pause /\ host \in Host
  BY DEF TypeOK
<1>2. host.n + 1 \in Nat /\ <<>> \in Seq(Byte) /\ 0 \in Bit
  BY <1>1 DEF Host, Bit
<1>3. host' = [host EXCEPT !.n = @ + 1, !.out = 0, !.in = 0, !.got = <<>>]
  BY DEF Reset
<1>4. /\ host' \in Host /\ host'.n = host.n + 1 /\ host'.out = 0 /\ host'.in = 0 /\ host'.got = <<>>
      /\ host'.acked = host.acked
  BY <1>1, <1>2, <1>3 DEF Host
<1>5. pause' \in Pause /\ ~pause'.on /\ (pause'.storing <=> pause.storing)
  BY <1>1 DEF Reset, Pause
<1>6. rx' = SetupRx(rx) /\ tx' = SetupTx(tx)
  BY DEF Reset
<1> QED
  BY <1>1, <1>4, <1>5, <1>6, RxSetUp, TxSetUp DEF Reset

LEMMA ClearDoes ==
  ASSUME TypeOK, ClearHalt
  PROVE  /\ UNCHANGED <<rx, tx, user, pause, given, completed, delivered>>
         /\ host' \in Host /\ host'.n = host.n /\ host'.got = host.got /\ host'.acked = host.acked
         /\ strayed' \in {strayed, TRUE} /\ (~strayed' => host'.out = host.out)
         /\ ClearAnyTime = FALSE => host'.in = host.in
<1>1. host \in Host /\ host.out \in Bit /\ 0 \in Bit
  BY DEF TypeOK, Host, Bit
<1>2. CASE host' = [host EXCEPT !.out = 0] /\ strayed' = (strayed \/ host.out = 1)
  <2>1. /\ host' \in Host /\ host'.n = host.n /\ host'.got = host.got /\ host'.acked = host.acked
        /\ host'.in = host.in /\ host'.out = 0
    BY <1>1, <1>2 DEF Host
  <2>2. strayed' \in {strayed, TRUE} /\ (~strayed' => host.out = 0)
    BY <1>1, <1>2 DEF Bit, TypeOK
  <2> QED
    BY <2>1, <2>2 DEF ClearHalt
<1>3. CASE /\ ClearAnyTime \/ host.in = 0
           /\ host' = [host EXCEPT !.in = 0] /\ UNCHANGED strayed
  <2>1. /\ host' \in Host /\ host'.n = host.n /\ host'.got = host.got /\ host'.acked = host.acked
        /\ host'.in = 0 /\ host'.out = host.out
    BY <1>1, <1>3 DEF Host
  <2> QED
    BY <1>3, <2>1 DEF ClearHalt
<1> QED
  BY <1>2, <1>3 DEF ClearHalt

(* endp_rx_set_state and its parts.                                        *)
LEMMA RxSetStateDoes ==
  ASSUME TypeOK, NEW state \in Answers, endp_rx_set_state(state)
  PROVE  /\ user.pc = "idle" /\ (strayed' <=> strayed \/ ~user.holds)
         /\ UNCHANGED <<tx, pause, given, completed, delivered, host>>
         /\ rx' \in Rx /\ rx'.state = state /\ rx'.res = rx.res /\ rx'.tog = rx.tog
         /\ user' \in User /\ (user'.holds <=> state # "ACK") /\ user'.pc = "load"
<1>1. rx \in Rx /\ user \in User
  BY DEF TypeOK
<1>2. rx' \in Rx /\ rx'.state = state /\ rx'.res = rx.res /\ rx'.tog = rx.tog
  BY <1>1 DEF endp_rx_set_state, Rx
<1>3. user' \in User /\ (user'.holds <=> state # "ACK") /\ user'.pc = "load"
  BY <1>1 DEF endp_rx_set_state, User
<1> QED
  BY <1>2, <1>3 DEF endp_rx_set_state, InLoop

LEMMA RxLoadDoes ==
  ASSUME TypeOK, RxStateLoad
  PROVE  /\ user.pc = "load" /\ UNCHANGED <<rx, tx, pause, given, completed, delivered, host, strayed>>
         /\ user' \in User /\ (user'.holds <=> user.holds) /\ user'.pc = "store"
         /\ user'.res = rx.res /\ user'.tog = rx.tog
<1>1. rx \in Rx /\ user \in User /\ rx.res \in Answers /\ rx.tog \in Bit
  BY DEF TypeOK, Rx
<1>2. /\ user' \in User /\ (user'.holds <=> user.holds) /\ user'.pc = "store"
      /\ user'.res = rx.res /\ user'.tog = rx.tog
  BY <1>1 DEF RxStateLoad, User
<1> QED
  BY <1>2 DEF RxStateLoad

LEMMA RxStoreDoes ==
  ASSUME TypeOK, RxStateStore
  PROVE  /\ user.pc = "store" /\ UNCHANGED <<tx, pause, given, completed, delivered, host, strayed>>
         /\ rx' \in Rx /\ rx'.state = rx.state /\ rx'.res = rx.state
         /\ rx'.tog = IF user.res # "ACK" /\ rx.state = "ACK" THEN 1 - user.tog ELSE user.tog
         /\ user' \in User /\ (user'.holds <=> user.holds) /\ user'.pc = "idle"
<1>1. rx \in Rx /\ user \in User /\ user.res \in Answers /\ user.tog \in Bit
  BY DEF TypeOK, User
<1>2. rx' = [rx EXCEPT !.res = usb2_endp_rx_set_state_callback(rx.state, user.res, user.tog).res,
                       !.tog = usb2_endp_rx_set_state_callback(rx.state, user.res, user.tog).tog]
  BY DEF RxStateStore
<1>3. user' \in User /\ (user'.holds <=> user.holds) /\ user'.pc = "idle"
  BY <1>1 DEF RxStateStore, NotCalling, User, Answers, Bit
<1>4. /\ rx' \in Rx /\ rx'.state = rx.state /\ rx'.res = rx.state
      /\ rx'.tog = IF user.res # "ACK" /\ rx.state = "ACK" THEN 1 - user.tog ELSE user.tog
  <2> DEFINE c == usb2_endp_rx_set_state_callback(rx.state, user.res, user.tog)
             q == [rx EXCEPT !.res = c.res, !.tog = c.tog]
  <2>1. rx' = q
    BY <1>2
  <2>2. /\ q \in Rx /\ q.state = rx.state /\ q.res = rx.state
        /\ q.tog = IF user.res # "ACK" /\ rx.state = "ACK" THEN 1 - user.tog ELSE user.tog
    BY <1>1, RxStored
  <2> HIDE DEF q
  <2> QED
    BY <2>1, <2>2
<1> QED
  BY <1>3, <1>4 DEF RxStateStore

LEMMA TypeInit == Init => TypeOK
<1> SUFFICES ASSUME Init PROVE TypeOK
  OBVIOUS
<1>1. rx \in Rx /\ tx \in Tx /\ user \in User /\ pause \in Pause
  BY DEF Init, Rx, Tx, User, Pause, NotCalling, Resp, Answers, Bit
<1>2. host \in Host
  BY DEF Init, Host, Bit
<1>3. strayed \in BOOLEAN
  BY DEF Init
<1> QED
  BY <1>1, <1>2, <1>3 DEF Init, TypeOK

LEMMA TypeNext == ASSUME TypeOK, [Next]_vars PROVE TypeOK'
<1>1. CASE UNCHANGED vars
  BY <1>1 DEF vars, TypeOK
<1>2. ASSUME NEW size \in Accepted, endp_tx_set_new_buffer(size) PROVE TypeOK'
  BY <1>2, NewBufferDoes DEF TypeOK
<1>10. ASSUME NEW state \in Answers, endp_rx_set_state(state) PROVE TypeOK'
  <2>1. strayed' \in BOOLEAN
    BY <1>10 DEF endp_rx_set_state
  <2> QED
    BY <1>10, <2>1, RxSetStateDoes DEF TypeOK
<1>3. CASE RxStateLoad \/ RxStateStore
  BY <1>3, RxLoadDoes, RxStoreDoes DEF TypeOK
<1>4. CASE endp_tx_set_state("ACK") \/ endp_tx_set_state("NAK")
  BY <1>4, TxSetStateDoes DEF TypeOK, Resp
<1>5. CASE TxStateStore
  BY <1>5, TxStoreDoes DEF TypeOK
<1>6. ASSUME NEW lost \in BOOLEAN, HostOut(lost) PROVE TypeOK'
  BY <1>6, OutDoes DEF TypeOK
<1>7. ASSUME NEW lost \in BOOLEAN, HostIn(lost) PROVE TypeOK'
  <2>1. /\ host' = HostTakes /\ rx' \in Rx /\ user' \in User /\ UNCHANGED <<pause, delivered>>
        /\ strayed' \in {strayed, TRUE}
        /\ \/ TxComplete(LastPacket(tx))
           \/ tx' = NextPacket(tx) /\ UNCHANGED <<given, completed>>
           \/ UNCHANGED <<tx, given, completed>>
    BY <1>7, InDoes
  <2>2. host' \in Host
    BY <2>1, HostTaken
  <2>3. tx' \in Tx /\ given' \in Seq(Nat) /\ completed' \in Seq(Nat)
    BY <2>1, CompleteDoes, TxNext DEF TypeOK
  <2> QED
    BY <2>1, <2>2, <2>3 DEF TypeOK
<1>8. CASE Reset
  <2>1. completed' \in Seq(Nat) /\ strayed' \in BOOLEAN
    BY <1>8, ResetDoes DEF Reset
  <2> QED
    BY <1>8, <2>1, ResetDoes DEF TypeOK
<1>9. CASE ClearHalt
  BY <1>9, ClearDoes DEF TypeOK
<1> QED
  BY <1>1, <1>2, <1>3, <1>4, <1>5, <1>6, <1>7, <1>8, <1>9, <1>10 DEF Next, MainLoop, Answers

-----------------------------------------------------------------------------
(* The receive direction: who has the buffer (the controller, the user, or *)
(* endp_rx_set_state on its way back) ...                                  *)
Ownership ==
  /\ user.holds <=> rx.state # "ACK"
  /\ rx.res # "ACK" <=> user.holds \/ user.pc # "idle"
  /\ user.pc = "store" => user.res # "ACK" /\ user.tog = rx.tog

(* ... and which packet the handler will take next: while the buffer is    *)
(* held the toggle has not moved yet.  It is the one the host sends, or    *)
(* the next one, when the host missed the ACK.                             *)
Expected == IF rx.res = "ACK" THEN rx.tog ELSE 1 - rx.tog

InStep ==
  /\ \A i \in 1..Len(delivered) : delivered[i] <= host.n
  /\ Expected = host.out => \A i \in 1..Len(delivered) : delivered[i] < host.n
  /\ Expected # host.out => \E i \in 1..Len(delivered) : delivered[i] = host.n

Increasing == \A i, j \in 1..Len(delivered) : i < j => delivered[i] < delivered[j]
AckedOnes == \A k \in 1..Len(host.acked) : \E i \in 1..Len(delivered) : delivered[i] = host.acked[k]

OutInv == Ownership /\ InStep /\ Increasing /\ AckedOnes

LEMMA OutInit == Init => OutInv
<1> SUFFICES ASSUME Init PROVE OutInv
  OBVIOUS
<1>1. ~user.holds /\ user.pc = "idle" /\ rx.state = "ACK" /\ rx.res = "ACK" /\ rx.tog = 0
  BY DEF Init, NotCalling
<1>2. delivered = <<>> /\ host.n = 1 /\ host.out = 0 /\ host.acked = <<>>
  BY DEF Init
<1> QED
  BY <1>1, <1>2 DEF OutInv, Ownership, InStep, Expected, Increasing, AckedOnes

LEMMA OutRests ==
  ASSUME OutInv, UNCHANGED <<rx, user, delivered>>,
         host'.n = host.n, host'.out = host.out, host'.acked = host.acked
  PROVE  OutInv'
BY DEF OutInv, Ownership, InStep, Expected, Increasing, AckedOnes

(* RX_CTRL answers NAK or STALL until the last store of endp_rx_set_state, *)
(* so what was loaded is still there when it is stored, and the toggle is  *)
(* switched when the endpoint is given back and not before.                *)
LEMMA RxSetStateKeeps ==
  ASSUME TypeOK, OutInv, NEW state \in Answers, endp_rx_set_state(state), ~strayed'
  PROVE  OutInv'
<1>1. /\ user.holds /\ UNCHANGED <<delivered, host>>
      /\ rx'.state = state /\ rx'.res = rx.res /\ rx'.tog = rx.tog
      /\ (user'.holds <=> state # "ACK") /\ user'.pc = "load"
  BY RxSetStateDoes
<1>2. Ownership'
  BY <1>1 DEF OutInv, Ownership
<1> QED
  BY <1>1, <1>2 DEF OutInv, InStep, Expected, Increasing, AckedOnes

LEMMA RxStoredKeeps ==
  ASSUME TypeOK, OutInv, RxStateLoad \/ RxStateStore
  PROVE  OutInv'
<1>1. CASE RxStateLoad
  <2>1. /\ user.pc = "load" /\ UNCHANGED <<rx, delivered, host>>
        /\ (user'.holds <=> user.holds) /\ user'.pc = "store"
        /\ user'.res = rx.res /\ user'.tog = rx.tog
    BY <1>1, RxLoadDoes
  <2>2. Ownership'
    BY <2>1 DEF OutInv, Ownership
  <2> QED
    BY <2>1, <2>2 DEF OutInv, InStep, Expected, Increasing, AckedOnes
<1>2. CASE RxStateStore
  <2>1. /\ user.pc = "store" /\ UNCHANGED <<delivered, host>>
        /\ rx'.state = rx.state /\ rx'.res = rx.state
        /\ rx'.tog = IF user.res # "ACK" /\ rx.state = "ACK" THEN 1 - user.tog ELSE user.tog
        /\ (user'.holds <=> user.holds) /\ user'.pc = "idle"
    BY <1>2, RxStoreDoes
  <2>2. rx.res # "ACK" /\ user.res # "ACK" /\ user.tog = rx.tog
    BY <2>1 DEF OutInv, Ownership
  <2>3. Ownership'
    BY <2>1 DEF OutInv, Ownership
  <2>4. Expected' = Expected
    <3>1. rx.tog \in Bit
      BY DEF TypeOK, Rx
    <3> QED
      BY <2>1, <2>2, <3>1, Bits DEF Expected
  <2> QED
    BY <2>1, <2>3, <2>4 DEF OutInv, InStep, Increasing, AckedOnes
<1> QED
  BY <1>1, <1>2

LEMMA HostOutKeeps ==
  ASSUME TypeOK, OutInv, NEW lost \in BOOLEAN, HostOut(lost)
  PROVE  OutInv'
<1>1. /\ host.n \in Nat /\ host.out \in Bit /\ rx.tog \in Bit /\ delivered \in Seq(Nat)
      /\ host.acked \in Seq(Nat) /\ Len(delivered) \in Nat /\ rx.res = "ACK" /\ Expected = rx.tog
      /\ ~user.holds /\ user.pc = "idle" /\ rx.state = "ACK"
  BY OutDoes DEF TypeOK, Host, Rx, Expected, OutInv, Ownership
<1>2. \A i \in 1..Len(delivered) : delivered[i] \in Nat
  BY <1>1
<1>3. \/ /\ host'.n = host.n + 1 /\ host'.out = 1 - host.out
         /\ host'.acked = Append(host.acked, host.n)
      \/ UNCHANGED host
  BY OutDoes
<1>4. CASE rx.tog # host.out
  <2>1. UNCHANGED <<rx, user, delivered>>
    BY <1>4, OutDoes
  <2>2. CASE UNCHANGED host
    BY <2>1, <2>2, OutRests
  <2>3. CASE /\ host'.n = host.n + 1 /\ host'.out = 1 - host.out
             /\ host'.acked = Append(host.acked, host.n)
    <3>1. Expected' = host'.out
      BY <1>1, <1>4, <2>1, <2>3 DEF Expected, Bit
    <3>2. \A i \in 1..Len(delivered) : delivered[i] < host'.n
      BY <1>1, <1>2, <2>3 DEF OutInv, InStep
    <3>3. \E i \in 1..Len(delivered) : delivered[i] = host.n
      BY <1>1, <1>4 DEF OutInv, InStep
    <3>4. AckedOnes'
      BY <1>1, <2>1, <2>3, <3>3 DEF OutInv, AckedOnes
    <3>5. InStep'
      BY <1>1, <1>2, <2>1, <2>3, <3>1, <3>2 DEF InStep
    <3> QED
      BY <2>1, <3>4, <3>5 DEF OutInv, Ownership, Increasing
  <2> QED
    BY <1>3, <2>2, <2>3
<1>5. CASE rx.tog = host.out
  <2>1. /\ delivered' = Append(delivered, host.n) /\ user'.pc = user.pc
        /\ \/ rx'.state = "ACK" /\ rx'.res = "ACK" /\ rx'.tog = 1 - rx.tog /\ ~user'.holds
           \/ rx'.state # "ACK" /\ rx'.res # "ACK" /\ rx'.tog = rx.tog /\ user'.holds
    BY <1>5, OutDoes
  <2>2. Ownership'
    BY <1>1, <2>1 DEF Ownership
  <2>3. Expected' = 1 - rx.tog /\ Expected' \in Bit
    BY <1>1, <2>1, Bits DEF Expected
  <2>4. /\ Len(delivered') = Len(delivered) + 1 /\ delivered'[Len(delivered) + 1] = host.n
        /\ \A i \in 1..Len(delivered) : delivered'[i] = delivered[i]
    BY <1>1, <2>1
  <2>5. \A i \in 1..Len(delivered) : delivered[i] < host.n
    BY <1>1, <1>5 DEF OutInv, InStep
  <2>6. ASSUME NEW i \in 1..Len(delivered'), NEW j \in 1..Len(delivered'), i < j
        PROVE  delivered'[i] < delivered'[j]
    <3>1. i \in 1..Len(delivered)
      BY <1>1, <2>4, <2>6
    <3>2. CASE j \in 1..Len(delivered)
      BY <2>4, <2>6, <3>1, <3>2 DEF OutInv, Increasing
    <3>3. CASE j = Len(delivered) + 1
      BY <2>4, <2>5, <3>1, <3>3
    <3>4. j \in 1..(Len(delivered) + 1)
      BY <2>4, <2>6
    <3>5. Len(delivered) \in Nat
      BY <1>1
    <3> QED
      BY <3>2, <3>3, <3>4, <3>5
  <2>7. \A i \in 1..Len(delivered') : delivered'[i] <= host.n
    BY <1>1, <1>2, <2>4, <2>5
  <2>8. AckedOnes'
    <3>1. \A k \in 1..Len(host.acked) : \E i \in 1..Len(delivered') : delivered'[i] = host.acked[k]
      BY <1>1, <2>4 DEF OutInv, AckedOnes
    <3>2. CASE UNCHANGED host
      BY <3>1, <3>2 DEF AckedOnes
    <3>3. CASE host'.acked = Append(host.acked, host.n)
      BY <1>1, <2>4, <3>1, <3>3 DEF AckedOnes
    <3> QED
      BY <1>3, <3>2, <3>3
  <2>9. InStep'
    <3>1. CASE UNCHANGED host
      <4>1. Expected' # host'.out
        BY <1>1, <1>5, <2>3, <3>1, Bits
      <4> QED
        BY <1>1, <2>4, <2>7, <3>1, <4>1 DEF InStep
    <3>2. CASE host'.n = host.n + 1 /\ host'.out = 1 - host.out
      <4>1. Expected' = host'.out
        BY <1>5, <2>3, <3>2
      <4>2. \A i \in 1..Len(delivered') : delivered'[i] < host'.n
        <5> TAKE i \in 1..Len(delivered')
        <5>1. CASE i \in 1..Len(delivered)
          <6>1. delivered'[i] < host.n /\ delivered'[i] \in Nat
            BY <1>2, <2>4, <2>5, <5>1
          <6> QED
            BY <1>1, <3>2, <6>1
        <5>2. CASE i = Len(delivered) + 1
          BY <1>1, <2>4, <3>2, <5>2
        <5> QED
          BY <1>1, <2>4, <5>1, <5>2
      <4>3. \A i \in 1..Len(delivered') : delivered'[i] \in Nat
        BY <1>1, <1>2, <2>4
      <4> QED
        BY <1>1, <3>2, <4>1, <4>2, <4>3 DEF InStep
    <3> QED
      BY <1>3, <3>1, <3>2
  <2> QED
    BY <2>2, <2>6, <2>8, <2>9 DEF OutInv, Increasing
<1> QED
  BY <1>4, <1>5

LEMMA ResetKeeps ==
  ASSUME TypeOK, OutInv, Reset, ~strayed'
  PROVE  OutInv'
<1>1. /\ ~user.holds /\ user.pc = "idle" /\ rx'.state = rx.state /\ rx'.res = rx.state /\ rx'.tog = 0
      /\ UNCHANGED <<user, delivered>> /\ host'.n = host.n + 1 /\ host'.out = 0
      /\ host'.acked = host.acked
  BY ResetDoes
<1>2. rx.state = "ACK"
  BY <1>1 DEF OutInv, Ownership
<1>3. \A i \in 1..Len(delivered) : delivered[i] \in Nat
  BY DEF TypeOK
<1>4. \A i \in 1..Len(delivered) : delivered[i] < host'.n /\ delivered[i] <= host'.n
  BY <1>1, <1>3 DEF TypeOK, Host, OutInv, InStep
<1>5. Expected' = host'.out
  BY <1>1, <1>2 DEF Expected
<1> QED
  BY <1>1, <1>2, <1>4, <1>5 DEF OutInv, Ownership, InStep, Increasing, AckedOnes

UnlessStrayed == ~strayed => OutInv

LEMMA OutNext == ASSUME TypeOK, UnlessStrayed, [Next]_vars PROVE UnlessStrayed'
<1> SUFFICES ASSUME ~strayed' PROVE OutInv'
  BY DEF UnlessStrayed
<1>1. CASE UNCHANGED vars
  BY <1>1, OutRests DEF vars, UnlessStrayed
<1>2. ASSUME NEW size \in Accepted, endp_tx_set_new_buffer(size) PROVE OutInv'
  BY <1>2, NewBufferDoes, OutRests DEF UnlessStrayed
<1>3. ASSUME NEW state \in Answers, endp_rx_set_state(state) PROVE OutInv'
  BY <1>3, RxSetStateDoes, RxSetStateKeeps DEF UnlessStrayed
<1>10. CASE RxStateLoad \/ RxStateStore
  <2>1. UNCHANGED strayed
    BY <1>10, RxLoadDoes, RxStoreDoes
  <2> QED
    BY <1>10, <2>1, RxStoredKeeps DEF UnlessStrayed
<1>4. CASE endp_tx_set_state("ACK") \/ endp_tx_set_state("NAK")
  BY <1>4, TxSetStateDoes, OutRests DEF Resp, UnlessStrayed
<1>5. CASE TxStateStore
  BY <1>5, TxStoreDoes, OutRests DEF UnlessStrayed
<1>6. ASSUME NEW lost \in BOOLEAN, HostOut(lost) PROVE OutInv'
  BY <1>6, OutDoes, HostOutKeeps DEF UnlessStrayed
<1>7. ASSUME NEW lost \in BOOLEAN, HostIn(lost) PROVE OutInv'
  <2>1. ~strayed /\ UNCHANGED <<rx, user, delivered>> /\ host' = HostTakes
    BY <1>7, InDoes
  <2> QED
    BY <2>1, HostTaken, OutRests DEF UnlessStrayed
<1>8. CASE Reset
  BY <1>8, ResetDoes, ResetKeeps DEF UnlessStrayed
<1>9. CASE ClearHalt
  <2>1. /\ strayed' \in {strayed, TRUE} /\ UNCHANGED <<rx, user, delivered>>
        /\ host'.n = host.n /\ host'.out = host.out /\ host'.acked = host.acked
    BY <1>9, ClearDoes
  <2>2. ~strayed
    BY <2>1
  <2> QED
    BY <2>1, <2>2, OutRests DEF UnlessStrayed
<1> QED
  BY <1>1, <1>2, <1>3, <1>4, <1>5, <1>6, <1>7, <1>8, <1>9, <1>10 DEF Next, MainLoop, Answers

LEMMA OutAlways == Spec => [](TypeOK /\ UnlessStrayed)
<1>1. Init => TypeOK /\ UnlessStrayed
  BY TypeInit, OutInit DEF UnlessStrayed
<1>2. TypeOK /\ UnlessStrayed /\ [Next]_vars => TypeOK' /\ UnlessStrayed'
  BY TypeNext, OutNext
<1> QED
  BY <1>1, <1>2, PTL DEF Spec

(* rx_callback gets every packet the host saw acknowledged, once and in    *)
(* order, wherever the host's packets fall between the accesses of         *)
(* endp_rx_set_state, whatever handshakes are lost and however often the   *)
(* user holds the endpoint and says NAK or STALL again, until              *)
(* endp_rx_set_state is called on an endpoint the user does not hold or in *)
(* tx_complete, or a reset or a CLEAR_FEATURE comes where the toggles do   *)
(* not survive it (strayed).                                               *)
THEOREM AckedDelivered == Spec => []AckedIsDelivered
<1>1. TypeOK /\ UnlessStrayed => AckedIsDelivered
  <2> SUFFICES ASSUME TypeOK, OutInv PROVE AckedIsDelivered
    BY DEF UnlessStrayed, AckedIsDelivered
  <2>1. delivered \in Seq(Nat) /\ host.acked \in Seq(Nat)
    BY DEF TypeOK, Host
  <2>2. Range(host.acked) = {host.acked[k] : k \in 1..Len(host.acked)}
        /\ Range(delivered) = {delivered[k] : k \in 1..Len(delivered)}
    <3>1. DOMAIN host.acked = 1..Len(host.acked) /\ DOMAIN delivered = 1..Len(delivered)
      BY <2>1, LenProperties
    <3> QED
      BY <3>1 DEF Range
  <2> QED
    BY <2>2 DEF AckedIsDelivered, OutInv, Increasing, AckedOnes
<1> QED
  BY <1>1, OutAlways, PTL

(* The buffer that rx_callback keeps with NAK or STALL is not written to   *)
(* until the main loop gives it back, until something strayed.             *)
THEOREM HeldQuiet == Spec => []HeldIsQuiet
<1>1. UnlessStrayed => HeldIsQuiet
  BY DEF UnlessStrayed, OutInv, Ownership, HeldIsQuiet
<1> QED
  BY <1>1, OutAlways, PTL
-----------------------------------------------------------------------------
(* What FlattenSeq computes is a function of its own making, defined by    *)
(* recursion on the index; the facts about it are by a least               *)
(* counterexample.                                                         *)
IsFl(f, s, n) == f = [i \in 1..n |-> IF i = 1 THEN s[i] ELSE f[i - 1] \o s[i]]
Fl(s) == CHOOSE f : IsFl(f, s, Len(s))

LEMMA Least ==
  ASSUME NEW S, S \subseteq Nat, S # {}
  PROVE  \E x \in S : \A y \in S : x <= y
<1>1. PICK x \in S : \A y \in S : ~(<<y, x>> \in OpToRel(<, Nat))
  BY NatLessThanWellFounded, WFMin
<1>2. ASSUME NEW y \in S PROVE x <= y
  <2>1. <<y, x>> \in Nat \X Nat /\ x \in Nat /\ y \in Nat
    OBVIOUS
  <2>2. ~(y < x)
    BY <1>1, <2>1 DEF OpToRel
  <2> QED
    BY <2>1, <2>2
<1> QED
  BY <1>2

LEMMA FlStep ==
  ASSUME NEW f, NEW s, NEW n \in Nat, IsFl(f, s, n)
  PROVE  \A i \in 1..n : f[i] = IF i = 1 THEN s[i] ELSE f[i - 1] \o s[i]
BY DEF IsFl

LEMMA FlExists == ASSUME NEW s, NEW n \in Nat \ {0} PROVE \E f : IsFl(f, s, n)
<1> DEFINE B == {m \in Nat \ {0} : ~\E f : IsFl(f, s, m)}
<1> SUFFICES ASSUME B # {} PROVE FALSE
  OBVIOUS
<1>1. PICK m \in B : \A k \in B : m <= k
  BY Least
<1>2. m \in Nat \ {0} /\ ~\E f : IsFl(f, s, m)
  OBVIOUS
<1>3. CASE m = 1
  <2>1. IsFl([i \in 1..1 |-> s[1]], s, 1)
    BY DEF IsFl
  <2> QED
    BY <1>2, <1>3, <2>1
<1>4. CASE m # 1
  <2>1. m - 1 \in Nat \ {0} /\ m - 1 \notin B
    BY <1>1, <1>2, <1>4
  <2>2. PICK f : IsFl(f, s, m - 1)
    BY <2>1
  <2> DEFINE g == [i \in 1..m |-> IF i = m THEN f[m - 1] \o s[m] ELSE f[i]]
  <2>3. \A i \in 1..(m - 1) : g[i] = f[i]
    BY <1>2
  <2>4. \A i \in 1..(m - 1) : f[i] = IF i = 1 THEN s[i] ELSE f[i - 1] \o s[i]
    BY <2>1, <2>2, FlStep
  <2>5. \A i \in 1..m : g[i] = IF i = 1 THEN s[i] ELSE g[i - 1] \o s[i]
    <3>1. TAKE i \in 1..m
    <3>2. CASE i = m
      <4>1. m - 1 \in 1..(m - 1) /\ m \in 1..m /\ m # 1
        BY <1>2, <1>4
      <4>2. g[m - 1] = f[m - 1]
        BY <2>3, <4>1
      <4>3. g[m] = f[m - 1] \o s[m]
        BY <4>1
      <4> HIDE DEF g
      <4>4. g[m] = IF m = 1 THEN s[m] ELSE g[m - 1] \o s[m]
        BY <4>1, <4>2, <4>3
      <4> QED
        BY <3>2, <4>4
    <3>3. CASE i # m
      <4>1. i \in 1..(m - 1) /\ (i # 1 => i - 1 \in 1..(m - 1))
        BY <1>2, <3>3
      <4> QED
        BY <2>3, <2>4, <4>1
    <3> QED
      BY <3>2, <3>3
  <2>6. IsFl(g, s, m)
    BY <2>5 DEF IsFl
  <2> QED
    BY <1>2, <2>6
<1> QED
  BY <1>3, <1>4

LEMMA FlSame ==
  ASSUME NEW f, NEW g, NEW s, NEW t, NEW n \in Nat, NEW m \in Nat, n <= m, IsFl(f, s, n), IsFl(g, t, m),
         \A i \in 1..n : s[i] = t[i]
  PROVE  \A i \in 1..n : f[i] = g[i]
<1> DEFINE B == {k \in Nat : k \in 1..n /\ f[k] # g[k]}
<1> SUFFICES ASSUME B # {} PROVE FALSE
  OBVIOUS
<1>1. PICK k \in B : \A j \in B : k <= j
  BY Least
<1>2. k \in 1..n /\ k \in 1..m /\ f[k] # g[k]
  OBVIOUS
<1>3. /\ f[k] = IF k = 1 THEN s[k] ELSE f[k - 1] \o s[k]
      /\ g[k] = IF k = 1 THEN t[k] ELSE g[k - 1] \o t[k]
  BY <1>2, FlStep
<1>4. k # 1 => k - 1 \in 1..n /\ k - 1 \notin B
  BY <1>1, <1>2
<1>5. k # 1 => f[k - 1] = g[k - 1]
  BY <1>4
<1> QED
  BY <1>2, <1>3, <1>5

LEMMA FlIsSeq ==
  ASSUME NEW T, NEW s \in Seq(Seq(T)), NEW f, IsFl(f, s, Len(s))
  PROVE  \A i \in 1..Len(s) : f[i] \in Seq(T)
<1> DEFINE B == {k \in Nat : k \in 1..Len(s) /\ f[k] \notin Seq(T)}
<1> SUFFICES ASSUME B # {} PROVE FALSE
  OBVIOUS
<1>1. PICK k \in B : \A j \in B : k <= j
  BY Least
<1>2. k \in 1..Len(s) /\ f[k] \notin Seq(T) /\ s[k] \in Seq(T)
  OBVIOUS
<1>3. f[k] = IF k = 1 THEN s[k] ELSE f[k - 1] \o s[k]
  BY <1>2, FlStep
<1>4. k # 1 => k - 1 \in 1..Len(s) /\ k - 1 \notin B
  BY <1>1, <1>2
<1>5. k # 1 => f[k - 1] \in Seq(T)
  BY <1>4
<1> QED
  BY <1>2, <1>3, <1>5

LEMMA FlattenIsFl ==
  ASSUME NEW s, Len(s) \in Nat \ {0}
  PROVE  IsFl(Fl(s), s, Len(s)) /\ FlattenSeq(s) = Fl(s)[Len(s)]
<1>1. \E f : IsFl(f, s, Len(s))
  BY FlExists
<1>2. IsFl(Fl(s), s, Len(s))
  BY <1>1 DEF Fl
<1>3. FlattenSeq(s) = Fl(s)[Len(s)]
  BY DEF FlattenSeq, Fl, IsFl
<1> QED
  BY <1>2, <1>3

LEMMA FlattenAppend ==
  ASSUME NEW T, NEW s \in Seq(Seq(T)), NEW x \in Seq(T)
  PROVE  /\ FlattenSeq(s) \in Seq(T)
         /\ FlattenSeq(Append(s, x)) = FlattenSeq(s) \o x
<1> DEFINE t == Append(s, x)
           n == Len(s)
<1>1. /\ t \in Seq(Seq(T)) /\ Len(t) = n + 1 /\ n \in Nat /\ t[n + 1] = x
      /\ \A i \in 1..n : s[i] = t[i]
  OBVIOUS
<1>6. n + 1 \in Nat \ {0} /\ n + 1 \in 1..(n + 1) /\ (n + 1) - 1 = n /\ n <= n + 1
  BY <1>1
<1> HIDE DEF t, n
<1>2. IsFl(Fl(t), t, n + 1) /\ FlattenSeq(t) = Fl(t)[n + 1]
  <2>1. IsFl(Fl(t), t, Len(t)) /\ FlattenSeq(t) = Fl(t)[Len(t)]
    BY <1>1, <1>6, FlattenIsFl
  <2> QED
    BY <1>1, <2>1
<1>3. Fl(t)[n + 1] = IF n + 1 = 1 THEN t[n + 1] ELSE Fl(t)[n] \o t[n + 1]
  <2>1. Fl(t)[n + 1] = IF n + 1 = 1 THEN t[n + 1] ELSE Fl(t)[(n + 1) - 1] \o t[n + 1]
    BY <1>2, <1>6, FlStep
  <2> QED
    BY <1>6, <2>1
<1>4. CASE n = 0
  <2>1. s = <<>>
    BY <1>4 DEF n
  <2>2. FlattenSeq(s) = <<>>
    BY <2>1 DEF FlattenSeq
  <2> QED
    BY <1>1, <1>2, <1>3, <1>4, <2>2 DEF t
<1>5. CASE n # 0
  <2>1. IsFl(Fl(s), s, n) /\ FlattenSeq(s) = Fl(s)[n]
    BY <1>1, <1>5, FlattenIsFl DEF n
  <2>4. n \in 1..n /\ n + 1 # 1
    BY <1>1, <1>5
  <2>5. \A i \in 1..n : Fl(s)[i] = Fl(t)[i]
    <3> DEFINE m == n + 1
               f == Fl(s)
               g == Fl(t)
    <3>1. m \in Nat /\ n \in Nat /\ n <= m /\ IsFl(g, t, m) /\ IsFl(f, s, n)
      BY <1>1, <1>2, <1>6, <2>1
    <3>2. \A i \in 1..n : s[i] = t[i]
      BY <1>1
    <3> HIDE DEF m, f, g
    <3>3. \A i \in 1..n : f[i] = g[i]
      BY <3>1, <3>2, FlSame
    <3> QED
      BY <3>3 DEF f, g
  <2>2. Fl(s)[n] = Fl(t)[n]
    BY <2>4, <2>5
  <2>3. Fl(s)[n] \in Seq(T)
    BY <2>1, <2>4, FlIsSeq DEF n
  <2> QED
    BY <1>1, <1>2, <1>3, <2>1, <2>2, <2>3, <2>4 DEF t
<1> QED
  BY <1>4, <1>5
-----------------------------------------------------------------------------
(* The transmit direction.  The first k bytes of buffer b, and what the    *)
(* host must have when the completed buffers have gone out.                *)
Part(b, k) == [i \in 1..k |-> [buf |-> b, off |-> i - 1]]
Buffers == [i \in 1..Len(completed) |-> Buffer(completed[i])]
Done == FlattenSeq(Buffers)

(* A buffer of one packet, or of full packets.                             *)
Whole(size) == size <= Mps \/ \E k \in 0..size : size = k * Mps

(* A buffer is under way; endp_tx_set_state may be holding it back.        *)
Active == tx.res = "ACK" \/ pause.on \/ pause.storing

CompletedGiven == \A i \in 1..Len(completed) : completed[i] \in 1..Len(given)

Pausing ==
  /\ pause.storing => pause.tog = tx.tog /\ (pause.on <=> tx.state = "NAK")
  /\ pause.on /\ ~pause.storing => tx.res = "NAK" /\ tx.state = "NAK"

(* The host expects the packet that is next, or has it already and missed  *)
(* nothing but the driver's knowing of it.                                 *)
Taken == IF tx.tog = host.in THEN tx.off ELSE tx.off + tx.len

Sending ==
  /\ tx.buf \in 1..Len(given) /\ tx.off + tx.remaining = given[tx.buf]
  /\ tx.len = PacketLen(tx) /\ Whole(tx.remaining)
  /\ host.got = Done \o Part(tx.buf, Taken)

Resting == tx.tog = host.in /\ host.got = Done

InInv == CompletedGiven /\ Pausing /\ (Active => Sending) /\ (~Active => Resting)

LEMMA PartIs ==
  ASSUME NEW b \in Nat, NEW k \in Nat
  PROVE  /\ Part(b, k) \in Seq(Byte) /\ Len(Part(b, k)) = k
         /\ \A i \in 1..k : Part(b, k)[i] = [buf |-> b, off |-> i - 1]
<1>1. \A i \in 1..k : i - 1 \in Nat
  OBVIOUS
<1>2. \A i \in 1..k : [buf |-> b, off |-> i - 1] \in Byte
  BY <1>1 DEF Byte
<1> QED
  BY <1>2 DEF Part

LEMMA NoPart == ASSUME NEW b PROVE Part(b, 0) = <<>>
BY DEF Part

LEMMA BufferIs == ASSUME NEW b PROVE Buffer(b) = Part(b, given[b])
BY DEF Buffer, Part

(* The bytes of a packet follow those of the packets before it.            *)
LEMMA PartJoined ==
  ASSUME NEW b \in Nat, NEW k \in Nat, NEW n \in Nat, NEW s \in Seq(Byte),
         Len(s) = n, \A i \in 1..n : s[i] = [buf |-> b, off |-> k + i - 1]
  PROVE  Part(b, k) \o s = Part(b, k + n)
<1> DEFINE p == Part(b, k)
           q == Part(b, k + n)
<1>1. /\ p \in Seq(Byte) /\ Len(p) = k /\ q \in Seq(Byte) /\ Len(q) = k + n
      /\ \A i \in 1..k : p[i] = [buf |-> b, off |-> i - 1]
      /\ \A i \in 1..(k + n) : q[i] = [buf |-> b, off |-> i - 1]
  <2>1. k + n \in Nat
    OBVIOUS
  <2>2. q \in Seq(Byte) /\ Len(q) = k + n /\ \A i \in 1..(k + n) : q[i] = [buf |-> b, off |-> i - 1]
    BY <2>1, PartIs
  <2> QED
    BY <2>2, PartIs
<1> HIDE DEF p, q
<1>2. /\ p \o s \in Seq(Byte) /\ Len(p \o s) = k + n
      /\ \A i \in 1..(k + n) : (p \o s)[i] = IF i <= k THEN p[i] ELSE s[i - k]
  BY <1>1, ConcatProperties
<1>3. ASSUME NEW i \in 1..(k + n) PROVE (p \o s)[i] = q[i]
  <2>1. CASE i \in 1..k
    BY <1>1, <1>2, <2>1
  <2>2. CASE i \notin 1..k
    <3>1. i - k \in 1..n /\ k + (i - k) - 1 = i - 1
      BY <2>2
    <3>2. (p \o s)[i] = s[i - k]
      BY <1>2, <2>2
    <3>3. s[i - k] = [buf |-> b, off |-> k + (i - k) - 1]
      BY <3>1
    <3> QED
      BY <1>1, <3>1, <3>2, <3>3
  <2> QED
    BY <2>1, <2>2
<1>4. p \o s = q
  BY <1>1, <1>2, <1>3, SeqEqual
<1> QED
  BY <1>4 DEF p, q

LEMMA PartMore ==
  ASSUME TypeOK
  PROVE  Part(tx.buf, tx.off) \o Sent = Part(tx.buf, tx.off + tx.len)
<1>1. tx.buf \in Nat /\ tx.off \in Nat /\ tx.len \in Nat
  BY DEF TypeOK, Tx
<1>2. /\ Sent \in Seq(Byte) /\ Len(Sent) = tx.len
      /\ \A i \in 1..tx.len : Sent[i] = [buf |-> tx.buf, off |-> tx.off + i - 1]
  BY SentBytes
<1>3. PICK b \in Nat, k \in Nat, n \in Nat, s \in Seq(Byte) :
        b = tx.buf /\ k = tx.off /\ n = tx.len /\ s = Sent
  BY <1>1, <1>2
<1> HIDE DEF Sent
<1>4. Len(s) = n /\ \A i \in 1..n : s[i] = [buf |-> b, off |-> k + i - 1]
  BY <1>2, <1>3
<1>5. Part(b, k) \o s = Part(b, k + n)
  BY <1>4, PartJoined
<1> QED
  BY <1>3, <1>5

LEMMA PartPrefix ==
  ASSUME NEW d \in Seq(Byte), NEW b \in Nat, NEW k \in Nat, NEW n \in Nat, k <= n
  PROVE  /\ IsPrefix(d, d \o Part(b, k)) /\ IsPrefix(d \o Part(b, k), d \o Part(b, n))
<1> DEFINE p == Part(b, k)
           q == Part(b, n)
<1>1. /\ p \in Seq(Byte) /\ Len(p) = k /\ q \in Seq(Byte) /\ Len(q) = n
      /\ \A i \in 1..k : p[i] = q[i]
  <2>1. /\ p \in Seq(Byte) /\ Len(p) = k /\ q \in Seq(Byte) /\ Len(q) = n
        /\ \A i \in 1..k : p[i] = [buf |-> b, off |-> i - 1]
        /\ \A i \in 1..n : q[i] = [buf |-> b, off |-> i - 1]
    BY PartIs
  <2> HIDE DEF p, q
  <2>2. \A i \in 1..k : i \in 1..n
    OBVIOUS
  <2> QED
    BY <2>1, <2>2
<1> HIDE DEF p, q
<1>2. /\ Len(d) \in Nat /\ Len(d \o p) = Len(d) + k /\ Len(d \o q) = Len(d) + n
      /\ d \o p \in Seq(Byte) /\ d \o q \in Seq(Byte)
      /\ \A i \in 1..(Len(d) + k) : (d \o p)[i] = IF i <= Len(d) THEN d[i] ELSE p[i - Len(d)]
      /\ \A i \in 1..(Len(d) + n) : (d \o q)[i] = IF i <= Len(d) THEN d[i] ELSE q[i - Len(d)]
  <2>1. /\ Len(d \o p) = Len(d) + Len(p) /\ d \o p \in Seq(Byte)
        /\ \A i \in 1..(Len(d) + Len(p)) : (d \o p)[i] = IF i <= Len(d) THEN d[i] ELSE p[i - Len(d)]
    BY <1>1, ConcatProperties
  <2>2. /\ Len(d \o q) = Len(d) + Len(q) /\ d \o q \in Seq(Byte)
        /\ \A i \in 1..(Len(d) + Len(q)) : (d \o q)[i] = IF i <= Len(d) THEN d[i] ELSE q[i - Len(d)]
    BY <1>1, ConcatProperties
  <2>3. Len(d) \in Nat
    OBVIOUS
  <2> QED
    BY <1>1, <2>1, <2>2, <2>3
<1>3. \A i \in 1..Len(d) : d[i] = (d \o p)[i]
  BY <1>2
<1>4. \A i \in 1..(Len(d) + k) : (d \o p)[i] = (d \o q)[i]
  <2> TAKE i \in 1..(Len(d) + k)
  <2>1. i \in 1..(Len(d) + n) /\ (i > Len(d) => i - Len(d) \in 1..k)
    BY <1>2
  <2> QED
    BY <1>1, <1>2, <2>1
<1>5. IsPrefix(d, d \o p)
  BY <1>2, <1>3 DEF IsPrefix
<1>6. IsPrefix(d \o p, d \o q)
  BY <1>2, <1>4 DEF IsPrefix
<1> QED
  BY <1>5, <1>6 DEF p, q

LEMMA WholeLess ==
  ASSUME NEW a \in Nat, Whole(a), Min2(a, Mps) # a
  PROVE  /\ Min2(a, Mps) = Mps /\ Mps \in Nat /\ a > Mps
         /\ Whole(a - Mps) /\ a - Mps \in Nat /\ Min2(a - Mps, Mps) = Mps
<1>1. Mps \in Nat \ {0} /\ a > Mps /\ Min2(a, Mps) = Mps
  BY EndpointAssumption DEF Min2
<1>2. PICK k \in 0..a : a = k * Mps
  BY <1>1 DEF Whole
<1>3. k \in Nat /\ k > 1
  BY <1>1, <1>2
<1>4. PICK j \in Nat : k = j + 1 /\ j >= 1
  BY <1>3
<1>5. a - Mps = j * Mps
  BY <1>1, <1>2, <1>4
<1>6. j * Mps >= j /\ j * Mps >= Mps
  BY <1>1, <1>4
<1>7. j \in 0..(a - Mps) /\ a - Mps \in Nat /\ a - Mps >= Mps
  BY <1>1, <1>4, <1>5, <1>6
<1>8. Whole(a - Mps)
  BY <1>5, <1>7 DEF Whole
<1>9. Min2(a - Mps, Mps) = Mps
  BY <1>1, <1>7 DEF Min2
<1> QED
  BY <1>1, <1>7, <1>8, <1>9

BuffersTyped == given \in Seq(Nat) /\ completed \in Seq(Nat)

LEMMA BuffersOfType == ASSUME TypeOK PROVE BuffersTyped
BY DEF TypeOK, BuffersTyped

(* A buffer once given keeps its bytes.                                    *)
GivenKept ==
  /\ Len(given) \in Nat /\ Len(given') \in Nat /\ Len(given) <= Len(given')
  /\ \A b \in 1..Len(given) : b \in 1..Len(given') /\ given[b] \in Nat /\ given'[b] = given[b]

LEMMA GivenStays == ASSUME BuffersTyped, UNCHANGED given PROVE GivenKept
BY DEF BuffersTyped, GivenKept

LEMMA GivenGrows ==
  ASSUME BuffersTyped, NEW size \in Nat, given' = Append(given, size)
  PROVE  /\ GivenKept /\ Len(given) + 1 \in 1..Len(given') /\ given'[Len(given) + 1] = size
<1>1. given \in Seq(Nat) /\ Len(given) \in Nat
  BY DEF BuffersTyped
<1>2. /\ Len(given') = Len(given) + 1 /\ given'[Len(given) + 1] = size
      /\ \A b \in 1..Len(given) : given'[b] = given[b] /\ given[b] \in Nat
  BY <1>1
<1>3. GivenKept
  BY <1>1, <1>2 DEF GivenKept
<1> QED
  BY <1>1, <1>2, <1>3

LEMMA DoneIs ==
  ASSUME BuffersTyped, CompletedGiven
  PROVE  /\ Buffers \in Seq(Seq(Byte)) /\ Len(Buffers) = Len(completed) /\ Done \in Seq(Byte)
         /\ \A i \in 1..Len(completed) : Buffers[i] = Buffer(completed[i])
<1>1. completed \in Seq(Nat) /\ given \in Seq(Nat) /\ Len(completed) \in Nat
  BY DEF BuffersTyped
<1>2. ASSUME NEW i \in 1..Len(completed) PROVE Buffer(completed[i]) \in Seq(Byte)
  <2>1. completed[i] \in Nat /\ completed[i] \in 1..Len(given)
    BY <1>1 DEF CompletedGiven
  <2>2. given[completed[i]] \in Nat
    BY <1>1, <2>1
  <2> QED
    BY <2>1, <2>2, BufferIs, PartIs
<1>3. /\ Buffers \in Seq(Seq(Byte)) /\ Len(Buffers) = Len(completed)
      /\ \A i \in 1..Len(completed) : Buffers[i] = Buffer(completed[i])
  <2> HIDE DEF Buffer
  <2> QED
    BY <1>1, <1>2 DEF Buffers
<1>4. Done \in Seq(Byte)
  <2>1. <<>> \in Seq(Byte)
    OBVIOUS
  <2> HIDE DEF Buffers
  <2> QED
    BY <1>3, <2>1, FlattenAppend DEF Done
<1> QED
  BY <1>3, <1>4

LEMMA BufferKept ==
  ASSUME GivenKept, NEW b, b \in 1..Len(given)
  PROVE  [i \in 1..given'[b] |-> [buf |-> b, off |-> i - 1]] = Buffer(b)
BY DEF GivenKept, Buffer

LEMMA DoneKept ==
  ASSUME BuffersTyped, CompletedGiven, GivenKept, UNCHANGED completed
  PROVE  Done' = Done /\ CompletedGiven'
<1>1. Buffers' = [i \in 1..Len(completed) |->
                    [j \in 1..given'[completed[i]] |-> [buf |-> completed[i], off |-> j - 1]]]
  BY DEF Buffers, Buffer
<1>2. \A i \in 1..Len(completed) :
        [j \in 1..given'[completed[i]] |-> [buf |-> completed[i], off |-> j - 1]] = Buffer(completed[i])
  BY BufferKept DEF CompletedGiven
<1>3. Buffers' = Buffers
  <2> HIDE DEF Buffer
  <2> QED
    BY <1>1, <1>2 DEF Buffers
<1>4. Done' = Done
  BY <1>3 DEF Done
<1>5. CompletedGiven'
  BY DEF CompletedGiven, GivenKept
<1> QED
  BY <1>4, <1>5

LEMMA DoneMore ==
  ASSUME BuffersTyped, CompletedGiven, GivenKept, NEW b \in 1..Len(given), completed' = Append(completed, b)
  PROVE  Done' = Done \o Part(b, given[b]) /\ CompletedGiven'
<1>1. completed \in Seq(Nat) /\ Len(completed) \in Nat /\ given[b] \in Nat /\ b \in Nat
  BY DEF BuffersTyped, GivenKept
<1>2. /\ Len(completed') = Len(completed) + 1 /\ completed'[Len(completed) + 1] = b
      /\ \A i \in 1..Len(completed) : completed'[i] = completed[i]
  BY <1>1
<1>3. \A i \in 1..Len(completed') : completed'[i] \in 1..Len(given)
  BY <1>1, <1>2 DEF CompletedGiven
<1>4. CompletedGiven'
  BY <1>3 DEF CompletedGiven, GivenKept
<1>5. Buffers' = [i \in 1..Len(completed') |-> Buffer(completed'[i])]
  <2>1. Buffers' = [i \in 1..Len(completed') |->
                      [j \in 1..given'[completed'[i]] |-> [buf |-> completed'[i], off |-> j - 1]]]
    BY DEF Buffers, Buffer
  <2>2. \A i \in 1..Len(completed') :
          [j \in 1..given'[completed'[i]] |-> [buf |-> completed'[i], off |-> j - 1]]
            = Buffer(completed'[i])
    BY <1>3, BufferKept
  <2> HIDE DEF Buffer
  <2> QED
    BY <2>1, <2>2
<1>6. Buffer(b) = Part(b, given[b]) /\ Part(b, given[b]) \in Seq(Byte)
  BY <1>1, BufferIs, PartIs
<1>7. /\ Buffers \in Seq(Seq(Byte)) /\ Len(Buffers) = Len(completed)
      /\ \A i \in 1..Len(completed) : Buffers[i] = Buffer(completed[i])
  BY DoneIs
<1>8. Buffers' = Append(Buffers, Buffer(b))
  <2> DEFINE s == Buffers
             c == completed'
             n == Len(completed)
             x == Buffer(b)
             t == Append(s, x)
             F(i) == Buffer(c[i])
  <2>1. /\ s \in Seq(Seq(Byte)) /\ Len(s) = n /\ x \in Seq(Byte) /\ n \in Nat /\ Len(c) = n + 1
        /\ F(n + 1) = x /\ \A i \in 1..n : F(i) = s[i]
    BY <1>1, <1>2, <1>6, <1>7
  <2>2. Buffers' = [i \in 1..(n + 1) |-> F(i)]
    BY <1>5, <2>1
  <2> HIDE DEF s, c, n, x, F
  <2>3. t \in Seq(Seq(Byte)) /\ Len(t) = n + 1 /\ t[n + 1] = x /\ \A i \in 1..n : t[i] = s[i]
    BY <2>1
  <2>4. \A i \in 1..(n + 1) : F(i) = t[i]
    BY <2>1, <2>3
  <2>5. t = [i \in 1..(n + 1) |-> t[i]]
    <3> HIDE DEF t
    <3>1. t = [i \in 1..Len(t) |-> t[i]]
      BY <2>3
    <3> QED
      BY <2>3, <3>1
  <2>6. Buffers' = t
    <3> HIDE DEF t
    <3> QED
      BY <2>2, <2>4, <2>5
  <2> QED
    BY <2>6 DEF s, x
<1>9. Done' = FlattenSeq(Buffers')
  BY DEF Done
<1> QED
  <2> HIDE DEF Buffers
  <2>1. FlattenSeq(Append(Buffers, Buffer(b))) = FlattenSeq(Buffers) \o Buffer(b)
    BY <1>6, <1>7, FlattenAppend
  <2> QED
    BY <1>4, <1>6, <1>8, <1>9, <2>1 DEF Done

LEMMA InRests ==
  ASSUME TypeOK, InInv, UNCHANGED <<tx, pause, given, completed>>,
         host'.in = host.in, host'.got = host.got
  PROVE  InInv'
<1>1. Done' = Done
  BY DEF Done, Buffers, Buffer
<1> QED
  BY <1>1 DEF InInv, CompletedGiven, Pausing, Active, Sending, Resting, Taken, PacketLen

(* Where a new buffer starts, the host has all the earlier ones.           *)
LEMMA NewSends ==
  ASSUME TypeOK, NEW size \in Accepted, \A a \in Accepted : Whole(a),
         given' = Append(given, size), tx'.remaining = size, tx'.buf = Len(given) + 1,
         tx'.off = 0, tx'.len = Min2(size, Mps), tx'.tog = host'.in, host'.got = Done',
         Done' \in Seq(Byte)
  PROVE  Sending'
<1>1. size \in Nat
  BY EndpointAssumption DEF Accepted
<1>2. Len(given) + 1 \in 1..Len(given') /\ given'[Len(given) + 1] = size
  BY <1>1, GivenGrows, BuffersOfType
<1>3. Taken' = 0
  BY DEF Taken
<1>4. Part(tx.buf, Taken)' = <<>>
  BY <1>3, NoPart
<1>5. host'.got = Done' \o Part(tx.buf, Taken)'
  BY <1>4
<1>6. tx'.len = PacketLen(tx)'
  BY DEF PacketLen
<1>7. Whole(tx.remaining)'
  BY DEF Whole
<1>8. tx'.off + tx'.remaining = given'[tx'.buf]
  BY <1>1, <1>2
<1> QED
  BY <1>2, <1>5, <1>6, <1>7, <1>8 DEF Sending

LEMMA NewBufferKeeps ==
  ASSUME TypeOK, InInv, \A a \in Accepted : Whole(a), NEW size \in Accepted, endp_tx_set_new_buffer(size)
  PROVE  InInv'
<1>1. size \in Nat
  BY EndpointAssumption DEF Accepted
<1>2. /\ NothingPending /\ given' = Append(given, size) /\ tx'.state = tx.state /\ tx'.tog = tx.tog
      /\ tx'.res = "ACK" /\ tx'.remaining = size /\ tx'.buf = Len(given) + 1
      /\ tx'.off = 0 /\ tx'.len = Min2(size, Mps) /\ UNCHANGED <<pause, completed, host>>
  BY NewBufferDoes
<1>3. ~Active /\ CompletedGiven /\ Resting /\ Pausing
  BY <1>2 DEF NothingPending, InLoop, Active, InInv
<1>4. GivenKept
  BY <1>1, <1>2, GivenGrows, BuffersOfType
<1>5. Done' = Done /\ CompletedGiven' /\ Done' \in Seq(Byte)
  BY <1>2, <1>3, <1>4, DoneKept, DoneIs, BuffersOfType
<1>6. Sending'
  <2>1. tx'.tog = host'.in /\ host'.got = Done'
    BY <1>2, <1>3, <1>5 DEF Resting
  <2> QED
    BY <1>2, <1>5, <2>1, NewSends
<1>7. Pausing' /\ Active'
  BY <1>2, <1>3 DEF Pausing, Active, NothingPending
<1> QED
  BY <1>5, <1>6, <1>7 DEF InInv

(* endp_tx_set_state touches neither the buffer nor the toggle.            *)
LEMMA SendingHeld ==
  ASSUME TypeOK, Sending, UNCHANGED <<given, completed, host>>, tx'.tog = tx.tog,
         tx'.len = tx.len, tx'.remaining = tx.remaining, tx'.buf = tx.buf, tx'.off = tx.off
  PROVE  Sending'
<1>1. Done' = Done
  BY DEF Done, Buffers, Buffer
<1>2. Taken' = Taken /\ PacketLen(tx)' = PacketLen(tx)
  BY DEF Taken, PacketLen
<1>3. Part(tx.buf, Taken)' = Part(tx.buf, Taken)
  BY <1>2 DEF Part
<1> QED
  BY <1>1, <1>2, <1>3 DEF Sending, Whole

LEMMA PauseKeeps ==
  ASSUME TypeOK, InInv, NEW state \in Resp, endp_tx_set_state(state)
  PROVE  InInv'
<1>1. /\ ~pause.storing /\ UNCHANGED <<given, completed, host>>
      /\ \/ state = "NAK" /\ tx.res = "ACK" /\ ~pause.on
         \/ state = "ACK" /\ pause.on
      /\ tx'.state = state /\ tx'.res = tx.res /\ tx'.tog = tx.tog
      /\ tx'.len = tx.len /\ tx'.remaining = tx.remaining /\ tx'.buf = tx.buf /\ tx'.off = tx.off
      /\ (pause'.on <=> state = "NAK") /\ pause'.storing /\ pause'.tog = tx.tog
  BY TxSetStateDoes
<1>2. Active /\ Active'
  BY <1>1 DEF Active
<1>3. Sending'
  BY <1>1, <1>2, SendingHeld DEF InInv
<1>4. Pausing' /\ CompletedGiven'
  BY <1>1 DEF Pausing, InInv, CompletedGiven
<1> QED
  BY <1>2, <1>3, <1>4 DEF InInv

LEMMA StoreKeeps ==
  ASSUME TypeOK, InInv, TxStateStore
  PROVE  InInv'
<1>1. /\ pause.storing /\ UNCHANGED <<given, completed, host>>
      /\ tx'.state = tx.state /\ tx'.res = tx.state /\ tx'.tog = pause.tog
      /\ tx'.len = tx.len /\ tx'.remaining = tx.remaining /\ tx'.buf = tx.buf /\ tx'.off = tx.off
      /\ (pause'.on <=> pause.on) /\ ~pause'.storing
  BY TxStoreDoes
<1>2. /\ Active /\ pause.tog = tx.tog /\ (pause.on <=> tx.state = "NAK")
      /\ tx.state \in Resp
  BY <1>1 DEF Active, InInv, Pausing, TypeOK, Tx
<1>3. Sending'
  BY <1>1, <1>2, SendingHeld DEF InInv
<1>4. Active' /\ Pausing'
  BY <1>1, <1>2 DEF Active, Pausing, Resp
<1>5. CompletedGiven'
  BY <1>1 DEF InInv, CompletedGiven
<1> QED
  BY <1>3, <1>4, <1>5 DEF InInv

(* What the host has once it has answered: all the packets up to this one. *)
LEMMA HostHas ==
  ASSUME TypeOK, CompletedGiven, Sending, host' = HostTakes
  PROVE  /\ host'.in # tx.tog /\ host'.in \in Bit
         /\ host'.got = Done \o Part(tx.buf, tx.off + tx.len)
<1>1. tx.tog \in Bit /\ host.in \in Bit /\ tx.buf \in Nat /\ tx.off \in Nat /\ tx.len \in Nat
  BY DEF TypeOK, Tx, Host
<1>2. Done \in Seq(Byte)
  BY DoneIs, BuffersOfType
<1>3. CASE tx.tog = host.in
  <2>1. host'.in = 1 - host.in /\ host'.got = host.got \o Sent
    BY <1>3, HostTaken
  <2>2. host.got = Done \o Part(tx.buf, tx.off)
    BY <1>3 DEF Sending, Taken
  <2>3. Part(tx.buf, tx.off) \in Seq(Byte) /\ Sent \in Seq(Byte)
    BY <1>1, PartIs, SentBytes
  <2>4. Part(tx.buf, tx.off) \o Sent = Part(tx.buf, tx.off + tx.len)
    BY PartMore
  <2> HIDE DEF Done, Part, Sent
  <2>5. (Done \o Part(tx.buf, tx.off)) \o Sent = Done \o (Part(tx.buf, tx.off) \o Sent)
    BY <1>2, <2>3
  <2> QED
    BY <1>1, <1>3, <2>1, <2>2, <2>4, <2>5, Bits
<1>4. CASE tx.tog # host.in
  <2>1. host' = host
    BY <1>4, HostTaken
  <2> QED
    BY <1>1, <1>4, <2>1 DEF Sending, Taken
<1> QED
  BY <1>3, <1>4

LEMMA HostInKeeps ==
  ASSUME TypeOK, InInv, PauseBare = FALSE, \A a \in Accepted : Whole(a),
         NEW lost \in BOOLEAN, HostIn(lost)
  PROVE  InInv'
<1>1. /\ Interruptible /\ tx.res = "ACK" /\ host' = HostTakes /\ UNCHANGED pause
      /\ \/ PacketLen(tx) = tx.remaining /\ TxComplete(LastPacket(tx))
         \/ /\ PacketLen(tx) # tx.remaining /\ tx' = NextPacket(tx)
            /\ UNCHANGED <<given, completed>>
         \/ UNCHANGED <<tx, given, completed>>
  BY InDoes
<1>2. ~pause.storing /\ ~pause.on /\ Active /\ Sending /\ CompletedGiven
  BY <1>1 DEF Interruptible, Active, InInv, Pausing
<1>3. /\ host'.in # tx.tog /\ host'.in \in Bit
      /\ host'.got = Done \o Part(tx.buf, tx.off + tx.len)
  BY <1>1, <1>2, HostHas
<1>4. /\ tx.tog \in Bit /\ host.in \in Bit /\ tx.buf \in Nat /\ tx.off \in Nat /\ tx.len \in Nat
      /\ tx.remaining \in Nat /\ tx.buf \in 1..Len(given)
      /\ tx.off + tx.remaining = given[tx.buf] /\ tx.len = PacketLen(tx) /\ Whole(tx.remaining)
  BY <1>2 DEF TypeOK, Tx, Host, Sending
<1>5. host'.in = 1 - tx.tog
  BY <1>3, <1>4 DEF Bit
<1>6. Done \in Seq(Byte)
  BY <1>2, DoneIs, BuffersOfType
<1>7. Pausing'
  BY <1>1, <1>2 DEF Pausing
<1>8. CASE UNCHANGED <<tx, given, completed>>
  <2>1. Done' = Done
    BY <1>8 DEF Done, Buffers, Buffer
  <2>2. Taken' = tx.off + tx.len
    BY <1>3, <1>8 DEF Taken
  <2>3. Part(tx.buf, Taken)' = Part(tx.buf, tx.off + tx.len)
    BY <1>8, <2>2 DEF Part
  <2>4. Sending'
    BY <1>3, <1>4, <1>8, <2>1, <2>3 DEF Sending, PacketLen, Whole
  <2>5. CompletedGiven' /\ Active'
    BY <1>1, <1>2, <1>8 DEF CompletedGiven, Active
  <2> QED
    BY <1>7, <2>4, <2>5 DEF InInv
<1>9. CASE PacketLen(tx) # tx.remaining /\ tx' = NextPacket(tx) /\ UNCHANGED <<given, completed>>
  <2>1. /\ tx'.tog = 1 - tx.tog /\ tx'.buf = tx.buf /\ tx'.res = tx.res
        /\ tx'.remaining = tx.remaining - PacketLen(tx) /\ tx'.off = tx.off + PacketLen(tx)
        /\ tx'.len = tx.len
    BY <1>9, TxNext DEF TypeOK
  <2>2. /\ PacketLen(tx) = Mps /\ Mps \in Nat /\ tx.remaining > Mps /\ Whole(tx.remaining - Mps)
        /\ tx.remaining - Mps \in Nat /\ Min2(tx.remaining - Mps, Mps) = Mps
    BY <1>4, <1>9, WholeLess DEF PacketLen
  <2>3. Done' = Done
    BY <1>9 DEF Done, Buffers, Buffer
  <2>4. Taken' = tx.off + tx.len
    BY <1>4, <1>5, <2>1 DEF Taken
  <2>5. Part(tx.buf, Taken)' = Part(tx.buf, tx.off + tx.len)
    BY <2>1, <2>4 DEF Part
  <2>6. host'.got = Done' \o Part(tx.buf, Taken)'
    BY <1>3, <2>3, <2>5
  <2>7. tx'.len = PacketLen(tx)' /\ Whole(tx.remaining)'
    BY <1>4, <2>1, <2>2 DEF PacketLen, Whole
  <2>8. tx'.off + tx'.remaining = given'[tx'.buf]
    <3>1. tx'.off = tx.off + Mps /\ tx'.remaining = tx.remaining - Mps /\ given'[tx'.buf] = given[tx.buf]
      BY <1>9, <2>1, <2>2
    <3>2. Mps \in Nat /\ tx.off + tx.remaining = given[tx.buf] /\ tx.off \in Nat /\ tx.remaining \in Nat
      BY <1>4, <2>2
    <3> QED
      BY <3>1, <3>2
  <2>9. Sending'
    BY <1>4, <1>9, <2>1, <2>6, <2>7, <2>8 DEF Sending
  <2>10. CompletedGiven' /\ Active'
    BY <1>1, <1>2, <1>9, <2>1 DEF CompletedGiven, Active
  <2> QED
    BY <1>7, <2>9, <2>10 DEF InInv
<1>10. CASE PacketLen(tx) = tx.remaining /\ TxComplete(LastPacket(tx))
  <2>1. /\ tx'.tog = 1 - tx.tog /\ completed' = Append(completed, tx.buf)
        /\ \/ tx'.res = "NAK" /\ UNCHANGED given
           \/ \E size \in Accepted :
                /\ given' = Append(given, size)
                /\ tx'.res = "ACK" /\ tx'.remaining = size /\ tx'.buf = Len(given) + 1
                /\ tx'.off = 0 /\ tx'.len = Min2(size, Mps)
    BY <1>10, CompleteDoes
  <2>2. tx.off + tx.len = given[tx.buf] /\ tx'.tog = host'.in
    BY <1>4, <1>5, <1>10, <2>1
  <2>3. ASSUME GivenKept
        PROVE  Done' = Done \o Part(tx.buf, given[tx.buf]) /\ CompletedGiven' /\ Done' \in Seq(Byte)
    <3>1. Done' = Done \o Part(tx.buf, given[tx.buf]) /\ CompletedGiven'
      BY <1>2, <1>4, <2>1, <2>3, DoneMore, BuffersOfType
    <3>2. given[tx.buf] \in Nat
      BY <1>4, <2>3 DEF GivenKept
    <3>3. Part(tx.buf, given[tx.buf]) \in Seq(Byte)
      BY <1>4, <3>2, PartIs
    <3>4. Done \o Part(tx.buf, given[tx.buf]) \in Seq(Byte)
      BY <1>6, <3>3
    <3> QED
      BY <3>1, <3>4
  <2>4. CASE tx'.res = "NAK" /\ UNCHANGED given
    <3>1. Done' = Done \o Part(tx.buf, given[tx.buf]) /\ CompletedGiven'
      BY <2>3, <2>4, GivenStays, BuffersOfType
    <3>2. host'.got = Done'
      BY <1>3, <2>2, <3>1
    <3>3. ~Active'
      BY <1>1, <1>2, <2>4 DEF Active
    <3> QED
      BY <1>7, <2>2, <3>1, <3>2, <3>3 DEF InInv, Resting
  <2>5. ASSUME NEW size \in Accepted, given' = Append(given, size), tx'.res = "ACK",
               tx'.remaining = size, tx'.buf = Len(given) + 1, tx'.off = 0, tx'.len = Min2(size, Mps)
        PROVE  InInv'
    <3>1. size \in Nat
      BY EndpointAssumption DEF Accepted
    <3>2. GivenKept
      BY <2>5, <3>1, GivenGrows, BuffersOfType
    <3>3. Done' = Done \o Part(tx.buf, given[tx.buf]) /\ CompletedGiven' /\ Done' \in Seq(Byte)
      BY <2>3, <3>2
    <3>4. host'.got = Done'
      BY <1>3, <2>2, <3>3
    <3>5. Sending'
      BY <2>2, <2>5, <3>3, <3>4, NewSends
    <3>6. Active'
      BY <2>5 DEF Active
    <3> QED
      BY <1>7, <3>3, <3>5, <3>6 DEF InInv
  <2> QED
    BY <2>1, <2>4, <2>5
<1> QED
  BY <1>1, <1>8, <1>9, <1>10

LEMMA NoneDone == ASSUME completed = <<>> PROVE Done = <<>> /\ CompletedGiven
<1>1. Buffers = <<>>
  BY DEF Buffers
<1>2. Done = <<>>
  BY <1>1 DEF Done, FlattenSeq
<1> QED
  BY <1>2 DEF CompletedGiven

LEMMA InResetKeeps ==
  ASSUME TypeOK, InInv, PauseBare = FALSE, ResetResumed = FALSE, Reset
  PROVE  InInv'
<1>1. /\ Interruptible /\ tx.state = "NAK" /\ tx'.res = tx.state /\ tx'.tog = 0
      /\ ~pause'.on /\ (pause'.storing <=> pause.storing) /\ completed' = <<>>
      /\ host'.in = 0 /\ host'.got = <<>>
  BY ResetDoes
<1>2. ~Active' /\ Pausing'
  BY <1>1 DEF Active, Pausing, Interruptible
<1>3. Buffers' = <<>>
  BY <1>1 DEF Buffers
<1>4. Done' = <<>> /\ CompletedGiven'
  BY <1>1, <1>3 DEF Done, FlattenSeq, CompletedGiven
<1> QED
  BY <1>1, <1>2, <1>4 DEF InInv, Resting

(* endp_tx_set_state is in a critical section, no reset comes once it has  *)
(* set ACK, the host does not restart its toggle alone, and the user's     *)
(* buffers are one packet or full packets, as T_LEN is written once for a  *)
(* buffer.                                                                 *)
SendsWholePackets ==
  /\ PauseBare = FALSE /\ ResetResumed = FALSE /\ ClearAnyTime = FALSE
  /\ \A size \in Accepted : Whole(size)

LEMMA InInit == Init => InInv
<1> SUFFICES ASSUME Init PROVE InInv
  OBVIOUS
<1>1. /\ tx.res = "NAK" /\ ~pause.on /\ ~pause.storing /\ completed = <<>> /\ tx.tog = 0
      /\ host.in = 0 /\ host.got = <<>>
  BY DEF Init
<1>2. Done = <<>> /\ CompletedGiven
  BY <1>1, NoneDone
<1> QED
  BY <1>1, <1>2 DEF InInv, Active, Pausing, Resting

LEMMA InNext == ASSUME TypeOK, InInv, SendsWholePackets, [Next]_vars PROVE InInv'
<1>1. CASE UNCHANGED vars
  BY <1>1, InRests DEF vars
<1>2. ASSUME NEW size \in Accepted, endp_tx_set_new_buffer(size) PROVE InInv'
  BY <1>2, NewBufferKeeps DEF SendsWholePackets
<1>3. ASSUME NEW state \in Answers, endp_rx_set_state(state) PROVE InInv'
  BY <1>3, RxSetStateDoes, InRests
<1>10. CASE RxStateLoad \/ RxStateStore
  BY <1>10, RxLoadDoes, RxStoreDoes, InRests
<1>4. CASE endp_tx_set_state("ACK") \/ endp_tx_set_state("NAK")
  BY <1>4, PauseKeeps DEF Resp
<1>5. CASE TxStateStore
  BY <1>5, StoreKeeps
<1>6. ASSUME NEW lost \in BOOLEAN, HostOut(lost) PROVE InInv'
  BY <1>6, OutDoes, InRests
<1>7. ASSUME NEW lost \in BOOLEAN, HostIn(lost) PROVE InInv'
  BY <1>7, HostInKeeps DEF SendsWholePackets
<1>8. CASE Reset
  BY <1>8, InResetKeeps DEF SendsWholePackets
<1>9. CASE ClearHalt
  BY <1>9, ClearDoes, InRests DEF SendsWholePackets
<1> QED
  BY <1>1, <1>2, <1>3, <1>4, <1>5, <1>6, <1>7, <1>8, <1>9, <1>10 DEF Next, MainLoop, Answers

LEMMA InAlways == ASSUME SendsWholePackets PROVE Spec => [](TypeOK /\ InInv)
<1>1. TypeOK /\ InInv /\ [Next]_vars => TypeOK' /\ InInv'
  BY TypeNext, InNext
<1> QED
  BY <1>1, TypeInit, InInit, PTL DEF Spec

LEMMA InWhole == ASSUME TypeOK, InInv PROVE BuffersArriveWhole
<1>1. CompletedGiven /\ Done \in Seq(Byte)
  BY DoneIs, BuffersOfType DEF InInv
<1>2. Done = FlattenSeq([i \in 1..Len(completed) |-> Buffer(completed[i])])
  BY DEF Done, Buffers
<1> HIDE DEF Done, Buffer
<1>3. CASE Active
  <2>1. Sending
    BY <1>3 DEF InInv
  <2>2. /\ tx.buf \in Nat /\ tx.off \in Nat /\ tx.len \in Nat /\ tx.remaining \in Nat
        /\ given[tx.buf] = tx.off + tx.remaining /\ host.got = Done \o Part(tx.buf, Taken)
    BY <2>1 DEF TypeOK, Tx, Sending
  <2>3. tx.len <= tx.remaining
    BY <2>1, <2>2, EndpointAssumption DEF Sending, PacketLen, Min2
  <2>4. Taken \in Nat /\ given[tx.buf] \in Nat /\ Taken <= given[tx.buf]
    BY <2>2, <2>3 DEF Taken
  <2>5. Buffer(tx.buf) = Part(tx.buf, given[tx.buf])
    BY BufferIs
  <2>6. /\ IsPrefix(Done, Done \o Part(tx.buf, Taken))
        /\ IsPrefix(Done \o Part(tx.buf, Taken), Done \o Part(tx.buf, given[tx.buf]))
    <3> HIDE DEF Taken
    <3> QED
      BY <1>1, <2>2, <2>4, PartPrefix
  <2> QED
    BY <1>2, <1>3, <2>2, <2>5, <2>6 DEF BuffersArriveWhole, Active
<1>4. CASE ~Active
  <2>1. host.got = Done
    BY <1>4 DEF InInv, Resting
  <2>2. IsPrefix(Done, Done)
    BY <1>1 DEF IsPrefix
  <2> QED
    BY <1>2, <1>4, <2>1, <2>2 DEF BuffersArriveWhole, Active
<1> QED
  BY <1>3, <1>4

(* What tx_complete confirms has arrived, whole, once and in order, and    *)
(* beyond it the host has a beginning of the buffer under way: for every   *)
(* packet size, whatever handshakes are lost and wherever                  *)
(* endp_tx_set_state holds a buffer back.                                  *)
THEOREM BuffersArrive == ASSUME SendsWholePackets PROVE Spec => []BuffersArriveWhole
BY InWhole, InAlways, PTL
-----------------------------------------------------------------------------
(***************************************************************************)
(* The data endpoints of usb30.c (Usb3Endpoint).  Variables and constants  *)
(* that both drivers have go by the same name.                             *)
(*                                                                         *)
(* OUT (BurstOutInv): NumP and the length of the last packet tell how much *)
(* lies in the buffer, and a transfer that has ended ends what rx_callback *)
(* will be given.                                                          *)
(***************************************************************************)
CONSTANTS BitOr(_, _), OutLens
VARIABLES previously_set_max_burst, rx_total_length, remaining_length, total_bursts, resets

Burst == INSTANCE Usb3Endpoint

BurstConstants == Burst!EndpointAssumption

BurstRx == [nump : Nat, ack : BOOLEAN, short : BOOLEAN, len : Nat, irq : BOOLEAN]
BurstUser == [pc : {"main", "rx_callback"}, holds : BOOLEAN, awaits : BOOLEAN]

Numbers(n) == [i \in 1..n |-> i]
Cuts(d) == {Len(FlattenSeq(SubSeq(d, 1, i))) : i \in 0..Len(d)}

BurstOutType ==
  /\ rx \in BurstRx /\ user \in BurstUser /\ rxbuf \in Seq(Nat) /\ delivered \in Seq(Seq(Nat))
  /\ host \in [on : BOOLEAN, out : Nat, ends : SUBSET Nat, got : {host.got}, n : Nat]

(* RX_CTRL tells what the controller has stored.                           *)
BufferTold ==
  /\ rx.nump <= MaxBurst /\ rx.len <= Mps
  /\ rx.irq <=> rx.nump # MaxBurst
  /\ rx.short => rx.irq
  /\ Len(rxbuf) = IF rx.short THEN Mps * (MaxBurst - rx.nump - 1) + rx.len
                              ELSE Mps * (MaxBurst - rx.nump)
  /\ previously_set_max_burst = MaxBurst
  /\ user.pc = "main" => rx_total_length = 0

NotYetGot == IF user.pc = "main" THEN rxbuf ELSE <<>>
AllInOrder == FlattenSeq(delivered) \o NotYetGot = Numbers(host.out)

(* The end of a transfer is the end of a call or of what waits.            *)
EndsKept == \A e \in host.ends : \/ e \in Cuts(delivered)
                                 \/ user.pc = "main" /\ rx.short /\ e = host.out

BurstOutInv == BurstOutType /\ BufferTold /\ AllInOrder /\ EndsKept

-----------------------------------------------------------------------------
LEMMA BurstNumbers ==
  ASSUME BurstConstants
  PROVE  /\ Mps \in Nat \ {0} /\ Mps <= 1024 /\ MaxBurst \in Nat \ {0} /\ MaxBurst <= 16
         /\ \A a \in 0..1024 : BitOr(a, 0) = a /\ BitOr(0, a) = a
         /\ OutLens \subseteq 0..Mps /\ TxSizes \subseteq Nat
BY DEF BurstConstants, Burst!EndpointAssumption

(* Products of whole numbers.                                              *)
LEMMA Times ==
  ASSUME NEW m \in Nat, NEW a \in Nat, NEW b \in Nat
  PROVE  /\ m * a \in Nat /\ m * (a + b) = m * a + m * b
         /\ a <= b => m * a <= m * b
OBVIOUS

LEMMA NumbersAre ==
  ASSUME NEW n \in Nat
  PROVE  /\ Numbers(n) \in Seq(Nat) /\ Len(Numbers(n)) = n
         /\ \A i \in 1..n : Numbers(n)[i] = i
BY DEF Numbers

LEMMA NumbersMore ==
  ASSUME NEW n \in Nat, NEW k \in Nat
  PROVE  /\ [i \in 1..k |-> n + i] \in Seq(Nat) /\ Len([i \in 1..k |-> n + i]) = k
         /\ Numbers(n) \o [i \in 1..k |-> n + i] = Numbers(n + k)
<1> DEFINE p == Numbers(n)
           s == [i \in 1..k |-> n + i]
           q == Numbers(n + k)
<1>1. s \in Seq(Nat) /\ Len(s) = k /\ \A i \in 1..k : s[i] = n + i
  OBVIOUS
<1>2. p \in Seq(Nat) /\ Len(p) = n /\ \A i \in 1..n : p[i] = i
  BY NumbersAre
<1>3. q \in Seq(Nat) /\ Len(q) = n + k /\ \A i \in 1..(n + k) : q[i] = i
  <2>1. n + k \in Nat
    OBVIOUS
  <2> QED
    BY <2>1, NumbersAre
<1> HIDE DEF p, s, q
<1>4. /\ p \o s \in Seq(Nat) /\ Len(p \o s) = Len(p) + Len(s)
      /\ \A i \in 1..(Len(p) + Len(s)) : (p \o s)[i] = IF i <= Len(p) THEN p[i] ELSE s[i - Len(p)]
  BY <1>1, <1>2, ConcatProperties
<1>5. ASSUME NEW i \in 1..(n + k) PROVE (p \o s)[i] = q[i]
  <2>1. CASE i <= n
    BY <1>1, <1>2, <1>3, <1>4, <2>1
  <2>2. CASE ~(i <= n)
    <3>1. i - n \in 1..k /\ n + (i - n) = i
      BY <2>2
    <3>2. (p \o s)[i] = s[i - n]
      BY <1>1, <1>2, <1>4, <2>2
    <3> QED
      BY <1>1, <1>3, <3>1, <3>2
  <2> QED
    BY <2>1, <2>2
<1>6. p \o s = q
  BY <1>1, <1>2, <1>3, <1>4, <1>5, SeqEqual
<1> QED
  BY <1>1, <1>6 DEF p, s, q

LEMMA CutsMore ==
  ASSUME NEW d \in Seq(Seq(Nat)), NEW x \in Seq(Nat)
  PROVE  /\ Cuts(d) \subseteq Cuts(Append(d, x))
         /\ Len(FlattenSeq(d)) \in Cuts(d)
<1> DEFINE t == Append(d, x)
<1>1. Len(t) = Len(d) + 1 /\ Len(d) \in Nat /\ t \in Seq(Seq(Nat))
  OBVIOUS
<1>2. ASSUME NEW i \in 0..Len(d) PROVE SubSeq(t, 1, i) = SubSeq(d, 1, i)
  <2>1. \A j \in 1..i : t[j] = d[j]
    OBVIOUS
  <2> HIDE DEF t
  <2> QED
    BY <1>1, <2>1 DEF SubSeq
<1>3. SubSeq(d, 1, Len(d)) = d
  OBVIOUS
<1> HIDE DEF t
<1>4. Cuts(d) \subseteq Cuts(t)
  <2>1. ASSUME NEW i \in 0..Len(d) PROVE Len(FlattenSeq(SubSeq(d, 1, i))) \in Cuts(t)
    <3>1. i \in 0..Len(t)
      BY <1>1
    <3> QED
      BY <1>2, <3>1 DEF Cuts
  <2> QED
    BY <2>1 DEF Cuts
<1>5. Len(FlattenSeq(d)) \in Cuts(d)
  <2>1. Len(d) \in 0..Len(d)
    BY <1>1
  <2> QED
    BY <1>3, <2>1 DEF Cuts
<1> QED
  BY <1>4, <1>5 DEF t

(* usb30_out_set with nothing to add, and on a cleared register.           *)
LEMMA OutSetNothing ==
  ASSUME BurstConstants, NEW r \in BurstRx, r.nump <= 16
  PROVE  Burst!usb30_out_set(r, FALSE, 0) = r
<1>1. BitOr(r.nump, 0) = r.nump
  BY BurstNumbers DEF BurstRx
<1>2. (r.ack \/ FALSE) = r.ack
  BY DEF BurstRx
<1>3. Burst!usb30_out_set(r, FALSE, 0) = [r EXCEPT !.nump = r.nump, !.ack = r.ack]
  BY <1>1, <1>2 DEF Burst!usb30_out_set
<1> QED
  BY <1>3 DEF BurstRx

LEMMA OutSetReady ==
  ASSUME BurstConstants, NEW r \in BurstRx, r.nump = 0, r.ack = FALSE
  PROVE  Burst!usb30_out_set(r, TRUE, MaxBurst) = [r EXCEPT !.nump = MaxBurst, !.ack = TRUE]
<1>1. BitOr(0, MaxBurst) = MaxBurst
  BY BurstNumbers
<1> QED
  BY <1>1 DEF Burst!usb30_out_set

LEMMA ReadyIs ==
  ASSUME BurstConstants, NEW r \in BurstRx, r.nump = 0, r.ack = FALSE, r.short = FALSE, r.len = 0,
         r.irq = FALSE, NEW q, q = Burst!usb30_out_set(r, TRUE, MaxBurst)
  PROVE  q \in BurstRx /\ q.nump = MaxBurst /\ q.short = FALSE /\ q.len = 0 /\ q.irq = FALSE
<1>1. q = [r EXCEPT !.nump = MaxBurst, !.ack = TRUE]
  BY OutSetReady
<1>2. MaxBurst \in Nat
  BY BurstNumbers
<1> QED
  BY <1>1, <1>2 DEF BurstRx

BurstHostType(h) == h \in [on : BOOLEAN, out : Nat, ends : SUBSET Nat, got : {h.got}, n : Nat]

LEMMA BurstOutRests ==
  ASSUME BurstOutInv, UNCHANGED Burst!outVars, user' \in BurstUser, user'.pc = user.pc,
         BurstHostType(host'), host'.out = host.out, host'.ends = host.ends
  PROVE  BurstOutInv'
<1>1. UNCHANGED <<rx, rxbuf, previously_set_max_burst, rx_total_length, delivered>>
  BY DEF Burst!outVars
<1>2. BurstOutType'
  BY <1>1 DEF BurstOutInv, BurstOutType, BurstHostType
<1>3. BufferTold'
  BY <1>1 DEF BurstOutInv, BufferTold
<1>4. NotYetGot' = NotYetGot
  BY <1>1 DEF NotYetGot
<1>5. AllInOrder'
  BY <1>1, <1>4 DEF BurstOutInv, AllInOrder
<1>6. EndsKept'
  BY <1>1 DEF BurstOutInv, EndsKept
<1> QED
  BY <1>2, <1>3, <1>5, <1>6 DEF BurstOutInv

LEMMA NoneTaken ==
  ASSUME BurstConstants
  PROVE  Mps * (MaxBurst - MaxBurst) = 0 /\ Mps \in Nat /\ MaxBurst \in Nat
<1>1. Mps \in Nat /\ MaxBurst \in Nat
  BY BurstNumbers
<1>2. MaxBurst - MaxBurst = 0
  BY <1>1
<1>3. Mps * 0 = 0
  BY <1>1
<1> QED
  BY <1>1, <1>2, <1>3

(* An endpoint that has just been made ready, with an empty buffer.        *)
LEMMA OutReady ==
  ASSUME BurstConstants, rx' \in BurstRx, rx'.nump = MaxBurst, rx'.short = FALSE, rx'.len = 0,
         rx'.irq = FALSE, rxbuf' = <<>>, previously_set_max_burst' = MaxBurst,
         user' \in BurstUser, user'.pc = "main", rx_total_length' = 0,
         BurstHostType(host'), delivered' \in Seq(Seq(Nat)),
         FlattenSeq(delivered') = Numbers(host'.out), host'.ends \subseteq Cuts(delivered')
  PROVE  BurstOutInv'
<1>1. BurstOutType'
  BY DEF BurstOutType, BurstHostType
<1>2. BufferTold'
  <2>1. Mps * (MaxBurst - MaxBurst) = 0 /\ Mps \in Nat /\ MaxBurst \in Nat
    BY NoneTaken
  <2> QED
    BY <2>1 DEF BufferTold
<1>3. AllInOrder'
  <2>1. host'.out \in Nat
    BY DEF BurstHostType
  <2>2. Numbers(host'.out) \in Seq(Nat)
    BY <2>1, NumbersAre
  <2>3. Numbers(host'.out) \o <<>> = Numbers(host'.out)
    BY <2>2
  <2>4. NotYetGot' = <<>>
    BY DEF NotYetGot
  <2> QED
    BY <2>3, <2>4 DEF AllInOrder
<1>4. EndsKept'
  BY DEF EndsKept
<1> QED
  BY <1>1, <1>2, <1>3, <1>4 DEF BurstOutInv

LEMMA NatsJoined ==
  ASSUME NEW s \in Seq(Nat), NEW t \in Seq(Nat)
  PROVE  /\ s \o t \in Seq(Nat) /\ Len(s \o t) = Len(s) + Len(t)
         /\ \A i \in 1..Len(s) : (s \o t)[i] = s[i]
         /\ \A i \in 1..Len(t) : (s \o t)[Len(s) + i] = t[i]
<1> DEFINE x == s \o t
<1>1. /\ x \in Seq(Nat) /\ Len(x) = Len(s) + Len(t)
      /\ \A i \in 1..(Len(s) + Len(t)) : x[i] = IF i <= Len(s) THEN s[i] ELSE t[i - Len(s)]
  BY ConcatProperties
<1> HIDE DEF x
<1>2. PICK a \in Nat, b \in Nat : a = Len(s) /\ b = Len(t)
  OBVIOUS
<1>3. ASSUME NEW i \in 1..a PROVE x[i] = s[i]
  BY <1>1, <1>2
<1>4. ASSUME NEW i \in 1..b PROVE x[a + i] = t[i]
  <2>1. a + i \in 1..(a + b) /\ ~(a + i <= a) /\ (a + i) - a = i
    OBVIOUS
  <2> QED
    BY <1>1, <1>2, <2>1
<1> QED
  BY <1>1, <1>2, <1>3, <1>4 DEF x

LEMMA NatsAssociate ==
  ASSUME NEW s \in Seq(Nat), NEW t \in Seq(Nat), NEW u \in Seq(Nat)
  PROVE  s \o (t \o u) = (s \o t) \o u
<1> DEFINE st == s \o t
           tu == t \o u
           x == st \o u
           y == s \o tu
<1>1. PICK a \in Nat, b \in Nat, c \in Nat : a = Len(s) /\ b = Len(t) /\ c = Len(u)
  OBVIOUS
<1>2. /\ st \in Seq(Nat) /\ Len(st) = a + b
      /\ \A i \in 1..a : st[i] = s[i]
      /\ \A i \in 1..b : st[a + i] = t[i]
  BY <1>1, NatsJoined
<1>3. /\ tu \in Seq(Nat) /\ Len(tu) = b + c
      /\ \A i \in 1..b : tu[i] = t[i]
      /\ \A i \in 1..c : tu[b + i] = u[i]
  BY <1>1, NatsJoined
<1> HIDE DEF st, tu
<1>4. st \in Seq(Nat) /\ tu \in Seq(Nat)
  BY <1>2, <1>3
<1>5. /\ x \in Seq(Nat) /\ Len(x) = a + b + c
      /\ \A i \in 1..(a + b) : x[i] = st[i]
      /\ \A i \in 1..c : x[a + b + i] = u[i]
  <2>1. /\ x \in Seq(Nat) /\ Len(x) = Len(st) + Len(u)
        /\ \A i \in 1..Len(st) : x[i] = st[i]
        /\ \A i \in 1..Len(u) : x[Len(st) + i] = u[i]
    BY <1>4, NatsJoined
  <2> QED
    BY <1>1, <1>2, <2>1
<1>6. /\ y \in Seq(Nat) /\ Len(y) = a + (b + c)
      /\ \A i \in 1..a : y[i] = s[i]
      /\ \A i \in 1..(b + c) : y[a + i] = tu[i]
  <2>1. /\ y \in Seq(Nat) /\ Len(y) = Len(s) + Len(tu)
        /\ \A i \in 1..Len(s) : y[i] = s[i]
        /\ \A i \in 1..Len(tu) : y[Len(s) + i] = tu[i]
    BY <1>4, NatsJoined
  <2> QED
    BY <1>1, <1>3, <2>1
<1> HIDE DEF x, y
<1>7. ASSUME NEW i \in 1..(a + b + c) PROVE x[i] = y[i]
  <2>1. CASE i <= a
    <3>1. i \in 1..a /\ i \in 1..(a + b)
      BY <2>1
    <3> QED
      BY <1>2, <1>5, <1>6, <3>1
  <2>2. CASE a < i /\ i <= a + b
    <3>1. PICK j \in 1..b : i = a + j
      BY <2>2
    <3>2. a + j \in 1..(a + b) /\ j \in 1..(b + c)
      BY <3>1
    <3>3. x[a + j] = st[a + j] /\ st[a + j] = t[j]
      BY <1>2, <1>5, <3>2
    <3>4. y[a + j] = tu[j] /\ tu[j] = t[j]
      BY <1>3, <1>6, <3>2
    <3> QED
      BY <3>1, <3>3, <3>4
  <2>3. CASE a + b < i
    <3>1. PICK j \in 1..c : i = a + b + j
      BY <2>3
    <3>2. b + j \in 1..(b + c) /\ a + (b + j) = a + b + j
      OBVIOUS
    <3>3. y[a + (b + j)] = tu[b + j] /\ tu[b + j] = u[j]
      BY <1>3, <1>6, <3>2
    <3> QED
      BY <1>5, <3>1, <3>2, <3>3
  <2> QED
    BY <2>1, <2>2, <2>3
<1>8. Len(x) = Len(y) /\ \A i \in 1..Len(x) : x[i] = y[i]
  BY <1>5, <1>6, <1>7
<1>9. x = y
  BY <1>5, <1>6, <1>8, SeqEqual
<1> QED
  BY <1>9 DEF x, y, st, tu

LEMMA NothingFlat == FlattenSeq(<<>>) = <<>>
BY DEF FlattenSeq

LEMMA InitRxIs ==
  ASSUME BurstConstants
  PROVE  Burst!InitRx \in BurstRx /\ Burst!InitRx.nump = MaxBurst /\ Burst!InitRx.short = FALSE /\ Burst!InitRx.len = 0 /\ Burst!InitRx.irq = FALSE
<1>1. /\ Burst!RxReset \in BurstRx /\ Burst!RxReset.nump = 0 /\ Burst!RxReset.ack = FALSE /\ Burst!RxReset.short = FALSE
      /\ Burst!RxReset.len = 0 /\ Burst!RxReset.irq = FALSE
  BY DEF Burst!RxReset, BurstRx
<1> HIDE DEF Burst!RxReset
<1>2. PICK q : q = Burst!usb30_out_set(Burst!RxReset, TRUE, MaxBurst)
  OBVIOUS
<1>3. q \in BurstRx /\ q.nump = MaxBurst /\ q.short = FALSE /\ q.len = 0 /\ q.irq = FALSE
  BY <1>1, <1>2, ReadyIs
<1> QED
  BY <1>2, <1>3 DEF Burst!InitRx

LEMMA BurstOutInit == ASSUME BurstConstants, Burst!Init PROVE BurstOutInv
<1>1. /\ rx = Burst!InitRx /\ rxbuf = <<>> /\ previously_set_max_burst = MaxBurst /\ rx_total_length = 0
      /\ user = [pc |-> "main", holds |-> FALSE, awaits |-> FALSE] /\ delivered = <<>>
      /\ host = [on |-> TRUE, out |-> 0, ends |-> {}, got |-> <<>>, n |-> 0]
  BY DEF Burst!Init, Burst!HostReset
<1>2. /\ rx \in BurstRx /\ rx.nump = MaxBurst /\ rx.short = FALSE /\ rx.len = 0 /\ rx.irq = FALSE
  BY <1>1, InitRxIs
<1>3. BurstOutType
  BY <1>1, <1>2 DEF BurstOutType, BurstUser
<1>4. BufferTold
  <2>1. Mps * (MaxBurst - MaxBurst) = 0 /\ Mps \in Nat /\ MaxBurst \in Nat
    BY NoneTaken
  <2> QED
    BY <1>1, <1>2, <2>1 DEF BufferTold
<1>5. AllInOrder
  <2>1. Numbers(0) = <<>> /\ <<>> \o <<>> = <<>>
    BY DEF Numbers
  <2>2. NotYetGot = <<>>
    BY <1>1 DEF NotYetGot
  <2> QED
    BY <1>1, <2>1, <2>2, NothingFlat DEF AllInOrder
<1>6. EndsKept
  BY <1>1 DEF EndsKept
<1> QED
  BY <1>3, <1>4, <1>5, <1>6 DEF BurstOutInv

(* A packet of the host follows those that wait.                           *)
LEMMA HostOutKeepsOut ==
  ASSUME BurstConstants, BurstOutInv, NEW len \in OutLens, Burst!HostOut(len)
  PROVE  BurstOutInv'
<1>1. /\ Mps \in Nat /\ Mps > 0 /\ MaxBurst \in Nat /\ len \in Nat /\ len <= Mps
  BY BurstNumbers
<1>2. /\ rx \in BurstRx /\ rx.nump \in Nat /\ rx.nump > 0 /\ rx.nump <= MaxBurst /\ ~rx.short
      /\ user \in BurstUser /\ user.pc = "main" /\ rxbuf \in Seq(Nat) /\ delivered \in Seq(Seq(Nat))
      /\ host.out \in Nat /\ host.ends \subseteq Nat
      /\ Len(rxbuf) = Mps * (MaxBurst - rx.nump)
  BY DEF BurstOutInv, BurstOutType, BufferTold, BurstRx, Burst!HostOut
<1>3. /\ rx' \in BurstRx /\ rx'.nump = rx.nump - 1 /\ rx'.len = len /\ (rx'.short <=> len < Mps) /\ rx'.irq = TRUE
  <2>1. rx' = [rx EXCEPT !.nump = rx.nump - 1, !.len = len, !.short = (len < Mps), !.irq = TRUE]
    BY DEF Burst!HostOut
  <2>2. rx.nump - 1 \in Nat /\ (len < Mps) \in BOOLEAN
    BY <1>2
  <2> QED
    BY <1>1, <1>2, <2>1, <2>2 DEF BurstRx
<1>4. /\ BurstHostType(host') /\ host'.out = host.out + len
      /\ host'.ends = IF len < Mps THEN host.ends \cup {host.out + len} ELSE host.ends
  <2>1. host' = [host EXCEPT !.n = host.n + 1, !.out = host.out + len,
                             !.ends = IF len < Mps THEN host.ends \cup {host.out + len} ELSE host.ends]
    BY DEF Burst!HostOut
  <2>2. host.out + len \in Nat /\ host.n + 1 \in Nat
    BY <1>1, <1>2 DEF BurstOutInv, BurstOutType
  <2>3. (IF len < Mps THEN host.ends \cup {host.out + len} ELSE host.ends) \in SUBSET Nat
    BY <1>2, <2>2
  <2> DEFINE es == IF len < Mps THEN host.ends \cup {host.out + len} ELSE host.ends
  <2>4. host' = [host EXCEPT !.n = host.n + 1, !.out = host.out + len, !.ends = es] /\ es \in SUBSET Nat
    BY <2>1, <2>3
  <2> HIDE DEF es
  <2>5. BurstHostType(host') /\ host'.out = host.out + len /\ host'.ends = es
    BY <2>2, <2>4 DEF BurstOutInv, BurstOutType, BurstHostType
  <2> QED
    BY <2>5 DEF es
<1> DEFINE x == [i \in 1..len |-> host.out + i]
<1>5. /\ x \in Seq(Nat) /\ Len(x) = len /\ Numbers(host.out) \o x = Numbers(host.out + len)
  BY <1>1, <1>2, NumbersMore
<1>6. /\ rxbuf' = rxbuf \o x /\ UNCHANGED <<previously_set_max_burst, rx_total_length, delivered, user>>
  BY DEF Burst!HostOut
<1> HIDE DEF x
<1>7. rxbuf' \in Seq(Nat) /\ Len(rxbuf') = Len(rxbuf) + len
  <2>1. rxbuf \in Seq(Nat) /\ x \in Seq(Nat)
    BY <1>2, <1>5
  <2>2. rxbuf \o x \in Seq(Nat) /\ Len(rxbuf \o x) = Len(rxbuf) + Len(x)
    BY <2>1, ConcatProperties
  <2> QED
    BY <1>5, <1>6, <2>2
<1>8. BurstOutType'
  BY <1>2, <1>3, <1>4, <1>6, <1>7 DEF BurstOutType, BurstHostType
<1>9. BufferTold'
  <2>1. PICK k \in Nat : k = MaxBurst - rx.nump
    BY <1>1, <1>2
  <2>2. MaxBurst - rx'.nump - 1 = k /\ MaxBurst - rx'.nump = k + 1 /\ rx'.nump # MaxBurst
        /\ rx'.nump <= MaxBurst
    <3>1. PICK a \in Nat, m \in Nat : a = rx.nump /\ m = MaxBurst /\ a > 0 /\ a <= m /\ k = m - a
      BY <1>1, <1>2, <2>1
    <3>2. rx'.nump = a - 1
      BY <1>3, <3>1
    <3> QED
      BY <3>1, <3>2
  <2>3. Mps * (k + 1) = Mps * k + Mps /\ Mps * k \in Nat
    BY <1>1
  <2>4. Len(rxbuf') = Mps * k + len
    BY <1>2, <1>7, <2>1
  <2>5. Len(rxbuf') = IF rx'.short THEN Mps * (MaxBurst - rx'.nump - 1) + rx'.len
                                   ELSE Mps * (MaxBurst - rx'.nump)
    <3>1. CASE len < Mps
      BY <1>3, <2>2, <2>4, <3>1
    <3>2. CASE ~(len < Mps)
      <4>1. len = Mps
        BY <1>1, <3>2
      <4> QED
        BY <1>3, <2>2, <2>3, <2>4, <3>2, <4>1
    <3> QED
      BY <3>1, <3>2
  <2> QED
    BY <1>1, <1>3, <1>6, <2>2, <2>5 DEF BurstOutInv, BufferTold
<1>10. AllInOrder'
  <2>1. FlattenSeq(delivered) \in Seq(Nat)
    <3>1. <<>> \in Seq(Nat)
      OBVIOUS
    <3> QED
      BY <1>2, <3>1, FlattenAppend
  <2>2. FlattenSeq(delivered) \o rxbuf = Numbers(host.out)
    BY <1>2 DEF BurstOutInv, AllInOrder, NotYetGot
  <2>3. FlattenSeq(delivered) \o (rxbuf \o x) = (FlattenSeq(delivered) \o rxbuf) \o x
    BY <1>2, <1>5, <2>1, NatsAssociate
  <2>4. FlattenSeq(delivered') \o rxbuf' = Numbers(host'.out)
    BY <1>4, <1>5, <1>6, <2>2, <2>3
  <2>5. NotYetGot' = rxbuf'
    BY <1>2, <1>6 DEF NotYetGot
  <2> QED
    BY <2>4, <2>5 DEF AllInOrder
<1>11. EndsKept'
  <2>1. \A e \in host.ends : e \in Cuts(delivered)
    BY <1>2 DEF BurstOutInv, EndsKept
  <2>2. user'.pc = "main" /\ delivered' = delivered
    BY <1>2, <1>6
  <2> QED
    BY <1>3, <1>4, <2>1, <2>2 DEF EndsKept
<1> QED
  BY <1>8, <1>9, <1>10, <1>11 DEF BurstOutInv

(* What rx_callback is given is the whole buffer.                          *)
LEMMA ReceivedIsBuffer ==
  ASSUME BurstConstants, BurstOutInv, rx.irq, user.pc = "main"
  PROVE  /\ Burst!LengthReceived((previously_set_max_burst - rx.nump) % 256) = Len(rxbuf)
         /\ Burst!Received(Len(rxbuf)) = rxbuf
<1>1. /\ Mps \in Nat /\ Mps <= 1024 /\ MaxBurst \in Nat /\ MaxBurst <= 16
  BY BurstNumbers
<1>2. /\ rx.nump \in Nat /\ rx.nump <= MaxBurst /\ rx.nump # MaxBurst /\ rx.len \in Nat /\ rx.len <= Mps
      /\ rxbuf \in Seq(Nat) /\ previously_set_max_burst = MaxBurst /\ rx_total_length = 0
      /\ Len(rxbuf) = IF rx.short THEN Mps * (MaxBurst - rx.nump - 1) + rx.len
                                  ELSE Mps * (MaxBurst - rx.nump)
  BY DEF BurstOutInv, BurstOutType, BufferTold, BurstRx
<1>3. PICK k \in Nat : k = MaxBurst - rx.nump - 1 /\ MaxBurst - rx.nump = k + 1 /\ k < 16
  BY <1>1, <1>2
<1>4. (previously_set_max_burst - rx.nump) % 256 = k + 1
  <2>1. (k + 1) % 256 = k + 1
    BY <1>3
  <2> QED
    BY <1>2, <1>3, <2>1
<1>5. Mps * (k + 1) = Mps * k + Mps /\ Mps * k \in Nat /\ Mps * k <= 15360
  <2>1. k <= 15
    BY <1>3
  <2>2. Mps * k \in Nat /\ Mps * (k + 1) = Mps * k + Mps
    BY <1>1
  <2>3. Mps * k <= Mps * 15
    BY <1>1, <2>1
  <2> QED
    BY <1>1, <2>2, <2>3
<1>6. Len(rxbuf) < 65536 /\ Len(rxbuf) \in Nat
  <2>1. CASE rx.short
    <3>1. PICK p \in Nat : p = Mps * k /\ p <= 15360
      BY <1>5
    <3>2. Len(rxbuf) = p + rx.len
      BY <1>2, <1>3, <2>1, <3>1
    <3> QED
      BY <1>1, <1>2, <3>1, <3>2
  <2>2. CASE ~rx.short
    <3>1. PICK p \in Nat : p = Mps * k /\ p <= 15360 /\ Mps * (k + 1) = p + Mps
      BY <1>5
    <3>2. Len(rxbuf) = p + Mps
      BY <1>2, <1>3, <2>2, <3>1
    <3> QED
      BY <1>1, <3>1, <3>2
  <2> QED
    BY <2>1, <2>2
<1>7. Burst!LengthReceived(k + 1) = (0 + Len(rxbuf)) % 65536
  <2>1. (k + 1) - 1 = k
    OBVIOUS
  <2> QED
    BY <1>2, <1>3, <2>1 DEF Burst!LengthReceived
<1>8. Burst!LengthReceived(k + 1) = Len(rxbuf)
  BY <1>6, <1>7
<1>9. Burst!Received(Len(rxbuf)) = rxbuf
  <2>1. Burst!Received(Len(rxbuf)) = [i \in 1..Len(rxbuf) |-> rxbuf[i]]
    BY <1>6 DEF Burst!Received
  <2>2. rxbuf = [i \in 1..Len(rxbuf) |-> rxbuf[i]]
    BY <1>2
  <2> QED
    BY <2>1, <2>2
<1> QED
  BY <1>4, <1>8, <1>9

LEMMA OutHandlerKeepsOut ==
  ASSUME BurstConstants, BurstOutInv, Burst!usb30_ep_out_handler
  PROVE  BurstOutInv'
<1>1. rx.irq /\ user.pc = "main"
  BY DEF Burst!usb30_ep_out_handler
<1>2. /\ Burst!LengthReceived((previously_set_max_burst - rx.nump) % 256) = Len(rxbuf)
      /\ Burst!Received(Len(rxbuf)) = rxbuf
  BY <1>1, ReceivedIsBuffer
<1>3. /\ rx \in BurstRx /\ user \in BurstUser /\ rxbuf \in Seq(Nat) /\ delivered \in Seq(Seq(Nat))
      /\ BurstHostType(host) /\ rx.nump <= 16 /\ host.out \in Nat
  <2>1. rx.nump <= MaxBurst /\ rx \in BurstRx
    BY DEF BurstOutInv, BurstOutType, BufferTold
  <2>2. MaxBurst \in Nat /\ MaxBurst <= 16
    BY BurstNumbers
  <2>3. rx.nump <= 16
    BY <2>1, <2>2 DEF BurstRx
  <2> QED
    BY <2>3 DEF BurstOutInv, BurstOutType, BurstHostType
<1>4. rx' = rx
  BY <1>3, OutSetNothing DEF Burst!usb30_ep_out_handler
<1>5. /\ delivered' = Append(delivered, rxbuf) /\ user' = [user EXCEPT !.pc = "rx_callback"]
      /\ UNCHANGED <<rxbuf, previously_set_max_burst, host>>
  BY <1>2 DEF Burst!usb30_ep_out_handler
<1>6. user' \in BurstUser /\ user'.pc = "rx_callback"
  BY <1>3, <1>5 DEF BurstUser
<1>7. delivered' \in Seq(Seq(Nat)) /\ FlattenSeq(delivered') = Numbers(host.out)
  <2>1. FlattenSeq(delivered') = FlattenSeq(delivered) \o rxbuf
    BY <1>3, <1>5, FlattenAppend
  <2>2. FlattenSeq(delivered) \o rxbuf = Numbers(host.out)
    BY <1>1 DEF BurstOutInv, AllInOrder, NotYetGot
  <2> QED
    BY <1>3, <1>5, <2>1, <2>2
<1>8. BurstOutType'
  BY <1>3, <1>4, <1>5, <1>6, <1>7 DEF BurstOutType, BurstHostType
<1>9. BufferTold'
  BY <1>4, <1>5, <1>6 DEF BurstOutInv, BufferTold
<1>10. AllInOrder'
  <2>1. NotYetGot' = <<>>
    BY <1>6 DEF NotYetGot
  <2>2. Numbers(host.out) \o <<>> = Numbers(host.out)
    BY <1>3, NumbersAre
  <2> QED
    BY <1>5, <1>7, <2>1, <2>2 DEF AllInOrder
<1>11. EndsKept'
  <2>1. Cuts(delivered) \subseteq Cuts(delivered')
    BY <1>3, <1>5, CutsMore
  <2>2. Len(FlattenSeq(delivered')) \in Cuts(delivered')
    <3>1. PICK d : d = delivered'
      OBVIOUS
    <3>2. d \in Seq(Seq(Nat)) /\ <<>> \in Seq(Nat)
      BY <1>7, <3>1
    <3>3. Len(FlattenSeq(d)) \in Cuts(d)
      BY <3>2, CutsMore
    <3> QED
      BY <3>1, <3>3
  <2>3. Len(Numbers(host.out)) = host.out
    BY <1>3, NumbersAre
  <2>4. host.out \in Cuts(delivered')
    BY <1>7, <2>2, <2>3
  <2>5. \A e \in host.ends : e \in Cuts(delivered) \/ e = host.out
    BY DEF BurstOutInv, EndsKept
  <2> QED
    BY <1>5, <2>1, <2>4, <2>5 DEF EndsKept
<1> QED
  BY <1>8, <1>9, <1>10, <1>11 DEF BurstOutInv

LEMMA ReturnKeepsOut ==
  ASSUME BurstConstants, BurstOutInv, NEW state \in {"ACK", "NAK"}, Burst!RxCallbackReturns(state)
  PROVE  BurstOutInv'
<1>1. /\ rx \in BurstRx /\ user \in BurstUser /\ delivered \in Seq(Seq(Nat)) /\ BurstHostType(host)
      /\ user.pc = "rx_callback" /\ host.out \in Nat
  BY DEF BurstOutInv, BurstOutType, BurstHostType, Burst!RxCallbackReturns
<1>2. /\ rxbuf' = <<>> /\ previously_set_max_burst' = MaxBurst /\ rx_total_length' = 0
      /\ UNCHANGED <<delivered, host>>
  BY DEF Burst!RxCallbackReturns
<1>3. user' \in BurstUser /\ user'.pc = "main"
  <2>1. user' = [user EXCEPT !.pc = "main", !.holds = (state = "NAK")]
    BY DEF Burst!RxCallbackReturns
  <2>2. (state = "NAK") \in BOOLEAN
    OBVIOUS
  <2> QED
    BY <1>1, <2>1, <2>2 DEF BurstUser
<1>4. PICK r : r = Burst!usb30_out_clear_interrupt(rx)
  OBVIOUS
<1>5. /\ r \in BurstRx /\ r.nump = 0 /\ r.ack = FALSE /\ r.short = FALSE /\ r.len = 0 /\ r.irq = FALSE
  BY <1>1, <1>4 DEF Burst!usb30_out_clear_interrupt, BurstRx
<1>6. PICK q : q = Burst!usb30_out_set(r, TRUE, MaxBurst)
  OBVIOUS
<1>7. q \in BurstRx /\ q.nump = MaxBurst /\ q.short = FALSE /\ q.len = 0 /\ q.irq = FALSE
  BY <1>5, <1>6, ReadyIs
<1>8. rx' = q
  BY <1>4, <1>6 DEF Burst!RxCallbackReturns
<1>9. FlattenSeq(delivered') = Numbers(host'.out)
  <2>1. FlattenSeq(delivered) \o <<>> = Numbers(host.out)
    BY <1>1 DEF BurstOutInv, AllInOrder, NotYetGot
  <2>2. FlattenSeq(delivered) \in Seq(Nat)
    <3>1. <<>> \in Seq(Nat)
      OBVIOUS
    <3> QED
      BY <1>1, <3>1, FlattenAppend
  <2>3. FlattenSeq(delivered) \o <<>> = FlattenSeq(delivered)
    BY <2>2
  <2> QED
    BY <1>2, <2>1, <2>3
<1>10. host'.ends \subseteq Cuts(delivered')
  BY <1>1, <1>2 DEF BurstOutInv, EndsKept
<1>11. BurstHostType(host') /\ delivered' \in Seq(Seq(Nat))
  BY <1>1, <1>2
<1> QED
  BY <1>2, <1>3, <1>7, <1>8, <1>9, <1>10, <1>11, OutReady

LEMMA ReinitKeepsOut ==
  ASSUME BurstConstants, BurstOutInv, Burst!usb30_reinit_endpoints
  PROVE  BurstOutInv'
<1>1. /\ user \in BurstUser /\ user.pc = "main" /\ rx_total_length = 0 /\ host.n \in Nat
  BY DEF BurstOutInv, BurstOutType, BufferTold, Burst!usb30_reinit_endpoints
<1>2. /\ rx' = Burst!InitRx /\ rxbuf' = <<>> /\ previously_set_max_burst' = MaxBurst /\ rx_total_length' = 0
      /\ delivered' = <<>> /\ user' = [user EXCEPT !.awaits = FALSE]
      /\ host' = [on |-> TRUE, out |-> 0, ends |-> {}, got |-> <<>>, n |-> host.n]
  BY <1>1 DEF Burst!usb30_reinit_endpoints, Burst!HostReset
<1>3. user' \in BurstUser /\ user'.pc = "main"
  BY <1>1, <1>2 DEF BurstUser
<1>4. BurstHostType(host') /\ host'.out = 0 /\ host'.ends = {}
  BY <1>1, <1>2 DEF BurstHostType
<1>5. FlattenSeq(delivered') = Numbers(host'.out) /\ delivered' \in Seq(Seq(Nat))
  <2>1. Numbers(0) = <<>>
    BY DEF Numbers
  <2> QED
    BY <1>2, <1>4, <2>1, NothingFlat
<1>6. rx' \in BurstRx /\ rx'.nump = MaxBurst /\ rx'.short = FALSE /\ rx'.len = 0 /\ rx'.irq = FALSE
  BY <1>2, InitRxIs
<1> QED
  BY <1>2, <1>3, <1>4, <1>5, <1>6, OutReady

(* The steps of the other direction, of the user and of a hot reset.       *)
LEMMA OthersKeepOut ==
  ASSUME BurstConstants, BurstOutInv,
         \/ \E size \in Burst!Accepted : Burst!endp_tx_set_new_buffer(size)
         \/ Burst!endp_rx_set_state \/ Burst!usb30_ep_in_handler \/ Burst!HostIn \/ Burst!HotReset
         \/ UNCHANGED Burst!vars
  PROVE  BurstOutInv'
<1>1. /\ rx \in BurstRx /\ user \in BurstUser /\ BurstHostType(host) /\ rx.nump <= 16
  <2>1. rx.nump <= MaxBurst /\ rx \in BurstRx
    BY DEF BurstOutInv, BurstOutType, BufferTold
  <2>2. MaxBurst \in Nat /\ MaxBurst <= 16
    BY BurstNumbers
  <2>3. rx.nump <= 16
    BY <2>1, <2>2 DEF BurstRx
  <2> QED
    BY <2>3 DEF BurstOutInv, BurstOutType, BurstHostType
<1>2. CASE \/ \E size \in Burst!Accepted : Burst!endp_tx_set_new_buffer(size)
           \/ Burst!endp_rx_set_state \/ Burst!usb30_ep_in_handler
  <2>1. UNCHANGED <<Burst!outVars, host>>
    BY <1>2 DEF Burst!endp_tx_set_new_buffer, Burst!endp_rx_set_state, Burst!usb30_ep_in_handler
  <2>2. user' = user \/ user' = [user EXCEPT !.awaits = TRUE] \/ user' = [user EXCEPT !.awaits = FALSE]
           \/ user' = [user EXCEPT !.holds = FALSE]
    BY <1>2 DEF Burst!endp_tx_set_new_buffer, Burst!endp_rx_set_state, Burst!usb30_ep_in_handler, Burst!InComplete, Burst!InRearm
  <2>3. user' \in BurstUser /\ user'.pc = user.pc
    BY <1>1, <2>2 DEF BurstUser
  <2> QED
    BY <1>1, <2>1, <2>3, BurstOutRests
<1>3. CASE Burst!HostIn
  <2>1. UNCHANGED <<Burst!outVars, user>> /\ \E g : host' = [host EXCEPT !.got = g]
    BY <1>3 DEF Burst!HostIn
  <2>2. PICK g : host' = [host EXCEPT !.got = g]
    BY <2>1
  <2>3. BurstHostType(host') /\ host'.out = host.out /\ host'.ends = host.ends
    BY <1>1, <2>2 DEF BurstHostType
  <2> QED
    BY <1>1, <2>1, <2>3, BurstOutRests
<1>4. CASE Burst!HotReset
  <2>1. rx' = rx
    BY <1>1, <1>4, OutSetNothing DEF Burst!HotReset
  <2>2. UNCHANGED <<Burst!outVars, user>> /\ host' = [host EXCEPT !.on = FALSE]
    BY <1>4, <2>1 DEF Burst!HotReset, Burst!outVars
  <2>3. BurstHostType(host') /\ host'.out = host.out /\ host'.ends = host.ends
    BY <1>1, <2>2 DEF BurstHostType
  <2> QED
    BY <1>1, <2>2, <2>3, BurstOutRests
<1>5. CASE UNCHANGED Burst!vars
  <2>1. UNCHANGED <<Burst!outVars, user, host>>
    BY <1>5 DEF Burst!vars
  <2> QED
    BY <1>1, <2>1, BurstOutRests
<1> QED
  BY <1>2, <1>3, <1>4, <1>5

LEMMA BurstOutNext == ASSUME BurstConstants, BurstOutInv, [Burst!Next]_Burst!vars PROVE BurstOutInv'
BY HostOutKeepsOut, OutHandlerKeepsOut, ReturnKeepsOut, ReinitKeepsOut, OthersKeepOut DEF Burst!Next, Burst!Device

LEMMA BurstOutAlways == ASSUME BurstConstants PROVE Burst!Spec => []BurstOutInv
<1>1. Burst!Init => BurstOutInv
  BY BurstOutInit
<1>2. BurstOutInv /\ [Burst!Next]_Burst!vars => BurstOutInv'
  BY BurstOutNext
<1> QED
  BY <1>1, <1>2, PTL DEF Burst!Spec

(* usb30_ep_out_handler gives every byte of the host to rx_callback, once  *)
(* and in order, and no call mixes two transfers, for every packet size,   *)
(* burst and any number of packets and resets.                             *)
THEOREM OutBurstsDelivered == ASSUME BurstConstants PROVE Burst!Spec => []OutDelivered
<1>1. ASSUME BurstOutInv PROVE OutDelivered
  <2>1. FlattenSeq(delivered) \o NotYetGot = [i \in 1..host.out |-> i]
    BY <1>1 DEF BurstOutInv, AllInOrder, Numbers
  <2>2. ASSUME NEW e \in host.ends, e <= Len(FlattenSeq(delivered))
        PROVE  e \in Cuts(delivered)
    <3>1. CASE e \in Cuts(delivered)
      BY <3>1
    <3>2. CASE user.pc = "main" /\ rx.short /\ e = host.out
      <4>1. delivered \in Seq(Seq(Nat)) /\ host.out \in Nat /\ rxbuf \in Seq(Nat) /\ <<>> \in Seq(Nat)
        BY <1>1 DEF BurstOutInv, BurstOutType
      <4>2. FlattenSeq(delivered) \in Seq(Nat) /\ Len(FlattenSeq(delivered)) \in Cuts(delivered)
        BY <4>1, FlattenAppend, CutsMore
      <4>3. FlattenSeq(delivered) \o rxbuf = Numbers(host.out)
        BY <1>1, <3>2 DEF BurstOutInv, AllInOrder, NotYetGot
      <4>4. Len(FlattenSeq(delivered) \o rxbuf) = Len(FlattenSeq(delivered)) + Len(rxbuf)
        BY <4>1, <4>2, ConcatProperties
      <4>5. Len(FlattenSeq(delivered)) \in Nat /\ Len(rxbuf) \in Nat /\ Len(Numbers(host.out)) = host.out
        BY <4>1, <4>2, NumbersAre
      <4>6. e = Len(FlattenSeq(delivered))
        BY <2>2, <3>2, <4>1, <4>3, <4>4, <4>5
      <4> QED
        BY <4>2, <4>6
    <3> QED
      BY <1>1, <3>1, <3>2 DEF BurstOutInv, EndsKept
  <2>3. Len(rxbuf) <= MaxBurst * Mps
    <3>1. /\ Mps \in Nat /\ MaxBurst \in Nat
      BY BurstNumbers
    <3>2. /\ rx.nump \in Nat /\ rx.nump <= MaxBurst /\ rx.len \in Nat /\ rx.len <= Mps
          /\ (rx.short => rx.nump # MaxBurst)
          /\ Len(rxbuf) = IF rx.short THEN Mps * (MaxBurst - rx.nump - 1) + rx.len
                                      ELSE Mps * (MaxBurst - rx.nump)
      BY <1>1 DEF BurstOutInv, BurstOutType, BufferTold, BurstRx
    <3>3. PICK k \in Nat : k = MaxBurst - rx.nump /\ k <= MaxBurst
      BY <3>1, <3>2
    <3>4. Mps * k \in Nat /\ Mps * k <= Mps * MaxBurst /\ Mps * MaxBurst = MaxBurst * Mps
          /\ Mps * MaxBurst \in Nat
      BY <3>1, <3>3
    <3>5. Mps * (k - 1) = Mps * k - Mps
      BY <3>1
    <3>6. CASE rx.short
      <4>1. MaxBurst - rx.nump - 1 = k - 1
        BY <3>1, <3>2, <3>3
      <4>2. Len(rxbuf) = Mps * k - Mps + rx.len
        BY <3>2, <3>5, <3>6, <4>1
      <4>3. PICK p \in Nat, q \in Nat : p = Mps * k /\ q = MaxBurst * Mps /\ p <= q
        BY <3>4
      <4>4. rx.len \in Nat /\ rx.len <= Mps /\ Mps \in Nat /\ Len(rxbuf) = p - Mps + rx.len
        BY <3>1, <3>2, <4>2, <4>3
      <4> QED
        BY <4>3, <4>4
    <3>7. CASE ~rx.short
      BY <3>2, <3>3, <3>4, <3>7
    <3> QED
      BY <3>6, <3>7
  <2>4. \A e \in host.ends : e <= Len(FlattenSeq(delivered)) => e \in Cuts(delivered)
    BY <2>2
  <2> QED
    BY <2>1, <2>3, <2>4 DEF OutDelivered, NotYetGot, Cuts
<1> QED
  BY <1>1, BurstOutAlways, PTL


-----------------------------------------------------------------------------
(***************************************************************************)
(* IN (BurstInInv): NumP, the packets and the bytes left when the endpoint *)
(* was last armed tell where TX_DMA stands in the buffer.                  *)
(***************************************************************************)
(* "max_packet_size_with_burst" allows no more than max_burst packets, as  *)
(* in every descriptor of the tests.                                       *)
BurstsFit == MaxPacketSizeWithBurst <= MaxBurst * Mps

BurstTx == [nump : Nat, ack : BOOLEAN, len : Nat, irq : BOOLEAN, buf : Nat, off : Nat]

(* len bytes go out in n packets.                                          *)
Packs(len, n) == /\ Mps * (n - 1) <= len /\ len <= Mps * n
                 /\ n > 1 => Mps * (n - 1) < len

(* The registers t send a buffer of size bytes, and had len bytes left in  *)
(* n packets when they were last set.                                      *)
Carries(t, len, n, size) ==
  /\ t.ack /\ n \in 1..MaxBurst /\ t.nump <= n /\ (t.irq <=> t.nump # n) /\ t.len <= Mps
  /\ len \in 0..size /\ Packs(len, n)
  /\ t.nump = 0 => t.off = size
  /\ t.nump # 0 => t.off = size - len + Mps * (n - t.nump) /\ t.len = len - Mps * (n - 1)

BurstSending ==
  /\ tx.buf \in 1..Len(given)
  /\ Carries(tx, remaining_length, total_bursts, given[tx.buf])
  /\ host.got = Done \o Part(tx.buf, tx.off)

BurstInInv ==
  /\ tx \in BurstTx /\ BuffersTyped /\ CompletedGiven
  /\ tx.buf = 0 => tx = Burst!TxReset /\ ~user.awaits /\ host.got = Done
  /\ tx.buf # 0 => user.awaits /\ BurstSending

LEMMA Division ==
  ASSUME NEW a \in Nat, NEW m \in Nat \ {0}
  PROVE  /\ a \div m \in Nat /\ a % m \in Nat /\ a % m < m /\ a = m * (a \div m) + (a % m)
OBVIOUS

LEMMA Smaller ==
  ASSUME NEW m \in Nat \ {0}, NEW a \in Nat, NEW b \in Nat, m * a < m * b
  PROVE  a < b
OBVIOUS

(* A buffer that endp_tx_set_new_buffer accepts fits one burst.            *)
LEMMA PacketsOf ==
  ASSUME BurstConstants, BurstsFit, NEW size \in Nat, size <= MaxPacketSizeWithBurst
  PROVE  /\ Burst!TotalPackets(size) \in 1..MaxBurst /\ Packs(size, Burst!TotalPackets(size))
         /\ Burst!TotalPackets(size) % 256 = Burst!TotalPackets(size)
         /\ Burst!LastPacketSize(size) \in 0..Mps
         /\ Burst!LastPacketSize(size) = size - Mps * (Burst!TotalPackets(size) - 1)
<1>1. Mps \in Nat \ {0} /\ MaxBurst \in Nat \ {0} /\ MaxBurst <= 16
  BY BurstNumbers
<1>2. PICK q \in Nat, r \in Nat : q = size \div Mps /\ r = size % Mps /\ r < Mps /\ size = Mps * q + r
  BY <1>1, Division
<1>3. PICK n \in Nat : n = Burst!TotalPackets(size)
  BY <1>1, <1>2 DEF Burst!TotalPackets, Burst!LastPacketSize
<1>4. PICK l : l = Burst!LastPacketSize(size)
  OBVIOUS
<1>5. /\ n > 0 /\ Packs(size, n) /\ l \in 0..Mps /\ l = size - Mps * (n - 1)
  <2>1. CASE r > 0
    <3>1. l = r /\ n = q + 1
      BY <1>1, <1>2, <1>3, <1>4, <2>1 DEF Burst!TotalPackets, Burst!LastPacketSize
    <3>2. PICK p \in Nat : p = Mps * q
      BY <1>1, <1>2
    <3>3. n - 1 = q /\ Mps * n = p + Mps /\ Mps * (n - 1) = p
      BY <1>1, <3>1, <3>2
    <3> QED
      BY <1>1, <1>2, <2>1, <3>1, <3>2, <3>3 DEF Packs
  <2>2. CASE r = 0 /\ size > 0
    <3>1. l = Mps /\ n = q
      BY <1>1, <1>2, <1>3, <1>4, <2>2 DEF Burst!TotalPackets, Burst!LastPacketSize
    <3>2. q > 0
      BY <1>1, <1>2, <2>2
    <3>3. PICK k \in Nat : q = k + 1
      BY <3>2
    <3>4. PICK p \in Nat : p = Mps * k
      BY <1>1, <3>3
    <3>5. n - 1 = k /\ Mps * n = p + Mps /\ Mps * (n - 1) = p /\ size = p + Mps
      BY <1>1, <1>2, <2>2, <3>1, <3>3, <3>4
    <3> QED
      BY <1>1, <2>2, <3>1, <3>2, <3>4, <3>5 DEF Packs
  <2>3. CASE size = 0
    <3>1. q = 0 /\ r = 0
      BY <1>1, <1>2, <2>3
    <3>2. l = 0 /\ n = 1
      BY <1>1, <1>2, <1>3, <1>4, <2>3, <3>1 DEF Burst!TotalPackets, Burst!LastPacketSize
    <3>3. n - 1 = 0 /\ Mps * n = Mps /\ Mps * (n - 1) = 0
      BY <1>1, <3>2
    <3> QED
      BY <1>1, <2>3, <3>2, <3>3 DEF Packs
  <2> QED
    BY <1>2, <2>1, <2>2, <2>3
<1>6. n <= MaxBurst
  <2>1. CASE n > 1
    <3>1. PICK k \in Nat : n = k + 1
      BY <2>1
    <3>2. Mps * k < size
      <4>1. n - 1 = k
        BY <3>1
      <4> QED
        BY <1>5, <2>1, <4>1 DEF Packs
    <3>3. PICK p \in Nat, q0 \in Nat : p = Mps * k /\ q0 = Mps * MaxBurst /\ q0 = MaxBurst * Mps
      BY <1>1, <3>1
    <3>4. p < q0
      <4>1. MaxPacketSizeWithBurst <= q0 /\ MaxPacketSizeWithBurst \in Nat
        BY <3>3 DEF BurstsFit, BurstConstants, Burst!EndpointAssumption
      <4> QED
        BY <3>2, <3>3, <4>1
    <3>5. k < MaxBurst
      BY <1>1, <3>1, <3>3, <3>4, Smaller
    <3> QED
      BY <1>1, <3>1, <3>5
  <2>2. CASE ~(n > 1)
    BY <1>1, <2>2
  <2> QED
    BY <2>1, <2>2
<1>7. n % 256 = n
  BY <1>1, <1>3, <1>6
<1> QED
  BY <1>1, <1>3, <1>4, <1>5, <1>6, <1>7

(* The values of NumP and of the length field.                             *)
Fields == 0..1024

LEMMA InSetNothing ==
  ASSUME BurstConstants, NEW t \in BurstTx, t.nump \in Fields, t.len \in Fields
  PROVE  Burst!usb30_in_set(t, FALSE, 0, 0) = t
<1>1. BitOr(t.nump, 0) = t.nump /\ BitOr(t.len, 0) = t.len
  <2>1. \A a \in Fields : BitOr(a, 0) = a
    BY BurstNumbers DEF Fields
  <2> QED
    BY <2>1
<1>2. (t.ack \/ FALSE) = t.ack
  BY DEF BurstTx
<1>3. Burst!usb30_in_set(t, FALSE, 0, 0) = [t EXCEPT !.nump = t.nump, !.ack = t.ack, !.len = t.len]
  BY <1>1, <1>2 DEF Burst!usb30_in_set, BurstTx
<1> QED
  BY <1>3 DEF BurstTx

(* q is t armed for nump packets, the last of len bytes.                   *)
Arm(t, nump, len) == Burst!usb30_in_set(t, TRUE, nump, len)
Armed(q, t, nump, len) ==
  /\ q \in BurstTx /\ q.nump = nump /\ q.ack = TRUE /\ q.len = len
  /\ q.irq = t.irq /\ q.buf = t.buf /\ q.off = t.off

LEMMA InSetArms ==
  ASSUME BurstConstants, NEW t \in BurstTx, t.nump = 0, t.len = 0,
         NEW nump \in Fields, NEW len \in Fields
  PROVE  Armed(Arm(t, nump, len), t, nump, len)
<1>1. BitOr(0, nump) = nump /\ BitOr(0, len) = len
  <2>1. \A a \in Fields : BitOr(0, a) = a
    BY BurstNumbers DEF Fields
  <2> QED
    BY <2>1
<1>2. Arm(t, nump, len) = [t EXCEPT !.nump = nump, !.ack = TRUE, !.len = len]
  BY <1>1 DEF Arm, Burst!usb30_in_set, BurstTx
<1>3. PICK q : q = [t EXCEPT !.nump = nump, !.ack = TRUE, !.len = len]
  OBVIOUS
<1>4. q \in BurstTx /\ q.nump = nump /\ q.ack = TRUE /\ q.len = len
  <2>1. nump \in Nat /\ len \in Nat
    BY DEF Fields
  <2> QED
    BY <1>3, <2>1 DEF BurstTx
<1>5. q.irq = t.irq /\ q.buf = t.buf /\ q.off = t.off
  BY <1>3 DEF BurstTx
<1>6. Armed(q, t, nump, len)
  BY <1>4, <1>5 DEF Armed
<1> QED
  BY <1>2, <1>3, <1>6

LEMMA ClearedIs ==
  ASSUME NEW t \in BurstTx, NEW c, c = Burst!usb30_in_clear_interrupt(t)
  PROVE  /\ c \in BurstTx /\ c.nump = 0 /\ c.ack = FALSE /\ c.len = 0 /\ c.irq = FALSE
         /\ c.buf = t.buf /\ c.off = t.off
BY DEF Burst!usb30_in_clear_interrupt, BurstTx

(* usb3_endp_tx_ready arms the endpoint for the whole buffer.              *)
LEMMA ReadyCarries ==
  ASSUME BurstConstants, BurstsFit, NEW t \in BurstTx, t.nump = 0, t.len = 0, t.irq = FALSE, t.off = 0,
         NEW size \in Nat, size <= MaxPacketSizeWithBurst
  PROVE  LET q == Arm(t, Burst!TotalPackets(size), Burst!LastPacketSize(size)) IN
         q \in BurstTx /\ q.buf = t.buf /\ q.off = 0 /\ Carries(q, size, Burst!TotalPackets(size) % 256, size)
<1>1. PICK n, l : n = Burst!TotalPackets(size) /\ l = Burst!LastPacketSize(size)
  OBVIOUS
<1>2. n \in 1..MaxBurst /\ Packs(size, n) /\ n % 256 = n /\ l \in 0..Mps /\ l = size - Mps * (n - 1)
  BY <1>1, PacketsOf
<1>3. Mps \in Nat /\ Mps <= 1024 /\ MaxBurst \in Nat /\ MaxBurst <= 16
  BY BurstNumbers
<1>4. n \in Fields /\ l \in Fields
  BY <1>2, <1>3 DEF Fields
<1>5. PICK q : q = Arm(t, n, l)
  OBVIOUS
<1>6. Armed(q, t, n, l)
  <2>1. Armed(Arm(t, n, l), t, n, l)
    BY <1>4, InSetArms
  <2> QED
    BY <1>5, <2>1
<1>7. q \in BurstTx /\ q.nump = n /\ q.ack = TRUE /\ q.len = l /\ q.irq = FALSE /\ q.buf = t.buf /\ q.off = 0
  BY <1>6 DEF Armed
<1>8. size - size + Mps * (n - n) = 0
  <2>1. n - n = 0 /\ size - size = 0
    BY <1>4 DEF Fields
  <2>2. Mps * 0 = 0
    BY <1>3
  <2> QED
    BY <2>1, <2>2
<1>9. Carries(q, size, n, size)
  <2>1. q.ack /\ n \in 1..MaxBurst /\ q.nump <= n /\ (q.irq <=> q.nump # n) /\ q.nump # 0
    <3>1. n # 0 /\ n <= n
      BY <1>2, <1>3
    <3> QED
      BY <1>2, <1>7, <3>1, Zenon
  <2>2. size \in 0..size /\ Packs(size, n)
    BY <1>2
  <2>3. q.off = size - size + Mps * (n - q.nump) /\ q.len = size - Mps * (n - 1)
    BY <1>2, <1>7, <1>8
  <2>4. q.len <= Mps
    BY <1>2, <1>3, <1>7
  <2> HIDE DEF Packs
  <2> QED
    BY <2>1, <2>2, <2>3, <2>4 DEF Carries
<1> QED
  BY <1>1, <1>2, <1>5, <1>7, <1>9

LEMMA CarriesIs ==
  ASSUME BurstConstants, NEW t \in BurstTx, NEW size \in Nat, NEW len, NEW n, Carries(t, len, n, size)
  PROVE  /\ n \in Nat /\ 1 <= n /\ n <= MaxBurst /\ n <= 16 /\ t.nump \in Nat /\ t.nump <= n
         /\ len \in Nat /\ len <= size /\ Mps * (n - 1) \in Nat /\ Mps * n = Mps * (n - 1) + Mps
         /\ Mps * (n - 1) <= len /\ len <= Mps * n /\ (n > 1 => Mps * (n - 1) < len)
         /\ t.off \in Nat /\ t.len \in Nat
<1>1. Mps \in Nat /\ MaxBurst \in Nat /\ MaxBurst <= 16
  BY BurstNumbers
<1>2. n \in Nat /\ 1 <= n /\ n <= MaxBurst /\ n <= 16
  BY <1>1 DEF Carries
<1>3. PICK k \in Nat : n = k + 1
  BY <1>2
<1>4. n - 1 = k /\ Mps * k \in Nat /\ Mps * n = Mps * k + Mps
  BY <1>1, <1>3
<1> QED
  BY <1>2, <1>4 DEF Carries, Packs, BurstTx

(* The buffer is not overrun, and the registers hold nothing too large.    *)
LEMMA CarriesWithin ==
  ASSUME BurstConstants, NEW t \in BurstTx, NEW size \in Nat, NEW len, NEW n, Carries(t, len, n, size)
  PROVE  t.off <= size /\ t.nump \in Fields /\ t.len \in Fields
<1>1. Mps \in Nat /\ Mps <= 1024
  BY BurstNumbers
<1>2. /\ n \in Nat /\ 1 <= n /\ n <= 16 /\ t.nump \in Nat /\ t.nump <= n /\ len \in Nat /\ len <= size
      /\ Mps * (n - 1) \in Nat /\ Mps * n = Mps * (n - 1) + Mps
      /\ Mps * (n - 1) <= len /\ len <= Mps * n
  BY CarriesIs
<1>3. PICK p \in Nat : p = Mps * (n - 1) /\ p <= len /\ len <= p + Mps
  BY <1>1, <1>2
<1>4. t.off <= size
  <2>1. CASE t.nump = 0
    BY <2>1 DEF Carries
  <2>2. CASE t.nump # 0
    <3>1. PICK a \in Nat, b \in Nat : a = n - t.nump /\ b = n - 1 /\ a <= b
      BY <1>2, <2>2
    <3>2. Mps * a <= Mps * b /\ Mps * a \in Nat /\ Mps * b \in Nat
      BY <1>1, <3>1, Times
    <3>3. PICK c \in Nat : c = Mps * a /\ c <= p
      BY <1>3, <3>1, <3>2
    <3>4. t.off = size - len + c
      BY <2>2, <3>1, <3>3 DEF Carries
    <3> QED
      BY <1>2, <1>3, <3>3, <3>4
  <2> QED
    BY <2>1, <2>2
<1>5. t.nump \in Fields
  BY <1>2 DEF Fields
<1>6. t.len \in Fields
  <2>1. PICK l : l = t.len
    OBVIOUS
  <2>2. l \in Nat /\ l <= Mps
    BY <2>1 DEF Carries, BurstTx
  <2>3. l \in Fields
    BY <1>1, <2>2 DEF Fields
  <2> QED
    BY <2>1, <2>3
<1> QED
  BY <1>4, <1>5, <1>6

(* The host takes a packet.                                                *)
LengthOf(t) == IF t.nump = 1 THEN t.len ELSE Mps
Passed(t) == [t EXCEPT !.nump = @ - 1, !.off = @ + LengthOf(t), !.irq = TRUE]

LEMMA PacketTaken ==
  ASSUME BurstConstants, NEW t \in BurstTx, NEW size \in Nat, NEW len, NEW n, Carries(t, len, n, size),
         t.nump > 0
  PROVE  /\ LengthOf(t) \in Nat /\ Passed(t) \in BurstTx /\ Passed(t).buf = t.buf
         /\ Passed(t).off = t.off + LengthOf(t) /\ Carries(Passed(t), len, n, size)
<1>0. PICK l, q : l = LengthOf(t) /\ q = Passed(t)
  OBVIOUS
<1>1. Mps \in Nat
  BY BurstNumbers
<1>2. /\ n \in Nat /\ 1 <= n /\ t.nump \in Nat /\ t.nump <= n /\ len \in Nat /\ len <= size
      /\ Mps * (n - 1) \in Nat /\ Mps * (n - 1) <= len /\ t.off \in Nat /\ t.len \in Nat
  BY CarriesIs
<1>3. l \in Nat
  BY <1>0, <1>1, <1>2 DEF LengthOf
<1>4. PICK k \in Nat : k = t.nump - 1
  BY <1>2
<1>5. q \in BurstTx /\ q.nump = k /\ q.off = t.off + l /\ q.irq = TRUE
  <2>1. t.off + l \in Nat
    BY <1>2, <1>3
  <2> QED
    BY <1>0, <1>4, <2>1 DEF BurstTx, Passed
<1>6. q.buf = t.buf /\ q.ack = t.ack /\ q.len = t.len
  BY <1>0 DEF BurstTx, Passed
<1>7. q.nump <= n /\ q.nump # n
  BY <1>2, <1>4, <1>5
<1>8. PICK p \in Nat : p = Mps * (n - 1)
  BY <1>2
<1>9. ASSUME q.nump = 0 PROVE q.off = size
  <2>1. t.nump = 1 /\ l = t.len
    BY <1>0, <1>2, <1>4, <1>5, <1>9 DEF LengthOf
  <2>2. t.off = size - len + p /\ t.len = len - p
    BY <1>8, <2>1 DEF Carries
  <2> QED
    BY <1>2, <1>5, <1>8, <2>1, <2>2
<1>10. ASSUME q.nump # 0 PROVE q.off = size - len + Mps * (n - q.nump) /\ q.len = len - p
  <2>1. t.nump # 1 /\ l = Mps
    BY <1>0, <1>2, <1>4, <1>5, <1>10 DEF LengthOf
  <2>2. t.off = size - len + Mps * (n - t.nump) /\ t.len = len - p
    BY <1>8, <1>2 DEF Carries
  <2>3. PICK a \in Nat : a = n - t.nump /\ n - q.nump = a + 1
    BY <1>2, <1>4, <1>5
  <2>4. Mps * (a + 1) = Mps * a + Mps /\ Mps * a \in Nat
    BY <1>1
  <2>5. PICK c \in Nat : c = Mps * a
    BY <2>4
  <2>6. q.off = size - len + c + Mps
    BY <1>5, <2>1, <2>2, <2>3, <2>5
  <2>7. q.off = size - len + (c + Mps)
    BY <1>1, <1>2, <2>5, <2>6
  <2> QED
    BY <1>6, <2>2, <2>3, <2>4, <2>5, <2>7
<1>11. t.ack /\ n \in 1..MaxBurst /\ len \in 0..size /\ Packs(len, n) /\ q.len <= Mps
  BY <1>6 DEF Carries
<1>12. Carries(q, len, n, size)
  <2>1. q.ack /\ (q.irq <=> q.nump # n)
    BY <1>5, <1>6, <1>7, <1>11, Zenon
  <2> HIDE DEF Packs
  <2> QED
    BY <1>7, <1>8, <1>9, <1>10, <1>11, <2>1 DEF Carries
<1> QED
  BY <1>0, <1>3, <1>5, <1>6, <1>12

(* The loop of usb30_ep_in_handler: something is left exactly when packets *)
(* are, and it goes out in that many.                                      *)
LEMMA LeftIs ==
  ASSUME BurstConstants, NEW t \in BurstTx, NEW size \in Nat, NEW len, NEW n, Carries(t, len, n, size),
         t.irq, NEW left, left = Burst!LengthLeft(len, (n - t.nump) % 256)
  PROVE  /\ (n - t.nump) % 256 = n - t.nump
         /\ left = 0 <=> t.nump = 0
         /\ t.nump # 0 => /\ left \in Nat /\ left = len - Mps * (n - t.nump)
                          /\ Packs(left, t.nump) /\ Mps * (t.nump - 1) < left
<1>1. Mps \in Nat \ {0}
  BY BurstNumbers
<1>2. /\ n \in Nat /\ 1 <= n /\ n <= 16 /\ t.nump \in Nat /\ t.nump <= n /\ len \in Nat
      /\ Mps * (n - 1) \in Nat /\ Mps * n = Mps * (n - 1) + Mps
      /\ Mps * (n - 1) <= len /\ len <= Mps * n /\ (n > 1 => Mps * (n - 1) < len)
  BY CarriesIs
<1>3. t.nump # n
  BY DEF Carries
<1>4. PICK a \in Nat : a = n - t.nump /\ a > 0 /\ a <= 16 /\ a <= n
  BY <1>2, <1>3
<1>5. (n - t.nump) % 256 = a
  BY <1>4
<1>6. PICK c \in Nat : c = Mps * a /\ c = a * Mps
  BY <1>1, <1>4
<1>7. left = IF len >= c THEN len - c ELSE 0
  BY <1>5, <1>6 DEF Burst!LengthLeft
<1>8. CASE t.nump = 0
  <2>1. a = n
    BY <1>2, <1>4, <1>8
  <2>2. len <= c
    BY <1>2, <1>6, <2>1
  <2>3. left = 0
    BY <1>2, <1>7, <2>2
  <2> QED
    BY <1>4, <1>5, <1>8, <2>3
<1>9. CASE t.nump # 0
  <2>1. PICK k \in Nat : t.nump = k + 1 /\ n - 1 = a + k /\ n > 1
    <3>1. PICK m \in Nat : m = t.nump /\ m > 0
      BY <1>2, <1>9
    <3>2. PICK k \in Nat : m = k + 1
      BY <3>1
    <3>3. n - 1 = a + k /\ n > 1
      BY <1>2, <1>4, <3>1, <3>2
    <3> QED
      BY <3>1, <3>2, <3>3
  <2>2. PICK d \in Nat : d = Mps * k /\ Mps * (k + 1) = d + Mps /\ Mps * (a + k) = c + d
    BY <1>1, <1>4, <1>6, <2>1
  <2>3. c + d < len /\ len <= c + d + Mps
    BY <1>2, <2>1, <2>2
  <2>4. left = len - c /\ left \in Nat /\ left # 0 /\ d < left /\ left <= d + Mps
    BY <1>1, <1>2, <1>6, <1>7, <2>2, <2>3
  <2>5. Mps * (t.nump - 1) = d /\ Mps * t.nump = d + Mps
    <3>1. t.nump - 1 = k
      BY <1>2, <2>1
    <3> QED
      BY <2>1, <2>2, <3>1
  <2>6. Packs(left, t.nump)
    BY <1>1, <2>2, <2>4, <2>5 DEF Packs
  <2> QED
    BY <1>4, <1>5, <1>6, <1>9, <2>4, <2>5, <2>6
<1> QED
  BY <1>8, <1>9

(* usb30_ep_in_handler arms the endpoint again for what is left.           *)
LEMMA RearmCarries ==
  ASSUME BurstConstants, NEW t \in BurstTx, NEW size \in Nat, NEW len, NEW n, Carries(t, len, n, size),
         t.irq, NEW left, left = Burst!LengthLeft(len, (n - t.nump) % 256), left # 0,
         NEW nump, nump = Burst!Min2(t.nump, MaxBurst),
         NEW q, q = Arm(Burst!usb30_in_clear_interrupt(t), nump, Burst!RearmLength(left, nump))
  PROVE  /\ q \in BurstTx /\ q.buf = t.buf /\ q.off = t.off
         /\ Carries(q, left, (n - ((n - t.nump) % 256)) % 256, size)
<1>1. Mps \in Nat /\ Mps <= 1024 /\ MaxBurst \in Nat /\ MaxBurst <= 16
  BY BurstNumbers
<1>2. /\ n \in Nat /\ n <= MaxBurst /\ n <= 16 /\ t.nump \in Nat /\ t.nump <= n
      /\ len \in Nat /\ len <= size /\ t.off \in Nat
  BY CarriesIs
<1>3. /\ (n - t.nump) % 256 = n - t.nump /\ t.nump # 0
      /\ left \in Nat /\ left = len - Mps * (n - t.nump)
      /\ Packs(left, t.nump) /\ Mps * (t.nump - 1) < left
  BY LeftIs
<1>4. nump = t.nump /\ nump \in 1..MaxBurst /\ nump \in Nat
  <2>1. PICK m \in Nat : m = t.nump /\ m <= n /\ m > 0
    BY <1>2, <1>3
  <2>2. m <= MaxBurst
    BY <1>1, <1>2, <2>1
  <2> QED
    BY <1>1, <2>1, <2>2 DEF Burst!Min2
<1>5. (n - ((n - t.nump) % 256)) % 256 = nump
  <2>1. n - (n - t.nump) = nump
    BY <1>2, <1>4
  <2>2. nump % 256 = nump
    BY <1>1, <1>4
  <2> QED
    BY <1>3, <2>1, <2>2
<1>6. PICK k \in Nat : nump = k + 1 /\ nump - 1 = k
  BY <1>4
<1>7. PICK d \in Nat : d = Mps * k /\ d = k * Mps /\ Mps * nump = d + Mps /\ nump * Mps = d + Mps
  BY <1>1, <1>6
<1>8. d < left /\ left <= d + Mps
  BY <1>3, <1>4, <1>6, <1>7 DEF Packs
<1>9. PICK l : l = Burst!RearmLength(left, nump)
  OBVIOUS
<1>10. l = left - d /\ l \in Fields
  <2>1. l = IF left >= d + Mps THEN Mps ELSE left - d
    BY <1>6, <1>7, <1>9 DEF Burst!RearmLength
  <2>2. PICK x \in Nat : x = left /\ d < x /\ x <= d + Mps
    BY <1>3, <1>8
  <2>3. PICK m \in Nat : m = Mps /\ m <= 1024
    BY <1>1
  <2>4. x - d \in Nat /\ x - d <= m /\ (x >= d + m => m = x - d)
    BY <1>7, <2>2, <2>3
  <2>5. l = x - d
    BY <2>1, <2>2, <2>3, <2>4
  <2>6. x - d \in Fields
    BY <2>3, <2>4 DEF Fields
  <2> QED
    BY <2>2, <2>5, <2>6
<1>11. PICK c : c = Burst!usb30_in_clear_interrupt(t)
  OBVIOUS
<1>12. /\ c \in BurstTx /\ c.nump = 0 /\ c.len = 0 /\ c.irq = FALSE /\ c.buf = t.buf /\ c.off = t.off
  BY <1>11, ClearedIs
<1>13. nump \in Fields
  BY <1>1, <1>4 DEF Fields
<1>14. Armed(Arm(c, nump, l), c, nump, l)
  BY <1>10, <1>12, <1>13, InSetArms
<1>15. Armed(q, c, nump, l)
  BY <1>9, <1>11, <1>14
<1>16. /\ q \in BurstTx /\ q.nump = nump /\ q.ack = TRUE /\ q.len = l
       /\ q.irq = FALSE /\ q.buf = t.buf /\ q.off = t.off
  BY <1>12, <1>15 DEF Armed
<1>17. q.off = size - left + Mps * (nump - nump)
  <2>1. PICK e \in Int : e = Mps * (n - t.nump)
    BY <1>1, <1>2
  <2>2. t.off = size - len + e
    BY <1>3, <2>1 DEF Carries
  <2>3. left = len - e
    BY <1>3, <2>1
  <2>4. Mps * (nump - nump) = 0
    BY <1>1, <1>4
  <2> QED
    BY <1>2, <1>16, <2>1, <2>2, <2>3, <2>4
<1>18. Carries(q, left, nump, size)
  <2>1. left \in 0..size
    <3>1. PICK a \in Nat : a = n - t.nump
      BY <1>2
    <3>2. PICK e \in Nat : e = Mps * a
      BY <1>1, <3>1
    <3> QED
      BY <1>2, <1>3, <3>1, <3>2
  <2>2. q.ack /\ nump \in 1..MaxBurst /\ q.nump <= nump /\ (q.irq <=> q.nump # nump) /\ q.nump # 0
    <3>1. nump <= nump /\ nump # 0 /\ nump \in 1..MaxBurst
      BY <1>4
    <3>2. q.nump = nump /\ q.ack = TRUE /\ q.irq = FALSE
      BY <1>16
    <3> QED
      BY <3>1, <3>2, ZenonT(40)
  <2>3. Packs(left, nump)
    BY <1>3, <1>4
  <2>4. q.off = size - left + Mps * (nump - q.nump) /\ q.len = left - Mps * (nump - 1)
    BY <1>6, <1>7, <1>10, <1>16, <1>17
  <2>5. q.len <= Mps
    <3>1. PICK x \in Nat : x = left /\ x <= d + Mps
      BY <1>3, <1>8
    <3> QED
      BY <1>1, <1>7, <1>10, <1>16, <3>1
  <2> HIDE DEF Packs
  <2> QED
    BY <2>1, <2>2, <2>3, <2>4, <2>5 DEF Carries
<1> QED
  BY <1>5, <1>16, <1>18

LEMMA SendsFrom ==
  ASSUME tx' \in BurstTx, tx'.buf \in 1..Len(given'),
         Carries(tx', remaining_length', total_bursts', given'[tx'.buf]),
         host'.got = Done' \o Part(tx'.buf, tx'.off)
  PROVE  BurstSending'
BY DEF BurstSending, Carries, Packs, Part

LEMMA AcceptedIs ==
  ASSUME BurstConstants, NEW size \in Burst!Accepted
  PROVE  size \in Nat /\ size <= MaxPacketSizeWithBurst
<1>1. TxSizes \subseteq Nat
  BY BurstNumbers
<1> QED
  BY <1>1 DEF Burst!Accepted

LEMMA NewBurstSends ==
  ASSUME BurstConstants, BurstsFit, BuffersTyped, NEW size \in Burst!Accepted,
         NEW t \in BurstTx, t.nump = 0, t.len = 0, t.irq = FALSE,
         Burst!usb3_endp_tx_ready(t, Len(given) + 1, size), host'.got = Done', Done' \in Seq(Byte)
  PROVE  tx' \in BurstTx /\ tx'.buf # 0 /\ BurstSending' /\ BuffersTyped' = (completed' \in Seq(Nat))
<1>1. size \in Nat /\ size <= MaxPacketSizeWithBurst
  BY AcceptedIs
<1>2. /\ given' = Append(given, size) /\ remaining_length' = size
      /\ total_bursts' = Burst!TotalPackets(size) % 256
  BY DEF Burst!usb3_endp_tx_ready
<1>3. PICK b \in Nat : b = Len(given) + 1 /\ b # 0
  BY DEF BuffersTyped
<1>4. b \in 1..Len(given') /\ given'[b] = size /\ given' \in Seq(Nat)
  <2>1. given' \in Seq(Nat)
    BY <1>1, <1>2 DEF BuffersTyped
  <2> QED
    BY <1>1, <1>2, <1>3, <2>1, GivenGrows
<1>5. PICK u : u = [t EXCEPT !.buf = b, !.off = 0]
  OBVIOUS
<1>6. u \in BurstTx /\ u.nump = 0 /\ u.len = 0 /\ u.irq = FALSE /\ u.buf = b /\ u.off = 0
  BY <1>5 DEF BurstTx
<1>7. tx' = Arm(u, Burst!TotalPackets(size), Burst!LastPacketSize(size))
  BY <1>3, <1>5 DEF Burst!usb3_endp_tx_ready, Arm
<1>8. PICK q : q = Arm(u, Burst!TotalPackets(size), Burst!LastPacketSize(size))
  OBVIOUS
<1>9. q \in BurstTx /\ q.buf = b /\ q.off = 0 /\ Carries(q, size, Burst!TotalPackets(size) % 256, size)
  BY <1>1, <1>6, <1>8, ReadyCarries
<1>10. tx' = q
  BY <1>7, <1>8
<1>11. host'.got = Done' \o Part(tx'.buf, tx'.off)
  <2>1. Part(b, 0) = <<>>
    BY NoPart
  <2>2. Done' \o <<>> = Done'
    OBVIOUS
  <2> QED
    BY <1>9, <1>10, <2>1, <2>2
<1>12. Carries(tx', remaining_length', total_bursts', given'[tx'.buf])
  BY <1>2, <1>4, <1>9, <1>10
<1>13. tx' \in BurstTx /\ tx'.buf \in 1..Len(given') /\ tx'.buf # 0
  BY <1>3, <1>4, <1>9, <1>10
<1>14. BurstSending'
  BY <1>11, <1>12, <1>13, SendsFrom
<1> QED
  BY <1>4, <1>13, <1>14 DEF BuffersTyped

LEMMA NewBufferKeepsIn ==
  ASSUME BurstConstants, BurstsFit, BurstOutInv, BurstInInv, NEW size \in Burst!Accepted, Burst!endp_tx_set_new_buffer(size)
  PROVE  BurstInInv'
<1>1. /\ ~user.awaits /\ Burst!usb3_endp_tx_ready(tx, Len(given) + 1, size)
      /\ user' = [user EXCEPT !.awaits = TRUE] /\ UNCHANGED <<completed, host>>
  BY DEF Burst!endp_tx_set_new_buffer
<1>2. tx \in BurstTx /\ BuffersTyped /\ CompletedGiven /\ tx = Burst!TxReset /\ host.got = Done
  BY <1>1 DEF BurstInInv
<1>3. size \in Nat /\ given' = Append(given, size)
  BY <1>1, AcceptedIs DEF Burst!usb3_endp_tx_ready
<1>4. GivenKept
  BY <1>2, <1>3, GivenGrows
<1>5. Done' = Done /\ CompletedGiven' /\ Done \in Seq(Byte)
  BY <1>1, <1>2, <1>4, DoneKept, DoneIs
<1>6. tx.nump = 0 /\ tx.len = 0 /\ tx.irq = FALSE
  BY <1>2 DEF Burst!TxReset
<1>7. host'.got = Done' /\ Done' \in Seq(Byte)
  BY <1>1, <1>2, <1>5
<1>8. tx' \in BurstTx /\ tx'.buf # 0 /\ BurstSending' /\ BuffersTyped' = (completed' \in Seq(Nat))
  BY <1>1, <1>2, <1>6, <1>7, NewBurstSends
<1>9. user'.awaits
  BY <1>1 DEF BurstOutInv, BurstOutType, BurstUser
<1>10. BuffersTyped'
  BY <1>1, <1>2, <1>8 DEF BuffersTyped
<1> QED
  BY <1>5, <1>8, <1>9, <1>10 DEF BurstInInv

Bytes(b, k, n) == [i \in 1..n |-> [buf |-> b, off |-> k + i - 1]]

LEMMA BytesAre ==
  ASSUME NEW b \in Nat, NEW k \in Nat, NEW n \in Nat
  PROVE  /\ Bytes(b, k, n) \in Seq(Byte) /\ Len(Bytes(b, k, n)) = n
         /\ \A i \in 1..n : Bytes(b, k, n)[i] = [buf |-> b, off |-> k + i - 1]
<1>1. \A i \in 1..n : k + i - 1 \in Nat
  OBVIOUS
<1>2. \A i \in 1..n : [buf |-> b, off |-> k + i - 1] \in Byte
  BY <1>1 DEF Byte
<1> QED
  BY <1>2 DEF Bytes

LEMMA HostInKeepsIn ==
  ASSUME BurstConstants, BurstOutInv, BurstInInv, Burst!HostIn
  PROVE  BurstInInv'
<1>1. /\ tx.ack /\ tx.nump > 0 /\ UNCHANGED <<remaining_length, total_bursts, given, completed, user>>
  BY DEF Burst!HostIn, Burst!inVars
<1>2. tx \in BurstTx /\ BuffersTyped /\ CompletedGiven
  BY DEF BurstInInv
<1>3. tx.buf # 0
  BY <1>1 DEF BurstInInv, Burst!TxReset
<1>4. user.awaits /\ BurstSending
  BY <1>3 DEF BurstInInv
<1>5. PICK size \in Nat : size = given[tx.buf]
  BY <1>2, <1>4 DEF BurstSending, BuffersTyped
<1>6. PICK l : l = LengthOf(tx)
  OBVIOUS
<1>7. /\ tx' = Passed(tx)
      /\ host' = [host EXCEPT !.got = @ \o Bytes(tx.buf, tx.off, l)]
  BY <1>6 DEF Burst!HostIn, LengthOf, Passed, Bytes
<1>8. PICK q : q = tx'
  OBVIOUS
<1>9. /\ l \in Nat /\ q \in BurstTx /\ q.buf = tx.buf /\ q.off = tx.off + l
      /\ Carries(q, remaining_length, total_bursts, size)
  <2>1. Carries(tx, remaining_length, total_bursts, size)
    BY <1>4, <1>5 DEF BurstSending
  <2>2. PICK t, len, n : t = tx /\ len = remaining_length /\ n = total_bursts
    OBVIOUS
  <2>3. t \in BurstTx /\ Carries(t, len, n, size) /\ t.nump > 0 /\ l = LengthOf(t) /\ q = Passed(t)
    BY <1>1, <1>2, <1>6, <1>7, <1>8, <2>1, <2>2
  <2>4. l \in Nat /\ q \in BurstTx /\ q.buf = t.buf /\ q.off = t.off + l /\ Carries(q, len, n, size)
    BY <2>3, PacketTaken
  <2> QED
    BY <2>2, <2>4
<1>10. PICK b \in Nat, k \in Nat : b = tx.buf /\ k = tx.off
  BY <1>2 DEF BurstTx
<1>11. PICK s : s = Bytes(b, k, l)
  OBVIOUS
<1>12. s \in Seq(Byte) /\ Len(s) = l /\ \A i \in 1..l : s[i] = [buf |-> b, off |-> k + i - 1]
  <2>1. l \in Nat
    BY <1>9
  <2> QED
    BY <1>11, <2>1, BytesAre
<1>13. Part(b, k) \o s = Part(b, k + l) /\ Part(b, k) \in Seq(Byte)
  <2>1. PICK n \in Nat : n = l
    BY <1>9
  <2>2. s \in Seq(Byte) /\ Len(s) = n /\ \A i \in 1..n : s[i] = [buf |-> b, off |-> k + i - 1]
    BY <1>12, <2>1
  <2>3. Part(b, k) \o s = Part(b, k + n)
    <3> HIDE DEF Part, Byte
    <3> QED
      BY <2>2, PartJoined, ZenonT(40)
  <2>4. Part(b, k) \in Seq(Byte)
    BY PartIs
  <2> QED
    BY <2>1, <2>3, <2>4
<1>14. Done \in Seq(Byte) /\ Done' = Done /\ CompletedGiven' /\ BuffersTyped'
  BY <1>1, <1>2, GivenStays, DoneIs, DoneKept DEF BuffersTyped
<1>15. host'.got = Done \o Part(b, k + l)
  <2>1. host'.got = (Done \o Part(b, k)) \o s
    <3>1. host'.got = host.got \o s
      BY <1>7, <1>10, <1>11 DEF BurstOutInv, BurstOutType
    <3> QED
      BY <1>4, <1>10, <3>1 DEF BurstSending
  <2>2. PICK d, p : d = Done /\ p = Part(b, k)
    OBVIOUS
  <2>3. d \in Seq(Byte) /\ p \in Seq(Byte) /\ s \in Seq(Byte)
    BY <1>12, <1>13, <1>14, <2>2
  <2>4. (d \o p) \o s = d \o (p \o s)
    BY <2>3, ConcatAssociative, SMTT(30)
  <2> QED
    BY <1>13, <2>1, <2>2, <2>4
<1>16. host'.got = Done' \o Part(tx'.buf, tx'.off)
  BY <1>8, <1>9, <1>10, <1>14, <1>15
<1>17. tx' \in BurstTx /\ tx'.buf \in 1..Len(given') /\ tx'.buf # 0
  BY <1>1, <1>3, <1>4, <1>8, <1>9 DEF BurstSending
<1>18. Carries(tx', remaining_length', total_bursts', given'[tx'.buf])
  BY <1>1, <1>5, <1>8, <1>9
<1>19. BurstSending'
  BY <1>16, <1>17, <1>18, SendsFrom
<1> QED
  BY <1>1, <1>4, <1>14, <1>17, <1>19 DEF BurstInInv

(* Where the host has all of the buffer, tx_complete finds it arrived.     *)
LEMMA CompleteKeepsIn ==
  ASSUME BurstConstants, BurstsFit, BurstOutInv, BurstInInv, BurstSending, user.awaits, tx.nump = 0,
         Burst!InComplete, UNCHANGED host
  PROVE  BurstInInv'
<1>1. tx \in BurstTx /\ BuffersTyped /\ CompletedGiven
  BY DEF BurstInInv
<1>2. /\ tx.buf \in 1..Len(given) /\ tx.off = given[tx.buf] /\ host.got = Done \o Part(tx.buf, tx.off)
  BY DEF BurstSending, Carries
<1>3. PICK b : b = tx.buf
  OBVIOUS
<1>4. b \in 1..Len(given) /\ completed' = Append(completed, b) /\ completed' \in Seq(Nat)
  BY <1>1, <1>2, <1>3 DEF Burst!InComplete, BuffersTyped
<1>5. PICK c : c = Burst!usb30_in_clear_interrupt(tx)
  OBVIOUS
<1>6. c \in BurstTx /\ c.nump = 0 /\ c.ack = FALSE /\ c.len = 0 /\ c.irq = FALSE
  BY <1>1, <1>5, ClearedIs
<1>7. ASSUME GivenKept
      PROVE  host'.got = Done' /\ CompletedGiven' /\ Done' \in Seq(Byte)
  <2>1. Done' = Done \o Part(b, given[b]) /\ CompletedGiven'
    BY <1>1, <1>4, <1>7, DoneMore
  <2>2. given[b] \in Nat /\ b \in Nat
    BY <1>1, <1>4 DEF BuffersTyped
  <2>3. Part(b, given[b]) \in Seq(Byte) /\ Done \in Seq(Byte)
    BY <1>1, <2>2, PartIs, DoneIs
  <2>4. Done \o Part(b, given[b]) \in Seq(Byte)
    BY <2>3
  <2> QED
    BY <1>2, <1>3, <2>1, <2>4
<1>8. CASE /\ tx' = Burst!usb30_in_set([c EXCEPT !.off = 0, !.buf = 0], FALSE, 0, 0)
           /\ user' = [user EXCEPT !.awaits = FALSE] /\ UNCHANGED given
  <2>1. PICK u : u = [c EXCEPT !.off = 0, !.buf = 0]
    OBVIOUS
  <2>2. u = Burst!TxReset /\ u \in BurstTx /\ u.nump \in Fields /\ u.len \in Fields
    <3>1. u \in BurstTx
      BY <1>6, <2>1 DEF BurstTx
    <3>2. u.nump = 0 /\ u.ack = FALSE /\ u.len = 0 /\ u.irq = FALSE /\ u.buf = 0 /\ u.off = 0
      BY <1>6, <2>1 DEF BurstTx
    <3>3. u = [nump |-> u.nump, ack |-> u.ack, len |-> u.len, irq |-> u.irq, buf |-> u.buf, off |-> u.off]
      BY <3>1 DEF BurstTx
    <3>4. u = Burst!TxReset
      BY <3>2, <3>3 DEF Burst!TxReset
    <3> QED
      BY <3>1, <3>2, <3>4 DEF Fields
  <2>3. Burst!usb30_in_set(u, FALSE, 0, 0) = u
    BY <2>2, InSetNothing
  <2>4. tx' = Burst!TxReset /\ tx' \in BurstTx /\ tx'.buf = 0
    <3>1. tx' = Burst!usb30_in_set(u, FALSE, 0, 0)
      BY <1>8, <2>1
    <3>2. tx' = u
      BY <2>3, <3>1
    <3>3. u.buf = 0
      BY <2>2 DEF Burst!TxReset
    <3> QED
      BY <2>2, <3>2, <3>3
  <2>5. ~user'.awaits
    BY <1>8 DEF BurstOutInv, BurstOutType, BurstUser
  <2>6. host'.got = Done' /\ CompletedGiven' /\ BuffersTyped'
    BY <1>1, <1>4, <1>7, <1>8, GivenStays DEF BuffersTyped
  <2> QED
    BY <2>4, <2>5, <2>6 DEF BurstInInv, Burst!TxReset
<1>9. ASSUME NEW size \in Burst!Accepted, Burst!usb3_endp_tx_ready(c, Len(given) + 1, size), UNCHANGED user
      PROVE  BurstInInv'
  <2>1. size \in Nat /\ given' = Append(given, size)
    BY <1>9, AcceptedIs DEF Burst!usb3_endp_tx_ready
  <2>2. GivenKept
    BY <1>1, <2>1, GivenGrows
  <2>3. host'.got = Done' /\ CompletedGiven' /\ Done' \in Seq(Byte)
    BY <1>7, <2>2
  <2>4. tx' \in BurstTx /\ tx'.buf # 0 /\ BurstSending' /\ BuffersTyped' = (completed' \in Seq(Nat))
    BY <1>1, <1>6, <1>9, <2>3, NewBurstSends
  <2>5. BuffersTyped'
    BY <1>4, <2>4
  <2> QED
    BY <1>9, <2>3, <2>4, <2>5 DEF BurstInInv
<1> QED
  BY <1>5, <1>8, <1>9 DEF Burst!InComplete

LEMMA InHandlerKeepsIn ==
  ASSUME BurstConstants, BurstsFit, BurstOutInv, BurstInInv, Burst!usb30_ep_in_handler
  PROVE  BurstInInv'
<1>1. tx.irq /\ UNCHANGED host /\ tx \in BurstTx /\ BuffersTyped /\ CompletedGiven
  BY DEF Burst!usb30_ep_in_handler, BurstInInv
<1>2. tx.buf # 0
  BY <1>1 DEF BurstInInv, Burst!TxReset
<1>3. user.awaits /\ BurstSending
  BY <1>2 DEF BurstInInv
<1>4. PICK t, len, n, size : t = tx /\ len = remaining_length /\ n = total_bursts /\ size = given[tx.buf]
  OBVIOUS
<1>5. t \in BurstTx /\ t.irq /\ size \in Nat /\ Carries(t, len, n, size)
  BY <1>1, <1>3, <1>4 DEF BurstSending, BuffersTyped
<1>6. PICK left : left = Burst!LengthLeft(len, (n - t.nump) % 256)
  OBVIOUS
<1>7. left = 0 <=> t.nump = 0
  BY <1>5, <1>6, LeftIs
<1>8. \/ left = 0 /\ Burst!InComplete
      \/ left # 0 /\ remaining_length' = left /\ Burst!InRearm(left)
  BY <1>4, <1>6 DEF Burst!usb30_ep_in_handler, Burst!PacketsSent
<1>9. CASE left = 0 /\ Burst!InComplete
  BY <1>1, <1>3, <1>4, <1>7, <1>9, CompleteKeepsIn
<1>10. CASE left # 0 /\ remaining_length' = left /\ Burst!InRearm(left)
  <2>1. PICK nump, q : nump = Burst!Min2(t.nump, MaxBurst)
                       /\ q = Arm(Burst!usb30_in_clear_interrupt(t), nump, Burst!RearmLength(left, nump))
    OBVIOUS
  <2>2. /\ tx' = q /\ total_bursts' = (n - ((n - t.nump) % 256)) % 256
        /\ UNCHANGED <<given, completed, user>>
    BY <1>4, <1>10, <2>1 DEF Burst!InRearm, Burst!PacketsSent, Arm
  <2>3. /\ q \in BurstTx /\ q.buf = t.buf /\ q.off = t.off
        /\ Carries(q, left, (n - ((n - t.nump) % 256)) % 256, size)
    BY <1>5, <1>6, <1>10, <2>1, RearmCarries
  <2>4. Done' = Done /\ CompletedGiven' /\ BuffersTyped'
    BY <1>1, <2>2, GivenStays, DoneKept DEF BuffersTyped
  <2>5. tx' \in BurstTx /\ tx'.buf \in 1..Len(given') /\ tx'.buf # 0
    BY <1>2, <1>3, <1>4, <2>2, <2>3 DEF BurstSending
  <2>6. Carries(tx', remaining_length', total_bursts', given'[tx'.buf])
    BY <1>4, <1>10, <2>2, <2>3
  <2>7. host'.got = Done' \o Part(tx'.buf, tx'.off)
    BY <1>1, <1>3, <1>4, <2>2, <2>3, <2>4 DEF BurstSending
  <2>8. BurstSending'
    BY <2>5, <2>6, <2>7, SendsFrom
  <2> QED
    BY <1>3, <2>2, <2>4, <2>5, <2>8 DEF BurstInInv
<1> QED
  BY <1>8, <1>9, <1>10

LEMMA BurstInRests ==
  ASSUME BurstInInv, UNCHANGED Burst!inVars, user'.awaits = user.awaits, host'.got = host.got
  PROVE  BurstInInv'
<1>1. UNCHANGED <<tx, remaining_length, total_bursts, given, completed>>
  BY DEF Burst!inVars
<1>2. Done' = Done /\ CompletedGiven' /\ BuffersTyped'
  BY <1>1, GivenStays, DoneKept DEF BuffersTyped, BurstInInv
<1>3. ASSUME BurstSending PROVE BurstSending'
  <2>1. tx' \in BurstTx /\ tx'.buf \in 1..Len(given')
    BY <1>1, <1>3 DEF BurstSending, BurstInInv
  <2>2. Carries(tx', remaining_length', total_bursts', given'[tx'.buf])
    BY <1>1, <1>3 DEF BurstSending
  <2>3. host'.got = Done' \o Part(tx'.buf, tx'.off)
    BY <1>1, <1>2, <1>3 DEF BurstSending
  <2> QED
    BY <2>1, <2>2, <2>3, SendsFrom
<1> HIDE DEF BurstSending, Done, BuffersTyped, CompletedGiven
<1> QED
  BY <1>1, <1>2, <1>3 DEF BurstInInv, Burst!TxReset

LEMMA InitTxIs == ASSUME BurstConstants PROVE Burst!InitTx = Burst!TxReset /\ Burst!TxReset \in BurstTx /\ Burst!TxReset.buf = 0
<1>1. Burst!TxReset \in BurstTx /\ Burst!TxReset.nump \in Fields /\ Burst!TxReset.len \in Fields /\ Burst!TxReset.buf = 0
  BY DEF Burst!TxReset, BurstTx, Fields
<1> HIDE DEF Burst!TxReset
<1> QED
  BY <1>1, InSetNothing DEF Burst!InitTx

LEMMA NothingSent ==
  ASSUME BurstConstants, tx' = Burst!InitTx, completed' = <<>>, given' \in Seq(Nat), ~user'.awaits, host'.got = <<>>
  PROVE  BurstInInv'
<1>1. Buffers' = <<>>
  BY DEF Buffers
<1>2. Done' = <<>> /\ CompletedGiven'
  BY <1>1 DEF Done, FlattenSeq, CompletedGiven
<1>3. BuffersTyped'
  BY DEF BuffersTyped
<1>4. tx' = Burst!TxReset /\ tx' \in BurstTx /\ tx'.buf = 0
  BY InitTxIs
<1> HIDE DEF Done, CompletedGiven
<1> QED
  BY <1>2, <1>3, <1>4 DEF BurstInInv, Burst!TxReset

LEMMA BurstInNext ==
  ASSUME BurstConstants, BurstsFit, BurstOutInv, BurstInInv, [Burst!Next]_Burst!vars
  PROVE  BurstInInv'
<1>1. user \in BurstUser /\ BurstHostType(host) /\ given \in Seq(Nat)
  BY DEF BurstOutInv, BurstOutType, BurstHostType, BurstInInv, BuffersTyped
<1>2. CASE \/ Burst!endp_rx_set_state \/ Burst!usb30_ep_out_handler
           \/ \E state \in {"ACK", "NAK"} : Burst!RxCallbackReturns(state)
           \/ \E len \in OutLens : Burst!HostOut(len)
           \/ UNCHANGED Burst!vars
  <2>1. UNCHANGED Burst!inVars
    BY <1>2 DEF Burst!endp_rx_set_state, Burst!usb30_ep_out_handler, Burst!RxCallbackReturns, Burst!HostOut, Burst!vars
  <2>2. \/ user' = user \/ user' = [user EXCEPT !.holds = FALSE] \/ user' = [user EXCEPT !.pc = "rx_callback"]
        \/ \E h : user' = [user EXCEPT !.pc = "main", !.holds = h]
    BY <1>2 DEF Burst!endp_rx_set_state, Burst!usb30_ep_out_handler, Burst!RxCallbackReturns, Burst!HostOut, Burst!vars
  <2>3. user'.awaits = user.awaits
    BY <1>1, <2>2 DEF BurstUser
  <2>4. ASSUME NEW len \in OutLens, Burst!HostOut(len) PROVE host'.got = host.got
    BY <1>1, <2>4 DEF Burst!HostOut, BurstHostType
  <2>5. host'.got = host.got
    BY <1>2, <2>4 DEF Burst!endp_rx_set_state, Burst!usb30_ep_out_handler, Burst!RxCallbackReturns, Burst!vars
  <2> QED
    BY <2>1, <2>3, <2>5, BurstInRests
<1>3. CASE Burst!HotReset
  <2>1. tx \in BurstTx /\ tx.nump \in Fields /\ tx.len \in Fields
    <3>1. CASE tx.buf = 0
      <4>1. tx = Burst!TxReset /\ tx \in BurstTx
        BY <3>1 DEF BurstInInv
      <4> QED
        BY <4>1 DEF Burst!TxReset, Fields
    <3>2. CASE tx.buf # 0
      <4>1. PICK t, len, n, size : t = tx /\ len = remaining_length /\ n = total_bursts /\ size = given[tx.buf]
        OBVIOUS
      <4>2. t \in BurstTx /\ size \in Nat /\ Carries(t, len, n, size)
        BY <1>1, <3>2, <4>1 DEF BurstInInv, BurstSending
      <4>3. t.nump \in Fields /\ t.len \in Fields
        BY <4>2, CarriesWithin
      <4> QED
        BY <4>1, <4>2, <4>3
    <3> QED
      BY <3>1, <3>2
  <2>2. tx' = tx
    BY <1>3, <2>1, InSetNothing DEF Burst!HotReset
  <2>3. UNCHANGED Burst!inVars /\ UNCHANGED user /\ host' = [host EXCEPT !.on = FALSE]
    BY <1>3, <2>2 DEF Burst!HotReset, Burst!inVars
  <2>4. host'.got = host.got
    BY <1>1, <2>3 DEF BurstHostType
  <2> QED
    BY <2>3, <2>4, BurstInRests
<1>4. CASE Burst!usb30_reinit_endpoints
  <2>1. /\ tx' = Burst!InitTx /\ completed' = <<>> /\ given' \in Seq(Nat) /\ host'.got = <<>>
        /\ user' = [user EXCEPT !.awaits = FALSE]
    BY <1>1, <1>4 DEF Burst!usb30_reinit_endpoints, Burst!HostReset
  <2>2. ~user'.awaits
    BY <1>1, <2>1 DEF BurstUser
  <2> QED
    BY <2>1, <2>2, NothingSent
<1>5. CASE \E size \in Burst!Accepted : Burst!endp_tx_set_new_buffer(size)
  BY <1>5, NewBufferKeepsIn
<1>6. CASE Burst!HostIn
  BY <1>6, HostInKeepsIn
<1>7. CASE Burst!usb30_ep_in_handler
  BY <1>7, InHandlerKeepsIn
<1> QED
  BY <1>2, <1>3, <1>4, <1>5, <1>6, <1>7 DEF Burst!Next, Burst!Device

LEMMA BurstInAlways == ASSUME BurstConstants, BurstsFit PROVE Burst!Spec => [](BurstOutInv /\ BurstInInv)
<1>1. Burst!Init => BurstOutInv
  BY BurstOutInit
<1>2. ASSUME Burst!Init PROVE BurstInInv
  <2>1. /\ tx = Burst!TxReset /\ tx \in BurstTx /\ given = <<>> /\ completed = <<>> /\ ~user.awaits /\ host.got = <<>>
    BY <1>2, InitTxIs DEF Burst!Init, Burst!HostReset
  <2>2. Done = <<>> /\ CompletedGiven /\ BuffersTyped
    BY <2>1, NoneDone DEF BuffersTyped
  <2> HIDE DEF Done, CompletedGiven, BuffersTyped
  <2> QED
    BY <2>1, <2>2 DEF BurstInInv, Burst!TxReset
<1>3. BurstOutInv /\ BurstInInv /\ [Burst!Next]_Burst!vars => BurstOutInv' /\ BurstInInv'
  BY BurstOutNext, BurstInNext
<1> QED
  BY <1>1, <1>2, <1>3, PTL DEF Burst!Spec

(* usb30_ep_in_handler confirms a buffer (tx_complete) only when the host  *)
(* has all of it, and sends no byte twice or out of order, for every       *)
(* packet size, burst and buffer, in whatever portions the host takes it   *)
(* and whatever resets come.                                               *)
THEOREM InBurstsWhole == ASSUME BurstConstants, BurstsFit PROVE Burst!Spec => []InArrivesWhole
<1>1. ASSUME BurstInInv PROVE InArrivesWhole
  <2>1. Done \in Seq(Byte) /\ BuffersTyped /\ CompletedGiven /\ tx \in BurstTx
    BY <1>1, DoneIs DEF BurstInInv
  <2>2. Done = FlattenSeq([i \in 1..Len(completed) |-> Buffer(completed[i])])
    BY DEF Done, Buffers
  <2>3. CASE tx.buf = 0
    <3>1. host.got = Done
      BY <1>1, <2>3 DEF BurstInInv
    <3>2. IsPrefix(Done, Done)
      BY <2>1 DEF IsPrefix
    <3> HIDE DEF Done
    <3> QED
      BY <2>2, <2>3, <3>1, <3>2 DEF InArrivesWhole
  <2>4. CASE tx.buf # 0
    <3>1. PICK t, size, k : t = tx /\ size = given[tx.buf] /\ k = tx.off
      OBVIOUS
    <3>2. /\ t \in BurstTx /\ size \in Nat /\ Carries(t, remaining_length, total_bursts, size)
          /\ host.got = Done \o Part(tx.buf, k) /\ k \in Nat /\ tx.buf \in Nat
      BY <1>1, <2>1, <2>4, <3>1 DEF BurstInInv, BurstSending, BuffersTyped, BurstTx
    <3>3. k <= size
      <4>1. PICK len, n : len = remaining_length /\ n = total_bursts
        OBVIOUS
      <4>2. t.off <= size
        BY <2>1, <3>2, <4>1, CarriesWithin
      <4> QED
        BY <3>1, <4>2
    <3>4. Buffer(tx.buf) = Part(tx.buf, size)
      BY <3>1 DEF Buffer, Part
    <3>5. /\ IsPrefix(Done, Done \o Part(tx.buf, k))
          /\ IsPrefix(Done \o Part(tx.buf, k), Done \o Part(tx.buf, size))
      BY <2>1, <3>2, <3>3, PartPrefix
    <3> HIDE DEF Done
    <3> QED
      BY <2>2, <2>4, <3>2, <3>4, <3>5 DEF InArrivesWhole
  <2> QED
    BY <2>3, <2>4
<1> QED
  BY <1>1, BurstInAlways, PTL
=============================================================================
