----------------------------- MODULE Usb2Control -----------------------------
(***************************************************************************)
(* Control transfers on endpoint 0 of usb/usb20.c, against a host that may *)
(* lose handshakes, stop a data stage early, start a new request at any    *)
(* time and reset the bus.                                                 *)
(*                                                                         *)
(* RB_USB_INT_BUSY makes the controller answer NAK while an interrupt is   *)
(* pending, so a transaction on the bus and the handler it triggers are    *)
(* one step.  A token the device answers with NAK, and a lost data packet, *)
(* change nothing and are no steps.  The controller (external) answers     *)
(* IN and OUT tokens by the response and toggle bits of its registers,     *)
(* sends what lies at R32_UEP0_RT_DMA, stores what it receives there, and  *)
(* accepts SETUP packets in every state.                                   *)
(***************************************************************************)
EXTENDS Integers, Sequences

CONSTANTS
  Mps,         \* usb2_endp0_max_packet_size
  Kinds,       \* the requests the host makes
  WLengths,    \* the wLength of requests with a data stage
  AnswerSize,  \* AnswerSize[kind]: length of a descriptor or of the user's answer
  MaxReq,      \* bound on the requests
  MaxLoss,     \* bound on the handshakes lost
  MaxAbort,    \* bound on the transfers the host cuts short
  MaxReset,    \* bound on the bus resets
  OutLoss,     \* lost ACKs of OUT data: "none", "inner" (not of the last packet), "any"
  AbortOut     \* the host may also give up in the middle of an OUT data stage

U16 == 65536
STALL_LEN == 65535   \* len = 0xffff

(* Standard requests with an answer, user-handled ones, and the rest.      *)
Descriptors == {"device", "config_descr", "string"}
InKinds == Descriptors \cup {"bad_descr", "get_status", "user_in", "user_stall", "user_empty"}
DataOutKinds == {"user_out"}
NoDataKinds == {"set_address", "set_config", "set_config0", "halt", "clear_feature",
                "user_nodata", "user_5"}

ASSUME ControlAssumption ==
  /\ Mps \in Nat \ {0} /\ Mps < STALL_LEN
  /\ Kinds \subseteq InKinds \cup DataOutKinds \cup NoDataKinds
  /\ WLengths \subseteq Nat \ {0} /\ \A w \in WLengths : w < U16
  /\ AnswerSize \in [Descriptors \cup {"user_in"} -> Nat \ {0}]
  /\ {MaxReq, MaxLoss, MaxAbort, MaxReset} \subseteq Nat
  /\ OutLoss \in {"none", "inner", "any"} /\ AbortOut \in BOOLEAN

Request == [kind : Kinds \ NoDataKinds, wLength : WLengths] \cup
           [kind : Kinds \cap NoDataKinds, wLength : {0}]
None == [kind |-> "none", wLength |-> 0]
IsIn(r) == r.kind \in InKinds

VARIABLES
  dev,      \* the device: usb_device_t, the static variables and the registers of EP0
  handled,  \* what endp0_user_handled_control_request got of OUT data since the SETUP
  host,     \* [phase, req, tog, addr, got, n, early, lost]
  budget    \* what is left of the bounds

vars == <<dev, handled, host, budget>>

Min2(a, b) == IF a < b THEN a ELSE b
Bytes(src, off, len) == [i \in 1..len |-> [src |-> src, off |-> off + i - 1]]
SetupPacket(r) == [setup |-> TRUE, req |-> r, bytes |-> <<>>]
DataInBuffer(s) == [setup |-> FALSE, req |-> None, bytes |-> s]

-----------------------------------------------------------------------------
(* usb2_setup_endpoints, as far as EP0 goes; usb2_reset_endpoints is the   *)
(* same.                                                                   *)
usb2_setup_endpoints(d) ==
  [d EXCEPT !.dma = 0, !.t_len = 0, !.t_res = "NAK", !.t_tog = 0, !.r_res = "NAK", !.r_tog = 0]

usb2_ep0_next_data_packet_size(d) == Min2(d.remaining, Mps)

(* memcpy of the next packet to the buffer of EP0.                         *)
Load(d) == [d EXCEPT !.buf = DataInBuffer(Bytes(d.src, d.pos, usb2_ep0_next_data_packet_size(d)))]

(* desc_head and endp0_remaining_bytes for n bytes of kind.                *)
Answer(d, kind, n) == Load([d EXCEPT !.src = kind, !.pos = 0, !.remaining = n])

(* Device and configuration descriptors are cut at wLength; string         *)
(* descriptors and the user's answers are not.                             *)
AnswerLength(r) ==
  IF r.kind \in {"device", "config_descr"} THEN Min2(AnswerSize[r.kind], r.wLength)
                                           ELSE AnswerSize[r.kind]

(* Mutant: the new address is used at once.                                *)
SetAddressAtOnce(d, r) == [d EXCEPT !.addr = 1, !.remaining = r.wLength, !.hw_addr = 1]

SetAddress(d, r) == [d EXCEPT !.addr = 1, !.remaining = r.wLength]

(* usb2_ep0_request_handler: the effect on the device, then the length it  *)
(* returns.  Requests it does not know leave endp0_remaining_bytes as it   *)
(* was; two early returns skip the last assignment.  bad_descr is a        *)
(* descriptor of a type the driver does not know.  One the user has not    *)
(* set is not refused but falls through, as get_status does: nothing is    *)
(* done and the length is 0, an empty answer.                              *)
RequestEffect(d, r) ==
  CASE r.kind \in Descriptors \cup {"user_in"} -> Answer(d, r.kind, AnswerLength(r))
    [] r.kind = "set_address" -> SetAddress(d, r)
    [] r.kind = "set_config"  -> [usb2_setup_endpoints(d) EXCEPT !.config = 1, !.state = "CONFIGURED"]
    [] r.kind = "set_config0" -> [usb2_setup_endpoints(d) EXCEPT !.config = 0]
    [] r.kind = "halt"        -> usb2_setup_endpoints(d)
    [] r.kind = "user_out"    -> [d EXCEPT !.remaining = r.wLength]
    [] OTHER                  -> d

usb2_ep0_request_handler(d, r) ==
  LET e == RequestEffect(d, r) IN
  IF r.kind \in {"user_stall", "user_nodata", "user_5"} THEN e ELSE [e EXCEPT !.size = e.remaining]

RequestLength(e, r) ==
  CASE r.kind \in Descriptors \cup {"user_in"} -> usb2_ep0_next_data_packet_size(e)
    [] r.kind \in {"bad_descr", "user_stall"}  -> STALL_LEN
    [] r.kind = "user_out"                     -> r.wLength
    [] OTHER                                   -> 0

usb2_ep0_setup_stage_handler(d, r) ==
  LET e == usb2_ep0_request_handler([d EXCEPT !.req = r], r)
      len == RequestLength(e, r)
  IN
  CASE IsIn(r) /\ len # STALL_LEN -> [e EXCEPT !.t_len = len, !.t_res = "ACK", !.t_tog = 1]
    [] IsIn(r) /\ len = STALL_LEN ->
         [e EXCEPT !.t_len = 0, !.t_res = "STALL", !.t_tog = 0, !.r_res = "ACK", !.r_tog = 1]
    [] ~IsIn(r) /\ r.wLength = 0  -> [e EXCEPT !.t_len = 0, !.t_res = "ACK", !.t_tog = 1]
    [] OTHER                      -> [e EXCEPT !.r_res = "ACK", !.r_tog = 1]

NeedsZlp(d, len) == d.size % Mps = 0 /\ len # 0

(* Mutant: desc_head is left where it was.                                 *)
PacketSentHeadStays(d, len) == [d EXCEPT !.remaining = @ - len]

PacketSent(d, len) == [d EXCEPT !.remaining = @ - len, !.pos = @ + len]

SendNext(d) ==
  [Load(d) EXCEPT !.t_len = usb2_ep0_next_data_packet_size(d), !.t_res = "ACK",
                  !.t_tog = 1 - d.t_tog]

(* Mutant: the endpoint does not listen for the status stage.              *)
PrepareStatusNot(d) == [d EXCEPT !.t_res = "NAK"]

PrepareStatus(d) == [d EXCEPT !.t_res = "NAK", !.r_res = "ACK", !.r_tog = 1]

(* The host acknowledged an IN packet.  bRequest alone decides whether the *)
(* status stage was the one of SET_ADDRESS: request 5 of another type      *)
(* ("user_5") looks the same.                                              *)
usb2_ep0_in_handler(d) ==
  LET len == usb2_ep0_next_data_packet_size(d)
      e == PacketSent(d, len)
  IN
  CASE IsIn(d.req) /\ e.remaining # 0 -> SendNext(e)
    [] IsIn(d.req) /\ e.remaining = 0 /\ NeedsZlp(e, len) ->
         [e EXCEPT !.t_len = 0, !.t_res = "ACK", !.t_tog = 1 - d.t_tog]
    [] IsIn(d.req) /\ e.remaining = 0 /\ ~NeedsZlp(e, len) -> PrepareStatus(e)
    [] d.req.kind \in {"set_address", "user_5"} ->
         PrepareStatus([d EXCEPT !.hw_addr = d.addr, !.state = "ADDRESS", !.t_len = 0])
    [] OTHER -> PrepareStatus([d EXCEPT !.t_len = 0])

(* Mutant: R32_UEP0_RT_DMA is not moved back to the start of the buffer.   *)
OutDoneElsewhere(d) == [d EXCEPT !.remaining = 0, !.t_len = 0, !.t_res = "ACK", !.t_tog = 1]

(* The last OUT byte is in: the status stage is prepared.                  *)
OutDone(d) == [d EXCEPT !.remaining = 0, !.dma = 0, !.t_len = 0, !.t_res = "ACK", !.t_tog = 1]

(* Mutant: the toggle is not switched between OUT packets.                 *)
OutMoreSameToggle(d, len, left) == [d EXCEPT !.remaining = left, !.dma = @ + len, !.r_res = "ACK"]

OutMore(d, len, left) ==
  [d EXCEPT !.remaining = left, !.dma = @ + len, !.r_res = "ACK", !.r_tog = 1 - d.r_tog]

(* An OUT packet of len bytes with the expected toggle: the status stage   *)
(* of an IN request, or OUT data.  endp0_remaining_bytes is a uint16_t.    *)
usb2_ep0_out_handler(d, len) ==
  LET left == (d.remaining - len) % U16 IN
  CASE IsIn(d.req) /\ usb2_ep0_next_data_packet_size(d) > 0 -> [d EXCEPT !.r_res = "NAK"]
    [] IsIn(d.req) /\ usb2_ep0_next_data_packet_size(d) = 0 ->
         [d EXCEPT !.r_res = "ACK", !.r_tog = 0, !.t_len = 0, !.t_res = "NAK"]
    [] ~IsIn(d.req) /\ left = 0 -> OutDone(d)
    [] OTHER -> OutMore(d, len, left)

(* The user's handler is called when the last OUT byte is in.              *)
Completes(d, len) == ~IsIn(d.req) /\ (d.remaining - len) % U16 = 0

(* The part of USBHS_IRQHandler for RB_USB_IF_BUSRST; the rest of the      *)
(* device keeps what it had.                                               *)
BusResetHandler(d) ==
  [usb2_setup_endpoints(d) EXCEPT !.hw_addr = 0, !.addr = 0, !.state = "DEFAULT"]

(* usb2_device_init.                                                       *)
InitDevice ==
  [state |-> "POWERED", addr |-> 0, hw_addr |-> 0, config |-> 0, req |-> None,
   remaining |-> 0, size |-> 0, src |-> "none", pos |-> 0,
   t_len |-> 0, t_res |-> "NAK", t_tog |-> 0, r_res |-> "NAK", r_tog |-> 0,
   dma |-> 0, buf |-> DataInBuffer(<<>>)]

-----------------------------------------------------------------------------
NotHandled == [calls |-> 0, bytes |-> <<>>]
NoTransfer == [phase |-> "idle", req |-> None, tog |-> 1, got |-> <<>>, n |-> 0,
               early |-> FALSE, lost |-> FALSE]
HostWith(t, address) == [phase |-> t.phase, req |-> t.req, tog |-> t.tog, got |-> t.got,
                         n |-> t.n, early |-> t.early, lost |-> t.lost, addr |-> address]

Init ==
  /\ dev = InitDevice
  /\ handled = NotHandled
  /\ host = HostWith([NoTransfer EXCEPT !.phase = "detached"], 0)
  /\ budget = [req |-> MaxReq, loss |-> MaxLoss, abort |-> MaxAbort, reset |-> MaxReset]

(* The device is there for the host.                                       *)
Reachable == host.phase # "detached" /\ dev.state # "POWERED" /\ dev.hw_addr = host.addr

BusReset ==
  /\ \/ host.phase = "detached" /\ UNCHANGED budget
     \/ /\ host.phase # "detached" /\ budget.reset > 0
        /\ budget' = [budget EXCEPT !.reset = @ - 1]
  /\ dev' = BusResetHandler(dev)
  /\ handled' = NotHandled
  /\ host' = HostWith(NoTransfer, 0)

(* The part of USBHS_IRQHandler for RB_USB_IF_SETUOACT: the request is     *)
(* read from the start of the buffer, wherever the controller stored it.   *)
SetupHandled(r) ==
  LET stored == IF dev.dma = 0 THEN [dev EXCEPT !.buf = SetupPacket(r)] ELSE dev
      read == IF stored.buf.setup THEN {stored.buf.req} ELSE Request
  IN  \E q \in read : dev' = usb2_ep0_setup_stage_handler(stored, q)

FirstPhase(r) == IF IsIn(r) THEN "data_in" ELSE IF r.wLength > 0 THEN "data_out" ELSE "status_in"

HostSetup(r) ==
  /\ Reachable
  /\ budget.req > 0
  /\ \/ /\ host.phase = "idle"
        /\ budget' = [budget EXCEPT !.req = @ - 1]
     \/ /\ host.phase # "idle" /\ budget.abort > 0
        /\ AbortOut \/ host.phase # "data_out"
        /\ budget' = [budget EXCEPT !.req = @ - 1, !.abort = @ - 1]
  /\ SetupHandled(r)
  /\ handled' = NotHandled
  /\ host' = HostWith([NoTransfer EXCEPT !.phase = FirstPhase(r), !.req = r], host.addr)

(* What the controller sends: t_len bytes from R32_UEP0_RT_DMA.            *)
Sent == IF dev.t_len = 0 THEN <<>>
        ELSE IF dev.dma = 0 /\ ~dev.buf.setup /\ Len(dev.buf.bytes) >= dev.t_len
             THEN SubSeq(dev.buf.bytes, 1, dev.t_len)
             ELSE Bytes("junk", 0, dev.t_len)

(* The host takes a packet with the toggle it expects, and is done with    *)
(* the data stage after a short packet or wLength bytes.                   *)
HostTakes ==
  LET got == host.got \o Sent IN
  CASE dev.t_tog # host.tog -> host
    [] dev.t_tog = host.tog /\ host.phase = "data_in" ->
         IF Len(Sent) < Mps \/ Len(got) >= host.req.wLength
         THEN [host EXCEPT !.got = got, !.phase = "status_out", !.tog = 1]
         ELSE [host EXCEPT !.got = got, !.tog = 1 - @]
    [] OTHER -> HostWith(NoTransfer, IF host.req.kind = "set_address" THEN 1 ELSE host.addr)

(* An IN transaction; the host's ACK may be lost.  A device that misses    *)
(* the ACK of the status stage of SET_ADDRESS is lost to any host, and     *)
(* left out.                                                               *)
HostIn(lost) ==
  /\ Reachable
  /\ host.phase \in {"data_in", "status_in"}
  /\ dev.t_res = "ACK"
  /\ \/ /\ ~lost
        /\ dev' = usb2_ep0_in_handler(dev)
        /\ host' = HostTakes
        /\ UNCHANGED budget
     \/ /\ lost /\ budget.loss > 0 /\ host.req.kind # "set_address"
        /\ host' = [HostTakes EXCEPT !.lost = HostTakes.phase # "idle"]
        /\ budget' = [budget EXCEPT !.loss = @ - 1]
        /\ UNCHANGED dev
  /\ UNCHANGED handled

HostStalled ==
  /\ Reachable
  /\ host.phase = "data_in" /\ dev.t_res = "STALL"
  /\ host' = HostWith(NoTransfer, host.addr)
  /\ UNCHANGED <<dev, handled, budget>>

(* The host has enough and goes to the status stage.                       *)
HostStopsEarly ==
  /\ host.phase = "data_in" /\ host.got # <<>> /\ budget.abort > 0
  /\ host' = [host EXCEPT !.phase = "status_out", !.tog = 1, !.early = TRUE]
  /\ budget' = [budget EXCEPT !.abort = @ - 1]
  /\ UNCHANGED <<dev, handled>>

(* The next OUT packet of the host.                                        *)
OutPacket == IF host.phase = "status_out" THEN <<>>
             ELSE Bytes("host", host.n, Min2(Mps, host.req.wLength - host.n))

HostAdvances(len) ==
  CASE host.phase = "status_out" -> HostWith(NoTransfer, host.addr)
    [] host.phase = "data_out" /\ host.n + len = host.req.wLength ->
         [host EXCEPT !.n = @ + len, !.phase = "status_in", !.tog = 1]
    [] OTHER -> [host EXCEPT !.n = @ + len, !.tog = 1 - @]

MayLose(len) == \/ host.phase = "status_out"
                \/ OutLoss = "any"
                \/ OutLoss = "inner" /\ host.n + len < host.req.wLength

(* An OUT transaction: stored and handled when the toggle is the expected  *)
(* one, acknowledged and dropped otherwise; the device's ACK may be lost.  *)
HostOut(lost) ==
  LET s == OutPacket
      stored == IF s = <<>> THEN dev
                ELSE [dev EXCEPT !.buf = DataInBuffer(SubSeq(@.bytes, 1, dev.dma) \o s)]
  IN
  /\ Reachable
  /\ host.phase \in {"data_out", "status_out"}
  /\ dev.r_res = "ACK"
  /\ \/ /\ dev.r_tog = host.tog
        /\ dev' = usb2_ep0_out_handler(stored, Len(s))
        /\ handled' = IF Completes(dev, Len(s))
                      THEN [calls |-> handled.calls + 1, bytes |-> stored.buf.bytes]
                      ELSE handled
     \/ /\ dev.r_tog # host.tog
        /\ UNCHANGED <<dev, handled>>
  /\ \/ /\ ~lost
        /\ host' = HostAdvances(Len(s))
        /\ UNCHANGED budget
     \/ /\ lost /\ budget.loss > 0 /\ MayLose(Len(s))
        /\ budget' = [budget EXCEPT !.loss = @ - 1]
        /\ host' = [host EXCEPT !.lost = TRUE]

Next == \/ BusReset
        \/ \E r \in Request : HostSetup(r)
        \/ \E lost \in BOOLEAN : HostIn(lost) \/ HostOut(lost)
        \/ HostStalled \/ HostStopsEarly

(* A host goes on with the transfer it has started.                        *)
Spec == /\ Init /\ [][Next]_vars
        /\ WF_vars(HostIn(FALSE)) /\ WF_vars(HostOut(FALSE)) /\ WF_vars(HostStalled)

-----------------------------------------------------------------------------
(* Whatever was lost, repeated or cut short before, the bytes the host has *)
(* taken are the first bytes of the answer to its own latest request: none *)
(* missing, none twice, none of an earlier answer, never more than         *)
(* wLength.  A host that sees the end of the data stage (wLength bytes, a  *)
(* short or a zero-length packet) has the whole answer, as far as it asked *)
(* for it.                                                                 *)
AnswerIsHosts ==
  /\ host.phase \in {"data_in", "status_out"} =>
       /\ host.got = Bytes(host.req.kind, 0, Len(host.got))
       /\ Len(host.got) <= host.req.wLength
  /\ host.phase = "status_out" /\ ~host.early /\ host.req.kind \in Descriptors \cup {"user_in"} =>
       Len(host.got) = Min2(AnswerSize[host.req.kind], host.req.wLength)

(* "Process the request sent by the host in the SETUP stage": during a     *)
(* transfer usb_setup_req is the host's request.                           *)
RequestIsHosts == host.phase \notin {"idle", "detached"} => dev.req = host.req

(* The user's handler gets OUT data once per transfer, whole and in order, *)
(* also when the host repeats a packet whose ACK it missed.                *)
OutDataHandledOnce ==
  /\ handled.calls <= 1
  /\ handled.calls = 1 => handled.bytes = Bytes("host", 0, host.req.wLength) \/ host.phase = "idle"
  /\ host.phase = "status_in" /\ host.req.kind \in DataOutKinds => handled.calls = 1

(* "the STATUS stage must be finished with address 0 and new address set   *)
(* after that": device and host agree on the address after every           *)
(* transaction, so the host never loses the device.  Not so after request  *)
(* 5 of another type than standard: its status stage takes over an address *)
(* whose SET_ADDRESS the host had given up.  And not when the ACK of the   *)
(* status stage of SET_ADDRESS itself is lost, which HostIn leaves out:    *)
(* the host has moved on and the device has not, in any driver.            *)
AddressAgrees ==
  host.phase # "detached" /\ dev.req.kind # "user_5" => dev.hw_addr = host.addr

(* The answers after which the device offers a zero-length packet, though  *)
(* the host has wLength bytes and waits for the status stage.              *)
EndsExactly(r) ==
  /\ r.kind \in Descriptors \cup {"user_in"}
  /\ AnswerLength(r) % Mps = 0 /\ AnswerLength(r) >= r.wLength

(* A request answered with an empty packet, while endp0_remaining_bytes    *)
(* still counts bytes of an answer the host gave up.                       *)
LeftOver(r) == r.kind \in {"get_status", "user_empty"} /\ dev.size # 0

(* No transfer gets stuck, whatever went wrong in earlier ones: the host   *)
(* is never left waiting for an endpoint that only answers NAK.  Excepted  *)
(* are the transfers where the device stays in the data stage when the     *)
(* host is through with it: after a lost handshake or an early stop, and   *)
(* the two cases above.  A new SETUP ends those.                           *)
EveryTransferEnds ==
  host.phase \notin {"idle", "detached"} ~>
    \/ host.phase = "idle"
    \/ host.lost \/ host.early
    \/ EndsExactly(host.req) \/ LeftOver(host.req)
=============================================================================
