----------------------------- MODULE Usb3Control -----------------------------
(***************************************************************************)
(* Control transfers on endpoint 0 of usb/usb30.c: the EP0 branches of     *)
(* USBSS_IRQHandler and the handlers they inline, against a host that may  *)
(* give up a transfer for a new one and reset the device.                  *)
(*                                                                         *)
(* The interrupt handler is not interrupted by itself, so a packet on the  *)
(* bus and its handling are one step.  The controller (external) takes     *)
(* SETUP packets always, OUT data and STATUS when RX_CTRL says ACK, and    *)
(* sends the buffer of EP0 with the sequence number in TX_CTRL when that   *)
(* says ACK; the host takes only the packet number it expects.  Packet     *)
(* numbers are not cut to the five bits of the register: the code lets     *)
(* them run over into the fields beside, which does no harm in an answer   *)
(* of fewer than 64 packets.                                               *)
(*                                                                         *)
(* The bytes are named by their source and offset, so that where pDescr    *)
(* still points when nothing sets it shows in what the host gets.          *)
(***************************************************************************)
EXTENDS Integers, Sequences

CONSTANTS
  Mps,         \* ENDP0_MAX_PACKET_SIZE
  Kinds,       \* the requests the host makes
  WLengths,    \* the wLength of requests with a data stage
  Unset,       \* the descriptors that usb_device_t does not set
  AnswerSize,  \* AnswerSize[kind]: length of a descriptor or of the user's answer
  MaxReq,      \* bound on the requests
  MaxAbort,    \* bound on the transfers the host gives up
  MaxReset,    \* bound on the hot resets
  AbortLong    \* aborts and resets also between the packets of a long answer

STALL_LEN == 65535   \* USB_DESCR_UNSUPPORTED

Descriptors == {"device", "config_descr", "bos", "string"}
Empty == {"get_config", "get_interface"}   \* the code returns no length for these
Answered == Descriptors \cup {"user_in", "get_status"} \cup Empty
Refused == {"bad_descr", "bad_in", "bad_out", "user_stall", "user_null"}
InKinds == Answered \cup (Refused \ {"bad_out"})
DataOutKinds == {"set_sel", "user_out"}
NoDataKinds == {"set_address", "set_config", "set_config0", "no_effect", "isoch_delay",
                "bad_out", "user_nodata", "user_5"}

ASSUME ControlAssumption ==
  /\ Mps \in Nat \ {0} /\ Mps < STALL_LEN
  /\ Kinds \subseteq InKinds \cup DataOutKinds \cup NoDataKinds
  /\ WLengths \subseteq Nat \ {0}
  /\ AnswerSize \in [Answered -> Nat \ {0}]
  /\ AnswerSize["get_status"] = 2 /\ \A k \in Empty : AnswerSize[k] = 1
  /\ Unset \subseteq Descriptors
  /\ {MaxReq, MaxAbort, MaxReset} \subseteq Nat /\ AbortLong \in BOOLEAN

Min2(a, b) == IF a < b THEN a ELSE b
IsIn(r) == r.kind \in InKinds
None == [kind |-> "none", wLength |-> 0]

(* The host asks for the two bytes of the status, and the one of the       *)
(* configuration or of an interface.                                       *)
FixedLength == {"get_status"} \cup Empty
Request ==
  [kind : Kinds \ (NoDataKinds \cup FixedLength), wLength : WLengths] \cup
  [kind : Kinds \cap NoDataKinds, wLength : {0}] \cup
  {[kind |-> k, wLength |-> AnswerSize[k]] : k \in Kinds \cap FixedLength}

VARIABLES
  dev,    \* the static variables, the buffer and the registers of EP0, and usb_device_t
  host,   \* [phase, req, addr, got, seq, n, stalled]
  budget  \* what is left of the bounds

vars == <<dev, host, budget>>

Bytes(src, off, len) == [i \in 1..len |-> [src |-> src, off |-> off + i - 1]]

-----------------------------------------------------------------------------
(* Mutant: pDescr is left where it was.                                    *)
LoadHeadStays(d) ==
  LET len == Min2(d.SetupLen, Mps) IN
  [d EXCEPT !.buf = Bytes(d.src, d.pos, len), !.SetupLen = @ - len]

(* The next packet from pDescr to the buffer of EP0.                       *)
Load(d) ==
  LET len == Min2(d.SetupLen, Mps) IN
  [d EXCEPT !.buf = Bytes(d.src, d.pos, len), !.SetupLen = @ - len, !.pos = @ + len]

Answer(d, r, n) == Load([d EXCEPT !.src = r.kind, !.pos = 0, !.SetupLen = n])

(* What the code sends: a descriptor is cut at wLength, the answer of the  *)
(* user is not.                                                            *)
AnswerLength(r) == IF r.kind = "user_in" THEN AnswerSize[r.kind]
                                         ELSE Min2(AnswerSize[r.kind], r.wLength)

(* Mutant: the new address is used at once.                                *)
SetAddressAtOnce(d) == [d EXCEPT !.SetupLen = 1, !.addr = 1]

(* SET_ADDRESS keeps the address in SetupLen until the status stage.       *)
SetAddress(d) == [d EXCEPT !.SetupLen = 1]

(* usb30_standard_req_handler, and the branch of USBSS_IRQHandler for      *)
(* requests the user handles: the effect, then the length it returns.      *)
(* For a descriptor that is not set both SetupLen and pDescr stay as they  *)
(* are, and what pDescr happens to point to is sent, address 0 included.   *)
RequestEffect(d, r) ==
  LET e == [d EXCEPT !.SetupReqCode = r.kind, !.SetupLen = r.wLength] IN
  CASE r.kind \in Unset -> Load(e)
    [] r.kind \in (Descriptors \ Unset) \cup {"user_in"} -> Answer(e, r, AnswerLength(r))
    [] r.kind = "set_address" -> SetAddress(e)
    [] r.kind = "isoch_delay" -> [e EXCEPT !.SetupLen = 1]
    [] r.kind = "get_config"  -> [e EXCEPT !.buf = Bytes("get_config", 0, 1), !.SetupLen = 1]
    [] r.kind = "get_status"  -> [e EXCEPT !.buf = Bytes("get_status", 0, 2), !.SetupLen = 0]
    [] r.kind = "set_config"  -> [e EXCEPT !.config = 1, !.state = "CONFIGURED"]
    [] r.kind = "set_config0" -> [e EXCEPT !.config = 0]
    [] r.kind \in {"bad_descr", "bad_in", "bad_out"} -> [e EXCEPT !.SetupReqCode = "invalid"]
    [] r.kind = "user_stall"  -> [e EXCEPT !.SetupLen = STALL_LEN]
    [] r.kind = "user_null"   -> [e EXCEPT !.SetupLen = AnswerSize["user_in"]]
    [] r.kind \in {"user_5", "user_nodata", "user_out"} -> [e EXCEPT !.SetupLen = 0]
    [] OTHER -> e

RequestLength(e, r) ==
  CASE r.kind \in Descriptors \cup {"user_in", "get_status"} -> Len(e.buf)
    [] r.kind \in Refused -> STALL_LEN
    [] OTHER -> 0

NotReady == [res |-> "NRDY", len |-> 0, seq |-> 0]
Send(len, seq) == [res |-> "ACK", len |-> len, seq |-> seq]

(* Mutant: a refused request leaves the endpoint as it was.                *)
SetupNoStall(d, r) ==
  LET e == RequestEffect([d EXCEPT !.rx = "NRDY"], r) IN
  IF IsIn(r) THEN [e EXCEPT !.tx = Send(Len(e.buf), 0)] ELSE [e EXCEPT !.rx = "ACK"]

(* The SETUP branch of USBSS_IRQHandler.  A request without an answer      *)
(* leaves TX_CTRL alone.                                                   *)
SetupStage(d, r) ==
  LET e == RequestEffect([d EXCEPT !.rx = "NRDY"], r)
      len == RequestLength(e, r)
  IN
  CASE IsIn(r) /\ len = STALL_LEN  -> [e EXCEPT !.tx = [NotReady EXCEPT !.res = "STALL"]]
    [] IsIn(r) /\ len # STALL_LEN  -> [e EXCEPT !.tx = Send(len, 0)]
    [] ~IsIn(r) /\ len = STALL_LEN -> [e EXCEPT !.rx = "STALL"]
    [] OTHER                       -> [e EXCEPT !.rx = "ACK"]

(* pDescr is NULL only until something was sent.                           *)
IsNull(d) == d.src = "NULL" /\ d.pos = 0
ep0_in_handler(d) == IF IsNull(d) THEN d ELSE Load(d)

(* Mutant: the endpoint does not listen for the status stage.              *)
InDoneDeaf(d) == [d EXCEPT !.count = 0, !.tx = Send(0, 0)]

InDone(d) == [d EXCEPT !.count = 0, !.rx = "ACK", !.tx = Send(0, 0)]

(* The host took a packet: the next one, numbered by count, or nothing     *)
(* more, and the endpoint listens for the status stage.                    *)
InStage(d) ==
  LET e == [ep0_in_handler(d) EXCEPT !.count = @ + 1]
      len == IF IsNull(d) THEN 0 ELSE Len(e.buf)
  IN  IF len = 0 THEN InDone(e)
                 ELSE [e EXCEPT !.rx = "NRDY", !.tx = Send(len, e.count)]

(* ep0_status_stage_handler.  bRequest alone decides: request 5 of another *)
(* type ("user_5") looks like SET_ADDRESS.                                 *)
ep0_status_stage_handler(d) ==
  IF d.SetupReqCode \in {"set_address", "user_5"}
  THEN [d EXCEPT !.state = "ADDRESS", !.addr = d.SetupLen] ELSE d

StatusStage(d) == [ep0_status_stage_handler(d) EXCEPT !.rx = "NRDY", !.tx = NotReady]

(* HOT_RESET_FLAG in LINK_IRQHandler, as far as EP0 goes.                  *)
HotResetHandler(d) == [d EXCEPT !.tx = NotReady, !.addr = 0]

-----------------------------------------------------------------------------
Idle == [phase |-> "idle", req |-> None, got |-> <<>>, seq |-> 0, n |-> 0, stalled |-> FALSE]
HostAt(t, address) == [phase |-> t.phase, req |-> t.req, got |-> t.got, seq |-> t.seq,
                       n |-> t.n, stalled |-> t.stalled, addr |-> address]

Init ==
  /\ dev = [SetupReqCode |-> "none", SetupLen |-> 0, src |-> "NULL", pos |-> 0, buf |-> <<>>,
            rx |-> "NRDY", tx |-> NotReady, count |-> 0, addr |-> 0, config |-> 0,
            state |-> "DEFAULT"]
  /\ host = HostAt(Idle, 0)
  /\ budget = [req |-> MaxReq, abort |-> MaxAbort, reset |-> MaxReset]

Reachable == dev.addr = host.addr
MayCutShort == AbortLong \/ dev.count = 0

HotReset ==
  /\ budget.reset > 0 /\ MayCutShort
  /\ dev' = HotResetHandler(dev)
  /\ host' = HostAt(Idle, 0)
  /\ budget' = [budget EXCEPT !.reset = @ - 1]

FirstPhase(r) == IF IsIn(r) THEN "data_in" ELSE IF r.wLength > 0 THEN "data_out" ELSE "status"

HostSetup(r) ==
  /\ Reachable /\ budget.req > 0
  /\ \/ /\ host.phase = "idle"
        /\ budget' = [budget EXCEPT !.req = @ - 1]
     \/ /\ host.phase # "idle" /\ budget.abort > 0 /\ MayCutShort
        /\ budget' = [budget EXCEPT !.req = @ - 1, !.abort = @ - 1]
  /\ dev' = SetupStage(dev, r)
  /\ host' = HostAt([Idle EXCEPT !.phase = FirstPhase(r), !.req = r], host.addr)

(* The host takes the packet it waits for, and is done after a short one   *)
(* or wLength bytes.                                                       *)
HostIn ==
  LET got == host.got \o SubSeq(dev.buf, 1, dev.tx.len) IN
  /\ Reachable /\ host.phase = "data_in"
  /\ dev.tx.res = "ACK" /\ dev.tx.seq = host.seq
  /\ host' = [host EXCEPT !.got = got, !.seq = @ + 1,
                !.phase = IF dev.tx.len < Mps \/ Len(got) >= host.req.wLength
                          THEN "status" ELSE @]
  /\ dev' = InStage(dev)
  /\ UNCHANGED budget

(* OUT data: ep0_out_handler does nothing with it.                         *)
HostOut ==
  LET n == host.n + Min2(Mps, host.req.wLength - host.n) IN
  /\ Reachable /\ host.phase = "data_out" /\ dev.rx = "ACK"
  /\ host' = [host EXCEPT !.n = n, !.phase = IF n = host.req.wLength THEN "status" ELSE @]
  /\ UNCHANGED <<dev, budget>>

HostStatus ==
  /\ Reachable /\ host.phase = "status" /\ dev.rx = "ACK"
  /\ dev' = StatusStage(dev)
  /\ host' = [host EXCEPT !.phase = "idle",
                          !.addr = IF host.req.kind = "set_address" THEN 1 ELSE @]
  /\ UNCHANGED budget

HostStalled ==
  /\ Reachable
  /\ \/ host.phase = "data_in" /\ dev.tx.res = "STALL"
     \/ host.phase = "status" /\ dev.rx = "STALL"
  /\ host' = [host EXCEPT !.phase = "idle", !.stalled = TRUE]
  /\ UNCHANGED <<dev, budget>>

Next == \/ HotReset
        \/ \E r \in Request : HostSetup(r)
        \/ HostIn \/ HostOut \/ HostStatus \/ HostStalled

(* A host goes on with the transfer it has started.                        *)
Spec == /\ Init /\ [][Next]_vars
        /\ WF_vars(HostIn) /\ WF_vars(HostOut) /\ WF_vars(HostStatus) /\ WF_vars(HostStalled)

-----------------------------------------------------------------------------
(* The user's handler returned more than the host asked for.               *)
Overlong(r) == r.kind = "user_in" /\ AnswerSize["user_in"] > r.wLength

(* Whatever was given up before, and whatever a request for a descriptor   *)
(* that is not set left in pDescr, the bytes the host has taken are the    *)
(* first bytes of the answer to its own latest request, and no more than   *)
(* wLength.  "when requesting the config descriptor, the host expect all   *)
(* subordinate descriptors to be sent along with": at the end of the data  *)
(* stage the host has the whole answer, as far as it asked for it.  The    *)
(* exceptions: an answer that is Overlong, which the driver does not cut;  *)
(* GET_CONFIGURATION and GET_INTERFACE, answered with an empty packet; and *)
(* a descriptor that is not set, for which the host gets other bytes.      *)
AnswerIsHosts ==
  /\ host.req.kind \notin Unset => host.got = Bytes(host.req.kind, 0, Len(host.got))
  /\ ~Overlong(host.req) =>
       /\ Len(host.got) <= host.req.wLength
       /\ host.phase = "status" /\ host.req.kind \in Answered \ (Empty \cup Unset) =>
            Len(host.got) = Min2(AnswerSize[host.req.kind], host.req.wLength)

(* "return stall, unsupported command": a transfer ends with STALL when    *)
(* the request is unknown, or the user's handler does not handle it or     *)
(* returns no buffer, and only then.  A descriptor that is not set is not  *)
(* among these: the driver logs an error and answers (AnswerIsHosts).      *)
RefusedIsStalled ==
  host.phase = "idle" /\ host.req # None => (host.stalled <=> host.req.kind \in Refused)

(* "Note USB_SET_ADDRESS is done in ep0_status_stage_handler()": device    *)
(* and host agree on the address after every packet, except after request  *)
(* 5 of another type than standard, whose status stage sets the address 0. *)
AddressAgrees == dev.SetupReqCode # "user_5" => dev.addr = host.addr

(* The transfers the driver does not get through: after the empty answer   *)
(* to GET_CONFIGURATION or GET_INTERFACE a byte is still to be sent, and   *)
(* the status stage has to wait for it; so has the status stage of an      *)
(* Overlong answer; and the empty packet that ends an answer of full       *)
(* packets shorter than wLength is numbered 0 whatever came before it.     *)
Sticks(r) ==
  \/ r.kind \in Empty
  \/ Overlong(r)
  \/ /\ r.kind \in Answered \ Unset
     /\ AnswerLength(r) < r.wLength /\ AnswerLength(r) % Mps = 0

(* Any other transfer ends, whatever was given up before it, as long as    *)
(* that was before its second packet (AbortLong).                          *)
EveryTransferEnds ==
  host.phase # "idle" /\ ~Sticks(host.req) ~> host.phase = "idle" \/ Sticks(host.req)
==============================================================================
