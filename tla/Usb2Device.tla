----------------------------- MODULE Usb2Device -----------------------------
(***************************************************************************)
(* The USB2 device as a whole, of usb/usb20.c: its initialisation, the     *)
(* registers its endpoints share, and USBHS_IRQHandler, which serves one   *)
(* interrupt flag per call, in a fixed order, and clears flags at its end, *)
(* when others may have come; against a host that resets the bus, gives    *)
(* the device an address and a configuration, uses its endpoints, and      *)
(* starts over when it gets no answer.                                     *)
(*                                                                         *)
(* What control and data transfers carry is in Usb2Control and             *)
(* Usb2Endpoint.  The controller (external) has seven banks of registers   *)
(* for the fifteen endpoints of each direction, takes packets for the      *)
(* address in R8_USB_DEV_AD only, and answers NAK while a transfer is      *)
(* pending.                                                                *)
(***************************************************************************)
EXTENDS Integers, FiniteSetsExt

CONSTANTS
  Usb2Speed,  \* the speed the USB2 device is given before initialisation
  Masks,      \* the masks given to usb_device_set_endpoint_mask
  Oversize,   \* RX endpoints with a max_packet_size above USB2_EP_MAX_PACKET_SIZE
  MaxReset    \* bound on the resets of a host that gets its answers

Usb2Speeds == {"HIGHSPEED", "FULLSPEED", "LOWSPEED"}
Directions == {"TX", "RX"}
Endpoints == [n : 1..15, dir : Directions]
Banks == [n : 1..7, dir : Directions]
Endp0 == [n |-> 0, dir |-> "TX"]
NoToken == [endp |-> Endp0, answer |-> "none"]

ASSUME Usb2DeviceAssumption ==
  /\ Usb2Speed \in Usb2Speeds
  /\ Masks \subseteq SUBSET Endpoints
  /\ Oversize \subseteq [n : 1..15, dir : {"RX"}]
  /\ MaxReset \in Nat

VARIABLES
  shared,       \* both backends serve usb_device_0 (the default)
  mask,         \* endpoint_mask
  cable,        \* what the cable leads to
  usb2,         \* the USB2 backend is initialised
  dev,          \* state, speed and address of usb3_- and usb2_backend_current_device
  dma,          \* dma[b]: the endpoint whose buffer bank b points to, 0 while disabled
  dev_ad,       \* R8_USB_DEV_AD
  int_fg,       \* R8_USB_INT_FG
  int_st,       \* R8_USB_INT_ST: the endpoint of the last token and its answer
  ep0,          \* EP0 in the registers: the packet in its buffer, the status response
  req,          \* usb_setup_req
  irq,          \* the branch USBHS_IRQHandler is in, "idle" outside of it
  host          \* [stage, addr, req, resets]

usb2_side == <<usb2, dma, dev_ad, int_fg, int_st, ep0, req, irq, host>>

(* Writing a field of the USB2 device, which may be the USB3 device too.   *)
SetUsb2(d, state, addr) ==
  [d EXCEPT !.state2 = state, !.state3 = IF shared THEN state ELSE @,
            !.addr2 = addr,   !.addr3 = IF shared THEN addr ELSE @]

-----------------------------------------------------------------------------
(* The banks.  HwBank is the controller's own; the driver has its          *)
(* own idea of it in three places.                                         *)
HwBank(e) == [n |-> IF e.n = 8 THEN 4 ELSE IF e.n > 8 THEN e.n - 8 ELSE e.n, dir |-> e.dir]

(* Mutant: endpoint 8 is not in the table.                                 *)
IncompatiblesWithout8 ==
  {{[n |-> p[1], dir |-> d], [n |-> p[2], dir |-> d]} :
     p \in {<<1, 9>>, <<2, 10>>, <<3, 11>>, <<4, 12>>, <<5, 13>>, <<6, 14>>, <<7, 15>>},
     d \in Directions}

usb2_incompatibles_endpoints ==
  {{[n |-> p[1], dir |-> d], [n |-> p[2], dir |-> d]} :
     p \in {<<1, 9>>, <<2, 10>>, <<3, 11>>, <<4, 12>>, <<5, 13>>, <<6, 14>>, <<7, 15>>,
            <<8, 4>>, <<8, 12>>},
     d \in Directions}

(* The registers that usb2_setup_endpoints_in_mask writes for endpoint n,  *)
(* and those that usb2_get_*_reg of usb2_utils.h return for it.            *)
SetupReg == <<1, 2, 3, 4, 5, 6, 7, 4, 1, 2, 3, 4, 5, 6, 7>>
usb2_get_reg == <<1, 2, 3, 4, 5, 6, 7, 4, 1, 2, 3, 4, 5, 6, 7>>

(* The order of its branches: by bank, TX first, by endpoint.              *)
Place(e) == 100 * SetupReg[e.n] + (IF e.dir = "TX" THEN 0 ELSE 50) + e.n

(* An RX endpoint with too large packets ends the setup.                   *)
Reached(e) == ~\E f \in mask \cap Oversize : Place(f) <= Place(e)

usb2_setup_endpoints_in_mask ==
  IF \E s \in usb2_incompatibles_endpoints : s \subseteq mask THEN dma
  ELSE [b \in Banks |->
          LET mine == {e.n : e \in {e \in mask : e.dir = b.dir /\ SetupReg[e.n] = b.n /\ Reached(e)}}
          IN IF mine = {} THEN dma[b] ELSE Max(mine)]

(* usb2_setup_endpoints, which is usb2_reset_endpoints and                 *)
(* usb2_ep0_set_configuration_callback too: EP0 answers NAK.               *)
usb2_setup_endpoints ==
  /\ dma' = usb2_setup_endpoints_in_mask
  /\ ep0' = [ep0 EXCEPT !.status = "NAK"]

(* usb2_device_init on the device record d.  A device with the speed of    *)
(* USB3 is refused by usb2_device_deinit.                                  *)
usb2_device_init(d) ==
  \/ /\ d.speed2 \in Usb2Speeds
     /\ usb2' = TRUE
     /\ dev' = SetUsb2(d, "POWERED", 0)
     /\ usb2_setup_endpoints
     /\ UNCHANGED <<dev_ad, int_fg, int_st, req, irq, host>>
  \/ /\ d.speed2 \notin Usb2Speeds
     /\ usb2' = FALSE
     /\ dev' = d
     /\ UNCHANGED <<dma, dev_ad, int_fg, int_st, ep0, req, irq, host>>

Usb2Init ==
  /\ shared \in BOOLEAN /\ mask \in Masks
  /\ usb2 = FALSE
  /\ dev = [state3 |-> "DETACHED", state2 |-> "DETACHED", addr3 |-> 0, addr2 |-> 0,
            speed3 |-> Usb2Speed, speed2 |-> Usb2Speed]
  /\ dma = [b \in Banks |-> 0]
  /\ dev_ad = 0 /\ int_fg = {} /\ int_st = NoToken /\ irq = "idle" /\ req = "none"
  /\ ep0 = [packet |-> "none", status |-> "NAK"]
  /\ host = [stage |-> "off", addr |-> 0, req |-> "none", resets |-> MaxReset]

-----------------------------------------------------------------------------
(* USBHS_IRQHandler: the branch it takes, then the flags it clears.        *)
Enters(branch) ==
  /\ usb2 /\ irq = "idle" /\ irq' = branch
  /\ UNCHANGED <<shared, mask, cable, usb2, int_fg, int_st, host>>

Powered == dev.state2 = "POWERED"
Setup == "SETUP" \in int_fg /\ ~Powered
Transfer == "TRANSFER" \in int_fg /\ ~Powered
Nakked == int_st.answer = "NAK" /\ "SETUP" \notin int_fg

(* nak_callback, which is the user's.                                      *)
NakStatus ==
  /\ Enters("nak") /\ Nakked
  /\ UNCHANGED <<dev, dma, dev_ad, ep0, req>>

(* usb2_ep0_setup_stage_handler for the requests of an enumeration; see    *)
(* Usb2Control for all of them.                                            *)
SetupStage ==
  /\ Enters("setup") /\ Setup
  /\ req' = ep0.packet
  /\ \/ /\ req' = "set_address"
        /\ dev' = SetUsb2(dev, dev.state2, 1)
        /\ UNCHANGED dma
     \/ /\ req' = "set_config"
        /\ dev' = SetUsb2(dev, "CONFIGURED", dev.addr2)
        /\ dma' = usb2_setup_endpoints_in_mask
     \/ /\ req' = "other"
        /\ UNCHANGED <<dev, dma>>
  /\ ep0' = [ep0 EXCEPT !.status = "ACK"]
  /\ UNCHANGED dev_ad

(* usb2_ep0_in_handler at the end of a status stage; usb2_set_device_address. *)
StatusStage ==
  /\ Enters("transfer") /\ ~Nakked /\ ~Setup /\ Transfer
  /\ int_st.endp = Endp0
  /\ \/ /\ req = "set_address"
        /\ dev_ad' = dev.addr2
        /\ dev' = SetUsb2(dev, "ADDRESS", dev.addr2)
     \/ /\ req # "set_address"
        /\ UNCHANGED <<dev, dev_ad>>
  /\ ep0' = [ep0 EXCEPT !.status = "NAK"]
  /\ UNCHANGED <<dma, req>>

(* usb2_in_transfer_handler and usb2_out_transfer_handler: the next buffer *)
(* of the endpoint goes to its register.                                   *)
DataStage ==
  /\ Enters("transfer") /\ ~Nakked /\ ~Setup /\ Transfer
  /\ int_st.endp # Endp0
  /\ LET e == int_st.endp
     IN dma' = [dma EXCEPT ![[n |-> usb2_get_reg[e.n], dir |-> e.dir]] = e.n]
  /\ UNCHANGED <<dev, dev_ad, ep0, req>>

Later == ~Nakked /\ ~Setup /\ ~Transfer

Suspended ==
  /\ Enters("suspend") /\ Later /\ "SUSPEND" \in int_fg
  /\ UNCHANGED <<dev, dma, dev_ad, ep0, req>>

FifoOverflow ==
  /\ Enters("overflow") /\ Later /\ "SUSPEND" \notin int_fg /\ "FIFOOV" \in int_fg
  /\ UNCHANGED <<dev, dma, dev_ad, ep0, req>>

(* Mutant: the controller keeps the address it had.                        *)
BusResetKeepsAddress ==
  /\ Enters("reset") /\ Later /\ {"SUSPEND", "FIFOOV"} \cap int_fg = {} /\ "BUSRST" \in int_fg
  /\ dev' = SetUsb2(dev, "DEFAULT", 0)
  /\ usb2_setup_endpoints
  /\ UNCHANGED <<dev_ad, req>>

BusReset ==
  /\ Enters("reset") /\ Later /\ {"SUSPEND", "FIFOOV"} \cap int_fg = {} /\ "BUSRST" \in int_fg
  /\ dev_ad' = 0
  /\ dev' = SetUsb2(dev, "DEFAULT", 0)
  /\ usb2_setup_endpoints
  /\ UNCHANGED req

(* R8_USB_INT_FG = R8_USB_INT_FG clears whatever has come by then; an      *)
(* overflow is never cleared.                                              *)
ClearFlags ==
  /\ irq # "idle" /\ irq' = "idle"
  /\ \/ irq \in {"setup", "nak"} /\ int_fg' = {}
     \/ irq = "transfer" /\ int_fg' = int_fg \ {"TRANSFER"}
     \/ irq = "suspend" /\ int_fg' = int_fg \ {"SUSPEND"}
     \/ irq = "overflow" /\ int_fg' = int_fg
     \/ irq = "reset" /\ int_fg' = int_fg \ {"BUSRST"}
  /\ int_st' = IF irq \in {"nak", "transfer"} THEN NoToken ELSE int_st
  /\ UNCHANGED <<shared, mask, cable, usb2, dev, dma, dev_ad, ep0, req, host>>

USBHS_IRQHandler == \/ NakStatus \/ SetupStage \/ StatusStage \/ DataStage
                    \/ Suspended \/ FifoOverflow \/ BusReset \/ ClearFlags

-----------------------------------------------------------------------------
(* The host and the bus.                                                   *)
Attached == usb2 /\ cable = "usb2"
Free == {"SETUP", "TRANSFER"} \cap int_fg = {} /\ int_st.answer # "NAK"

Raised(flag) ==
  /\ Attached /\ int_fg' = int_fg \cup flag
  /\ UNCHANGED <<shared, mask, cable, usb2, dev, dma, dev_ad, req, irq>>

(* The device will not answer any more.                                    *)
Unanswered ==
  /\ host.req # "none" /\ irq = "idle" /\ int_fg \subseteq {"FIFOOV"} /\ int_st.answer # "NAK"
  /\ ep0.status = "NAK" \/ dev_ad # host.addr

(* A reset of the bus: on connection, after a time without an answer, or   *)
(* for reasons of its own.                                                 *)
Resets(left) ==
  /\ Raised({"BUSRST"})
  /\ host' = [stage |-> "reset", addr |-> 0, req |-> "none", resets |-> left]
  /\ UNCHANGED <<int_st, ep0>>

HostResets == (host.stage = "off" \/ Unanswered) /\ Resets(host.resets)
HostResetsAnyway == host.stage # "off" /\ host.resets > 0 /\ Resets(host.resets - 1)

(* The SETUP packet of the next request, which arrives if the address is   *)
(* right.  It may come while nak_callback runs.                            *)
NextRequest ==
  CASE host.stage = "reset"      -> "set_address"
    [] host.stage = "addressed"  -> "set_config"
    [] host.stage = "configured" -> "other"

HostRequests ==
  /\ host.stage # "off" /\ host.req = "none"
  /\ {"SETUP", "TRANSFER"} \cap int_fg = {}
  /\ irq = "nak" \/ (irq = "idle" /\ int_st.answer # "NAK")
  /\ Raised(IF dev_ad = host.addr THEN {"SETUP"} ELSE {})
  /\ host' = [host EXCEPT !.req = NextRequest]
  /\ ep0' = IF dev_ad = host.addr THEN [ep0 EXCEPT !.packet = NextRequest] ELSE ep0
  /\ UNCHANGED int_st

HostStatus ==
  /\ host.req # "none" /\ Free /\ irq = "idle"
  /\ ep0.status = "ACK" /\ dev_ad = host.addr
  /\ Raised({"TRANSFER"}) /\ int_st' = [endp |-> Endp0, answer |-> "ACK"]
  /\ host' = [host EXCEPT !.req = "none",
                          !.addr = IF host.req = "set_address" THEN 1 ELSE @,
                          !.stage = CASE host.req = "set_address" -> "addressed"
                                      [] host.req = "set_config" -> "configured"
                                      [] OTHER -> @]
  /\ UNCHANGED ep0

(* A transfer on a data endpoint, or a NAK after usb2_enable_nak; the FIFO *)
(* runs over.                                                              *)
HostUsesEndpoint ==
  /\ host.stage = "configured" /\ dev_ad = host.addr /\ Free /\ irq = "idle"
  /\ \E e \in mask :
       /\ dma[HwBank(e)] # 0
       /\ \/ Raised({"TRANSFER"}) /\ int_st' = [endp |-> e, answer |-> "ACK"]
          \/ Raised({}) /\ int_st' = [endp |-> e, answer |-> "NAK"]
          \/ e.dir = "RX" /\ Raised({"FIFOOV"}) /\ UNCHANGED int_st
  /\ UNCHANGED <<ep0, host>>

(* The bus goes to sleep, or wakes up.                                     *)
BusSleeps ==
  /\ Raised({"SUSPEND"}) /\ host.stage # "off" /\ "SUSPEND" \notin int_fg
  /\ UNCHANGED <<int_st, ep0, host>>

Usb2Bus == HostResets \/ HostResetsAnyway \/ HostRequests \/ HostStatus \/ HostUsesEndpoint \/ BusSleeps

-----------------------------------------------------------------------------
(* Two endpoints of a direction may share a bank.  Whatever mask the user  *)
(* gives and whatever requests and resets have set up the endpoints since, *)
(* the controller never moves the data of an endpoint from or to another   *)
(* endpoint's buffer, and never takes packets that are larger than what an *)
(* RX buffer is limited to.                                                *)
BanksAreOwned ==
  \A e \in mask : /\ dma[HwBank(e)] \in {0, e.n}
                  /\ e \in Oversize => dma[HwBank(e)] = 0
=============================================================================
