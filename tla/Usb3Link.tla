------------------------------ MODULE Usb3Link ------------------------------
(***************************************************************************)
(* Which USB backend is active: LINK_IRQHandler of usb/usb30.c with the    *)
(* initialisation of both backends, against a cable that is plugged into a *)
(* USB3 host, into a USB2 host or into nothing, and changes at any time.   *)
(*                                                                         *)
(* The link (external) looks for a partner, polls, trains, goes up, to     *)
(* sleep or down, each time raising a flag of LINK_INT_FLAG, whatever      *)
(* flags are pending and wherever the handler is.  Only a training waits   *)
(* for the handler: it takes milliseconds.  The handler tests the flags    *)
(* one by one in a fixed order.  A flag that is found is served in a step, *)
(* before and after which others may be raised; the tests that find none   *)
(* take no time.                                                           *)
(*                                                                         *)
(* The code never writes LINK_INT_FLAG when it resets the link, and        *)
(* whether the reset clears the flags is the controller's affair: both are *)
(* possible.  Left out are the waits for the controller that end in no     *)
(* time or never: usb30_device_init loops for good when the link does not  *)
(* leave its reset (usb30.c:95-104), and WARM_RESET_FLAG waits for the end *)
(* of the reset on the line (usb30.c:841).                                 *)
(***************************************************************************)
EXTENDS Usb2Device, Sequences

CONSTANT MaxPending  \* bound on the flags that are pending together

ASSUME Usb3LinkAssumption == MaxPending \in Nat \ {0}

Up == {"U0", "U1", "U2", "U3"}

(* The order in which LINK_IRQHandler tests the flags.                     *)
Order == <<"Ux_EXIT", "RDY", "INACT", "DISABLE", "RX_DET", "TERM_PRESENT", "TXEQ",
           "WARM_RESET", "HOT_RESET", "GO_U1", "GO_U2", "GO_U3">>
Doze == {"Ux_EXIT", "GO_U1", "GO_U2", "GO_U3"}

VARIABLES
  usb2_fallback_enabled,
  link,         \* the state of the link
  flags,        \* LINK_INT_FLAG
  place,        \* the place in Order that LINK_IRQHandler has reached, 0 outside of it
  power,        \* the power mode in LINK_CTRL
  tx_lmp_port,
  link_sta,
  announced,    \* PORT_CAP was sent since the link came up
  usb3,         \* the USB3 backend is initialised
  late,         \* the link went to sleep or woke up before the flag of its last such change was served
  crossed       \* USB3 was switched off for USB2 with a flag pending that may switch it on

setting == <<usb2_fallback_enabled, shared, mask>>
ghosts == <<late, crossed>>
usb3_side == <<link, flags, place, power, tx_lmp_port, link_sta, announced, usb3, ghosts>>
vars == <<setting, cable, usb3_side, usb2_side, dev>>

(* Writing a field of one backend's device, which may be the other's too.  *)
SetUsb3(d, state, speed) ==
  [d EXCEPT !.state3 = state, !.speed3 = speed,
            !.state2 = IF shared THEN state ELSE @,
            !.speed2 = IF shared THEN speed ELSE @]
SetUsb3Address(d, addr) == [d EXCEPT !.addr3 = addr, !.addr2 = IF shared THEN addr ELSE @]

-----------------------------------------------------------------------------
(* usb30_device_init, and usb30_device_deinit before it in USB30_BusReset: *)
(* the link starts from the beginning.  Of the flags, "pending" are those  *)
(* that were not served.                                                   *)
usb30_device_init(pending) ==
  /\ usb3' = TRUE /\ link' = "detect" /\ power' = 2 /\ announced' = FALSE /\ late' = FALSE
  /\ flags' \in {{}, pending}

USB30_BusReset(pending) == usb30_device_init(pending)

usb30_device_deinit(pending) ==
  /\ usb3' = FALSE /\ link' = "off" /\ power' = 3 /\ announced' = FALSE /\ late' = FALSE
  /\ flags' \in {{}, pending}

Init ==
  /\ Usb2Init
  /\ usb2_fallback_enabled \in BOOLEAN
  /\ cable \in {"none", "usb2", "usb3"}
  /\ link = "detect" /\ flags = {} /\ place = 0 /\ power = 2 /\ announced = FALSE
  /\ tx_lmp_port = 0 /\ link_sta = 0
  /\ usb3 = TRUE /\ late = FALSE /\ crossed = FALSE

-----------------------------------------------------------------------------
(* LINK_IRQHandler: the next flag that is set, from place i on.            *)
SeekFrom(i) ==
  /\ place' \in {0} \cup i..Len(Order)
  /\ place' # 0 => Order[place'] \in flags'
  /\ \A n \in i..Len(Order) : Order[n] \in flags' => place' # 0 /\ place' <= n

Enter ==
  /\ place = 0 /\ usb3 /\ flags # {}
  /\ UNCHANGED <<setting, cable, link, flags, power, tx_lmp_port, link_sta, announced, usb3, ghosts,
                 usb2_side, dev>>
  /\ SeekFrom(1)

(* Flag f is found, and the handler goes on to the next one.               *)
Step == SeekFrom(place + 1)
Found(f) == place # 0 /\ Order[place] = f
Served(f) == Found(f) /\ flags' = flags \ {f} /\ Step

(* Mutant: the link is left in the power mode of its sleep.                *)
UxExitAsleep ==
  /\ Served("Ux_EXIT")
  /\ UNCHANGED <<setting, cable, link, power, tx_lmp_port, link_sta, announced, usb3, ghosts, usb2_side, dev>>

UxExit ==
  /\ Served("Ux_EXIT")
  /\ power' = 0
  /\ UNCHANGED <<setting, cable, link, tx_lmp_port, link_sta, announced, usb3, ghosts, usb2_side, dev>>

(* LINK_RDY_FLAG: after a training, announce the port and enter DEFAULT.   *)
LinkReady ==
  /\ Served("RDY")
  /\ \/ /\ tx_lmp_port = 1
        /\ tx_lmp_port' = 0
        /\ announced' = TRUE
        /\ dev' = SetUsb3(dev, "DEFAULT", "SUPERSPEED")
     \/ /\ tx_lmp_port = 0
        /\ UNCHANGED <<tx_lmp_port, announced, dev>>
  /\ link_sta' = 3
  /\ UNCHANGED <<setting, cable, link, power, usb3, ghosts, usb2_side>>

(* Mutant: no new attempt is made without fallback.                        *)
DisableGivesUp ==
  /\ Found("DISABLE")
  /\ link_sta' = 1
  /\ usb30_device_deinit(flags \ {"DISABLE"})
  /\ IF usb2_fallback_enabled THEN usb2_device_init([dev EXCEPT !.state3 = "DETACHED"])
                 ELSE UNCHANGED <<usb2_side, dev>>
  /\ place' = 0
  /\ UNCHANGED <<setting, cable, tx_lmp_port, crossed>>

(* LINK_DISABLE_FLAG: no cable or no USB3 at its end.  Either USB3 is      *)
(* tried again, and the handler returns; or USB3 is switched off and USB2  *)
(* on, and the handler goes on with its tests.                             *)
LinkDisable ==
  LET d == SetUsb3(dev, "DETACHED", dev.speed3)
      pending == flags \ {"DISABLE"}
  IN
  /\ Found("DISABLE")
  /\ link_sta' = 1
  /\ \/ /\ ~usb2_fallback_enabled
        /\ usb30_device_init(pending)
        /\ place' = 0
        /\ dev' = d
        /\ UNCHANGED <<usb2_side, crossed>>
     \/ /\ usb2_fallback_enabled
        /\ usb30_device_deinit(pending)
        /\ Step
        /\ usb2_device_init(d)
        /\ crossed' = (crossed \/ {"TERM_PRESENT", "WARM_RESET"} \cap flags' # {})
  /\ UNCHANGED <<setting, cable, tx_lmp_port>>

(* LINK_INACT_FLAG, LINK_RX_DET_FLAG.                                      *)
PowerDown ==
  /\ \E f \in {"INACT", "RX_DET"} : Served(f)
  /\ power' = 2
  /\ UNCHANGED <<setting, cable, link, tx_lmp_port, link_sta, announced, usb3, ghosts, usb2_side, dev>>

(* TERM_PRESENT_FLAG: poll, or start again if the partner is gone.         *)
TermPresent ==
  \/ /\ Served("TERM_PRESENT")
     /\ cable = "usb3"
     /\ power' = 2
     /\ link' = IF link \in {"detect", "term"} THEN "polling" ELSE link
     /\ UNCHANGED <<setting, cable, tx_lmp_port, link_sta, announced, usb3, ghosts, usb2_side, dev>>
  \/ /\ Found("TERM_PRESENT")
     /\ cable # "usb3"
     /\ USB30_BusReset(flags \ {"TERM_PRESENT"}) /\ Step
     /\ dev' = SetUsb3(dev, "DEFAULT", dev.speed3)
     /\ UNCHANGED <<setting, cable, tx_lmp_port, link_sta, crossed, usb2_side>>

TxEq ==
  /\ Served("TXEQ")
  /\ tx_lmp_port' = 1
  /\ power' = 0
  /\ UNCHANGED <<setting, cable, link, link_sta, announced, usb3, ghosts, usb2_side, dev>>

WarmReset ==
  /\ Found("WARM_RESET")
  /\ USB30_BusReset(flags \ {"WARM_RESET"}) /\ Step
  /\ dev' = SetUsb3Address(dev, 0)
  /\ UNCHANGED <<setting, cable, tx_lmp_port, link_sta, crossed, usb2_side>>

(* HOT_RESET_FLAG; what it does to the endpoints is in Usb3Endpoint.       *)
HotReset ==
  /\ Served("HOT_RESET")
  /\ dev' = SetUsb3Address(dev, 0)
  /\ UNCHANGED <<setting, cable, link, power, tx_lmp_port, link_sta, announced, usb3, ghosts, usb2_side>>

(* LINK_GO_U1_FLAG, LINK_GO_U2_FLAG, LINK_GO_U3_FLAG.                      *)
GoToSleep ==
  /\ \/ Served("GO_U1") /\ power' = 1
     \/ \E f \in {"GO_U2", "GO_U3"} : Served(f) /\ power' = 2
  /\ UNCHANGED <<setting, cable, link, tx_lmp_port, link_sta, announced, usb3, ghosts, usb2_side, dev>>

LINK_IRQHandler == \/ Enter \/ UxExit \/ LinkReady \/ LinkDisable \/ PowerDown
                   \/ TermPresent \/ TxEq \/ WarmReset \/ HotReset \/ GoToSleep

-----------------------------------------------------------------------------
(* The link, the host and the cable.                                       *)
Raise(from, to, f) ==
  /\ usb3 /\ link = from /\ link' = to
  /\ flags' = flags \cup {f} /\ Cardinality(flags') <= MaxPending
  /\ late' = IF f \in Doze THEN flags \cap Doze # {} ELSE late
  /\ UNCHANGED <<setting, cable, place, power, tx_lmp_port, link_sta, usb3, crossed, usb2_side, dev>>

Signal(from, to, f) == Raise(from, to, f) /\ UNCHANGED announced

(* The stages of a training, each of which takes longer than the handler.  *)
Quiet == place = 0 /\ flags = {}
Train(from, to, f) == Quiet /\ Raise(from, to, f) /\ announced' = FALSE

(* A partner is found, polls, trains: the way up, as long as it is there.  *)
LinkRises ==
  /\ cable = "usb3"
  /\ \/ Signal("detect", "term", "TERM_PRESENT")
     \/ Train("polling", "eq", "TXEQ")
     \/ power = 0 /\ Train("eq", "U0", "RDY")
     \/ \E u \in {"U1", "U2", "U3"} : Signal(u, "U0", "Ux_EXIT")

(* The partner is not there, or no more.                                   *)
LinkFalls ==
  /\ cable # "usb3"
  /\ \E from \in {"detect", "term", "polling", "eq", "inactive"} \cup Up :
       Signal(from, "disabled", "DISABLE")

HostOrLink ==
  \/ Signal("detect", "detect", "RX_DET")
  \/ cable = "usb3" /\
     \/ Signal("U0", "U0", "HOT_RESET") \/ Signal("U0", "U0", "RDY")
     \/ Signal("U0", "U1", "GO_U1") \/ Signal("U0", "U2", "GO_U2") \/ Signal("U0", "U3", "GO_U3")
     \/ Signal("U0", "inactive", "INACT")
     \/ \E from \in {"U0", "inactive"} : Signal(from, from, "WARM_RESET")

(* SET_ADDRESS and SET_CONFIGURATION over USB3.                            *)
Enumerate ==
  /\ link = "U0" /\ announced /\ {"HOT_RESET", "WARM_RESET"} \cap flags = {}
  /\ dev' = SetUsb3Address(SetUsb3(dev, "CONFIGURED", "SUPERSPEED"), 1)
  /\ UNCHANGED <<setting, cable, usb3_side, usb2_side>>

Replug ==
  /\ cable' \in {"none", "usb2", "usb3"} \ {cable}
  /\ host' = [host EXCEPT !.stage = "off", !.addr = 0, !.req = "none"]
  /\ UNCHANGED <<setting, usb3_side, usb2, dma, dev_ad, int_fg, int_st, ep0, req, irq, dev>>

Usb3Next == LINK_IRQHandler \/ LinkRises \/ LinkFalls \/ HostOrLink \/ Enumerate

-----------------------------------------------------------------------------
(* Both backends, with one cable.  USBHS_IRQHandler does not interrupt     *)
(* LINK_IRQHandler: by default they have the same priority, and where the  *)
(* test firmware sets priorities the link has the higher one.              *)
Usb3Rests == UNCHANGED <<usb2_fallback_enabled, usb3_side>>
Usb2Next == (place = 0 /\ USBHS_IRQHandler) \/ Usb2Bus
Next == Usb3Next \/ (Usb2Next /\ Usb3Rests) \/ Replug

(* Interrupts are served, those of a bus in reset too, which does not go   *)
(* to sleep; a link with a partner trains, one without goes down; a host   *)
(* resets an inactive link.  A USB2 host resets the bus of a device it     *)
(* finds, and again when it gets no answer, and goes on with the           *)
(* enumeration when it does.                                               *)
Spec == /\ Init /\ [][Next]_vars
        /\ WF_vars(LINK_IRQHandler)
        /\ SF_vars(LinkRises) /\ SF_vars(LinkFalls)
        /\ WF_vars(link = "inactive" /\ cable = "usb3" /\ Signal("inactive", "inactive", "WARM_RESET"))
        /\ WF_vars(place = 0 /\ USBHS_IRQHandler /\ Usb3Rests) /\ SF_vars(place = 0 /\ BusReset /\ Usb3Rests)
        /\ SF_vars(HostResets /\ Usb3Rests) /\ SF_vars(HostStatus /\ Usb3Rests)
        /\ SF_vars(host.stage # "configured" /\ HostRequests /\ Usb3Rests)

-----------------------------------------------------------------------------
(* The link and the driver agree on where the link is, whatever flags are  *)
(* pending together and come while others are served: once its interrupt   *)
(* is served, a port that came up has sent PORT_CAP in this training and   *)
(* the device says that a USB3 host is there; once all flags are served,   *)
(* the PHY is in the power mode of the link's state; and the two           *)
(* controllers are never both at work: the device shows up once.           *)
(* The exceptions: USB3 was switched off for USB2 while TERM_PRESENT_FLAG  *)
(* or WARM_RESET_FLAG was pending, which the handler serves next by        *)
(* switching USB3 on again beside USB2 (crossed); and, for the PHY, the    *)
(* link fell asleep and woke up, or woke up and fell asleep, before the    *)
(* first of the two flags was served (late): whichever came first, the     *)
(* handler tests LINK_Ux_EXIT_FLAG first.                                  *)
LinkIsFollowed ==
  ~crossed =>
    /\ ~(usb3 /\ usb2)
    /\ link \in Up /\ "RDY" \notin flags =>
         announced /\ link_sta = 3 /\ dev.speed3 = "SUPERSPEED" /\ dev.state3 # "DETACHED"
    /\ Quiet /\ ~late => /\ link = "U0" => power = 0
                         /\ link = "U1" => power = 1
                         /\ link \in {"U2", "U3"} => power = 2

(* "try to USB3 init in a loop, up until a USB3 link is detected": without *)
(* fallback, a cable that stays in a USB3 host leads to a link that is up, *)
(* and to a PORT_CAP; again after every reset, and after every loss of the *)
(* link, which may come before PORT_CAP is sent.                           *)
Usb3ComesUp ==
  ~usb2_fallback_enabled /\ <>[](cable = "usb3") => []<>(link \in Up) /\ []<>announced

(* "If enabled, the connection will activate USB2 if USB3 is unavailable   *)
(* or if the USB cable is unplugged (unfortunately)": with fallback, a     *)
(* cable that stays in a USB2 host leads to a device that the host has     *)
(* configured, and does so again after every reset, even one whose         *)
(* interrupt was cleared unserved or a request that was.  The exceptions:  *)
(* once USB3 was up, a shared device has a speed that usb2_device_init     *)
(* refuses; after an overflow no reset is served; and once USB3 came on    *)
(* again beside USB2 (crossed), its next end may initialise USB2 in the    *)
(* middle of an enumeration, and leave a request that is never served.     *)
Usb2Enumerates ==
  usb2_fallback_enabled /\ <>[](cable = "usb2") =>
    []<>(\/ usb2 /\ host.stage = "configured" /\ dev.state2 = "CONFIGURED" /\ dev_ad = host.addr
         \/ shared /\ dev.speed2 = "SUPERSPEED"
         \/ "FIFOOV" \in int_fg
         \/ crossed)
=============================================================================
