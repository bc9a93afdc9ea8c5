--------------------------- MODULE Usb3LinkProofs ---------------------------
(***************************************************************************)
(* For every mask of endpoints, every speed and any number of flags,       *)
(* resets and cable changes: usb30.c follows the link, and no bank of the  *)
(* USB2 controller is given to two endpoints.                              *)
(*                                                                         *)
(* The first needs an invariant (LinkInv) that ties the flags that may be  *)
(* pending to the state of the link and to the place that the handler has  *)
(* reached: the flags of an earlier life of the link are served before its *)
(* training begins, and what a training leaves behind is announced by a    *)
(* flag.  The second (BanksInv) needs that the endpoint of the last token  *)
(* still has its bank when its transfer is served, after any setup of the  *)
(* endpoints in between.                                                   *)
(***************************************************************************)
EXTENDS Usb3Link, TLAPS

States == {"DETACHED", "POWERED", "DEFAULT", "ADDRESS", "CONFIGURED"}
Speeds == Usb2Speeds \cup {"SUPERSPEED"}
Device == [state3 : States, state2 : States, addr3 : Nat, addr2 : Nat,
           speed3 : Speeds, speed2 : Speeds]

Flags == {Order[n] : n \in 1..12}

TypeOK ==
  /\ usb2 \in BOOLEAN /\ usb3 \in BOOLEAN
  /\ dev \in Device
  /\ tx_lmp_port \in {0, 1}
  /\ flags \subseteq Flags
  /\ place \in 0..12
  /\ place # 0 => Order[place] \in flags

(* With USB3 off, no flag is left that switches it on.                     *)
OneBackend == /\ ~(usb3 /\ usb2)
              /\ ~usb3 => link = "off" /\ flags \cap {"DISABLE", "TERM_PRESENT", "WARM_RESET"} = {}

(* The flags that the handler has tested already, or has yet to test.      *)
Behind(i) == {Order[n] : n \in {n \in 1..12 : n < i}}
Ahead(i) == {Order[n] : n \in i..12}

(* The flags that may be pending in each state of the link: in the end,    *)
(* none that a training would mistake for its own.                         *)
Stages ==
  /\ link \in {"detect", "term"} /\ place \in 1..6 => flags \cap Behind(place) \subseteq {"RX_DET"}
  /\ link = "polling" => flags \subseteq {"RX_DET"} \cup (IF place >= 7 THEN Ahead(place) ELSE {})
  /\ link = "eq" => flags \subseteq {"TXEQ"} /\ ("TXEQ" \in flags \/ tx_lmp_port = 1)
  /\ link \in Up => flags \cap {"INACT", "DISABLE", "RX_DET", "TERM_PRESENT", "TXEQ"} = {}

(* PORT_CAP is due until the flag of a new training is served.             *)
Trained ==
  link \in Up => \/ "RDY" \in flags /\ tx_lmp_port = 1
                 \/ announced /\ link_sta = 3 /\ dev.speed3 = "SUPERSPEED"
                              /\ dev.state3 # "DETACHED"

(* The power mode of a link that is up, and the flag that leads to it.     *)
Mode(l) == CASE l = "U0" -> 0 [] l = "U1" -> 1 [] l \in {"U2", "U3"} -> 2
Last(l) == CASE l = "U0" -> "Ux_EXIT" [] l = "U1" -> "GO_U1"
             [] l = "U2" -> "GO_U2" [] l = "U3" -> "GO_U3"

PowerFits ==
  link \in Up /\ ~late => \/ flags \cap Doze = {} /\ power = Mode(link)
                          \/ flags \cap Doze = {Last(link)}

LinkInv == TypeOK /\ (~crossed => OneBackend /\ Stages /\ Trained /\ PowerFits)

(* The endpoint of the last token owns its bank.                           *)
BanksInv ==
  /\ mask \in Masks
  /\ dma \in [Banks -> Nat]
  /\ BanksAreOwned
  /\ int_st.endp # Endp0 =>
       int_st.endp \in mask /\ dma[HwBank(int_st.endp)] = int_st.endp.n

-----------------------------------------------------------------------------
(* What writing a field through either backend leaves.                     *)
LEMMA Usb3Write ==
  ASSUME NEW d \in Device, NEW state \in States, NEW speed \in Speeds
  PROVE  /\ SetUsb3(d, state, speed) \in Device
         /\ SetUsb3(d, state, speed).state3 = state
         /\ SetUsb3(d, state, speed).speed3 = speed
<1>1. CASE shared
  BY <1>1 DEF SetUsb3, Device
<1>2. CASE ~shared
  BY <1>2 DEF SetUsb3, Device
<1> QED
  BY <1>1, <1>2

LEMMA Usb3AddressWrite ==
  ASSUME NEW d \in Device, NEW addr \in Nat
  PROVE  /\ SetUsb3Address(d, addr) \in Device
         /\ SetUsb3Address(d, addr).state3 = d.state3
         /\ SetUsb3Address(d, addr).speed3 = d.speed3
<1>1. CASE shared
  BY <1>1 DEF SetUsb3Address, Device
<1>2. CASE ~shared
  BY <1>2 DEF SetUsb3Address, Device
<1> QED
  BY <1>1, <1>2

LEMMA Usb2Write ==
  ASSUME NEW d \in Device, NEW state \in States, NEW addr \in Nat
  PROVE  SetUsb2(d, state, addr) \in Device
<1>1. CASE shared
  BY <1>1 DEF SetUsb2, Device
<1>2. CASE ~shared
  BY <1>2 DEF SetUsb2, Device
<1> QED
  BY <1>1, <1>2

LEMMA LinkInitInv == Init => LinkInv
<1> SUFFICES ASSUME Init PROVE LinkInv
  OBVIOUS
<1>1. dev \in Device
  BY Usb2DeviceAssumption DEF Init, Usb2Init, Device, States, Speeds
<1>2. /\ usb2 = FALSE /\ usb3 = TRUE /\ tx_lmp_port = 0
      /\ flags = {} /\ place = 0 /\ place \in 0..12
  BY DEF Init, Usb2Init
<1>3. TypeOK
  BY <1>1, <1>2, Zenon DEF TypeOK
<1> QED
  BY <1>3 DEF Init, Usb2Init, LinkInv, OneBackend, Stages, Trained, PowerFits, Up

-----------------------------------------------------------------------------
(* The handler goes on: it has passed by no flag that is still pending.    *)
LEMMA Seeks ==
  ASSUME NEW i \in 1..13, SeekFrom(i), flags' \subseteq Flags
  PROVE  /\ place' \in 0..12 /\ (place' # 0 => place' >= i /\ Order[place'] \in flags')
         /\ place' # 0 => \A n \in i..12 : Order[n] \in flags' => place' <= n
         /\ place' = 0 => \A n \in i..12 : Order[n] \notin flags'
<1>1. Len(Order) = 12
  BY DEF Order
<1> HIDE DEF Order
<1> QED
  BY <1>1 DEF SeekFrom

(* The handler has found a flag.                                           *)
LEMMA FoundFlag ==
  ASSUME TypeOK, NEW f, Found(f)
  PROVE  place \in 1..12 /\ f \in flags /\ f = Order[place] /\ place + 1 \in 1..13
BY DEF TypeOK, Found

LEMMA StepKeepsType ==
  ASSUME TypeOK, NEW f, Found(f), flags' \subseteq flags, Step,
         usb2' \in BOOLEAN, usb3' \in BOOLEAN, dev' \in Device, tx_lmp_port' \in {0, 1}
  PROVE  TypeOK'
<1>1. place + 1 \in 1..13 /\ flags' \subseteq Flags
  BY FoundFlag DEF TypeOK
<1>2. place' \in 0..12 /\ (place' # 0 => Order[place'] \in flags')
  BY <1>1, Seeks DEF Step
<1> QED
  BY <1>1, <1>2 DEF TypeOK

(* A flag is served in a link that stays as it is.                         *)
LEMMA ServeKeepsStages ==
  ASSUME TypeOK, Stages, NEW f, Served(f), UNCHANGED link,
         link = "eq" => tx_lmp_port' = 1 \/ (f # "TXEQ" /\ UNCHANGED tx_lmp_port)
  PROVE  Stages'
<1>1. /\ place \in 1..12 /\ f \in flags /\ f = Order[place] /\ place + 1 \in 1..13
      /\ flags' = flags \ {f} /\ flags' \subseteq Flags
  BY FoundFlag DEF Served, TypeOK
<1>2. /\ place' \in 0..12 /\ (place' # 0 => place' >= place + 1)
      /\ place' # 0 => \A n \in (place + 1)..12 : Order[n] \in flags' => place' <= n
      /\ place' = 0 => \A n \in (place + 1)..12 : Order[n] \notin flags'
  BY <1>1, Seeks DEF Served, Step
<1>3. ASSUME link' \in {"detect", "term"}, place' \in 1..6
      PROVE  flags' \cap Behind(place') \subseteq {"RX_DET"}
  <2>1. place \in 1..6 /\ flags \cap Behind(place) \subseteq {"RX_DET"}
    BY <1>1, <1>2, <1>3 DEF Stages
  <2> SUFFICES ASSUME NEW n \in 1..12, n < place', Order[n] \in flags' PROVE Order[n] = "RX_DET"
    BY DEF Behind
  <2>2. n < place
    <3>1. n # place
      BY <1>1
    <3>2. n \notin (place + 1)..12
      BY <1>2, <1>3
    <3> QED
      BY <1>1, <3>1, <3>2
  <2> QED
    BY <1>1, <2>1, <2>2 DEF Behind
<1>4. ASSUME link' = "polling"
      PROVE  flags' \subseteq {"RX_DET"} \cup (IF place' >= 7 THEN Ahead(place') ELSE {})
  <2>1. flags \subseteq {"RX_DET"} \cup (IF place >= 7 THEN Ahead(place) ELSE {})
    BY <1>4 DEF Stages
  <2> SUFFICES ASSUME NEW g \in flags', g # "RX_DET" PROVE place' >= 7 /\ g \in Ahead(place')
    OBVIOUS
  <2>2. place >= 7 /\ g \in Ahead(place)
    BY <1>1, <2>1
  <2>3. PICK n \in place..12 : g = Order[n]
    BY <2>2 DEF Ahead
  <2>4. n \in (place + 1)..12
    BY <1>1, <2>3
  <2>5. place' # 0 /\ place' <= n
    BY <1>2, <2>3, <2>4
  <2> QED
    BY <1>1, <1>2, <2>2, <2>3, <2>5 DEF Ahead
<1>5. link' = "eq" => flags' \subseteq {"TXEQ"} /\ ("TXEQ" \in flags' \/ tx_lmp_port' = 1)
  BY <1>1 DEF Stages
<1>6. link' \in Up => flags' \cap {"INACT", "DISABLE", "RX_DET", "TERM_PRESENT", "TXEQ"} = {}
  BY <1>1 DEF Stages
<1> QED
  BY <1>3, <1>4, <1>5, <1>6 DEF Stages

LEMMA EnterKeepsLinkInv == ASSUME LinkInv, Enter PROVE LinkInv'
<1>1. /\ place = 0 /\ flags' \subseteq Flags
      /\ UNCHANGED <<link, flags, power, tx_lmp_port, link_sta, announced, usb3, usb2, dev, late, crossed>>
  BY DEF Enter, LinkInv, TypeOK, usb2_side, ghosts
<1>2. /\ place' \in 0..12 /\ (place' # 0 => Order[place'] \in flags')
      /\ place' # 0 => \A n \in 1..12 : Order[n] \in flags' => place' <= n
  BY <1>1, Seeks DEF Enter
<1>3. TypeOK'
  BY <1>1, <1>2 DEF LinkInv, TypeOK
<1> SUFFICES ASSUME ~crossed PROVE (OneBackend /\ Stages /\ Trained /\ PowerFits)'
  BY <1>1, <1>3 DEF LinkInv
<1>4. OneBackend /\ Stages /\ Trained /\ PowerFits
  BY DEF LinkInv
<1>5. place' \in 1..6 => flags' \cap Behind(place') = {}
  <2> SUFFICES ASSUME place' \in 1..6, NEW n \in 1..12, n < place', Order[n] \in flags' PROVE FALSE
    BY DEF Behind
  <2> QED
    BY <1>2
<1>6. link = "polling" => flags \subseteq {"RX_DET"}
  BY <1>1, <1>4 DEF Stages
<1>7. Stages'
  BY <1>1, <1>4, <1>5, <1>6 DEF Stages
<1> QED
  BY <1>1, <1>4, <1>7 DEF OneBackend, Trained, PowerFits

(* A flag is served that is neither about sleep nor about a training:      *)
(* what it does to the power mode must not matter.                         *)
LEMMA ServeKeepsLinkInv ==
  ASSUME LinkInv, NEW f, Served(f), f \notin Doze \cup {"RDY"},
         UNCHANGED <<link, link_sta, announced, usb3, usb2, late, crossed>>,
         dev' \in Device, dev'.state3 = dev.state3, dev'.speed3 = dev.speed3,
         IF f = "TXEQ" THEN tx_lmp_port' = 1 ELSE UNCHANGED tx_lmp_port,
         f \in {"INACT", "RX_DET", "TERM_PRESENT", "TXEQ"} \/ UNCHANGED power
  PROVE  LinkInv'
<1>1. TypeOK /\ f \in flags /\ flags' = flags \ {f} /\ Found(f) /\ Step
  BY FoundFlag DEF Served, LinkInv
<1>2. TypeOK'
  BY <1>1, StepKeepsType DEF TypeOK
<1> SUFFICES ASSUME ~crossed PROVE (OneBackend /\ Stages /\ Trained /\ PowerFits)'
  BY <1>2 DEF LinkInv
<1>3. OneBackend /\ Stages /\ Trained /\ PowerFits
  BY DEF LinkInv
<1>4. Stages'
  BY <1>1, <1>3, ServeKeepsStages
<1>5. OneBackend'
  BY <1>1, <1>3 DEF OneBackend
<1>6. link \in Up => f # "TXEQ" /\ UNCHANGED <<power, tx_lmp_port>>
  BY <1>1, <1>3 DEF Stages
<1>7. Trained'
  BY <1>1, <1>3, <1>6 DEF Trained
<1>8. flags' \cap Doze = flags \cap Doze
  BY <1>1
<1>9. PowerFits'
  BY <1>3, <1>6, <1>8 DEF PowerFits
<1> QED
  BY <1>4, <1>5, <1>7, <1>9

(* The flag of the link's last change is served: the power mode follows.   *)
LEMMA DozeKeepsLinkInv ==
  ASSUME LinkInv, NEW f \in Doze, Served(f),
         UNCHANGED <<link, tx_lmp_port, link_sta, announced, usb3, usb2, dev, late, crossed>>,
         power' = IF f = "Ux_EXIT" THEN 0 ELSE IF f = "GO_U1" THEN 1 ELSE 2
  PROVE  LinkInv'
<1>1. TypeOK /\ f \in flags /\ flags' = flags \ {f} /\ Found(f) /\ Step
  BY FoundFlag DEF Served, LinkInv
<1>2. TypeOK'
  BY <1>1, StepKeepsType DEF TypeOK
<1> SUFFICES ASSUME ~crossed PROVE (OneBackend /\ Stages /\ Trained /\ PowerFits)'
  BY <1>2 DEF LinkInv
<1>3. OneBackend /\ Stages /\ Trained /\ PowerFits
  BY DEF LinkInv
<1>4. f # "TXEQ" /\ f # "RDY"
  BY DEF Doze
<1>5. Stages'
  BY <1>1, <1>3, <1>4, ServeKeepsStages
<1>6. OneBackend' /\ Trained'
  BY <1>1, <1>3, <1>4 DEF OneBackend, Trained
<1>7. ASSUME link \in Up, ~late PROVE flags' \cap Doze = {} /\ power' = Mode(link)
  <2>1. flags \cap Doze = {Last(link)}
    BY <1>1, <1>3, <1>7 DEF PowerFits
  <2>2. f = Last(link)
    BY <1>1, <2>1
  <2> QED
    BY <1>1, <1>7, <2>1, <2>2 DEF Last, Mode, Up
<1>8. PowerFits'
  BY <1>7 DEF PowerFits
<1> QED
  BY <1>5, <1>6, <1>8

LEMMA SleepKeepsLinkInv == ASSUME LinkInv, UxExit \/ GoToSleep PROVE LinkInv'
<1>1. UNCHANGED <<link, tx_lmp_port, link_sta, announced, usb3, usb2, dev, late, crossed>>
  BY DEF UxExit, GoToSleep, usb2_side, ghosts
<1>2. CASE UxExit
  BY <1>1, <1>2, DozeKeepsLinkInv DEF UxExit, Doze
<1>3. CASE GoToSleep
  BY <1>1, <1>3, DozeKeepsLinkInv DEF GoToSleep, Doze
<1> QED
  BY <1>2, <1>3

(* LINK_RDY_FLAG after a training, and again while the link is up.         *)
LEMMA LinkReadyKeepsLinkInv == ASSUME LinkInv, LinkReady PROVE LinkInv'
<1>1. /\ TypeOK /\ Served("RDY") /\ "RDY" \in flags /\ flags' = flags \ {"RDY"} /\ Found("RDY") /\ Step
      /\ link_sta' = 3 /\ UNCHANGED <<link, power, usb3, usb2, late, crossed>>
  BY FoundFlag DEF LinkReady, Served, LinkInv, usb2_side, ghosts
<1>2. /\ dev' \in Device /\ tx_lmp_port' \in {0, 1}
      /\ tx_lmp_port = 1 => announced' /\ dev'.speed3 = "SUPERSPEED" /\ dev'.state3 # "DETACHED"
      /\ tx_lmp_port = 0 => UNCHANGED <<announced, dev, tx_lmp_port>>
  <2>1. CASE tx_lmp_port = 1
    <3>1. tx_lmp_port' = 0 /\ announced' /\ dev' = SetUsb3(dev, "DEFAULT", "SUPERSPEED")
      BY <2>1 DEF LinkReady
    <3> QED
      BY <1>1, <2>1, <3>1, Usb3Write DEF TypeOK, States, Speeds
  <2>2. CASE tx_lmp_port = 0
    BY <1>1, <2>2 DEF LinkReady, TypeOK
  <2> QED
    BY <1>1, <2>1, <2>2 DEF TypeOK
<1>3. TypeOK'
  BY <1>1, <1>2, StepKeepsType DEF TypeOK
<1> SUFFICES ASSUME ~crossed PROVE (OneBackend /\ Stages /\ Trained /\ PowerFits)'
  BY <1>1, <1>3 DEF LinkInv
<1>4. OneBackend /\ Stages /\ Trained /\ PowerFits
  BY DEF LinkInv
<1>5. link # "eq"
  BY <1>1, <1>4 DEF Stages
<1>6. Stages'
  BY <1>1, <1>4, <1>5, ServeKeepsStages
<1>7. OneBackend'
  BY <1>1, <1>4 DEF OneBackend
<1>8. Trained'
  <2>1. CASE tx_lmp_port = 1
    BY <1>1, <1>2, <2>1 DEF Trained
  <2>2. CASE tx_lmp_port = 0
    BY <1>1, <1>2, <1>4, <2>2 DEF Trained
  <2> QED
    BY <1>1, <2>1, <2>2 DEF TypeOK
<1>9. flags' \cap Doze = flags \cap Doze
  BY <1>1 DEF Doze
<1>10. PowerFits'
  BY <1>1, <1>4, <1>9 DEF PowerFits
<1> QED
  BY <1>6, <1>7, <1>8, <1>10

(* LINK_DISABLE_FLAG: a new attempt, or USB2 with no flag pending that     *)
(* switches USB3 on, or a crossed system, of which nothing is claimed.     *)
LEMMA LinkDisableKeepsLinkInv == ASSUME LinkInv, LinkDisable PROVE LinkInv'
<1>1. /\ TypeOK /\ Found("DISABLE") /\ "DISABLE" \in flags
      /\ dev \in Device /\ tx_lmp_port \in {0, 1} /\ tx_lmp_port' = tx_lmp_port
  BY FoundFlag DEF LinkDisable, LinkInv, TypeOK
<1> DEFINE d == SetUsb3(dev, "DETACHED", dev.speed3)
           pending == flags \ {"DISABLE"}
<1>2. d \in Device
  BY <1>1, Usb3Write DEF Device, States
<1> HIDE DEF d
<1>3. CASE ~usb2_fallback_enabled
  <2>1. usb30_device_init(pending) /\ place' = 0 /\ dev' = d /\ usb2' = usb2 /\ crossed' = crossed
    BY <1>3 DEF LinkDisable, d, usb2_side
  <2>2. TypeOK'
    BY <1>1, <1>2, <2>1 DEF TypeOK, usb30_device_init
  <2>3. ~crossed => ~usb2
    BY <1>1 DEF LinkInv, OneBackend
  <2> QED
    BY <2>1, <2>2, <2>3 DEF LinkInv, OneBackend, Stages, Trained, PowerFits, Up, usb30_device_init
<1>4. CASE usb2_fallback_enabled
  <2>1. /\ usb30_device_deinit(pending) /\ Step /\ usb2_device_init(d)
        /\ crossed' = (crossed \/ {"TERM_PRESENT", "WARM_RESET"} \cap flags' # {})
    BY <1>4 DEF LinkDisable, d
  <2>2. dev' \in Device /\ usb2' \in BOOLEAN
    BY <1>2, <2>1, Usb2Write DEF usb2_device_init, States
  <2>3. flags' \subseteq pending /\ usb3' = FALSE /\ link' = "off"
    BY <2>1 DEF usb30_device_deinit
  <2>4. TypeOK'
    BY <1>1, <2>1, <2>2, <2>3, StepKeepsType
  <2>5. ~crossed' => {"DISABLE", "TERM_PRESENT", "WARM_RESET"} \cap flags' = {}
    BY <2>1, <2>3
  <2> QED
    BY <2>3, <2>4, <2>5 DEF LinkInv, OneBackend, Stages, Trained, PowerFits, Up
<1> QED
  BY <1>3, <1>4

LEMMA PowerDownKeepsLinkInv == ASSUME LinkInv, PowerDown PROVE LinkInv'
<1>1. UNCHANGED <<link, tx_lmp_port, link_sta, announced, usb3, usb2, dev, late, crossed>> /\ dev \in Device
  BY DEF PowerDown, usb2_side, ghosts, LinkInv, TypeOK
<1>2. PICK f \in {"INACT", "RX_DET"} : Served(f)
  BY DEF PowerDown
<1> QED
  BY <1>1, <1>2, ServeKeepsLinkInv DEF Doze

(* TERM_PRESENT_FLAG: what is still pending when polling begins is yet to  *)
(* be tested.                                                              *)
LEMMA PollingBegins ==
  ASSUME TypeOK, Stages, Served("TERM_PRESENT"), link \in {"detect", "term"}
  PROVE  flags' \subseteq {"RX_DET"} \cup (IF place' >= 7 THEN Ahead(place') ELSE {})
<1>1. place = 6 /\ flags' = flags \ {"TERM_PRESENT"} /\ flags' \subseteq Flags
  <2>1. place \in 1..12 /\ Order[place] = "TERM_PRESENT"
    BY FoundFlag DEF Served, Found
  <2> QED
    BY <2>1 DEF Order, Served, TypeOK
<1>2. /\ place' \in 0..12 /\ (place' # 0 => place' >= 7)
      /\ place' # 0 => \A n \in 7..12 : Order[n] \in flags' => place' <= n
      /\ place' = 0 => \A n \in 7..12 : Order[n] \notin flags'
  BY <1>1, Seeks DEF Served, Step
<1>3. flags \cap Behind(6) \subseteq {"RX_DET"}
  BY <1>1 DEF Stages
<1> SUFFICES ASSUME NEW g \in flags', g # "RX_DET" PROVE place' >= 7 /\ g \in Ahead(place')
  OBVIOUS
<1>4. PICK n \in 1..12 : g = Order[n]
  BY <1>1 DEF Flags
<1>5. n \notin 1..5
  BY <1>1, <1>3, <1>4 DEF Behind
<1>6. n # 6
  BY <1>1, <1>4 DEF Order
<1>7. n \in 7..12 /\ Order[n] \in flags'
  BY <1>4, <1>5, <1>6
<1>8. place' # 0 /\ place' <= n
  BY <1>2, <1>7
<1> QED
  BY <1>2, <1>4, <1>8 DEF Ahead

LEMMA TermPresentKeepsLinkInv == ASSUME LinkInv, TermPresent PROVE LinkInv'
<1>1. TypeOK /\ Found("TERM_PRESENT") /\ "TERM_PRESENT" \in flags /\ dev \in Device
  BY FoundFlag DEF TermPresent, Served, LinkInv, TypeOK
<1>2. CASE cable = "usb3"
  <2>1. /\ Served("TERM_PRESENT") /\ link' = IF link \in {"detect", "term"} THEN "polling" ELSE link
        /\ UNCHANGED <<tx_lmp_port, link_sta, announced, usb3, usb2, dev, late, crossed>>
    BY <1>2 DEF TermPresent, usb2_side, ghosts
  <2>2. CASE link \notin {"detect", "term"}
    <3>1. UNCHANGED link
      BY <2>1, <2>2
    <3> QED
      BY <1>1, <2>1, <3>1, ServeKeepsLinkInv DEF Doze
  <2>3. CASE link \in {"detect", "term"}
    <3>1. TypeOK'
      BY <1>1, <2>1, StepKeepsType DEF TypeOK, Served
    <3> SUFFICES ASSUME ~crossed PROVE (OneBackend /\ Stages /\ Trained /\ PowerFits)'
      BY <2>1, <3>1 DEF LinkInv
    <3>2. OneBackend /\ Stages
      BY DEF LinkInv
    <3>3. flags' \subseteq {"RX_DET"} \cup (IF place' >= 7 THEN Ahead(place') ELSE {})
      BY <1>1, <2>1, <2>3, <3>2, PollingBegins
    <3>4. link' = "polling"
      BY <2>1, <2>3
    <3>5. Stages'
      BY <3>3, <3>4 DEF Stages, Up
    <3>6. OneBackend'
      BY <1>1, <2>1, <3>2 DEF OneBackend, Served
    <3> QED
      BY <3>4, <3>5, <3>6 DEF Trained, PowerFits, Up
  <2> QED
    BY <2>2, <2>3
<1>3. CASE cable # "usb3"
  <2>1. /\ usb30_device_init(flags \ {"TERM_PRESENT"}) /\ Step /\ dev' = SetUsb3(dev, "DEFAULT", dev.speed3)
        /\ UNCHANGED <<tx_lmp_port, usb2, crossed>>
    BY <1>3 DEF TermPresent, Served, USB30_BusReset, usb2_side
  <2>2. dev' \in Device
    BY <1>1, <2>1, Usb3Write DEF Device, States
  <2>3. TypeOK'
    BY <1>1, <2>1, <2>2, StepKeepsType DEF TypeOK, usb30_device_init
  <2>4. place' = 0 \/ place' > 6
    <3>1. place = 6
      BY <1>1 DEF Found, TypeOK, Order
    <3>2. flags' \subseteq Flags
      BY <2>3 DEF TypeOK
    <3> QED
      BY <2>1, <2>3, <3>1, <3>2, Seeks DEF Step, TypeOK
  <2>5. ~crossed => ~usb2
    BY <1>1 DEF LinkInv, OneBackend
  <2> QED
    BY <2>1, <2>3, <2>4, <2>5 DEF LinkInv, OneBackend, Stages, Trained, PowerFits, Up, usb30_device_init
<1> QED
  BY <1>2, <1>3

LEMMA TxEqKeepsLinkInv == ASSUME LinkInv, TxEq PROVE LinkInv'
<1>1. /\ Served("TXEQ") /\ tx_lmp_port' = 1 /\ dev \in Device
      /\ UNCHANGED <<link, link_sta, announced, usb3, usb2, dev, late, crossed>>
  BY DEF TxEq, usb2_side, ghosts, LinkInv, TypeOK
<1> QED
  BY <1>1, ServeKeepsLinkInv DEF Doze

LEMMA ResetsKeepLinkInv == ASSUME LinkInv, WarmReset \/ HotReset PROVE LinkInv'
<1>1. dev \in Device /\ dev' = SetUsb3Address(dev, 0)
  BY DEF WarmReset, HotReset, LinkInv, TypeOK
<1>2. dev' \in Device /\ dev'.state3 = dev.state3 /\ dev'.speed3 = dev.speed3
  BY <1>1, Usb3AddressWrite
<1>3. CASE WarmReset
  <2>1. /\ TypeOK /\ Found("WARM_RESET") /\ "WARM_RESET" \in flags
        /\ usb30_device_init(flags \ {"WARM_RESET"}) /\ Step
        /\ UNCHANGED <<tx_lmp_port, usb2, crossed>>
    BY <1>3, FoundFlag DEF WarmReset, USB30_BusReset, usb2_side, LinkInv
  <2>2. TypeOK'
    BY <1>2, <2>1, StepKeepsType DEF TypeOK, usb30_device_init
  <2>3. place' = 0 \/ place' > 6
    <3>1. place = 8
      BY <2>1 DEF Found, TypeOK, Order
    <3>2. flags' \subseteq Flags
      BY <2>2 DEF TypeOK
    <3> QED
      BY <2>1, <2>2, <3>1, <3>2, Seeks DEF Step, TypeOK
  <2>4. ~crossed => ~usb2
    BY <2>1 DEF LinkInv, OneBackend
  <2> QED
    BY <2>1, <2>2, <2>3, <2>4 DEF LinkInv, OneBackend, Stages, Trained, PowerFits, Up, usb30_device_init
<1>4. CASE HotReset
  <2>1. /\ Served("HOT_RESET")
        /\ UNCHANGED <<link, power, tx_lmp_port, link_sta, announced, usb3, usb2, late, crossed>>
    BY <1>4 DEF HotReset, usb2_side, ghosts
  <2> QED
    BY <1>2, <2>1, ServeKeepsLinkInv DEF Doze
<1> QED
  BY <1>3, <1>4

(* What any flag that is raised leaves alone.                              *)
LEMMA FlagRaised ==
  ASSUME LinkInv, NEW from, NEW to, NEW f \in Flags, Raise(from, to, f)
  PROVE  /\ TypeOK' /\ usb3 /\ link = from /\ link' = to /\ flags' = flags \cup {f}
         /\ UNCHANGED <<place, power, tx_lmp_port, link_sta, usb3, usb2, dev, crossed>>
         /\ ~crossed => ~usb2' /\ OneBackend'
<1>1. /\ usb3 /\ link = from /\ link' = to /\ flags' = flags \cup {f}
      /\ UNCHANGED <<place, power, tx_lmp_port, link_sta, usb3, usb2, dev, crossed>>
  BY DEF Raise, usb2_side
<1>2. TypeOK'
  BY <1>1 DEF LinkInv, TypeOK
<1> QED
  BY <1>1, <1>2 DEF LinkInv, OneBackend

(* The link goes down, or looks for a partner.                             *)
LEMMA FallKeepsLinkInv ==
  ASSUME LinkInv, NEW from, NEW to \in {"disabled", "inactive"}, NEW f \in Flags, Raise(from, to, f)
  PROVE  LinkInv'
BY FlagRaised DEF LinkInv, Stages, Trained, PowerFits, Up

LEMMA SearchKeepsLinkInv ==
  ASSUME LinkInv, NEW from \in {"detect"}, NEW to \in {"detect", "term"},
         NEW f \in {"RX_DET", "TERM_PRESENT"}, Raise(from, to, f)
  PROVE  LinkInv'
<1>1. f \in Flags /\ f = "TERM_PRESENT" => \A n \in 1..5 : Order[n] # f
  BY DEF Flags, Order
<1>2. f \in Flags
  <2>1. Order[5] = "RX_DET" /\ Order[6] = "TERM_PRESENT"
    BY DEF Order
  <2> QED
    BY <2>1 DEF Flags
<1>3. /\ TypeOK' /\ link = from /\ link' = to /\ flags' = flags \cup {f} /\ UNCHANGED <<place, crossed>>
      /\ ~crossed => OneBackend'
  BY <1>2, FlagRaised
<1> SUFFICES ASSUME ~crossed PROVE (OneBackend /\ Stages /\ Trained /\ PowerFits)'
  BY <1>3 DEF LinkInv
<1>4. ASSUME place \in 1..6 PROVE flags' \cap Behind(place) \subseteq {"RX_DET"}
  <2>1. flags \cap Behind(place) \subseteq {"RX_DET"}
    BY <1>3, <1>4 DEF LinkInv, Stages
  <2>2. f = "TERM_PRESENT" => f \notin Behind(place)
    BY <1>1, <1>2, <1>4 DEF Behind
  <2> QED
    BY <1>3, <2>1, <2>2
<1>5. Stages'
  BY <1>3, <1>4 DEF Stages, Up
<1> QED
  BY <1>3, <1>5 DEF Trained, PowerFits, Up

(* A link that is up changes its sleep: this flag is the one that leads to *)
(* its power mode, unless the one before is still pending.                 *)
LEMMA NapKeepsLinkInv ==
  ASSUME LinkInv, NEW from \in Up, NEW to \in Up, Signal(from, to, Last(to))
  PROVE  LinkInv'
<1> DEFINE f == Last(to)
<1>1. f \in Doze /\ f \in Flags
  <2>1. f \in Doze
    BY DEF Last, Doze, Up
  <2>2. Order[1] = "Ux_EXIT" /\ Order[10] = "GO_U1" /\ Order[11] = "GO_U2" /\ Order[12] = "GO_U3"
    BY DEF Order
  <2>3. Doze \subseteq Flags
    BY <2>2 DEF Doze, Flags
  <2> QED
    BY <2>1, <2>3
<1> HIDE DEF f
<1>2. Raise(from, to, f) /\ UNCHANGED announced /\ late' = (flags \cap Doze # {})
  BY <1>1 DEF Signal, Raise, f
<1>3. /\ TypeOK' /\ link = from /\ link' = to /\ flags' = flags \cup {f}
      /\ UNCHANGED <<tx_lmp_port, link_sta, dev, crossed>>
      /\ ~crossed => OneBackend'
  BY <1>1, <1>2, FlagRaised
<1> SUFFICES ASSUME ~crossed PROVE (OneBackend /\ Stages /\ Trained /\ PowerFits)'
  BY <1>3 DEF LinkInv
<1>4. Stages /\ Trained
  BY DEF LinkInv
<1>5. Stages'
  BY <1>1, <1>3, <1>4 DEF Stages, Doze, Up
<1>6. Trained'
  BY <1>2, <1>3, <1>4 DEF Trained
<1>7. PowerFits'
  BY <1>1, <1>2, <1>3 DEF PowerFits, f
<1> QED
  BY <1>3, <1>5, <1>6, <1>7

(* The host resets a link that is up, or it trains again.                  *)
LEMMA SignalKeepsLinkInv ==
  ASSUME LinkInv, NEW f \in {"HOT_RESET", "RDY", "WARM_RESET"}, Signal("U0", "U0", f)
  PROVE  LinkInv'
<1>1. f \in Flags /\ f \notin Doze
  <2>1. Order[2] = "RDY" /\ Order[8] = "WARM_RESET" /\ Order[9] = "HOT_RESET"
    BY DEF Order
  <2> QED
    BY <2>1 DEF Flags, Doze
<1>2. Raise("U0", "U0", f) /\ UNCHANGED <<announced, late>>
  BY <1>1 DEF Signal, Raise
<1>3. /\ TypeOK' /\ link = "U0" /\ link' = "U0" /\ flags' = flags \cup {f}
      /\ UNCHANGED <<power, tx_lmp_port, link_sta, dev, crossed>>
      /\ ~crossed => OneBackend'
  BY <1>1, <1>2, FlagRaised
<1> SUFFICES ASSUME ~crossed PROVE (OneBackend /\ Stages /\ Trained /\ PowerFits)'
  BY <1>3 DEF LinkInv
<1>4. Stages /\ Trained /\ PowerFits
  BY DEF LinkInv
<1>5. Stages'
  BY <1>3, <1>4 DEF Stages, Up
<1>6. Trained'
  BY <1>2, <1>3, <1>4 DEF Trained
<1>7. flags' \cap Doze = flags \cap Doze
  BY <1>1, <1>3
<1>8. PowerFits'
  BY <1>2, <1>3, <1>4, <1>7 DEF PowerFits
<1> QED
  BY <1>3, <1>5, <1>6, <1>8

(* A training begins and ends with no flag pending but its own.            *)
LEMMA TrainKeepsLinkInv ==
  ASSUME LinkInv, Train("polling", "eq", "TXEQ") \/ (power = 0 /\ Train("eq", "U0", "RDY"))
  PROVE  LinkInv'
<1>1. flags = {} /\ "TXEQ" \in Flags /\ "RDY" \in Flags
  <2>1. Order[2] = "RDY" /\ Order[7] = "TXEQ"
    BY DEF Order
  <2> QED
    BY <2>1 DEF Train, Quiet, Flags
<1>2. CASE Train("polling", "eq", "TXEQ")
  <2>1. TypeOK' /\ link' = "eq" /\ flags' = {"TXEQ"} /\ (~crossed => OneBackend') /\ UNCHANGED crossed
    BY <1>1, <1>2, FlagRaised DEF Train
  <2> QED
    BY <2>1 DEF LinkInv, Stages, Trained, PowerFits, Up
<1>3. CASE power = 0 /\ Train("eq", "U0", "RDY")
  <2>1. /\ TypeOK' /\ link = "eq" /\ link' = "U0" /\ flags' = {"RDY"} /\ (~crossed => OneBackend')
        /\ power' = 0 /\ UNCHANGED <<tx_lmp_port, crossed>>
    BY <1>1, <1>3, FlagRaised DEF Train
  <2>2. ~crossed => tx_lmp_port = 1
    BY <1>1, <2>1 DEF LinkInv, Stages
  <2>3. flags' \cap Doze = {} /\ Mode("U0") = 0
    BY <2>1 DEF Doze, Mode
  <2> QED
    BY <2>1, <2>2, <2>3 DEF LinkInv, Stages, Trained, PowerFits, Up
<1> QED
  BY <1>2, <1>3

LEMMA LinkMovesKeepLinkInv ==
  ASSUME LinkInv, LinkRises \/ LinkFalls \/ HostOrLink
  PROVE  LinkInv'
<1>1. "INACT" \in Flags /\ "DISABLE" \in Flags /\ "WARM_RESET" \in Flags
  <2>1. Order[3] = "INACT" /\ Order[4] = "DISABLE" /\ Order[8] = "WARM_RESET"
    BY DEF Order
  <2> QED
    BY <2>1 DEF Flags
<1>2. CASE LinkRises
  <2>1. CASE Signal("detect", "term", "TERM_PRESENT")
    BY <2>1, SearchKeepsLinkInv DEF Signal
  <2>2. CASE Train("polling", "eq", "TXEQ") \/ (power = 0 /\ Train("eq", "U0", "RDY"))
    BY <2>2, TrainKeepsLinkInv
  <2>3. CASE \E u \in {"U1", "U2", "U3"} : Signal(u, "U0", "Ux_EXIT")
    BY <2>3, NapKeepsLinkInv DEF Up, Last
  <2> QED
    BY <1>2, <2>1, <2>2, <2>3 DEF LinkRises
<1>3. CASE LinkFalls
  BY <1>1, <1>3, FallKeepsLinkInv DEF LinkFalls, Signal
<1>4. CASE HostOrLink
  <2>1. CASE Signal("detect", "detect", "RX_DET")
    BY <2>1, SearchKeepsLinkInv DEF Signal
  <2>2. CASE Signal("U0", "U0", "HOT_RESET") \/ Signal("U0", "U0", "RDY") \/ Signal("U0", "U0", "WARM_RESET")
    BY <2>2, SignalKeepsLinkInv
  <2>3. CASE Signal("U0", "U1", "GO_U1") \/ Signal("U0", "U2", "GO_U2") \/ Signal("U0", "U3", "GO_U3")
    BY <2>3, NapKeepsLinkInv DEF Up, Last
  <2>4. CASE Signal("U0", "inactive", "INACT") \/ Signal("inactive", "inactive", "WARM_RESET")
    BY <1>1, <2>4, FallKeepsLinkInv DEF Signal
  <2> QED
    BY <1>4, <2>1, <2>2, <2>3, <2>4 DEF HostOrLink
<1> QED
  BY <1>2, <1>3, <1>4

LEMMA EnumerateKeepsLinkInv == ASSUME LinkInv, Enumerate PROVE LinkInv'
<1> DEFINE d == SetUsb3(dev, "CONFIGURED", "SUPERSPEED")
<1>1. d \in Device /\ d.state3 = "CONFIGURED" /\ d.speed3 = "SUPERSPEED"
  BY Usb3Write DEF LinkInv, TypeOK, States, Speeds
<1>2. dev' = SetUsb3Address(d, 1)
  BY DEF Enumerate
<1> HIDE DEF d
<1>3. dev' \in Device /\ dev'.state3 = "CONFIGURED" /\ dev'.speed3 = "SUPERSPEED"
  BY <1>1, <1>2, Usb3AddressWrite
<1>4. UNCHANGED <<link, flags, place, power, tx_lmp_port, link_sta, announced, usb3, usb2, late, crossed>>
  BY DEF Enumerate, usb3_side, usb2_side, ghosts
<1>5. TypeOK'
  BY <1>3, <1>4 DEF LinkInv, TypeOK
<1> SUFFICES ASSUME ~crossed PROVE (OneBackend /\ Stages /\ Trained /\ PowerFits)'
  BY <1>4, <1>5 DEF LinkInv
<1>6. OneBackend' /\ Stages' /\ PowerFits'
  BY <1>4 DEF LinkInv, OneBackend, Stages, PowerFits
<1>7. Trained'
  BY <1>3, <1>4 DEF LinkInv, Trained
<1> QED
  BY <1>6, <1>7

(* The USB2 interrupt writes the device only while USB3 is off.            *)
LEMMA Usb2WritesAlone ==
  ASSUME LinkInv, Usb2Next
  PROVE  usb2' = usb2 /\ dev' \in Device /\ (dev' # dev => usb2)
<1> USE DEF LinkInv, TypeOK
<1>1. dev \in Device /\ dev.state2 \in States /\ dev.addr2 \in Nat
  BY DEF Device
<1>2. CASE NakStatus \/ DataStage \/ Suspended \/ FifoOverflow \/ ClearFlags
  BY <1>2 DEF NakStatus, DataStage, Suspended, FifoOverflow, ClearFlags, Enters
<1>3. CASE SetupStage
  BY <1>1, <1>3, Usb2Write DEF SetupStage, Enters, States
<1>4. CASE StatusStage
  BY <1>1, <1>4, Usb2Write DEF StatusStage, Enters, States
<1>5. CASE BusReset
  BY <1>1, <1>5, Usb2Write DEF BusReset, Enters, States
<1>6. CASE Usb2Bus
  BY <1>6 DEF Usb2Bus, HostResets, HostResetsAnyway, HostRequests, HostStatus, HostUsesEndpoint, BusSleeps,
              Resets, Raised
<1> QED
  BY <1>2, <1>3, <1>4, <1>5, <1>6 DEF Usb2Next, USBHS_IRQHandler

LEMMA Usb2KeepsLinkInv == ASSUME LinkInv, Usb2Next, Usb3Rests PROVE LinkInv'
<1>1. UNCHANGED <<link, flags, place, power, tx_lmp_port, link_sta, announced, usb3, late, crossed>>
  BY DEF Usb3Rests, usb3_side, ghosts
<1>2. usb2' = usb2 /\ dev' \in Device /\ (dev' # dev => usb2)
  BY Usb2WritesAlone
<1>3. TypeOK'
  BY <1>1, <1>2 DEF LinkInv, TypeOK
<1> SUFFICES ASSUME ~crossed PROVE (OneBackend /\ Stages /\ Trained /\ PowerFits)'
  BY <1>1, <1>3 DEF LinkInv
<1>4. OneBackend' /\ Stages' /\ PowerFits'
  BY <1>1, <1>2 DEF LinkInv, OneBackend, Stages, PowerFits
<1>5. usb2 => link \notin Up
  BY DEF LinkInv, TypeOK, OneBackend, Up
<1>6. Trained'
  BY <1>1, <1>2, <1>5 DEF LinkInv, Trained
<1> QED
  BY <1>4, <1>6

LEMMA LinkNextInv == ASSUME LinkInv, [Next]_vars PROVE LinkInv'
<1>1. CASE UNCHANGED vars \/ Replug
  BY <1>1 DEF vars, usb3_side, usb2_side, ghosts, Replug, LinkInv, TypeOK, OneBackend, Stages, Trained, PowerFits
<1>2. CASE LINK_IRQHandler
  BY <1>2, EnterKeepsLinkInv, SleepKeepsLinkInv, LinkReadyKeepsLinkInv, LinkDisableKeepsLinkInv,
     PowerDownKeepsLinkInv, TermPresentKeepsLinkInv, TxEqKeepsLinkInv, ResetsKeepLinkInv
     DEF LINK_IRQHandler
<1>3. CASE LinkRises \/ LinkFalls \/ HostOrLink \/ Enumerate
  BY <1>3, LinkMovesKeepLinkInv, EnumerateKeepsLinkInv
<1>4. CASE Usb2Next /\ Usb3Rests
  BY <1>4, Usb2KeepsLinkInv
<1> QED
  BY <1>1, <1>2, <1>3, <1>4 DEF Next, Usb3Next

(* LINK_IRQHandler follows the link, whatever flags are pending together   *)
(* and come while it runs: PORT_CAP, the device's speed and state are      *)
(* those of the link's training; the power mode of the PHY is that of the  *)
(* link's state unless the link fell asleep and woke up, or the reverse,   *)
(* before the first flag of the two was served (late); and USB3 and USB2   *)
(* are both on only where TERM_PRESENT_FLAG or WARM_RESET_FLAG was pending *)
(* when LINK_DISABLE_FLAG switched to USB2 (crossed).                      *)
THEOREM LinkFollowed == Spec => []LinkIsFollowed
<1>1. LinkInv /\ [Next]_vars => LinkInv'
  BY LinkNextInv
<1>2. ASSUME LinkInv PROVE LinkIsFollowed
  <2> SUFFICES ASSUME ~crossed PROVE LinkIsFollowed
    BY DEF LinkIsFollowed
  <2>1. OneBackend /\ Trained /\ PowerFits
    BY <1>2 DEF LinkInv
  <2>2. Quiet /\ link \in Up /\ ~late => power = Mode(link)
    BY <2>1 DEF PowerFits, Quiet
  <2> QED
    BY <2>1, <2>2 DEF OneBackend, Trained, LinkIsFollowed, Mode, Up
<1> QED
  BY <1>1, <1>2, LinkInitInv, PTL DEF Spec

-----------------------------------------------------------------------------
(* The three maps from endpoints to banks, in usb2_setup_endpoints_in_mask,*)
(* in usb2_get_*_reg and in the controller, are the same.                  *)
LEMMA MapsAgree ==
  ASSUME NEW e \in Endpoints
  PROVE  /\ HwBank(e) \in Banks
         /\ HwBank(e) = [n |-> SetupReg[e.n], dir |-> e.dir]
         /\ usb2_get_reg[e.n] = SetupReg[e.n]
<1>1. e.n \in 1..15 /\ e.dir \in Directions
  BY DEF Endpoints
<1>2. /\ SetupReg[e.n] \in 1..7 /\ usb2_get_reg[e.n] = SetupReg[e.n]
      /\ SetupReg[e.n] = IF e.n = 8 THEN 4 ELSE IF e.n > 8 THEN e.n - 8 ELSE e.n
  BY <1>1 DEF SetupReg, usb2_get_reg
<1> QED
  BY <1>1, <1>2 DEF HwBank, Banks

(* Two endpoints with the same bank are in usb2_incompatibles_endpoints.   *)
LEMMA SharersIncompatible ==
  ASSUME NEW e \in Endpoints, NEW f \in Endpoints, HwBank(e) = HwBank(f), e # f
  PROVE  {e, f} \in usb2_incompatibles_endpoints
<1>1. /\ e.n \in 1..15 /\ f.n \in 1..15 /\ e.dir \in Directions
      /\ e = [n |-> e.n, dir |-> e.dir] /\ f = [n |-> f.n, dir |-> f.dir]
  BY DEF Endpoints
<1>2. e.dir = f.dir /\ HwBank(e).n = HwBank(f).n
  BY DEF HwBank
<1>3. e.n # f.n
  BY <1>1, <1>2
<1> DEFINE pairs == {<<1, 9>>, <<2, 10>>, <<3, 11>>, <<4, 12>>, <<5, 13>>, <<6, 14>>, <<7, 15>>,
                     <<8, 4>>, <<8, 12>>}
<1>4. <<e.n, f.n>> \in pairs \/ <<f.n, e.n>> \in pairs
  BY <1>1, <1>2, <1>3 DEF HwBank
<1>5. ASSUME NEW a \in Endpoints, NEW b \in Endpoints, <<a.n, b.n>> \in pairs, a.dir = b.dir
      PROVE  {a, b} \in usb2_incompatibles_endpoints
  <2>1. a = [n |-> a.n, dir |-> a.dir] /\ b = [n |-> b.n, dir |-> a.dir] /\ a.dir \in Directions
    BY <1>5 DEF Endpoints
  <2> QED
    BY <1>5, <2>1 DEF usb2_incompatibles_endpoints
<1> QED
  BY <1>2, <1>4, <1>5

-----------------------------------------------------------------------------
LEMMA BanksInitInv == Init => BanksInv
<1> SUFFICES ASSUME Init PROVE BanksInv
  OBVIOUS
<1>1. mask \in Masks /\ dma = [b \in Banks |-> 0] /\ int_st.endp = Endp0
  BY DEF Init, Usb2Init, NoToken
<1>2. \A e \in mask : HwBank(e) \in Banks
  BY <1>1, MapsAgree, Usb2DeviceAssumption
<1> QED
  BY <1>1, <1>2 DEF BanksInv, BanksAreOwned

(* Setting up the endpoints gives a bank to the one endpoint of the mask   *)
(* that uses it, or leaves it alone.                                       *)
LEMMA SetupKeepsBanks ==
  ASSUME BanksInv
  PROVE  /\ usb2_setup_endpoints_in_mask \in [Banks -> Nat]
         /\ \A e \in mask :
              \/ usb2_setup_endpoints_in_mask[HwBank(e)] = dma[HwBank(e)]
              \/ e \notin Oversize /\ usb2_setup_endpoints_in_mask[HwBank(e)] = e.n
<1> DEFINE mine(b) == {f.n : f \in {f \in mask : f.dir = b.dir /\ SetupReg[f.n] = b.n /\ Reached(f)}}
           clash == \E s \in usb2_incompatibles_endpoints : s \subseteq mask
<1>1. mask \subseteq Endpoints /\ dma \in [Banks -> Nat] /\ \A e \in mask : HwBank(e) \in Banks
  BY Usb2DeviceAssumption, MapsAgree DEF BanksInv
<1>2. CASE clash
  BY <1>1, <1>2 DEF usb2_setup_endpoints_in_mask
<1>3. CASE ~clash
  <2>1. usb2_setup_endpoints_in_mask = [b \in Banks |-> IF mine(b) = {} THEN dma[b] ELSE Max(mine(b))]
    BY <1>3 DEF usb2_setup_endpoints_in_mask
  <2>2. ASSUME NEW f \in mask, NEW g \in mask, HwBank(f) = HwBank(g)
        PROVE  f = g
    BY <1>1, <1>3, <2>2, SharersIncompatible
  <2>3. ASSUME NEW f \in mask, NEW b \in Banks, f.dir = b.dir, SetupReg[f.n] = b.n
        PROVE  HwBank(f) = b
    BY <1>1, <2>3, MapsAgree DEF Banks
  <2>4. ASSUME NEW b \in Banks, mine(b) # {}
        PROVE  \E f \in mask : mine(b) = {f.n} /\ HwBank(f) = b /\ Reached(f)
    <3>1. PICK f \in mask : f.dir = b.dir /\ SetupReg[f.n] = b.n /\ Reached(f)
      BY <2>4
    <3>2. \A g \in mask : g.dir = b.dir /\ SetupReg[g.n] = b.n => g = f
      BY <2>2, <2>3, <3>1
    <3> QED
      BY <2>3, <3>1, <3>2
  <2> HIDE DEF mine
  <2>5. ASSUME NEW n \in 1..15 PROVE Max({n}) = n
    BY DEF Max
  <2>6. ASSUME NEW b \in Banks, mine(b) # {} PROVE Max(mine(b)) \in Nat
    <3>1. PICK f \in mask : mine(b) = {f.n}
      BY <2>4, <2>6
    <3>2. f.n \in 1..15 /\ f.n \in Nat
      BY <1>1 DEF Endpoints
    <3>3. Max({f.n}) = f.n
      BY <2>5, <3>2
    <3> HIDE DEF Max
    <3> QED
      BY <3>1, <3>2, <3>3
  <2>7. usb2_setup_endpoints_in_mask \in [Banks -> Nat]
    BY <1>1, <2>1, <2>6
  <2> SUFFICES ASSUME NEW e \in mask
               PROVE  \/ usb2_setup_endpoints_in_mask[HwBank(e)] = dma[HwBank(e)]
                      \/ e \notin Oversize /\ usb2_setup_endpoints_in_mask[HwBank(e)] = e.n
    BY <2>7
  <2>8. CASE mine(HwBank(e)) = {}
    BY <1>1, <2>1, <2>7, <2>8
  <2>9. CASE mine(HwBank(e)) # {}
    <3>1. PICK f \in mask : mine(HwBank(e)) = {f.n} /\ HwBank(f) = HwBank(e) /\ Reached(f)
      BY <1>1, <2>4, <2>9
    <3>2. f = e
      BY <2>2, <3>1
    <3>3. Max(mine(HwBank(e))) = e.n
      BY <1>1, <2>5, <3>1, <3>2 DEF Endpoints
    <3>4. e \notin Oversize
      <4>1. Place(e) \in Int
        <5>1. SetupReg[e.n] \in 1..7 /\ e.n \in 1..15
          BY <1>1, MapsAgree DEF Endpoints, Banks
        <5> QED
          BY <5>1 DEF Place
      <4> QED
        BY <3>1, <3>2, <4>1 DEF Reached
    <3> QED
      BY <1>1, <2>1, <2>7, <2>9, <3>3, <3>4
  <2> QED
    BY <2>8, <2>9
<1> QED
  BY <1>2, <1>3

(* Whoever sets up the endpoints keeps the banks in order.                 *)
LEMMA SetupKeepsBanksInv ==
  ASSUME BanksInv, dma' = usb2_setup_endpoints_in_mask, UNCHANGED <<mask, int_st>>
  PROVE  BanksInv'
<1>1. /\ dma' \in [Banks -> Nat]
      /\ \A e \in mask : dma'[HwBank(e)] = dma[HwBank(e)] \/ (e \notin Oversize /\ dma'[HwBank(e)] = e.n)
  BY SetupKeepsBanks
<1>2. BanksAreOwned'
  BY <1>1 DEF BanksInv, BanksAreOwned, HwBank
<1> QED
  BY <1>1, <1>2 DEF BanksInv, HwBank

(* The next buffer of an endpoint goes to the bank it already has.         *)
LEMMA DataStageKeepsBanksInv == ASSUME BanksInv, DataStage PROVE BanksInv'
<1> DEFINE e == int_st.endp
<1>1. e \in mask /\ dma[HwBank(e)] = e.n /\ mask \subseteq Endpoints
  BY Usb2DeviceAssumption DEF BanksInv, DataStage
<1>2. HwBank(e) = [n |-> usb2_get_reg[e.n], dir |-> e.dir]
  BY <1>1, MapsAgree
<1>3. dma' = [dma EXCEPT ![HwBank(e)] = e.n] /\ UNCHANGED <<mask, int_st>>
  BY <1>2 DEF DataStage, Enters
<1>4. dma' = dma
  BY <1>1, <1>3 DEF BanksInv
<1> QED
  BY <1>3, <1>4 DEF BanksInv, BanksAreOwned, HwBank

(* A token is taken only for an endpoint whose bank is in use.             *)
LEMMA TokenKeepsBanksInv == ASSUME BanksInv, HostUsesEndpoint PROVE BanksInv'
<1>1. PICK e \in mask : dma[HwBank(e)] # 0 /\ (int_st'.endp = e \/ int_st' = int_st)
  BY DEF HostUsesEndpoint
<1>2. dma[HwBank(e)] = e.n
  BY <1>1 DEF BanksInv, BanksAreOwned
<1>3. UNCHANGED <<mask, dma>>
  BY DEF HostUsesEndpoint, Raised
<1> QED
  BY <1>1, <1>2, <1>3 DEF BanksInv, BanksAreOwned, HwBank

LEMMA BanksRest ==
  ASSUME BanksInv, UNCHANGED <<mask, dma>>, int_st' = int_st \/ int_st'.endp = Endp0
  PROVE  BanksInv'
BY DEF BanksInv, BanksAreOwned, HwBank

LEMMA BanksNextInv == ASSUME BanksInv, [Next]_vars PROVE BanksInv'
<1>1. CASE UNCHANGED vars \/ Replug \/ LinkRises \/ LinkFalls \/ HostOrLink \/ Enumerate
  <2>1. UNCHANGED <<mask, dma, int_st>>
    BY <1>1 DEF vars, setting, usb2_side, Replug, LinkRises, LinkFalls, HostOrLink, Signal, Train,
                 Raise, Enumerate
  <2> QED
    BY <2>1, BanksRest
<1>2. CASE LINK_IRQHandler
  <2>1. CASE LinkDisable /\ usb2_fallback_enabled
    <3>1. usb2_device_init(SetUsb3(dev, "DETACHED", dev.speed3)) /\ UNCHANGED mask
      BY <2>1 DEF LinkDisable, setting
    <3> QED
      BY <3>1, SetupKeepsBanksInv, BanksRest DEF usb2_device_init, usb2_setup_endpoints
  <2>2. CASE ~(LinkDisable /\ usb2_fallback_enabled)
    <3>1. UNCHANGED <<mask, dma, int_st>>
      BY <1>2, <2>2 DEF LINK_IRQHandler, Enter, UxExit, LinkReady, LinkDisable, PowerDown, TermPresent, TxEq,
                        WarmReset, HotReset, GoToSleep, setting, usb2_side
    <3> QED
      BY <3>1, BanksRest
  <2> QED
    BY <2>1, <2>2
<1>3. CASE Usb2Next
  <2>1. CASE NakStatus \/ StatusStage \/ Suspended \/ FifoOverflow
    BY <2>1, BanksRest DEF NakStatus, StatusStage, Suspended, FifoOverflow, Enters
  <2>2. CASE SetupStage
    BY <2>2, BanksRest, SetupKeepsBanksInv DEF SetupStage, Enters
  <2>3. CASE BusReset
    BY <2>3, SetupKeepsBanksInv DEF BusReset, Enters, usb2_setup_endpoints
  <2>4. CASE ClearFlags
    BY <2>4, BanksRest DEF ClearFlags, NoToken
  <2>5. CASE HostResets \/ HostResetsAnyway \/ HostRequests \/ BusSleeps
    BY <2>5, BanksRest DEF HostResets, HostResetsAnyway, HostRequests, BusSleeps, Resets, Raised
  <2>6. CASE HostStatus
    BY <2>6, BanksRest DEF HostStatus, Raised
  <2> QED
    BY <1>3, <2>1, <2>2, <2>3, <2>4, <2>5, <2>6, DataStageKeepsBanksInv, TokenKeepsBanksInv
       DEF Usb2Next, USBHS_IRQHandler, Usb2Bus
<1> QED
  BY <1>1, <1>2, <1>3 DEF Next, Usb3Next

(* For every mask of endpoints: usb20.c never points a bank to the buffer  *)
(* of another endpoint of the mask, nor to one that is too small for the   *)
(* endpoint's packets.                                                     *)
THEOREM BanksOwned == Spec => []BanksAreOwned
<1>1. BanksInv /\ [Next]_vars => BanksInv'
  BY BanksNextInv
<1>2. BanksInv => BanksAreOwned
  BY DEF BanksInv
<1> QED
  BY <1>1, <1>2, BanksInitInv, PTL DEF Spec
=============================================================================
