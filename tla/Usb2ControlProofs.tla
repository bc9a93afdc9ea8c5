-------------------------- MODULE Usb2ControlProofs --------------------------
(***************************************************************************)
(* Proofs about control transfers: RequestIsHosts, AddressAgrees,          *)
(* OutDataHandledOnce and AnswerIsHosts hold in every behaviour of Spec,   *)
(* for every packet size, every wLength and every length of the answers.   *)
(* The first three need that the host finishes the OUT data stages it      *)
(* starts and sees the ACK of the last packet of each (WholeOut): only     *)
(* usb2_ep0_out_handler moves R32_UEP0_RT_DMA back to the start of the     *)
(* buffer, where the next SETUP packet is read.  The last one also needs   *)
(* that answers the code does not cut fit (AnswersFit).                    *)
(*                                                                         *)
(* Each transaction moves the device, the host, or both, so in a data      *)
(* stage one of them is at most one packet ahead, and the toggles tell     *)
(* which: OutInv says so of OUT data, AnswerSent of an answer.  ControlInv *)
(* and AnswerInv are inductive.  The lemmas ...Does and ...Step say what   *)
(* each handler and each step of the host changes, field by field.         *)
(***************************************************************************)
EXTENDS Usb2Control, SequenceTheorems, TLAPS

Answered == Descriptors \cup {"user_in"}
Kind == InKinds \cup DataOutKinds \cup NoDataKinds \cup {"none"}
Source == Kind \cup {"host", "junk"}
Phase == {"detached", "idle", "data_in", "data_out", "status_in", "status_out"}
Res == {"ACK", "NAK", "STALL"}
Bit == {0, 1}
State == {"POWERED", "DEFAULT", "ADDRESS", "CONFIGURED"}

Req == [kind : Kind, wLength : Nat]
Byte == [src : Source, off : Nat]
Buf == [setup : BOOLEAN, req : Req, bytes : Seq(Byte)]

Dev == [state : State, addr : Nat, hw_addr : Nat, config : Nat, req : Req,
        remaining : Nat, size : Nat, src : Source, pos : Nat,
        t_len : Nat, t_res : Res, t_tog : Bit, r_res : Res, r_tog : Bit, dma : Nat, buf : Buf]
Host == [phase : Phase, req : Req, tog : Bit, got : Seq(Byte), n : Nat,
         early : BOOLEAN, lost : BOOLEAN, addr : Nat]
Handled == [calls : Nat, bytes : Seq(Byte)]

TypeOK == dev \in Dev /\ handled \in Handled /\ host \in Host

(* During a transfer the host's request is the device's, of the kind that  *)
(* the phase is for.                                                       *)
HostInv ==
  /\ host.phase \notin {"idle", "detached"} => host.req \in Request /\ dev.req = host.req
  /\ host.phase \in {"data_in", "status_out"} => IsIn(host.req)
  /\ host.phase = "data_out" => host.req.kind = "user_out"
  /\ host.phase = "status_in" => ~IsIn(host.req) /\ dev.t_tog = host.tog
  /\ host.phase = "status_in" /\ host.req.kind = "set_address" => dev.addr = 1

(* Outside of an OUT data stage the receive address is the start of the    *)
(* buffer.  In one the device has what the host knows to be acknowledged,  *)
(* or one packet more: then the toggles differ, and it was not the last.   *)
OutInv ==
  /\ host.phase # "data_out" => dev.dma = 0
  /\ host.phase = "data_out" =>
       LET len == Min2(Mps, host.req.wLength - host.n) IN
       /\ host.n < host.req.wLength /\ dev.dma + dev.remaining = host.req.wLength
       /\ dev.dma = 0 \/ dev.buf.bytes = Bytes("host", 0, dev.dma)
       /\ \/ dev.r_tog = host.tog /\ dev.dma = host.n
          \/ dev.r_tog # host.tog /\ dev.dma = host.n + len /\ dev.remaining # 0

(* The user's handler was called in a status stage after OUT data, and may *)
(* have been when the host is idle.                                        *)
HandledInv ==
  /\ handled.calls <= 1
  /\ host.phase \in {"detached", "data_in", "data_out", "status_out"} => handled.calls = 0
  /\ host.phase = "status_in" =>
       IF host.req.kind = "user_out"
       THEN handled.calls = 1 /\ handled.bytes = Bytes("host", 0, host.req.wLength)
       ELSE handled.calls = 0

(* The IN data stage of an answer of AnswerLength(host.req) bytes: the     *)
(* device has sent pos of them, in whole packets, and the next one lies    *)
(* ready.  The host has as many, or that packet too: then the toggles      *)
(* differ, and the packet is neither short nor the last one asked for.     *)
AnswerSent ==
  /\ dev.src = host.req.kind /\ dev.size = AnswerLength(host.req)
  /\ dev.pos + dev.remaining = AnswerLength(host.req)
  /\ \E j \in 0..dev.pos : dev.pos = j * Mps
  /\ dev.t_len = Min2(dev.remaining, Mps)
  /\ dev.t_len # 0 => ~dev.buf.setup /\ dev.buf.bytes = Bytes(host.req.kind, dev.pos, dev.t_len)
  /\ \/ /\ dev.t_tog = host.tog /\ dev.pos < host.req.wLength
        /\ host.got = Bytes(host.req.kind, 0, dev.pos)
     \/ /\ dev.t_tog # host.tog /\ dev.t_len = Mps /\ dev.pos + Mps < host.req.wLength
        /\ host.got = Bytes(host.req.kind, 0, dev.pos + Mps)

AnswerInv ==
  /\ host.phase = "data_in" =>
       /\ host.req.kind \in Answered => AnswerSent
       /\ host.req.kind \in {"get_status", "user_empty"} =>
            dev.t_len = 0 /\ dev.t_tog = host.tog /\ host.got = <<>>
       /\ host.req.kind \in {"bad_descr", "user_stall"} => dev.t_res = "STALL" /\ host.got = <<>>
  /\ host.phase = "status_out" =>
       /\ host.got = Bytes(host.req.kind, 0, Len(host.got)) /\ Len(host.got) <= host.req.wLength
       /\ ~host.early /\ host.req.kind \in Answered =>
            Len(host.got) = Min2(AnswerSize[host.req.kind], host.req.wLength)

(* The host finishes the OUT data stages it starts, and the device's ACK   *)
(* of the last packet of one arrives.                                      *)
WholeOut == ~AbortOut /\ OutLoss # "any"

(* No answer goes past wLength in the middle of a packet: string           *)
(* descriptors and the answers of the user's handler are not cut.          *)
AnswersFit ==
  \A r \in Request : r.kind \in Answered => AnswerLength(r) <= r.wLength \/ r.wLength % Mps = 0

ControlInv == TypeOK /\ HostInv /\ OutInv /\ HandledInv /\ AddressAgrees

-----------------------------------------------------------------------------
LEMMA Bits == \A x \in Bit : 1 - x \in Bit /\ 1 - (1 - x) = x /\ 1 - x # x
BY DEF Bit

LEMMA Mins ==
  ASSUME NEW a \in Nat
  PROVE  /\ Mps \in Nat \ {0} /\ Min2(a, Mps) \in Nat /\ Min2(a, Mps) <= a /\ Min2(a, Mps) <= Mps
         /\ a - Min2(a, Mps) \in Nat /\ Min2(a, Mps) # STALL_LEN
         /\ (Min2(a, Mps) < Mps => Min2(a, Mps) = a)
BY ControlAssumption DEF Min2

LEMMA BytesIs ==
  ASSUME NEW src \in Source, NEW off \in Nat, NEW len \in Nat
  PROVE  /\ Bytes(src, off, len) \in Seq(Byte) /\ Len(Bytes(src, off, len)) = len
         /\ \A i \in 1..len : Bytes(src, off, len)[i] = [src |-> src, off |-> off + i - 1]
<1>1. \A i \in 1..len : off + i - 1 \in Nat
  OBVIOUS
<1>2. \A i \in 1..len : [src |-> src, off |-> off + i - 1] \in Byte
  BY <1>1 DEF Byte
<1> QED
  BY <1>2 DEF Bytes

LEMMA NoBytes == ASSUME NEW src, NEW off PROVE Bytes(src, off, 0) = <<>>
BY DEF Bytes

(* Bytes that follow each other.                                           *)
LEMMA BytesMore ==
  ASSUME NEW src \in Source, NEW k \in Nat, NEW n \in Nat
  PROVE  Bytes(src, 0, k) \o Bytes(src, k, n) = Bytes(src, 0, k + n)
<1> DEFINE p == Bytes(src, 0, k)
           s == Bytes(src, k, n)
           q == Bytes(src, 0, k + n)
<1>1. /\ p \in Seq(Byte) /\ Len(p) = k /\ \A i \in 1..k : p[i] = [src |-> src, off |-> 0 + i - 1]
      /\ s \in Seq(Byte) /\ Len(s) = n /\ \A i \in 1..n : s[i] = [src |-> src, off |-> k + i - 1]
  BY BytesIs
<1>2. q \in Seq(Byte) /\ Len(q) = k + n /\ \A i \in 1..(k + n) : q[i] = [src |-> src, off |-> 0 + i - 1]
  <2>1. k + n \in Nat
    OBVIOUS
  <2> QED
    BY <2>1, BytesIs
<1> HIDE DEF p, s, q
<1>3. /\ p \o s \in Seq(Byte) /\ Len(p \o s) = k + n
      /\ \A i \in 1..(k + n) : (p \o s)[i] = IF i <= k THEN p[i] ELSE s[i - k]
  <2>1. p \in Seq(Byte) /\ s \in Seq(Byte) /\ Len(p) = k /\ Len(s) = n
    BY <1>1
  <2>2. /\ p \o s \in Seq(Byte) /\ Len(p \o s) = Len(p) + Len(s)
        /\ \A i \in 1..(Len(p) + Len(s)) :
             (p \o s)[i] = IF i <= Len(p) THEN p[i] ELSE s[i - Len(p)]
    BY <2>1, ConcatProperties
  <2> QED
    BY <2>1, <2>2
<1>4. ASSUME NEW i \in 1..(k + n) PROVE (p \o s)[i] = q[i]
  <2>1. CASE i \in 1..k
    BY <1>1, <1>2, <1>3, <2>1
  <2>2. CASE i \notin 1..k
    <3>1. i - k \in 1..n /\ k + (i - k) - 1 = 0 + i - 1
      BY <2>2
    <3>2. (p \o s)[i] = s[i - k]
      BY <1>3, <2>2
    <3>3. s[i - k] = [src |-> src, off |-> k + (i - k) - 1]
      BY <1>1, <3>1
    <3> QED
      BY <1>2, <3>1, <3>2, <3>3
  <2> QED
    BY <2>1, <2>2
<1>5. p \o s = q
  BY <1>2, <1>3, <1>4, SeqEqual
<1> QED
  BY <1>5 DEF p, s, q

LEMMA RequestIs ==
  ASSUME NEW r \in Request
  PROVE  /\ r \in Req /\ r.kind \in InKinds \cup DataOutKinds \cup NoDataKinds
         /\ r.wLength \in Nat /\ r.wLength < U16
         /\ r.kind \in NoDataKinds => r.wLength = 0
         /\ r.kind \notin NoDataKinds => r.wLength > 0
<1>1. \/ r \in [kind : Kinds \ NoDataKinds, wLength : WLengths]
      \/ r \in [kind : Kinds \cap NoDataKinds, wLength : {0}]
  BY DEF Request
<1>2. CASE r \in [kind : Kinds \ NoDataKinds, wLength : WLengths]
  <2>1. r.kind \in Kinds \ NoDataKinds /\ r.wLength \in WLengths /\ r = [kind |-> r.kind, wLength |-> r.wLength]
    BY <1>2
  <2>2. r.wLength \in Nat /\ r.wLength < U16 /\ r.wLength > 0
    BY <2>1, ControlAssumption
  <2>3. r.kind \in InKinds \cup DataOutKinds \cup NoDataKinds
    BY <2>1, ControlAssumption
  <2> QED
    BY <2>1, <2>2, <2>3 DEF Req, Kind
<1>3. CASE r \in [kind : Kinds \cap NoDataKinds, wLength : {0}]
  <2>1. r.kind \in Kinds \cap NoDataKinds /\ r.wLength = 0 /\ r = [kind |-> r.kind, wLength |-> r.wLength]
    BY <1>3
  <2> QED
    BY <2>1 DEF Req, Kind, U16
<1> QED
  BY <1>1, <1>2, <1>3

(* The kinds of requests are disjoint.                                     *)
LEMMA KindsApart ==
  ASSUME NEW k \in InKinds \cup DataOutKinds \cup NoDataKinds
  PROVE  /\ k \in DataOutKinds <=> k = "user_out"
         /\ k \in InKinds => k \notin DataOutKinds \cup NoDataKinds
         /\ k \in DataOutKinds => k \notin NoDataKinds
         /\ k \in InKinds <=> k \in Answered \/ k \in {"get_status", "user_empty"}
                              \/ k \in {"bad_descr", "user_stall"}
         /\ k \in {"set_address", "user_5"} => k \in NoDataKinds
BY DEF InKinds, DataOutKinds, NoDataKinds, Descriptors, Answered

-----------------------------------------------------------------------------
(* The handlers, field by field.                                           *)
LEMMA AnswerIs ==
  ASSUME NEW r \in Request, r.kind \in Answered
  PROVE  /\ AnswerLength(r) \in Nat \ {0} /\ AnswerSize[r.kind] \in Nat
         /\ AnswerLength(r) <= AnswerSize[r.kind]
         /\ Min2(AnswerLength(r), r.wLength) = Min2(AnswerSize[r.kind], r.wLength)
<1>1. r.kind \notin NoDataKinds
  BY DEF Answered, Descriptors, NoDataKinds
<1>2. AnswerSize[r.kind] \in Nat \ {0} /\ r.wLength \in Nat /\ r.wLength > 0
  BY <1>1, RequestIs, ControlAssumption DEF Answered
<1> QED
  BY <1>2 DEF AnswerLength, Min2

LEMMA Loaded ==
  ASSUME NEW d \in Dev
  PROVE  LET q == Load(d) n == Min2(d.remaining, Mps) IN
         /\ q \in Dev /\ q.req = d.req /\ q.hw_addr = d.hw_addr /\ q.addr = d.addr /\ q.dma = d.dma
         /\ q.remaining = d.remaining /\ q.size = d.size /\ q.src = d.src /\ q.pos = d.pos
         /\ q.t_len = d.t_len /\ q.t_res = d.t_res /\ q.t_tog = d.t_tog
         /\ q.r_res = d.r_res /\ q.r_tog = d.r_tog
         /\ ~q.buf.setup /\ q.buf.bytes = Bytes(d.src, d.pos, n)
<1>1. d.src \in Source /\ d.pos \in Nat /\ d.remaining \in Nat
  BY DEF Dev
<1> DEFINE n == Min2(d.remaining, Mps)
           b == Bytes(d.src, d.pos, n)
           x == DataInBuffer(b)
<1>2. n \in Nat /\ b \in Seq(Byte)
  BY <1>1, Mins, BytesIs
<1> HIDE DEF b
<1>3. x \in Buf /\ ~x.setup /\ x.bytes = b
  BY <1>2 DEF DataInBuffer, Buf, None, Req, Kind
<1>4. Load(d) = [d EXCEPT !.buf = x]
  BY DEF Load, usb2_ep0_next_data_packet_size, b
<1> HIDE DEF x, n
<1> QED
  BY <1>3, <1>4 DEF Dev, b, n

LEMMA EndpointsSetUp ==
  ASSUME NEW d \in Dev
  PROVE  LET q == usb2_setup_endpoints(d) IN
         /\ q \in Dev /\ q.req = d.req /\ q.hw_addr = d.hw_addr /\ q.addr = d.addr /\ q.dma = 0
BY DEF usb2_setup_endpoints, Dev, Res, Bit

LEMMA EffectAnswered ==
  ASSUME NEW d \in Dev, NEW r \in Request, r.kind \in Answered
  PROVE  LET q == RequestEffect(d, r) IN
         /\ q \in Dev /\ q.req = d.req /\ q.hw_addr = d.hw_addr /\ q.addr = d.addr /\ q.dma = d.dma
         /\ q.remaining = AnswerLength(r) /\ q.src = r.kind /\ q.pos = 0
         /\ ~q.buf.setup /\ q.buf.bytes = Bytes(r.kind, 0, Min2(AnswerLength(r), Mps))
<1>1. AnswerLength(r) \in Nat /\ r.kind \in Source
  BY AnswerIs, RequestIs DEF Source, Kind
<1> DEFINE n == AnswerLength(r)
           x == [d EXCEPT !.src = r.kind, !.pos = 0, !.remaining = n]
<1>2. n \in Nat
  BY <1>1
<1> HIDE DEF n
<1>3. /\ x \in Dev /\ x.req = d.req /\ x.hw_addr = d.hw_addr /\ x.addr = d.addr /\ x.dma = d.dma
      /\ x.src = r.kind /\ x.pos = 0 /\ x.remaining = n
  BY <1>1, <1>2 DEF Dev
<1>4. RequestEffect(d, r) = Load(x)
  <2>1. r.kind \notin {"set_address", "set_config", "set_config0", "halt", "user_out"}
    BY DEF Answered, Descriptors
  <2>2. RequestEffect(d, r) = Answer(d, r.kind, AnswerLength(r))
    BY <2>1 DEF RequestEffect, Answered
  <2> QED
    BY <2>2 DEF Answer, n
<1> HIDE DEF x
<1>5. /\ Load(x) \in Dev /\ Load(x).req = x.req /\ Load(x).hw_addr = x.hw_addr /\ Load(x).addr = x.addr
      /\ Load(x).dma = x.dma /\ Load(x).remaining = x.remaining /\ Load(x).src = x.src
      /\ Load(x).pos = x.pos /\ ~Load(x).buf.setup
      /\ Load(x).buf.bytes = Bytes(x.src, x.pos, Min2(x.remaining, Mps))
  BY <1>3, Loaded
<1> QED
  BY <1>3, <1>4, <1>5 DEF n

(* Without an answer: only SET_ADDRESS touches the address, and the        *)
(* receive address goes nowhere but to the start of the buffer.            *)
LEMMA EffectOther ==
  ASSUME NEW d \in Dev, NEW r \in Request, r.kind \notin Answered
  PROVE  LET q == RequestEffect(d, r) IN
         /\ q \in Dev /\ q.req = d.req /\ q.hw_addr = d.hw_addr /\ (q.dma = 0 \/ q.dma = d.dma)
         /\ q.addr = IF r.kind = "set_address" THEN 1 ELSE d.addr
         /\ r.kind = "user_out" => q.remaining = r.wLength
<1>1. r.wLength \in Nat
  BY RequestIs
<1> DEFINE q == RequestEffect(d, r)
           u == usb2_setup_endpoints(d)
<1>2. u \in Dev /\ u.req = d.req /\ u.hw_addr = d.hw_addr /\ u.addr = d.addr /\ u.dma = 0
  BY EndpointsSetUp
<1> HIDE DEF u
<1>3. CASE r.kind = "set_address"
  <2>1. q = [d EXCEPT !.addr = 1, !.remaining = r.wLength]
    BY <1>3 DEF RequestEffect, SetAddress, Descriptors
  <2> HIDE DEF q
  <2>2. q \in Dev /\ q.req = d.req /\ q.hw_addr = d.hw_addr /\ q.dma = d.dma /\ q.addr = 1
    <3>1. 1 \in Nat
      OBVIOUS
    <3> QED
      BY <1>1, <2>1, <3>1 DEF Dev
  <2> QED
    BY <1>3, <2>2 DEF q
<1>4. CASE r.kind = "set_config"
  <2>1. q = [u EXCEPT !.config = 1, !.state = "CONFIGURED"]
    BY <1>4 DEF RequestEffect, Descriptors, u
  <2> HIDE DEF q
  <2>2. q \in Dev /\ q.req = u.req /\ q.hw_addr = u.hw_addr /\ q.dma = u.dma /\ q.addr = u.addr
    <3>1. 1 \in Nat /\ "CONFIGURED" \in State
      BY DEF State
    <3> QED
      BY <1>2, <2>1, <3>1 DEF Dev
  <2> QED
    BY <1>2, <1>4, <2>2 DEF q
<1>5. CASE r.kind = "set_config0"
  <2>1. q = [u EXCEPT !.config = 0]
    BY <1>5 DEF RequestEffect, Descriptors, u
  <2> QED
    BY <1>2, <1>5, <2>1 DEF Dev
<1>6. CASE r.kind = "halt"
  <2>1. q = u
    BY <1>6 DEF RequestEffect, Descriptors, u
  <2> QED
    BY <1>2, <1>6, <2>1
<1>7. CASE r.kind = "user_out"
  <2>1. q = [d EXCEPT !.remaining = r.wLength]
    BY <1>7 DEF RequestEffect, Descriptors
  <2> QED
    BY <1>1, <1>7, <2>1 DEF Dev
<1>8. CASE r.kind \notin {"set_address", "set_config", "set_config0", "halt", "user_out"}
  <2>1. q = d
    BY <1>8 DEF RequestEffect, Answered
  <2> QED
    BY <1>8, <2>1
<1> QED
  BY <1>3, <1>4, <1>5, <1>6, <1>7, <1>8

LEMMA RequestDoes ==
  ASSUME NEW d \in Dev, NEW r \in Request
  PROVE  LET q == usb2_ep0_request_handler(d, r) IN
         /\ q \in Dev /\ q.req = d.req /\ q.hw_addr = d.hw_addr /\ (q.dma = 0 \/ q.dma = d.dma)
         /\ q.addr = IF r.kind = "set_address" THEN 1 ELSE d.addr
         /\ r.kind = "user_out" => q.remaining = r.wLength
         /\ r.kind \in Answered =>
              /\ q.remaining = AnswerLength(r) /\ q.size = AnswerLength(r)
              /\ q.src = r.kind /\ q.pos = 0
              /\ ~q.buf.setup /\ q.buf.bytes = Bytes(r.kind, 0, Min2(AnswerLength(r), Mps))
<1> DEFINE e == RequestEffect(d, r)
           q == usb2_ep0_request_handler(d, r)
<1>1. q = IF r.kind \in {"user_stall", "user_nodata", "user_5"} THEN e ELSE [e EXCEPT !.size = e.remaining]
  BY DEF usb2_ep0_request_handler
<1>2. CASE r.kind \in Answered
  <2>1. /\ e \in Dev /\ e.req = d.req /\ e.hw_addr = d.hw_addr /\ e.addr = d.addr /\ e.dma = d.dma
        /\ e.remaining = AnswerLength(r) /\ e.src = r.kind /\ e.pos = 0
        /\ ~e.buf.setup /\ e.buf.bytes = Bytes(r.kind, 0, Min2(AnswerLength(r), Mps))
    BY <1>2, EffectAnswered
  <2>2. r.kind \notin {"user_stall", "user_nodata", "user_5", "set_address", "user_out"}
    BY <1>2 DEF Answered, Descriptors
  <2> HIDE DEF e, q
  <2>3. q = [e EXCEPT !.size = e.remaining]
    BY <1>1, <2>2
  <2>4. /\ q \in Dev /\ q.req = e.req /\ q.hw_addr = e.hw_addr /\ q.addr = e.addr /\ q.dma = e.dma
        /\ q.remaining = e.remaining /\ q.size = e.remaining /\ q.src = e.src /\ q.pos = e.pos
        /\ q.buf = e.buf
    BY <2>1, <2>3 DEF Dev
  <2> QED
    BY <2>1, <2>2, <2>4 DEF q
<1>3. CASE r.kind \notin Answered
  <2>1. /\ e \in Dev /\ e.req = d.req /\ e.hw_addr = d.hw_addr /\ (e.dma = 0 \/ e.dma = d.dma)
        /\ e.addr = IF r.kind = "set_address" THEN 1 ELSE d.addr
        /\ r.kind = "user_out" => e.remaining = r.wLength
    BY <1>3, EffectOther
  <2> HIDE DEF e, q
  <2>2. /\ q \in Dev /\ q.req = e.req /\ q.hw_addr = e.hw_addr /\ q.addr = e.addr /\ q.dma = e.dma
        /\ q.remaining = e.remaining
    <3>1. CASE q = e
      BY <2>1, <3>1
    <3>2. CASE q = [e EXCEPT !.size = e.remaining]
      BY <2>1, <3>2 DEF Dev
    <3> QED
      BY <1>1, <3>1, <3>2
  <2> QED
    BY <1>3, <2>1, <2>2 DEF q
<1> QED
  BY <1>2, <1>3

(* How a request leaves endpoint 0: an answer and its first packet, an     *)
(* empty answer, a refusal, a status stage, or waiting for OUT data.       *)
LEMMA SetupDoes ==
  ASSUME NEW d \in Dev, NEW r \in Request
  PROVE  LET q == usb2_ep0_setup_stage_handler(d, r) IN
         /\ q \in Dev /\ q.req = r /\ q.hw_addr = d.hw_addr /\ (q.dma = 0 \/ q.dma = d.dma)
         /\ q.addr = IF r.kind = "set_address" THEN 1 ELSE d.addr
         /\ r.kind \in Answered =>
              /\ q.remaining = AnswerLength(r) /\ q.size = AnswerLength(r)
              /\ q.src = r.kind /\ q.pos = 0
              /\ ~q.buf.setup /\ q.buf.bytes = Bytes(r.kind, 0, Min2(AnswerLength(r), Mps))
              /\ q.t_len = Min2(AnswerLength(r), Mps) /\ q.t_res = "ACK" /\ q.t_tog = 1
         /\ r.kind \in {"get_status", "user_empty"} \cup NoDataKinds =>
              q.t_len = 0 /\ q.t_res = "ACK" /\ q.t_tog = 1
         /\ r.kind \in {"bad_descr", "user_stall"} => q.t_res = "STALL"
         /\ r.kind = "user_out" => q.remaining = r.wLength /\ q.r_res = "ACK" /\ q.r_tog = 1
<1> DEFINE d0 == [d EXCEPT !.req = r]
           e == usb2_ep0_request_handler(d0, r)
           q == usb2_ep0_setup_stage_handler(d, r)
           len == RequestLength(e, r)
<1>1. /\ r \in Req /\ r.kind \in InKinds \cup DataOutKinds \cup NoDataKinds
      /\ (r.kind \in NoDataKinds => r.wLength = 0) /\ (r.kind \notin NoDataKinds => r.wLength > 0)
      /\ r.wLength \in Nat
  BY RequestIs
<1>2. d0 \in Dev /\ d0.req = r /\ d0.hw_addr = d.hw_addr /\ d0.addr = d.addr /\ d0.dma = d.dma
  BY <1>1 DEF Dev
<1> HIDE DEF d0
<1>3. /\ e \in Dev /\ e.req = r /\ e.hw_addr = d.hw_addr /\ (e.dma = 0 \/ e.dma = d.dma)
      /\ e.addr = IF r.kind = "set_address" THEN 1 ELSE d.addr
      /\ r.kind = "user_out" => e.remaining = r.wLength
      /\ r.kind \in Answered =>
           /\ e.remaining = AnswerLength(r) /\ e.size = AnswerLength(r)
           /\ e.src = r.kind /\ e.pos = 0
           /\ ~e.buf.setup /\ e.buf.bytes = Bytes(r.kind, 0, Min2(AnswerLength(r), Mps))
  BY <1>2, RequestDoes
<1> HIDE DEF e
<1>4. q = CASE IsIn(r) /\ len # STALL_LEN -> [e EXCEPT !.t_len = len, !.t_res = "ACK", !.t_tog = 1]
            [] IsIn(r) /\ len = STALL_LEN ->
                 [e EXCEPT !.t_len = 0, !.t_res = "STALL", !.t_tog = 0, !.r_res = "ACK", !.r_tog = 1]
            [] ~IsIn(r) /\ r.wLength = 0  -> [e EXCEPT !.t_len = 0, !.t_res = "ACK", !.t_tog = 1]
            [] OTHER                      -> [e EXCEPT !.r_res = "ACK", !.r_tog = 1]
  BY DEF usb2_ep0_setup_stage_handler, d0, e
<1>5. CASE r.kind \in Answered
  <2>1. len = Min2(AnswerLength(r), Mps)
    <3>1. r.kind \notin {"bad_descr", "user_stall", "user_out"}
      BY <1>5 DEF Answered, Descriptors
    <3>2. len = usb2_ep0_next_data_packet_size(e)
      BY <1>5, <3>1 DEF RequestLength, Answered
    <3> QED
      BY <1>3, <1>5, <3>2 DEF usb2_ep0_next_data_packet_size
  <2>2. len \in Nat /\ len # STALL_LEN /\ IsIn(r)
    BY <1>1, <1>5, <2>1, AnswerIs, Mins, KindsApart DEF IsIn
  <2>6. r.kind \notin {"get_status", "user_empty"} \cup NoDataKinds \cup {"bad_descr", "user_stall", "user_out"}
    BY <1>5 DEF Answered, Descriptors, NoDataKinds
  <2> HIDE DEF len
  <2>3. q = [e EXCEPT !.t_len = len, !.t_res = "ACK", !.t_tog = 1]
    BY <1>4, <2>2
  <2> HIDE DEF q
  <2>4. /\ q \in Dev /\ q.req = e.req /\ q.hw_addr = e.hw_addr /\ q.addr = e.addr /\ q.dma = e.dma
        /\ q.remaining = e.remaining /\ q.size = e.size /\ q.src = e.src /\ q.pos = e.pos
        /\ q.buf = e.buf /\ q.t_len = len /\ q.t_res = "ACK" /\ q.t_tog = 1
    BY <1>3, <2>2, <2>3 DEF Dev, Res, Bit
  <2> QED
    BY <1>3, <1>5, <2>1, <2>4, <2>6 DEF q
<1>6. CASE r.kind \in {"get_status", "user_empty"}
  <2>1. len = 0 /\ IsIn(r) /\ len # STALL_LEN
    BY <1>6 DEF RequestLength, IsIn, InKinds, Descriptors, STALL_LEN
  <2>2. r.kind \notin Answered \cup {"bad_descr", "user_stall", "user_out"}
    BY <1>6 DEF Answered, Descriptors
  <2> HIDE DEF len
  <2>3. q = [e EXCEPT !.t_len = len, !.t_res = "ACK", !.t_tog = 1]
    BY <1>4, <2>1
  <2> HIDE DEF q
  <2>4. /\ q \in Dev /\ q.req = e.req /\ q.hw_addr = e.hw_addr /\ q.addr = e.addr /\ q.dma = e.dma
        /\ q.t_len = 0 /\ q.t_res = "ACK" /\ q.t_tog = 1
    BY <1>3, <2>1, <2>3 DEF Dev, Res, Bit
  <2> QED
    BY <1>3, <2>2, <2>4 DEF q
<1>7. CASE r.kind \in {"bad_descr", "user_stall"}
  <2>1. len = STALL_LEN /\ IsIn(r)
    BY <1>7 DEF RequestLength, IsIn, InKinds, Descriptors
  <2>2. r.kind \notin Answered \cup {"get_status", "user_empty", "user_out"} \cup NoDataKinds
    BY <1>7 DEF Answered, Descriptors, NoDataKinds
  <2> HIDE DEF len
  <2>3. q = [e EXCEPT !.t_len = 0, !.t_res = "STALL", !.t_tog = 0, !.r_res = "ACK", !.r_tog = 1]
    BY <1>4, <2>1
  <2> HIDE DEF q
  <2>4. /\ q \in Dev /\ q.req = e.req /\ q.hw_addr = e.hw_addr /\ q.addr = e.addr /\ q.dma = e.dma
        /\ q.t_res = "STALL"
    BY <1>3, <2>3 DEF Dev, Res, Bit
  <2> QED
    BY <1>3, <2>2, <2>4 DEF q
<1>8. CASE r.kind \in NoDataKinds
  <2>1. ~IsIn(r) /\ r.wLength = 0
    BY <1>1, <1>8, KindsApart DEF IsIn
  <2>2. r.kind \notin Answered \cup {"bad_descr", "user_stall", "user_out"}
    BY <1>8 DEF Answered, Descriptors, NoDataKinds
  <2> HIDE DEF len
  <2>3. q = [e EXCEPT !.t_len = 0, !.t_res = "ACK", !.t_tog = 1]
    BY <1>4, <2>1
  <2> HIDE DEF q
  <2>4. /\ q \in Dev /\ q.req = e.req /\ q.hw_addr = e.hw_addr /\ q.addr = e.addr /\ q.dma = e.dma
        /\ q.t_len = 0 /\ q.t_res = "ACK" /\ q.t_tog = 1
    BY <1>3, <2>3 DEF Dev, Res, Bit
  <2> QED
    BY <1>3, <2>2, <2>4 DEF q
<1>9. CASE r.kind = "user_out"
  <2>1. ~IsIn(r) /\ r.wLength # 0
    BY <1>1, <1>9 DEF IsIn, InKinds, Descriptors, NoDataKinds
  <2>2. r.kind \notin Answered \cup {"get_status", "user_empty", "bad_descr", "user_stall"} \cup NoDataKinds
    BY <1>9 DEF Answered, Descriptors, NoDataKinds
  <2> HIDE DEF len
  <2>3. q = [e EXCEPT !.r_res = "ACK", !.r_tog = 1]
    BY <1>4, <2>1
  <2> HIDE DEF q
  <2>4. /\ q \in Dev /\ q.req = e.req /\ q.hw_addr = e.hw_addr /\ q.addr = e.addr /\ q.dma = e.dma
        /\ q.remaining = e.remaining /\ q.r_res = "ACK" /\ q.r_tog = 1
    BY <1>3, <2>3 DEF Dev, Res, Bit
  <2> QED
    BY <1>3, <1>9, <2>2, <2>4 DEF q
<1> QED
  BY <1>1, <1>5, <1>6, <1>7, <1>8, <1>9, KindsApart

(* The host acknowledged a packet.  While bytes are left the next packet   *)
(* goes out; after the last one an empty packet, where one is needed.      *)
LEMMA InDoes ==
  ASSUME NEW d \in Dev
  PROVE  LET q == usb2_ep0_in_handler(d)
             n == Min2(d.remaining, Mps)
         IN  /\ q \in Dev /\ q.req = d.req /\ q.addr = d.addr /\ q.dma = d.dma
             /\ q.hw_addr = IF d.req.kind \in {"set_address", "user_5"} THEN d.addr ELSE d.hw_addr
             /\ IsIn(d.req) /\ d.remaining - n # 0 =>
                  /\ q.remaining = d.remaining - n /\ q.pos = d.pos + n
                  /\ q.src = d.src /\ q.size = d.size
                  /\ q.t_len = Min2(q.remaining, Mps) /\ q.t_res = "ACK" /\ q.t_tog = 1 - d.t_tog
                  /\ ~q.buf.setup /\ q.buf.bytes = Bytes(d.src, q.pos, q.t_len)
             /\ IsIn(d.req) /\ d.remaining - n = 0 /\ d.size % Mps = 0 /\ n # 0 =>
                  /\ q.remaining = 0 /\ q.pos = d.pos + n
                  /\ q.src = d.src /\ q.size = d.size
                  /\ q.t_len = 0 /\ q.t_res = "ACK" /\ q.t_tog = 1 - d.t_tog
<1> DEFINE q == usb2_ep0_in_handler(d)
           n == Min2(d.remaining, Mps)
           left == d.remaining - n
           e == [d EXCEPT !.remaining = left, !.pos = @ + n]
           zlp == d.size % Mps = 0 /\ n # 0
           named == d.req.kind \in {"set_address", "user_5"}
<1>1. d.remaining \in Nat /\ d.pos \in Nat /\ d.t_tog \in Bit /\ 1 - d.t_tog \in Bit
  BY Bits DEF Dev
<1>2. n \in Nat /\ left \in Nat /\ d.pos + n \in Nat
  BY <1>1, Mins
<1>3. ~(IsIn(d.req) /\ named)
  BY DEF IsIn, InKinds, Descriptors
<1>4. "ACK" \in Res /\ "NAK" \in Res /\ 1 \in Bit /\ 0 \in Nat /\ "ADDRESS" \in State
  BY DEF Res, Bit, State
<1> HIDE DEF n, left
<1>5. /\ e \in Dev /\ e.req = d.req /\ e.addr = d.addr /\ e.hw_addr = d.hw_addr /\ e.dma = d.dma
      /\ e.remaining = left /\ e.pos = d.pos + n /\ e.src = d.src /\ e.size = d.size
      /\ e.t_tog = d.t_tog
  BY <1>2 DEF Dev
<1>6. PacketSent(d, n) = e
  BY DEF PacketSent, left
<1> HIDE DEF e
<1>7. q = CASE IsIn(d.req) /\ left # 0 -> SendNext(e)
            [] IsIn(d.req) /\ left = 0 /\ zlp ->
                 [e EXCEPT !.t_len = 0, !.t_res = "ACK", !.t_tog = 1 - d.t_tog]
            [] IsIn(d.req) /\ left = 0 /\ ~zlp -> PrepareStatus(e)
            [] named -> PrepareStatus([d EXCEPT !.hw_addr = d.addr, !.state = "ADDRESS", !.t_len = 0])
            [] OTHER -> PrepareStatus([d EXCEPT !.t_len = 0])
  BY <1>5, <1>6 DEF usb2_ep0_in_handler, usb2_ep0_next_data_packet_size, NeedsZlp, n
<1> HIDE DEF q
<1>8. CASE IsIn(d.req) /\ left # 0
  <2> DEFINE x == Load(e)
             m == Min2(left, Mps)
  <2>1. m \in Nat
    BY <1>2, Mins
  <2>2. /\ x \in Dev /\ x.req = e.req /\ x.hw_addr = e.hw_addr /\ x.addr = e.addr /\ x.dma = e.dma
        /\ x.remaining = e.remaining /\ x.size = e.size /\ x.src = e.src /\ x.pos = e.pos
        /\ ~x.buf.setup /\ x.buf.bytes = Bytes(e.src, e.pos, Min2(e.remaining, Mps))
    BY <1>5, Loaded
  <2>3. q = [x EXCEPT !.t_len = m, !.t_res = "ACK", !.t_tog = 1 - d.t_tog]
    BY <1>3, <1>5, <1>7, <1>8 DEF SendNext, usb2_ep0_next_data_packet_size
  <2> HIDE DEF x, m
  <2>4. /\ q \in Dev /\ q.req = x.req /\ q.hw_addr = x.hw_addr /\ q.addr = x.addr /\ q.dma = x.dma
        /\ q.remaining = x.remaining /\ q.size = x.size /\ q.src = x.src /\ q.pos = x.pos
        /\ q.buf = x.buf /\ q.t_len = m /\ q.t_res = "ACK" /\ q.t_tog = 1 - d.t_tog
    BY <1>1, <1>4, <2>1, <2>2, <2>3 DEF Dev
  <2> QED
    BY <1>3, <1>5, <1>8, <2>2, <2>4 DEF m, left, n, q
<1>9. CASE IsIn(d.req) /\ left = 0 /\ zlp
  <2>1. q = [e EXCEPT !.t_len = 0, !.t_res = "ACK", !.t_tog = 1 - d.t_tog]
    BY <1>3, <1>7, <1>9
  <2>2. /\ q \in Dev /\ q.req = e.req /\ q.hw_addr = e.hw_addr /\ q.addr = e.addr /\ q.dma = e.dma
        /\ q.remaining = e.remaining /\ q.size = e.size /\ q.src = e.src /\ q.pos = e.pos
        /\ q.t_len = 0 /\ q.t_res = "ACK" /\ q.t_tog = 1 - d.t_tog
    BY <1>1, <1>4, <1>5, <2>1 DEF Dev
  <2> QED
    BY <1>3, <1>5, <1>9, <2>2 DEF left, n, q
<1>10. ASSUME NEW x \in Dev, q = PrepareStatus(x)
       PROVE  /\ q \in Dev /\ q.req = x.req /\ q.hw_addr = x.hw_addr /\ q.addr = x.addr /\ q.dma = x.dma
  BY <1>4, <1>10 DEF PrepareStatus, Dev
<1>11. CASE IsIn(d.req) /\ left = 0 /\ ~zlp
  <2>1. q = PrepareStatus(e)
    BY <1>3, <1>7, <1>11
  <2>2. /\ q \in Dev /\ q.req = e.req /\ q.hw_addr = e.hw_addr /\ q.addr = e.addr /\ q.dma = e.dma
    BY <1>5, <1>10, <2>1
  <2> QED
    BY <1>3, <1>5, <1>11, <2>2 DEF left, n, q
<1>12. CASE ~IsIn(d.req) /\ named
  <2> DEFINE x == [d EXCEPT !.hw_addr = d.addr, !.state = "ADDRESS", !.t_len = 0]
  <2>1. q = PrepareStatus(x)
    BY <1>7, <1>12
  <2>2. x \in Dev /\ x.req = d.req /\ x.hw_addr = d.addr /\ x.addr = d.addr /\ x.dma = d.dma
    BY <1>4 DEF Dev
  <2> HIDE DEF x
  <2>3. /\ q \in Dev /\ q.req = x.req /\ q.hw_addr = x.hw_addr /\ q.addr = x.addr /\ q.dma = x.dma
    BY <1>10, <2>1, <2>2
  <2> QED
    BY <1>12, <2>2, <2>3 DEF q
<1>13. CASE ~IsIn(d.req) /\ ~named
  <2> DEFINE x == [d EXCEPT !.t_len = 0]
  <2>1. q = PrepareStatus(x)
    BY <1>7, <1>13
  <2>2. x \in Dev /\ x.req = d.req /\ x.hw_addr = d.hw_addr /\ x.addr = d.addr /\ x.dma = d.dma
    BY <1>4 DEF Dev
  <2> HIDE DEF x
  <2>3. /\ q \in Dev /\ q.req = x.req /\ q.hw_addr = x.hw_addr /\ q.addr = x.addr /\ q.dma = x.dma
    BY <1>10, <2>1, <2>2
  <2> QED
    BY <1>13, <2>2, <2>3 DEF q
<1> QED
  BY <1>8, <1>9, <1>11, <1>12, <1>13

(* The status stage of an IN request leaves the addresses alone.           *)
LEMMA StatusDoes ==
  ASSUME NEW d \in Dev, IsIn(d.req), NEW len
  PROVE  LET q == usb2_ep0_out_handler(d, len) IN
         /\ q \in Dev /\ q.req = d.req /\ q.addr = d.addr /\ q.hw_addr = d.hw_addr /\ q.dma = d.dma
<1> DEFINE q == usb2_ep0_out_handler(d, len)
           n == usb2_ep0_next_data_packet_size(d)
<1>1. d.remaining \in Nat
  BY DEF Dev
<1>2. n > 0 \/ n = 0
  BY <1>1, Mins DEF usb2_ep0_next_data_packet_size
<1>3. "ACK" \in Res /\ "NAK" \in Res /\ 0 \in Nat /\ 0 \in Bit
  BY DEF Res, Bit
<1>4. \/ q = [d EXCEPT !.r_res = "NAK"]
      \/ q = [d EXCEPT !.r_res = "ACK", !.r_tog = 0, !.t_len = 0, !.t_res = "NAK"]
  BY <1>1, <1>2, Mins DEF usb2_ep0_out_handler, usb2_ep0_next_data_packet_size
<1> HIDE DEF q
<1>5. CASE q = [d EXCEPT !.r_res = "NAK"]
  BY <1>3, <1>5 DEF Dev, q
<1>6. CASE q = [d EXCEPT !.r_res = "ACK", !.r_tog = 0, !.t_len = 0, !.t_res = "NAK"]
  <2>1. q \in Dev
    BY <1>3, <1>6 DEF Dev
  <2>2. q.req = d.req /\ q.addr = d.addr /\ q.hw_addr = d.hw_addr /\ q.dma = d.dma
    BY <1>6 DEF Dev
  <2> QED
    BY <2>1, <2>2 DEF q
<1> QED
  BY <1>4, <1>5, <1>6

(* OUT data: the status stage after the last byte, else the next packet.   *)
LEMMA OutDataDoes ==
  ASSUME NEW d \in Dev, ~IsIn(d.req), NEW len \in Nat, len <= d.remaining, d.remaining < U16
  PROVE  LET q == usb2_ep0_out_handler(d, len) IN
         /\ q \in Dev /\ q.req = d.req /\ q.addr = d.addr /\ q.hw_addr = d.hw_addr /\ q.buf = d.buf
         /\ Completes(d, len) <=> d.remaining = len
         /\ d.remaining = len => q.dma = 0 /\ q.t_tog = 1
         /\ d.remaining # len =>
              /\ q.remaining = d.remaining - len /\ q.dma = d.dma + len
              /\ q.r_res = "ACK" /\ q.r_tog = 1 - d.r_tog
<1> DEFINE q == usb2_ep0_out_handler(d, len)
           left == d.remaining - len
<1>1. d.remaining \in Nat /\ d.dma \in Nat /\ d.r_tog \in Bit /\ 1 - d.r_tog \in Bit
  BY Bits DEF Dev
<1>2. left \in Nat /\ left < U16 /\ d.dma + len \in Nat /\ (left = 0 <=> d.remaining = len)
  <2> DEFINE w == U16
             a == d.remaining
  <2>1. w \in Nat /\ a \in Nat /\ a < w /\ len <= a /\ left = a - len
    BY <1>1 DEF U16
  <2> HIDE DEF w, a
  <2>2. a - len \in Nat /\ a - len < w /\ (a - len = 0 <=> a = len)
    BY <2>1
  <2> QED
    BY <1>1, <2>2 DEF w, a
<1>3. left % U16 = left
  <2> HIDE DEF left
  <2> QED
    BY <1>2 DEF U16
<1>4. "ACK" \in Res /\ "NAK" \in Res /\ 0 \in Nat /\ 1 \in Bit
  BY DEF Res, Bit
<1>5. Completes(d, len) <=> d.remaining = len
  BY <1>2, <1>3 DEF Completes
<1>6. q = IF left = 0 THEN OutDone(d) ELSE OutMore(d, len, left)
  BY <1>3 DEF usb2_ep0_out_handler
<1> HIDE DEF q, left
<1>7. CASE left = 0
  <2>1. q = [d EXCEPT !.remaining = 0, !.dma = 0, !.t_len = 0, !.t_res = "ACK", !.t_tog = 1]
    BY <1>6, <1>7 DEF OutDone
  <2>2. /\ q \in Dev /\ q.req = d.req /\ q.addr = d.addr /\ q.hw_addr = d.hw_addr /\ q.buf = d.buf
        /\ q.dma = 0 /\ q.t_tog = 1
    BY <1>4, <2>1 DEF Dev
  <2> QED
    BY <1>2, <1>5, <1>7, <2>2 DEF q
<1>8. CASE left # 0
  <2>1. q = [d EXCEPT !.remaining = left, !.dma = @ + len, !.r_res = "ACK", !.r_tog = 1 - d.r_tog]
    BY <1>6, <1>8 DEF OutMore
  <2>2. /\ q \in Dev /\ q.req = d.req /\ q.addr = d.addr /\ q.hw_addr = d.hw_addr /\ q.buf = d.buf
        /\ q.remaining = left /\ q.dma = d.dma + len /\ q.r_res = "ACK" /\ q.r_tog = 1 - d.r_tog
    BY <1>1, <1>2, <1>4, <2>1 DEF Dev
  <2> QED
    BY <1>2, <1>5, <1>8, <2>2 DEF q, left
<1> QED
  BY <1>7, <1>8

-----------------------------------------------------------------------------
(* The steps of the host, field by field.                                  *)
LEMMA HostWithIs ==
  ASSUME NEW ad \in Nat
  PROVE  LET q == HostWith(NoTransfer, ad) IN
         /\ q \in Host /\ q.phase = "idle" /\ q.addr = ad /\ q.req = None
<1> DEFINE q == HostWith(NoTransfer, ad)
<1>1. q = [phase |-> "idle", req |-> None, tog |-> 1, got |-> <<>>, n |-> 0,
           early |-> FALSE, lost |-> FALSE, addr |-> ad]
  BY DEF HostWith, NoTransfer
<1>2. None \in Req /\ <<>> \in Seq(Byte) /\ 1 \in Bit /\ "idle" \in Phase /\ 0 \in Nat
  BY DEF None, Req, Kind, Bit, Phase
<1> QED
  BY <1>1, <1>2 DEF Host

LEMMA BusResetDoes ==
  ASSUME NEW d \in Dev
  PROVE  LET q == BusResetHandler(d) IN
         /\ q \in Dev /\ q.req = d.req /\ q.hw_addr = 0 /\ q.addr = 0 /\ q.dma = 0
<1> DEFINE u == usb2_setup_endpoints(d)
           q == BusResetHandler(d)
<1>1. u \in Dev /\ u.req = d.req /\ u.dma = 0
  BY EndpointsSetUp
<1>2. q = [u EXCEPT !.hw_addr = 0, !.addr = 0, !.state = "DEFAULT"]
  BY DEF BusResetHandler
<1>3. "DEFAULT" \in State /\ 0 \in Nat
  BY DEF State
<1> HIDE DEF u, q
<1>4. q \in Dev /\ q.req = u.req /\ q.hw_addr = 0 /\ q.addr = 0 /\ q.dma = u.dma
  BY <1>1, <1>2, <1>3 DEF Dev
<1> QED
  BY <1>1, <1>4 DEF q

(* With the receive address at the start of the buffer the device reads    *)
(* the request that the host has sent.                                     *)
LEMMA SetupStep ==
  ASSUME TypeOK, NEW r \in Request, HostSetup(r), dev.dma = 0
  PROVE  /\ dev' \in Dev /\ dev'.req = r /\ dev'.hw_addr = dev.hw_addr /\ dev'.dma = 0
         /\ dev'.addr = IF r.kind = "set_address" THEN 1 ELSE dev.addr
         /\ r.kind \in Answered =>
              /\ dev'.remaining = AnswerLength(r) /\ dev'.size = AnswerLength(r)
              /\ dev'.src = r.kind /\ dev'.pos = 0
              /\ ~dev'.buf.setup /\ dev'.buf.bytes = Bytes(r.kind, 0, Min2(AnswerLength(r), Mps))
              /\ dev'.t_len = Min2(AnswerLength(r), Mps) /\ dev'.t_res = "ACK" /\ dev'.t_tog = 1
         /\ r.kind \in {"get_status", "user_empty"} \cup NoDataKinds =>
              dev'.t_len = 0 /\ dev'.t_res = "ACK" /\ dev'.t_tog = 1
         /\ r.kind \in {"bad_descr", "user_stall"} => dev'.t_res = "STALL"
         /\ r.kind = "user_out" => dev'.remaining = r.wLength /\ dev'.r_res = "ACK" /\ dev'.r_tog = 1
         /\ handled' = NotHandled
         /\ host' \in Host /\ host'.phase = FirstPhase(r) /\ host'.req = r /\ host'.tog = 1
         /\ host'.got = <<>> /\ host'.n = 0 /\ host'.addr = host.addr
<1> DEFINE b == SetupPacket(r)
           d == [dev EXCEPT !.buf = b]
<1>1. dev \in Dev /\ host.addr \in Nat /\ r \in Req
  BY RequestIs DEF TypeOK, Host
<1>2. b \in Buf /\ b.setup /\ b.req = r
  BY <1>1 DEF SetupPacket, Buf
<1> HIDE DEF b
<1>3. d \in Dev /\ d.hw_addr = dev.hw_addr /\ d.addr = dev.addr /\ d.dma = 0 /\ d.buf = b
  BY <1>1, <1>2 DEF Dev
<1>4. dev' = usb2_ep0_setup_stage_handler(d, r)
  <2>1. SetupHandled(r)
    BY DEF HostSetup
  <2> QED
    BY <1>2, <1>3, <2>1 DEF SetupHandled, b
<1> HIDE DEF d
<1>5. /\ dev' \in Dev /\ dev'.req = r /\ dev'.hw_addr = d.hw_addr /\ (dev'.dma = 0 \/ dev'.dma = d.dma)
      /\ dev'.addr = IF r.kind = "set_address" THEN 1 ELSE d.addr
      /\ r.kind \in Answered =>
           /\ dev'.remaining = AnswerLength(r) /\ dev'.size = AnswerLength(r)
           /\ dev'.src = r.kind /\ dev'.pos = 0
           /\ ~dev'.buf.setup /\ dev'.buf.bytes = Bytes(r.kind, 0, Min2(AnswerLength(r), Mps))
           /\ dev'.t_len = Min2(AnswerLength(r), Mps) /\ dev'.t_res = "ACK" /\ dev'.t_tog = 1
      /\ r.kind \in {"get_status", "user_empty"} \cup NoDataKinds =>
           dev'.t_len = 0 /\ dev'.t_res = "ACK" /\ dev'.t_tog = 1
      /\ r.kind \in {"bad_descr", "user_stall"} => dev'.t_res = "STALL"
      /\ r.kind = "user_out" => dev'.remaining = r.wLength /\ dev'.r_res = "ACK" /\ dev'.r_tog = 1
  BY <1>3, <1>4, SetupDoes
<1>6. host' = [phase |-> FirstPhase(r), req |-> r, tog |-> 1, got |-> <<>>, n |-> 0,
               early |-> FALSE, lost |-> FALSE, addr |-> host.addr]
  BY DEF HostSetup, HostWith, NoTransfer
<1>7. FirstPhase(r) \in Phase /\ <<>> \in Seq(Byte) /\ 1 \in Bit /\ 0 \in Nat
  BY DEF FirstPhase, Phase, Bit
<1>8. /\ host' \in Host /\ host'.phase = FirstPhase(r) /\ host'.req = r /\ host'.tog = 1
      /\ host'.got = <<>> /\ host'.n = 0 /\ host'.addr = host.addr
  BY <1>1, <1>6, <1>7 DEF Host
<1> QED
  BY <1>3, <1>5, <1>8 DEF HostSetup

(* What the first phase of a request says of it.                           *)
LEMMA FirstPhaseIs ==
  ASSUME NEW r \in Request
  PROVE  /\ FirstPhase(r) \in {"data_in", "data_out", "status_in"}
         /\ FirstPhase(r) = "data_in" <=> IsIn(r)
         /\ FirstPhase(r) = "data_out" => r.kind = "user_out" /\ r.wLength > 0
         /\ FirstPhase(r) = "status_in" => r.kind \in NoDataKinds
<1>1. /\ r.kind \in InKinds \cup DataOutKinds \cup NoDataKinds /\ r.wLength \in Nat
      /\ (r.kind \in NoDataKinds => r.wLength = 0) /\ (r.kind \notin NoDataKinds => r.wLength > 0)
  BY RequestIs
<1>2. CASE r.kind \in InKinds
  BY <1>2 DEF FirstPhase, IsIn
<1>3. CASE r.kind \notin InKinds /\ r.wLength > 0
  BY <1>1, <1>3, KindsApart DEF FirstPhase, IsIn
<1>4. CASE r.kind \notin InKinds /\ ~(r.wLength > 0)
  BY <1>1, <1>4 DEF FirstPhase, IsIn
<1> QED
  BY <1>2, <1>3, <1>4

LEMMA SentIs ==
  ASSUME TypeOK
  PROVE  /\ Sent \in Seq(Byte) /\ Len(Sent) = dev.t_len
         /\ dev.t_len = 0 => Sent = <<>>
         /\ (dev.dma = 0 /\ ~dev.buf.setup /\ Len(dev.buf.bytes) = dev.t_len) => Sent = dev.buf.bytes
<1>1. dev.t_len \in Nat /\ dev.buf.bytes \in Seq(Byte)
  BY DEF TypeOK, Dev, Buf
<1> DEFINE n == dev.t_len
           b == dev.buf.bytes
<1> HIDE DEF n, b
<1>2. n \in Nat /\ b \in Seq(Byte)
  BY <1>1 DEF n, b
<1>3. Sent = IF n = 0 THEN <<>>
             ELSE IF dev.dma = 0 /\ ~dev.buf.setup /\ Len(b) >= n THEN SubSeq(b, 1, n)
             ELSE Bytes("junk", 0, n)
  BY DEF Sent, n, b
<1>4. Bytes("junk", 0, n) \in Seq(Byte) /\ Len(Bytes("junk", 0, n)) = n
  BY <1>2, BytesIs DEF Source
<1>5. ASSUME n # 0, Len(b) >= n
      PROVE  SubSeq(b, 1, n) \in Seq(Byte) /\ Len(SubSeq(b, 1, n)) = n
             /\ (Len(b) = n => SubSeq(b, 1, n) = b)
  <2>1. Len(b) \in Nat /\ n \in 1..Len(b)
    BY <1>2, <1>5
  <2>2. /\ SubSeq(b, 1, n) \in Seq(Byte) /\ Len(SubSeq(b, 1, n)) = n
        /\ \A i \in 1..n : SubSeq(b, 1, n)[i] = b[i]
    BY <1>2, <2>1, SubSeqProperties
  <2>3. ASSUME Len(b) = n PROVE SubSeq(b, 1, n) = b
    BY <1>2, <2>2, <2>3, SeqEqual
  <2> QED
    BY <2>2, <2>3
<1>6. CASE n = 0
  <2>1. Sent = <<>>
    BY <1>3, <1>6
  <2>2. Len(b) = 0 => b = <<>>
    BY <1>2, EmptySeq
  <2> QED
    BY <1>6, <2>1, <2>2, EmptySeq DEF n, b
<1>7. CASE n # 0 /\ (dev.dma = 0 /\ ~dev.buf.setup /\ Len(b) >= n)
  BY <1>3, <1>5, <1>7 DEF n, b
<1>8. CASE n # 0 /\ ~(dev.dma = 0 /\ ~dev.buf.setup /\ Len(b) >= n)
  <2>1. Len(b) = n => Len(b) >= n
    BY <1>2
  <2> QED
    BY <1>3, <1>4, <1>8, <2>1 DEF n, b
<1> QED
  BY <1>6, <1>7, <1>8

LEMMA TakesDoes ==
  ASSUME TypeOK, host.phase \in {"data_in", "status_in"}
  PROVE  LET h == HostTakes
             got == host.got \o Sent
         IN  /\ h \in Host
             /\ dev.t_tog # host.tog => h = host
             /\ dev.t_tog = host.tog /\ host.phase = "status_in" =>
                  /\ h.phase = "idle"
                  /\ h.addr = IF host.req.kind = "set_address" THEN 1 ELSE host.addr
             /\ dev.t_tog = host.tog /\ host.phase = "data_in" =>
                  /\ h.got = got /\ h.req = host.req /\ h.addr = host.addr /\ h.early = host.early
                  /\ IF dev.t_len < Mps \/ Len(got) >= host.req.wLength
                     THEN h.phase = "status_out" ELSE h.phase = "data_in" /\ h.tog = 1 - host.tog
<1> DEFINE h == HostTakes
           got == host.got \o Sent
           last == dev.t_len < Mps \/ Len(got) >= host.req.wLength
           ad == IF host.req.kind = "set_address" THEN 1 ELSE host.addr
<1>1. host \in Host /\ host.got \in Seq(Byte) /\ host.tog \in Bit /\ host.addr \in Nat
  BY DEF TypeOK, Host
<1>2. Sent \in Seq(Byte) /\ Len(Sent) = dev.t_len
  BY SentIs
<1>3. got \in Seq(Byte)
  BY <1>1, <1>2, ConcatProperties
<1>4. h = CASE dev.t_tog # host.tog -> host
            [] dev.t_tog = host.tog /\ host.phase = "data_in" ->
                 IF last THEN [host EXCEPT !.got = got, !.phase = "status_out", !.tog = 1]
                         ELSE [host EXCEPT !.got = got, !.tog = 1 - @]
            [] OTHER -> HostWith(NoTransfer, ad)
  BY <1>2 DEF HostTakes
<1>5. 1 - host.tog \in Bit /\ 1 \in Bit /\ "status_out" \in Phase /\ ad \in Nat
  BY <1>1, Bits DEF Bit, Phase
<1> HIDE DEF h, got, last, ad
<1>6. CASE dev.t_tog # host.tog
  <2>1. h = host
    BY <1>4, <1>6
  <2> QED
    BY <1>1, <1>6, <2>1 DEF h
<1>7. CASE dev.t_tog = host.tog /\ host.phase = "status_in"
  <2>1. h = HostWith(NoTransfer, ad)
    BY <1>4, <1>7
  <2>2. h \in Host /\ h.phase = "idle" /\ h.addr = ad
    BY <1>5, <2>1, HostWithIs
  <2> QED
    BY <1>7, <2>2 DEF h, ad
<1>8. CASE dev.t_tog = host.tog /\ host.phase = "data_in" /\ last
  <2>1. h = [host EXCEPT !.got = got, !.phase = "status_out", !.tog = 1]
    BY <1>4, <1>8
  <2>2. /\ h \in Host /\ h.got = got /\ h.req = host.req /\ h.addr = host.addr
        /\ h.early = host.early /\ h.phase = "status_out"
    BY <1>1, <1>3, <1>5, <2>1 DEF Host
  <2> QED
    BY <1>8, <2>2 DEF h, got, last
<1>9. CASE dev.t_tog = host.tog /\ host.phase = "data_in" /\ ~last
  <2>1. h = [host EXCEPT !.got = got, !.tog = 1 - @]
    BY <1>4, <1>9
  <2>2. /\ h \in Host /\ h.got = got /\ h.req = host.req /\ h.addr = host.addr
        /\ h.early = host.early /\ h.phase = host.phase /\ h.tog = 1 - host.tog
    BY <1>1, <1>3, <1>5, <2>1 DEF Host
  <2> QED
    BY <1>9, <2>2 DEF h, got, last
<1> QED
  BY <1>6, <1>7, <1>8, <1>9

(* After an IN transaction the device has moved on, or the host's ACK was  *)
(* lost; the host has what it took either way.                             *)
LEMMA InStep ==
  ASSUME TypeOK, NEW lost \in BOOLEAN, HostIn(lost)
  PROVE  /\ host.phase \in {"data_in", "status_in"} /\ dev.t_res = "ACK" /\ handled' = handled
         /\ \/ dev' = usb2_ep0_in_handler(dev)
            \/ dev' = dev /\ host.req.kind # "set_address"
         /\ host' \in Host
         /\ \A f \in {"phase", "req", "tog", "got", "n", "early", "addr"} : host'[f] = HostTakes[f]
<1> DEFINE h == HostTakes
<1>1. host.phase \in {"data_in", "status_in"} /\ dev.t_res = "ACK" /\ handled' = handled
  BY DEF HostIn
<1>2. h \in Host
  BY <1>1, TakesDoes
<1>3. \/ dev' = usb2_ep0_in_handler(dev) /\ host' = h
      \/ dev' = dev /\ host.req.kind # "set_address" /\ host' = [h EXCEPT !.lost = h.phase # "idle"]
  BY DEF HostIn
<1> HIDE DEF h
<1>4. (h.phase # "idle") \in BOOLEAN
  OBVIOUS
<1>5. CASE host' = h
  BY <1>1, <1>2, <1>3, <1>5 DEF h
<1>6. CASE host' = [h EXCEPT !.lost = h.phase # "idle"]
  <2>1. host' \in Host
    BY <1>2, <1>4, <1>6 DEF Host
  <2>2. \A f \in {"phase", "req", "tog", "got", "n", "early", "addr"} : host'[f] = h[f]
    BY <1>2, <1>6 DEF Host
  <2> QED
    BY <1>1, <1>3, <2>1, <2>2 DEF h
<1> QED
  BY <1>3, <1>5, <1>6

LEMMA AdvancesDoes ==
  ASSUME TypeOK, NEW len \in Nat, host.phase \in {"data_out", "status_out"}
  PROVE  LET h == HostAdvances(len) IN
         /\ h \in Host /\ h.addr = host.addr
         /\ host.phase = "status_out" => h.phase = "idle"
         /\ host.phase = "data_out" =>
              /\ h.req = host.req /\ h.n = host.n + len
              /\ IF host.n + len = host.req.wLength
                 THEN h.phase = "status_in" /\ h.tog = 1
                 ELSE h.phase = "data_out" /\ h.tog = 1 - host.tog
<1> DEFINE h == HostAdvances(len)
           m == host.n + len
<1>1. host \in Host /\ host.tog \in Bit /\ host.addr \in Nat /\ m \in Nat
  BY DEF TypeOK, Host
<1>2. 1 - host.tog \in Bit /\ 1 \in Bit /\ "status_in" \in Phase
  BY <1>1, Bits DEF Bit, Phase
<1> HIDE DEF m
<1>3. CASE host.phase = "status_out"
  <2>1. h = HostWith(NoTransfer, host.addr)
    BY <1>3 DEF HostAdvances
  <2> HIDE DEF h
  <2>2. h \in Host /\ h.phase = "idle" /\ h.addr = host.addr
    BY <1>1, <2>1, HostWithIs
  <2> QED
    BY <1>3, <2>2 DEF h
<1>4. CASE host.phase = "data_out" /\ m = host.req.wLength
  <2>1. h = [host EXCEPT !.n = m, !.phase = "status_in", !.tog = 1]
    BY <1>4 DEF HostAdvances, m
  <2> HIDE DEF h
  <2>2. h \in Host /\ h.addr = host.addr /\ h.req = host.req /\ h.n = m /\ h.phase = "status_in" /\ h.tog = 1
    BY <1>1, <1>2, <2>1 DEF Host
  <2> QED
    BY <1>4, <2>2 DEF h, m
<1>5. CASE host.phase = "data_out" /\ m # host.req.wLength
  <2>1. h = [host EXCEPT !.n = m, !.tog = 1 - @]
    BY <1>5 DEF HostAdvances, m
  <2> HIDE DEF h
  <2>2. /\ h \in Host /\ h.addr = host.addr /\ h.req = host.req /\ h.n = m
        /\ h.phase = host.phase /\ h.tog = 1 - host.tog
    BY <1>1, <1>2, <2>1 DEF Host
  <2> QED
    BY <1>5, <2>2 DEF h, m
<1> QED
  BY <1>3, <1>4, <1>5

(* A lost ACK leaves the host where it is.                                 *)
LEMMA LostDoes ==
  ASSUME TypeOK, host' = [host EXCEPT !.lost = TRUE]
  PROVE  /\ host' \in Host
         /\ \A f \in {"phase", "req", "tog", "got", "n", "early", "addr"} : host'[f] = host[f]
<1>1. host \in Host
  BY DEF TypeOK
<1>2. host' \in Host
  BY <1>1 DEF Host
<1>3. \A f \in {"phase", "req", "tog", "got", "n", "early", "addr"} : host'[f] = host[f]
  BY <1>1 DEF Host
<1> QED
  BY <1>2, <1>3

(* The status stage of an IN request: the device drops the empty packet or *)
(* handles it, and the host is done or repeats it.                         *)
LEMMA StatusOutStep ==
  ASSUME TypeOK, IsIn(dev.req), NEW lost \in BOOLEAN, HostOut(lost), host.phase = "status_out"
  PROVE  /\ dev' \in Dev /\ dev'.req = dev.req /\ dev'.addr = dev.addr
         /\ dev'.hw_addr = dev.hw_addr /\ dev'.dma = dev.dma /\ handled' = handled
         /\ host' \in Host /\ host'.addr = host.addr
         /\ \/ host'.phase = "idle"
            \/ \A f \in {"phase", "req", "tog", "got", "n", "early", "addr"} : host'[f] = host[f]
<1>1. dev \in Dev
  BY DEF TypeOK
<1>2. OutPacket = <<>> /\ Len(OutPacket) = 0
  BY DEF OutPacket
<1>3. \/ dev' = usb2_ep0_out_handler(dev, 0) /\ handled' = handled
      \/ dev' = dev /\ handled' = handled
  BY <1>2 DEF HostOut, Completes
<1>4. /\ dev' \in Dev /\ dev'.req = dev.req /\ dev'.addr = dev.addr
      /\ dev'.hw_addr = dev.hw_addr /\ dev'.dma = dev.dma /\ handled' = handled
  BY <1>1, <1>3, StatusDoes
<1>5. host' = HostAdvances(0) \/ host' = [host EXCEPT !.lost = TRUE]
  BY <1>2 DEF HostOut
<1>6. CASE host' = HostAdvances(0)
  BY <1>4, <1>6, AdvancesDoes
<1>7. CASE host' = [host EXCEPT !.lost = TRUE]
  BY <1>4, <1>7, LostDoes
<1> QED
  BY <1>5, <1>6, <1>7

-----------------------------------------------------------------------------
(* An OUT packet in the data stage, stored behind the bytes that the       *)
(* device has already, is the next part of the host's data.                *)
LEMMA StoredIs ==
  ASSUME TypeOK, NEW n \in Nat, NEW len \in Nat, dev.dma = n,
         dev.dma = 0 \/ dev.buf.bytes = Bytes("host", 0, dev.dma)
  PROVE  SubSeq(dev.buf.bytes, 1, dev.dma) \o Bytes("host", n, len) = Bytes("host", 0, n + len)
<1> DEFINE b == dev.buf.bytes
           p == SubSeq(b, 1, n)
           z == Bytes("host", 0, n)
           s == Bytes("host", n, len)
<1>1. b \in Seq(Byte) /\ "host" \in Source /\ 0 \in Nat
  BY DEF TypeOK, Dev, Buf, Source
<1>2. z \in Seq(Byte) /\ Len(z) = n
  BY <1>1, BytesIs
<1> HIDE DEF b, z
<1>3. p = z
  <2>1. CASE n = 0
    <3>1. p = <<>>
      BY <1>1, <2>1, SubSeqEmpty
    <3>2. z = <<>>
      BY <2>1, NoBytes DEF z
    <3> QED
      BY <3>1, <3>2
  <2>2. CASE n # 0
    <3>1. b = z
      BY <2>2 DEF b, z
    <3>2. \A i \in 1..n : b[i] \in Byte
      BY <1>2, <3>1
    <3>3. p \in Seq(Byte) /\ Len(p) = n /\ \A i \in 1..n : p[i] = b[i]
      <4>1. 1 <= n /\ n - 1 + 1 = n /\ 1 \in Int /\ n \in Int /\ \A i \in 1..n : 1 + i - 1 = i
        BY <2>2
      <4>2. /\ SubSeq(b, 1, n) \in Seq(Byte)
            /\ Len(SubSeq(b, 1, n)) = IF 1 <= n THEN n - 1 + 1 ELSE 0
            /\ \A i \in 1..(n - 1 + 1) : SubSeq(b, 1, n)[i] = b[1 + i - 1]
        BY <3>2, <4>1, SubSeqProperties
      <4> QED
        BY <4>1, <4>2
    <3> HIDE DEF p
    <3> QED
      BY <1>2, <3>1, <3>3, SeqEqual
  <2> QED
    BY <2>1, <2>2
<1>4. z \o s = Bytes("host", 0, n + len)
  BY <1>1, BytesMore DEF z
<1> QED
  BY <1>3, <1>4 DEF b

(* The packet of the host in an OUT data stage.                            *)
LEMMA OutPacketIs ==
  ASSUME TypeOK, HostInv, OutInv, host.phase = "data_out"
  PROVE  LET len == Min2(Mps, host.req.wLength - host.n) IN
         /\ len \in Nat \ {0} /\ host.n \in Nat /\ host.n + len <= host.req.wLength
         /\ host.req.wLength \in Nat /\ host.req.wLength < U16 /\ dev.dma + dev.remaining = host.req.wLength
         /\ OutPacket = Bytes("host", host.n, len) /\ Len(OutPacket) = len /\ OutPacket # <<>>
         /\ ~IsIn(dev.req)
<1> DEFINE w == host.req.wLength
           n == host.n
           len == Min2(Mps, w - n)
<1>1. host.req \in Request /\ host.req.kind = "user_out" /\ dev.req = host.req
  BY DEF HostInv
<1>2. w \in Nat /\ w < U16 /\ n \in Nat /\ n < w /\ dev.dma + dev.remaining = w
  BY <1>1, RequestIs DEF OutInv, TypeOK, Host
<1>3. len \in Nat /\ len > 0 /\ n + len <= w
  <2> HIDE DEF w, n
  <2> QED
    BY <1>2, ControlAssumption DEF Min2
<1>4. OutPacket = Bytes("host", n, len)
  BY DEF OutPacket
<1> HIDE DEF len, w, n
<1>5. Len(OutPacket) = len /\ OutPacket \in Seq(Byte)
  BY <1>2, <1>3, <1>4, BytesIs DEF Source
<1>6. OutPacket # <<>>
  BY <1>3, <1>5, EmptySeq
<1>7. ~IsIn(dev.req)
  BY <1>1 DEF IsIn, InKinds, Descriptors
<1> QED
  BY <1>2, <1>3, <1>4, <1>5, <1>6, <1>7 DEF len, w, n

(* An OUT packet with the expected toggle: stored behind the earlier ones, *)
(* and handed to the user with them when it is the last.                   *)
LEMMA OutSynced ==
  ASSUME TypeOK, HostInv, OutInv, HandledInv, NEW lost \in BOOLEAN, HostOut(lost),
         host.phase = "data_out", dev.r_tog = host.tog
  PROVE  LET w == host.req.wLength
             n == host.n
             len == Min2(Mps, w - n)
         IN  /\ dev' \in Dev /\ dev'.req = dev.req /\ dev'.addr = dev.addr /\ dev'.hw_addr = dev.hw_addr
             /\ dev'.buf.bytes = Bytes("host", 0, n + len)
             /\ n + len = w =>
                  dev'.dma = 0 /\ dev'.t_tog = 1 /\ handled' = [calls |-> 1, bytes |-> Bytes("host", 0, w)]
             /\ n + len # w =>
                  /\ dev'.dma = n + len /\ dev'.remaining = w - (n + len) /\ dev'.remaining # 0
                  /\ dev'.r_tog = 1 - dev.r_tog /\ handled' = handled
<1> DEFINE w == host.req.wLength
           n == host.n
           len == Min2(Mps, w - n)
           s == OutPacket
           x == SubSeq(dev.buf.bytes, 1, dev.dma) \o s
           b == DataInBuffer(x)
           d == [dev EXCEPT !.buf = b]
<1>1. /\ len \in Nat \ {0} /\ n \in Nat /\ n + len <= w /\ w \in Nat /\ w < U16
      /\ dev.dma + dev.remaining = w /\ s = Bytes("host", n, len) /\ Len(s) = len /\ s # <<>>
      /\ ~IsIn(dev.req)
  BY OutPacketIs
<1>2. dev \in Dev /\ dev.dma \in Nat /\ dev.remaining \in Nat
  BY DEF TypeOK, Dev
<1>3. dev.dma = n /\ (dev.dma = 0 \/ dev.buf.bytes = Bytes("host", 0, dev.dma)) /\ handled.calls = 0
  BY DEF OutInv, HandledInv
<1> HIDE DEF len, w, n, s
<1>4. x = Bytes("host", 0, n + len)
  BY <1>1, <1>3, StoredIs
<1>5. /\ dev' = usb2_ep0_out_handler(d, len)
      /\ handled' = IF Completes(dev, len) THEN [calls |-> handled.calls + 1, bytes |-> d.buf.bytes] ELSE handled
  BY <1>1 DEF HostOut, s
<1>6. x \in Seq(Byte)
  <2>1. n + len \in Nat /\ 0 \in Nat /\ "host" \in Source
    BY <1>1 DEF Source
  <2>2. Bytes("host", 0, n + len) \in Seq(Byte)
    BY <2>1, BytesIs
  <2> QED
    BY <1>4, <2>2
<1> HIDE DEF x
<1>7. b \in Buf /\ b.bytes = x
  BY <1>6 DEF DataInBuffer, Buf, None, Req, Kind
<1> HIDE DEF b
<1>8. /\ d \in Dev /\ d.req = dev.req /\ d.addr = dev.addr /\ d.hw_addr = dev.hw_addr
      /\ d.remaining = dev.remaining /\ d.dma = dev.dma /\ d.r_tog = dev.r_tog /\ d.buf = b
  BY <1>2, <1>7 DEF Dev
<1> HIDE DEF d
<1>9. dev.remaining = w - n /\ len <= dev.remaining /\ dev.remaining < U16 /\ (dev.remaining = len <=> n + len = w)
  <2>1. dev.remaining = w - n /\ len <= w - n /\ (w - n = len <=> n + len = w) /\ w - n <= w
    BY <1>1, <1>2, <1>3
  <2>2. U16 \in Nat
    BY DEF U16
  <2> QED
    BY <1>1, <2>1, <2>2
<1>10. /\ dev' \in Dev /\ dev'.req = d.req /\ dev'.addr = d.addr /\ dev'.hw_addr = d.hw_addr /\ dev'.buf = d.buf
       /\ Completes(d, len) <=> d.remaining = len
       /\ d.remaining = len => dev'.dma = 0 /\ dev'.t_tog = 1
       /\ d.remaining # len =>
            /\ dev'.remaining = d.remaining - len /\ dev'.dma = d.dma + len
            /\ dev'.r_res = "ACK" /\ dev'.r_tog = 1 - d.r_tog
  BY <1>1, <1>5, <1>8, <1>9, OutDataDoes
<1>11. Completes(dev, len) <=> Completes(d, len)
  BY <1>8 DEF Completes
<1>12. CASE n + len = w
  <2>1. handled' = [calls |-> 1, bytes |-> x]
    BY <1>3, <1>5, <1>7, <1>8, <1>9, <1>10, <1>11, <1>12
  <2> QED
    BY <1>4, <1>7, <1>8, <1>9, <1>10, <1>12, <2>1 DEF n, w, len
<1>13. CASE n + len # w
  <2>1. handled' = handled
    BY <1>5, <1>8, <1>9, <1>10, <1>11, <1>13
  <2>2. dev'.remaining = w - (n + len) /\ dev'.remaining # 0 /\ dev'.dma = n + len
    BY <1>1, <1>2, <1>3, <1>8, <1>9, <1>10, <1>13
  <2> QED
    BY <1>4, <1>7, <1>8, <1>9, <1>10, <1>13, <2>1, <2>2 DEF n, w, len
<1> QED
  BY <1>12, <1>13

(* The OUT data stage, repeated packets included.                          *)
LEMMA OutDataStep ==
  ASSUME WholeOut, TypeOK, HostInv, OutInv, HandledInv, NEW lost \in BOOLEAN, HostOut(lost),
         host.phase = "data_out"
  PROVE  /\ TypeOK' /\ HostInv' /\ OutInv' /\ HandledInv'
         /\ dev'.hw_addr = dev.hw_addr /\ dev'.req = dev.req /\ host'.addr = host.addr
         /\ host'.phase \in {"data_out", "status_in"}
<1> DEFINE w == host.req.wLength
           n == host.n
           len == Min2(Mps, w - n)
<1>1. /\ len \in Nat \ {0} /\ n \in Nat /\ n + len <= w /\ w \in Nat
      /\ dev.dma + dev.remaining = w /\ Len(OutPacket) = len
  BY OutPacketIs
<1>2. /\ dev \in Dev /\ dev.remaining \in Nat /\ dev.dma \in Nat /\ dev.r_tog \in Bit
      /\ handled \in Handled /\ host.tog \in Bit /\ host.req \in Req
  BY DEF TypeOK, Dev, Host
<1>3. host.req \in Request /\ host.req.kind = "user_out" /\ dev.req = host.req /\ ~IsIn(host.req)
  BY OutPacketIs DEF HostInv
<1>4. handled.calls = 0
  BY DEF HandledInv
<1> HIDE DEF w, n, len
<1>5. \/ ~lost /\ host' = HostAdvances(len)
      \/ n + len < w /\ host' = [host EXCEPT !.lost = TRUE]
  <2>1. ASSUME MayLose(len) PROVE n + len < w
    BY <2>1 DEF MayLose, WholeOut, n, w
  <2> QED
    BY <1>1, <2>1 DEF HostOut
<1>6. ASSUME host' = HostAdvances(len)
      PROVE  /\ host' \in Host /\ host'.addr = host.addr /\ host'.req = host.req /\ host'.n = n + len
             /\ IF n + len = w THEN host'.phase = "status_in" /\ host'.tog = 1
                               ELSE host'.phase = "data_out" /\ host'.tog = 1 - host.tog
  BY <1>1, <1>6, AdvancesDoes DEF n, w
<1>7. ASSUME host' = [host EXCEPT !.lost = TRUE]
      PROVE  /\ host' \in Host /\ host'.addr = host.addr /\ host'.req = host.req /\ host'.n = n
             /\ host'.phase = "data_out" /\ host'.tog = host.tog
  BY <1>7, LostDoes DEF n
<1>8. CASE dev.r_tog = host.tog
  <2>1. /\ dev' \in Dev /\ dev'.req = dev.req /\ dev'.addr = dev.addr /\ dev'.hw_addr = dev.hw_addr
        /\ dev'.buf.bytes = Bytes("host", 0, n + len)
        /\ n + len = w =>
             dev'.dma = 0 /\ dev'.t_tog = 1 /\ handled' = [calls |-> 1, bytes |-> Bytes("host", 0, w)]
        /\ n + len # w =>
             /\ dev'.dma = n + len /\ dev'.remaining = w - (n + len) /\ dev'.remaining # 0
             /\ dev'.r_tog = 1 - dev.r_tog /\ handled' = handled
    BY <1>8, OutSynced DEF n, w, len
  <2>2. CASE n + len = w
    <3>1. host' = HostAdvances(len)
      BY <1>1, <1>5, <2>2
    <3>2. /\ host' \in Host /\ host'.addr = host.addr /\ host'.req = host.req
          /\ host'.phase = "status_in" /\ host'.tog = 1
      BY <1>6, <2>2, <3>1
    <3>3. /\ dev'.dma = 0 /\ dev'.t_tog = 1
          /\ handled' = [calls |-> 1, bytes |-> Bytes("host", 0, w)]
      BY <2>1, <2>2
    <3>4. handled' \in Handled /\ handled'.calls = 1 /\ handled'.bytes = Bytes("host", 0, w)
      BY <1>1, <3>3, BytesIs DEF Handled, Source
    <3>5. TypeOK'
      BY <2>1, <3>2, <3>4 DEF TypeOK
    <3>6. HostInv'
      BY <1>3, <2>1, <3>2, <3>3 DEF HostInv, IsIn
    <3>7. OutInv'
      BY <3>2, <3>3 DEF OutInv
    <3>8. HandledInv'
      BY <1>3, <3>2, <3>4 DEF HandledInv, w
    <3> QED
      BY <2>1, <3>2, <3>5, <3>6, <3>7, <3>8
  <2>3. CASE n + len # w
    <3>1. /\ dev'.dma = n + len /\ dev'.remaining = w - (n + len) /\ dev'.remaining # 0
          /\ dev'.r_tog = 1 - dev.r_tog /\ handled' = handled
      BY <2>1, <2>3
    <3>2. /\ host' \in Host /\ host'.addr = host.addr /\ host'.req = host.req /\ host'.phase = "data_out"
          /\ \/ host'.n = n + len /\ host'.tog = 1 - host.tog
             \/ host'.n = n /\ host'.tog = host.tog
      BY <1>5, <1>6, <1>7, <2>3
    <3>3. TypeOK'
      BY <1>2, <2>1, <3>1, <3>2 DEF TypeOK
    <3>4. HostInv'
      BY <1>3, <2>1, <3>2 DEF HostInv
    <3>5. HandledInv'
      BY <1>4, <3>1, <3>2 DEF HandledInv
    <3>6. /\ host'.n < w /\ dev'.dma + dev'.remaining = w
          /\ \/ dev'.r_tog = host'.tog /\ dev'.dma = host'.n
             \/ dev'.r_tog # host'.tog /\ host'.n = n /\ dev'.dma = host'.n + len /\ dev'.remaining # 0
      <4>1. n < w /\ n + len < w /\ (n + len) + (w - (n + len)) = w
        BY <1>1, <2>3
      <4>2. CASE host'.n = n + len /\ host'.tog = 1 - host.tog
        BY <1>8, <3>1, <4>1, <4>2
      <4>3. CASE host'.n = n /\ host'.tog = host.tog
        BY <1>2, <1>8, <3>1, <4>1, <4>3, Bits
      <4> QED
        BY <3>2, <4>2, <4>3
    <3>7. OutInv'
      BY <2>1, <3>1, <3>2, <3>6 DEF OutInv, w, n, len
    <3> QED
      BY <2>1, <3>2, <3>3, <3>4, <3>5, <3>7
  <2> QED
    BY <2>2, <2>3
<1>9. CASE dev.r_tog # host.tog
  <2>1. dev' = dev /\ handled' = handled
    BY <1>9 DEF HostOut
  <2>2. dev.dma = n + len /\ dev.remaining # 0 /\ (dev.dma = 0 \/ dev.buf.bytes = Bytes("host", 0, dev.dma))
    BY <1>9 DEF OutInv, n, len, w
  <2>3. n + len < w /\ n < w /\ n + len # w
    BY <1>1, <1>2, <2>2
  <2>4. /\ host' \in Host /\ host'.addr = host.addr /\ host'.req = host.req /\ host'.phase = "data_out"
        /\ \/ host'.n = n + len /\ host'.tog = 1 - host.tog
           \/ host'.n = n /\ host'.tog = host.tog
    BY <1>5, <1>6, <1>7, <2>3
  <2>5. TypeOK'
    BY <1>2, <2>1, <2>4 DEF TypeOK
  <2>6. HostInv'
    BY <1>3, <2>1, <2>4 DEF HostInv
  <2>7. HandledInv'
    BY <1>4, <2>1, <2>4 DEF HandledInv
  <2>8. /\ host'.n < w
        /\ \/ dev'.r_tog = host'.tog /\ dev'.dma = host'.n
           \/ dev'.r_tog # host'.tog /\ host'.n = n /\ dev'.dma = host'.n + len /\ dev'.remaining # 0
    <3>1. dev.r_tog = 1 - host.tog
      BY <1>2, <1>9 DEF Bit
    <3> QED
      BY <1>9, <2>1, <2>2, <2>3, <2>4, <3>1
  <2>9. OutInv'
    BY <1>1, <2>1, <2>2, <2>4, <2>8 DEF OutInv, w, n, len
  <2> QED
    BY <2>1, <2>4, <2>5, <2>6, <2>7, <2>9
<1> QED
  BY <1>8, <1>9

-----------------------------------------------------------------------------
LEMMA ControlInit == Init => ControlInv
<1> SUFFICES ASSUME Init PROVE ControlInv
  OBVIOUS
<1>1. None \in Req /\ <<>> \in Seq(Byte)
  BY DEF None, Req, Kind
<1>2. DataInBuffer(<<>>) \in Buf
  BY <1>1 DEF DataInBuffer, Buf
<1>3. dev \in Dev /\ dev.dma = 0
  BY <1>1, <1>2 DEF Init, InitDevice, Dev, State, Source, Kind, Res, Bit
<1>4. handled \in Handled /\ handled.calls = 0
  BY <1>1 DEF Init, NotHandled, Handled
<1>5. host = [phase |-> "detached", req |-> None, tog |-> 1, got |-> <<>>, n |-> 0,
              early |-> FALSE, lost |-> FALSE, addr |-> 0]
  BY DEF Init, HostWith, NoTransfer
<1>6. host \in Host /\ host.phase = "detached"
  BY <1>1, <1>5 DEF Host, Phase, Bit
<1> QED
  BY <1>3, <1>4, <1>6 DEF ControlInv, TypeOK, HostInv, OutInv, HandledInv, AddressAgrees

(* With no transfer under way only the receive address, the calls and the  *)
(* address matter.                                                         *)
LEMMA IdleNext ==
  ASSUME dev' \in Dev, handled' \in Handled, host' \in Host, host'.phase = "idle",
         dev'.dma = 0, handled'.calls <= 1, dev'.req.kind # "user_5" => dev'.hw_addr = host'.addr
  PROVE  ControlInv'
BY DEF ControlInv, TypeOK, HostInv, OutInv, HandledInv, AddressAgrees

LEMMA ControlReset ==
  ASSUME ControlInv, BusReset
  PROVE  ControlInv'
<1>1. dev \in Dev /\ dev' = BusResetHandler(dev) /\ handled' = NotHandled /\ host' = HostWith(NoTransfer, 0)
  BY DEF ControlInv, TypeOK, BusReset
<1>2. dev' \in Dev /\ dev'.hw_addr = 0 /\ dev'.dma = 0
  BY <1>1, BusResetDoes
<1>3. host' \in Host /\ host'.phase = "idle" /\ host'.addr = 0
  BY <1>1, HostWithIs
<1>4. handled' \in Handled /\ handled'.calls <= 1
  BY <1>1 DEF NotHandled, Handled
<1> QED
  BY <1>2, <1>3, <1>4, IdleNext

LEMMA ControlSetup ==
  ASSUME WholeOut, ControlInv, NEW r \in Request, HostSetup(r)
  PROVE  ControlInv'
<1>1. TypeOK /\ dev.dma = 0 /\ dev.hw_addr = host.addr
  BY DEF ControlInv, OutInv, HostSetup, WholeOut, Reachable
<1>2. /\ dev' \in Dev /\ dev'.req = r /\ dev'.hw_addr = dev.hw_addr /\ dev'.dma = 0
      /\ dev'.addr = IF r.kind = "set_address" THEN 1 ELSE dev.addr
      /\ r.kind \in NoDataKinds => dev'.t_tog = 1
      /\ r.kind = "user_out" => dev'.remaining = r.wLength /\ dev'.r_tog = 1
      /\ handled' = NotHandled
      /\ host' \in Host /\ host'.phase = FirstPhase(r) /\ host'.req = r /\ host'.tog = 1
      /\ host'.n = 0 /\ host'.addr = host.addr
  BY <1>1, SetupStep
<1>3. /\ FirstPhase(r) \in {"data_in", "data_out", "status_in"}
      /\ FirstPhase(r) = "data_in" <=> IsIn(r)
      /\ FirstPhase(r) = "data_out" => r.kind = "user_out" /\ r.wLength > 0
      /\ FirstPhase(r) = "status_in" => r.kind \in NoDataKinds
  BY FirstPhaseIs
<1>4. handled' \in Handled /\ handled'.calls = 0
  BY <1>2 DEF NotHandled, Handled
<1>5. TypeOK'
  BY <1>2, <1>4 DEF TypeOK
<1>6. HostInv'
  BY <1>2, <1>3 DEF HostInv, IsIn
<1>7. OutInv'
  <2>1. CASE FirstPhase(r) = "data_out"
    <3>1. r.wLength \in Nat /\ 0 < r.wLength /\ 0 + r.wLength = r.wLength
      BY <1>3, <2>1, RequestIs
    <3> QED
      BY <1>2, <1>3, <2>1, <3>1 DEF OutInv
  <2>2. CASE FirstPhase(r) # "data_out"
    BY <1>2, <2>2 DEF OutInv
  <2> QED
    BY <2>1, <2>2
<1>8. HandledInv'
  <2>1. "user_out" \notin NoDataKinds
    BY DEF NoDataKinds
  <2> QED
    BY <1>2, <1>3, <1>4, <2>1 DEF HandledInv
<1>9. AddressAgrees'
  BY <1>1, <1>2 DEF AddressAgrees
<1> QED
  BY <1>5, <1>6, <1>7, <1>8, <1>9 DEF ControlInv

(* The host's half of an IN transaction in the data stage.                 *)
LEMMA DataInStep ==
  ASSUME TypeOK, HostInv, NEW lost \in BOOLEAN, HostIn(lost), host.phase = "data_in"
  PROVE  /\ host' \in Host /\ host'.req = host.req /\ host'.addr = host.addr /\ host'.early = host.early
         /\ dev.t_tog # host.tog => host'.phase = "data_in" /\ host'.tog = host.tog /\ host'.got = host.got
         /\ dev.t_tog = host.tog =>
              /\ host'.got = host.got \o Sent
              /\ IF dev.t_len < Mps \/ Len(host.got \o Sent) >= host.req.wLength
                 THEN host'.phase = "status_out"
                 ELSE host'.phase = "data_in" /\ host'.tog = 1 - host.tog
<1> DEFINE h == HostTakes
<1>1. /\ host' \in Host /\ host'.phase = h.phase /\ host'.req = h.req /\ host'.tog = h.tog
      /\ host'.got = h.got /\ host'.early = h.early /\ host'.addr = h.addr
  BY InStep
<1>2. /\ dev.t_tog # host.tog => h = host
      /\ dev.t_tog = host.tog =>
           /\ h.got = host.got \o Sent /\ h.req = host.req /\ h.addr = host.addr /\ h.early = host.early
           /\ IF dev.t_len < Mps \/ Len(host.got \o Sent) >= host.req.wLength
              THEN h.phase = "status_out" ELSE h.phase = "data_in" /\ h.tog = 1 - host.tog
  BY TakesDoes
<1> HIDE DEF h
<1> QED
  BY <1>1, <1>2

LEMMA ControlIn ==
  ASSUME ControlInv, NEW lost \in BOOLEAN, HostIn(lost)
  PROVE  ControlInv'
<1>1. TypeOK /\ HostInv /\ dev \in Dev /\ handled \in Handled /\ dev.hw_addr = host.addr
  BY DEF ControlInv, TypeOK, HostIn, Reachable
<1>2. /\ host.phase \in {"data_in", "status_in"} /\ handled' = handled
      /\ \/ dev' = usb2_ep0_in_handler(dev)
         \/ dev' = dev /\ host.req.kind # "set_address"
      /\ host' \in Host /\ host'.phase = HostTakes.phase /\ host'.addr = HostTakes.addr
  BY <1>1, InStep
<1>3. dev.req = host.req /\ dev.dma = 0 /\ host.req \in Request
  BY <1>2 DEF ControlInv, HostInv, OutInv
<1>4. dev' = usb2_ep0_in_handler(dev) =>
        /\ dev' \in Dev /\ dev'.req = dev.req /\ dev'.addr = dev.addr /\ dev'.dma = dev.dma
        /\ dev'.hw_addr = IF dev.req.kind \in {"set_address", "user_5"} THEN dev.addr ELSE dev.hw_addr
  BY <1>1, InDoes
<1>5. dev' \in Dev /\ dev'.req = dev.req /\ dev'.dma = 0
  BY <1>1, <1>2, <1>3, <1>4
<1>6. CASE host.phase = "data_in"
  <2>1. /\ host' \in Host /\ host'.req = host.req /\ host'.addr = host.addr
        /\ host'.phase \in {"data_in", "status_out"}
    BY <1>1, <1>6, DataInStep
  <2>2. IsIn(host.req) /\ handled.calls = 0
    BY <1>6 DEF ControlInv, HostInv, HandledInv
  <2>3. dev'.hw_addr = dev.hw_addr
    <3>1. dev.req.kind \notin {"set_address", "user_5"}
      BY <1>3, <2>2 DEF IsIn, InKinds, Descriptors
    <3> QED
      BY <1>2, <1>4, <3>1
  <2>4. TypeOK'
    BY <1>1, <1>2, <1>5, <2>1 DEF TypeOK
  <2>5. HostInv'
    BY <1>3, <1>5, <2>1, <2>2 DEF HostInv, IsIn
  <2>6. OutInv' /\ HandledInv'
    BY <1>2, <1>5, <2>1, <2>2 DEF OutInv, HandledInv
  <2>7. AddressAgrees'
    BY <1>1, <2>1, <2>3 DEF AddressAgrees
  <2> QED
    BY <2>4, <2>5, <2>6, <2>7 DEF ControlInv
<1>7. CASE host.phase = "status_in"
  <2>1. dev.t_tog = host.tog /\ (host.req.kind = "set_address" => dev.addr = 1) /\ handled.calls <= 1
    BY <1>7 DEF ControlInv, HostInv, HandledInv
  <2>2. /\ host'.phase = "idle"
        /\ host'.addr = IF host.req.kind = "set_address" THEN 1 ELSE host.addr
    BY <1>1, <1>2, <1>7, <2>1, TakesDoes
  <2>3. dev'.req.kind # "user_5" => dev'.hw_addr = host'.addr
    BY <1>1, <1>2, <1>3, <1>4, <1>5, <2>1, <2>2
  <2> QED
    BY <1>1, <1>2, <1>5, <2>1, <2>2, <2>3, IdleNext
<1> QED
  BY <1>2, <1>6, <1>7

LEMMA ControlOut ==
  ASSUME WholeOut, ControlInv, NEW lost \in BOOLEAN, HostOut(lost)
  PROVE  ControlInv'
<1>1. TypeOK /\ HostInv /\ OutInv /\ HandledInv /\ dev.hw_addr = host.addr
      /\ host.phase \in {"data_out", "status_out"}
  BY DEF ControlInv, HostOut, Reachable
<1>2. CASE host.phase = "data_out"
  <2>1. /\ TypeOK' /\ HostInv' /\ OutInv' /\ HandledInv'
        /\ dev'.hw_addr = dev.hw_addr /\ host'.addr = host.addr
    BY <1>1, <1>2, OutDataStep
  <2> QED
    BY <1>1, <2>1 DEF ControlInv, AddressAgrees
<1>3. CASE host.phase = "status_out"
  <2>1. /\ host.req \in Request /\ dev.req = host.req /\ IsIn(host.req) /\ dev.dma = 0 /\ handled.calls = 0
        /\ handled \in Handled /\ IsIn(dev.req)
    BY <1>1, <1>3 DEF HostInv, OutInv, HandledInv, TypeOK
  <2>2. /\ dev' \in Dev /\ dev'.req = dev.req /\ dev'.hw_addr = dev.hw_addr /\ dev'.dma = dev.dma
        /\ handled' = handled /\ host' \in Host /\ host'.addr = host.addr
        /\ host'.phase = "idle" \/ (host'.phase = host.phase /\ host'.req = host.req)
    BY <1>1, <1>3, <2>1, StatusOutStep
  <2>3. CASE host'.phase = "idle"
    BY <1>1, <2>1, <2>2, <2>3, IdleNext
  <2>4. CASE host'.phase = host.phase /\ host'.req = host.req
    BY <1>1, <1>3, <2>1, <2>2, <2>4 DEF ControlInv, TypeOK, HostInv, OutInv, HandledInv, AddressAgrees, IsIn
  <2> QED
    BY <2>2, <2>3, <2>4
<1> QED
  BY <1>1, <1>2, <1>3

LEMMA ControlEnd ==
  ASSUME ControlInv, HostStalled \/ HostStopsEarly
  PROVE  ControlInv'
<1>1. /\ dev \in Dev /\ handled \in Handled /\ host \in Host /\ host.phase = "data_in"
      /\ dev' = dev /\ handled' = handled
  BY DEF ControlInv, TypeOK, HostStalled, HostStopsEarly
<1>2. /\ dev.dma = 0 /\ handled.calls = 0 /\ host.req \in Request /\ dev.req = host.req /\ IsIn(host.req)
      /\ host.addr \in Nat
  BY <1>1 DEF ControlInv, HostInv, OutInv, HandledInv, Host
<1>3. CASE HostStalled
  <2>1. host' \in Host /\ host'.phase = "idle" /\ host'.addr = host.addr
    BY <1>2, <1>3, HostWithIs DEF HostStalled
  <2> QED
    BY <1>1, <1>2, <1>3, <2>1, IdleNext DEF HostStalled, Reachable
<1>4. CASE HostStopsEarly
  <2>1. host' = [host EXCEPT !.phase = "status_out", !.tog = 1, !.early = TRUE]
    BY <1>4 DEF HostStopsEarly
  <2>2. "status_out" \in Phase /\ 1 \in Bit
    BY DEF Phase, Bit
  <2>3. /\ host' \in Host /\ host'.phase = "status_out" /\ host'.addr = host.addr /\ host'.req = host.req
    BY <1>1, <2>1, <2>2 DEF Host
  <2> QED
    BY <1>1, <1>2, <2>3 DEF ControlInv, TypeOK, HostInv, OutInv, HandledInv, AddressAgrees, IsIn
<1> QED
  BY <1>3, <1>4

LEMMA ControlNext ==
  ASSUME WholeOut, ControlInv, [Next]_vars
  PROVE  ControlInv'
<1>1. CASE BusReset
  BY <1>1, ControlReset
<1>2. ASSUME NEW r \in Request, HostSetup(r) PROVE ControlInv'
  BY <1>2, ControlSetup
<1>3. ASSUME NEW lost \in BOOLEAN, HostIn(lost) PROVE ControlInv'
  BY <1>3, ControlIn
<1>4. ASSUME NEW lost \in BOOLEAN, HostOut(lost) PROVE ControlInv'
  BY <1>4, ControlOut
<1>5. CASE HostStalled \/ HostStopsEarly
  BY <1>5, ControlEnd
<1>6. CASE UNCHANGED vars
  BY <1>6 DEF vars, ControlInv, TypeOK, HostInv, OutInv, HandledInv, AddressAgrees, IsIn
<1> QED
  BY <1>1, <1>2, <1>3, <1>4, <1>5, <1>6 DEF Next

LEMMA ControlKept ==
  ASSUME WholeOut
  PROVE  Spec => []ControlInv
<1>1. Init => ControlInv
  BY ControlInit
<1>2. ControlInv /\ [Next]_vars => ControlInv'
  BY ControlNext
<1> QED
  BY <1>1, <1>2, PTL DEF Spec

(* "Process the request sent by the host in the SETUP stage": whatever is  *)
(* lost, repeated or given up, usb_setup_req is the request of the host    *)
(* for as long as its transfer lasts, because the receive address is back  *)
(* at the start of the buffer whenever a SETUP packet may come.            *)
THEOREM RequestHeld == ASSUME WholeOut PROVE Spec => []RequestIsHosts
<1>1. ControlInv => RequestIsHosts
  BY DEF ControlInv, HostInv, RequestIsHosts
<1> QED
  BY <1>1, ControlKept, PTL

(* usb2_ep0_in_handler takes over the address of SET_ADDRESS after its     *)
(* status stage: host and device agree on the address after every          *)
(* transaction, whatever handshakes are lost other than the host's ACK of  *)
(* that status stage (HostIn leaves it out: after it they disagree).       *)
THEOREM AddressKept == ASSUME WholeOut PROVE Spec => []AddressAgrees
<1>1. ControlInv => AddressAgrees
  BY DEF ControlInv
<1> QED
  BY <1>1, ControlKept, PTL

(* The user's handler of usb2_ep0_out_handler gets the OUT data of a       *)
(* transfer once, whole and in order, for every wLength, packet size and   *)
(* number of repeated packets.                                             *)
THEOREM OutHandledOnce == ASSUME WholeOut PROVE Spec => []OutDataHandledOnce
<1>1. ControlInv => OutDataHandledOnce
  <2> SUFFICES ASSUME ControlInv PROVE OutDataHandledOnce
    OBVIOUS
  <2>1. host.phase \in Phase
    BY DEF ControlInv, TypeOK, Host
  <2> QED
    BY <2>1 DEF ControlInv, HandledInv, OutDataHandledOnce, Phase, DataOutKinds
<1> QED
  BY <1>1, ControlKept, PTL

-----------------------------------------------------------------------------
(* Whole packets do not cross a bound that is a whole number of packets.   *)
LEMMA PacketsFit ==
  ASSUME NEW m \in Nat \ {0}, NEW j \in Nat, NEW w \in Nat, j * m < w, w % m = 0
  PROVE  j * m + m <= w
<1> DEFINE i == w \div m
<1>1. i \in Int /\ w = i * m
  <2>1. w \div m \in Int /\ w = m * (w \div m) + (w % m)
    OBVIOUS
  <2>2. m * (w \div m) = (w \div m) * m
    BY <2>1
  <2> QED
    BY <2>1, <2>2
<1> HIDE DEF i
<1>2. j < i
  <2>1. ASSUME i <= j PROVE FALSE
    <3>1. i * m <= j * m
      BY <1>1, <2>1
    <3> QED
      BY <1>1, <3>1
  <2> QED
    BY <1>1, <2>1
<1>3. (j + 1) * m <= i * m
  <2>1. j + 1 <= i
    BY <1>1, <1>2
  <2> QED
    BY <1>1, <2>1
<1>4. (j + 1) * m = j * m + m
  OBVIOUS
<1> QED
  BY <1>1, <1>3, <1>4

(* At the end of the data stage, by a short packet or with wLength bytes,  *)
(* the host has as much of the n bytes as it asked for.                    *)
LEMMA AnswerEnds ==
  ASSUME NEW pos \in Nat, NEW left \in Nat, NEW w \in Nat, NEW j \in Nat, pos = j * Mps, pos < w,
         pos + left <= w \/ w % Mps = 0,
         NEW len, len = Min2(left, Mps), len < Mps \/ pos + len >= w
  PROVE  pos + len = Min2(pos + left, w)
<1>1. Mps \in Nat \ {0} /\ len \in Nat /\ len <= left /\ len <= Mps /\ (len < Mps => len = left)
  BY Mins
<1>2. pos + len <= w
  <2>1. CASE pos + left <= w
    BY <1>1, <2>1
  <2>2. CASE w % Mps = 0
    <3>1. pos + Mps <= w
      BY <1>1, <2>2, PacketsFit
    <3> QED
      BY <1>1, <3>1
  <2> QED
    BY <2>1, <2>2
<1> HIDE DEF Min2
<1>3. CASE len < Mps
  <2>1. len = left /\ pos + left <= w
    BY <1>1, <1>2, <1>3
  <2> QED
    BY <2>1 DEF Min2
<1>4. CASE pos + len >= w
  <2>1. pos + len = w /\ w <= pos + left
    BY <1>1, <1>2, <1>4
  <2> QED
    BY <2>1 DEF Min2
<1> QED
  BY <1>3, <1>4

(* The device goes on to the next packet of an answer after a full one: it *)
(* may be the empty packet that marks the end of a whole number of them.   *)
LEMMA AnswerMoves ==
  ASSUME TypeOK, IsIn(dev.req), NEW size \in Nat, dev.size = size, dev.pos + dev.remaining = size,
         \E j \in 0..dev.pos : dev.pos = j * Mps,
         dev.t_len = Min2(dev.remaining, Mps), dev.t_len = Mps, dev' = usb2_ep0_in_handler(dev)
  PROVE  /\ dev'.src = dev.src /\ dev'.size = size /\ dev'.pos + dev'.remaining = size
         /\ dev'.pos = dev.pos + Mps /\ \E j \in 0..dev'.pos : dev'.pos = j * Mps
         /\ dev'.t_len = Min2(dev'.remaining, Mps) /\ dev'.t_tog = 1 - dev.t_tog
         /\ dev'.t_len # 0 => ~dev'.buf.setup /\ dev'.buf.bytes = Bytes(dev.src, dev'.pos, dev'.t_len)
<1> DEFINE p == dev.pos
           rem == dev.remaining
<1>1. dev \in Dev /\ p \in Nat /\ rem \in Nat /\ p + rem = size
  BY DEF TypeOK, Dev
<1>2. Mps \in Nat \ {0} /\ Min2(rem, Mps) = Mps /\ Mps <= rem
  BY <1>1, Mins
<1>3. PICK j \in 0..p : p = j * Mps
  OBVIOUS
<1>4. /\ IsIn(dev.req) /\ rem - Mps # 0 =>
           /\ dev'.remaining = rem - Mps /\ dev'.pos = p + Mps
           /\ dev'.src = dev.src /\ dev'.size = dev.size
           /\ dev'.t_len = Min2(dev'.remaining, Mps) /\ dev'.t_tog = 1 - dev.t_tog
           /\ ~dev'.buf.setup /\ dev'.buf.bytes = Bytes(dev.src, dev'.pos, dev'.t_len)
      /\ IsIn(dev.req) /\ rem - Mps = 0 /\ dev.size % Mps = 0 /\ Mps # 0 =>
           /\ dev'.remaining = 0 /\ dev'.pos = p + Mps
           /\ dev'.src = dev.src /\ dev'.size = dev.size
           /\ dev'.t_len = 0 /\ dev'.t_tog = 1 - dev.t_tog
  BY <1>1, <1>2, InDoes
<1> HIDE DEF p, rem
<1>5. \E i \in 0..(p + Mps) : p + Mps = i * Mps
  <2>1. j + 1 \in 0..(p + Mps)
    BY <1>1, <1>2
  <2>2. p + Mps = (j + 1) * Mps
    BY <1>1, <1>2, <1>3
  <2> QED
    BY <2>1, <2>2
<1>6. CASE rem - Mps # 0
  <2>1. (p + Mps) + (rem - Mps) = size
    BY <1>1, <1>2
  <2> QED
    BY <1>4, <1>5, <1>6, <2>1 DEF p
<1>7. CASE rem - Mps = 0
  <2>1. size = j * Mps + Mps /\ (p + Mps) + 0 = size
    BY <1>1, <1>2, <1>3, <1>7
  <2>2. size % Mps = 0
    BY <1>2, <1>3, <2>1
  <2>3. Min2(0, Mps) = 0
    BY <1>2 DEF Min2
  <2> QED
    BY <1>2, <1>4, <1>5, <1>7, <2>1, <2>2, <2>3 DEF p
<1> QED
  BY <1>6, <1>7

LEMMA AnswerSetup ==
  ASSUME WholeOut, ControlInv, NEW r \in Request, HostSetup(r)
  PROVE  AnswerInv'
<1>1. TypeOK /\ dev.dma = 0
  BY DEF ControlInv, OutInv, HostSetup, WholeOut
<1>2. /\ r.kind \in Answered =>
           /\ dev'.remaining = AnswerLength(r) /\ dev'.size = AnswerLength(r)
           /\ dev'.src = r.kind /\ dev'.pos = 0
           /\ ~dev'.buf.setup /\ dev'.buf.bytes = Bytes(r.kind, 0, Min2(AnswerLength(r), Mps))
           /\ dev'.t_len = Min2(AnswerLength(r), Mps) /\ dev'.t_tog = 1
      /\ r.kind \in {"get_status", "user_empty"} => dev'.t_len = 0 /\ dev'.t_tog = 1
      /\ r.kind \in {"bad_descr", "user_stall"} => dev'.t_res = "STALL"
      /\ host'.phase = FirstPhase(r) /\ host'.req = r /\ host'.tog = 1 /\ host'.got = <<>>
  BY <1>1, SetupStep
<1>3. FirstPhase(r) # "status_out"
  BY FirstPhaseIs
<1>4. ASSUME r.kind \in Answered PROVE AnswerSent'
  <2>1. AnswerLength(r) \in Nat /\ 0 + AnswerLength(r) = AnswerLength(r)
    BY <1>4, AnswerIs
  <2>2. r.wLength \in Nat /\ 0 < r.wLength
    <3>1. r.kind \notin NoDataKinds
      BY <1>4 DEF Answered, Descriptors, NoDataKinds
    <3> QED
      BY <3>1, RequestIs
  <2>3. 0 \in 0..0 /\ 0 = 0 * Mps
    BY ControlAssumption
  <2>4. Bytes(r.kind, 0, 0) = <<>>
    BY NoBytes
  <2>5. \E j \in 0..dev'.pos : dev'.pos = j * Mps
    BY <1>2, <1>4, <2>3
  <2> QED
    BY <1>2, <1>4, <2>1, <2>2, <2>4, <2>5 DEF AnswerSent
<1> QED
  BY <1>2, <1>3, <1>4 DEF AnswerInv

(* An IN transaction in the data stage of an answer.                       *)
LEMMA AnswerTaken ==
  ASSUME AnswersFit, ControlInv, AnswerSent, host.phase = "data_in", host.req.kind \in Answered,
         NEW lost \in BOOLEAN, HostIn(lost)
  PROVE  AnswerInv'
<1> DEFINE r == host.req
           k == host.req.kind
           w == host.req.wLength
           pos == dev.pos
           len == dev.t_len
           rem == dev.remaining
           size == AnswerLength(host.req)
<1>1. TypeOK /\ HostInv /\ dev.dma = 0 /\ r \in Request /\ dev.req = r /\ IsIn(dev.req)
  BY DEF ControlInv, HostInv, OutInv
<1>2. pos \in Nat /\ rem \in Nat /\ dev.t_tog \in Bit /\ host.tog \in Bit
  BY <1>1 DEF TypeOK, Dev, Host
<1>3. w \in Nat /\ k \in Source /\ size \in Nat /\ AnswerSize[k] \in Nat
      /\ Min2(size, w) = Min2(AnswerSize[k], w)
  BY <1>1, RequestIs, AnswerIs DEF Source, Kind
<1>4. /\ dev.src = k /\ dev.size = size /\ pos + rem = size /\ len = Min2(rem, Mps)
      /\ \E j \in 0..pos : pos = j * Mps
      /\ len # 0 => ~dev.buf.setup /\ dev.buf.bytes = Bytes(k, pos, len)
  BY DEF AnswerSent
<1>5. Mps \in Nat \ {0} /\ len \in Nat /\ len <= Mps /\ len <= rem
  BY <1>2, <1>4, Mins
<1>6. Sent = Bytes(k, pos, len)
  <2>1. CASE len = 0
    BY <1>1, <2>1, SentIs, NoBytes
  <2>2. CASE len # 0
    <3>1. Len(dev.buf.bytes) = len
      <4>1. k \in Source /\ pos \in Nat /\ len \in Nat
        BY <1>2, <1>3, <1>5
      <4>2. Len(Bytes(k, pos, len)) = len
        BY <4>1, BytesIs
      <4> QED
        BY <1>4, <2>2, <4>2
    <3> QED
      BY <1>1, <1>4, <2>2, <3>1, SentIs
  <2> QED
    BY <2>1, <2>2
<1>7. /\ host'.req = r /\ host'.early = host.early
      /\ dev.t_tog # host.tog => host'.phase = "data_in" /\ host'.tog = host.tog /\ host'.got = host.got
      /\ dev.t_tog = host.tog =>
           /\ host'.got = host.got \o Sent
           /\ IF len < Mps \/ Len(host.got \o Sent) >= w
              THEN host'.phase = "status_out"
              ELSE host'.phase = "data_in" /\ host'.tog = 1 - host.tog
  BY <1>1, DataInStep
<1>8. dev' = usb2_ep0_in_handler(dev) \/ dev' = dev
  BY <1>1, InStep
<1> HIDE DEF k, w, pos, len, rem, size
<1>9. ASSUME len = Mps, dev' = usb2_ep0_in_handler(dev)
      PROVE  /\ dev'.src = k /\ dev'.size = size /\ dev'.pos + dev'.remaining = size
             /\ dev'.pos = pos + Mps /\ \E j \in 0..dev'.pos : dev'.pos = j * Mps
             /\ dev'.t_len = Min2(dev'.remaining, Mps) /\ dev'.t_tog = 1 - dev.t_tog
             /\ dev'.t_len # 0 => ~dev'.buf.setup /\ dev'.buf.bytes = Bytes(k, dev'.pos, dev'.t_len)
  BY <1>1, <1>3, <1>4, <1>9, AnswerMoves DEF pos, rem, len
<1>10. ASSUME len = Mps, pos + Mps < w, host'.phase = "data_in", host'.got = Bytes(k, 0, pos + Mps),
              dev' = usb2_ep0_in_handler(dev), host'.tog = 1 - dev.t_tog
       PROVE  AnswerInv'
  <2>1. AnswerSent'
    BY <1>7, <1>9, <1>10 DEF AnswerSent, k, w, size
  <2>2. k \notin {"get_status", "user_empty", "bad_descr", "user_stall"}
    BY DEF k, Answered, Descriptors
  <2> QED
    BY <1>7, <1>10, <2>1, <2>2 DEF AnswerInv, k
<1>11. ASSUME len = Mps, pos + Mps < w, host'.phase = "data_in", host'.got = Bytes(k, 0, pos + Mps),
              dev' = dev, host'.tog = 1 - dev.t_tog
       PROVE  AnswerInv'
  <2>1. dev'.t_tog # host'.tog
    BY <1>2, <1>11, Bits
  <2>2. AnswerSent'
    BY <1>4, <1>7, <1>11, <2>1 DEF AnswerSent, k, w, size, pos, rem, len
  <2>3. k \notin {"get_status", "user_empty", "bad_descr", "user_stall"}
    BY DEF k, Answered, Descriptors
  <2> QED
    BY <1>7, <1>11, <2>2, <2>3 DEF AnswerInv, k
<1>12. CASE dev.t_tog = host.tog
  <2>1. pos < w /\ host.got = Bytes(k, 0, pos)
    BY <1>12 DEF AnswerSent, pos, w, k
  <2>2. host'.got = Bytes(k, 0, pos + len)
    <3>1. host'.got = Bytes(k, 0, pos) \o Bytes(k, pos, len)
      BY <1>6, <1>7, <1>12, <2>1
    <3> QED
      BY <1>2, <1>3, <1>5, <3>1, BytesMore
  <2>3. pos + len \in Nat /\ Len(host'.got) = pos + len
    <3>1. pos + len \in Nat /\ 0 \in Nat
      BY <1>2, <1>5
    <3>2. Len(Bytes(k, 0, pos + len)) = pos + len
      BY <1>3, <3>1, BytesIs
    <3> QED
      BY <2>2, <3>1, <3>2
  <2>4. CASE len < Mps \/ pos + len >= w
    <3>1. host'.phase = "status_out"
      BY <1>7, <1>12, <2>3, <2>4
    <3>2. pos + len = Min2(size, w)
      <4>1. PICK j \in 0..pos : pos = j * Mps
        BY <1>4
      <4>2. size <= w \/ w % Mps = 0
        BY <1>1 DEF AnswersFit, size, w
      <4>3. j \in Nat
        BY <1>2
      <4> QED
        BY <1>2, <1>3, <1>4, <2>1, <2>4, <4>1, <4>2, <4>3, AnswerEnds
    <3>3. pos + len <= w
      BY <1>3, <3>2 DEF Min2
    <3> QED
      BY <1>3, <1>7, <2>2, <2>3, <3>1, <3>2, <3>3 DEF AnswerInv, k, w
  <2>5. CASE ~(len < Mps \/ pos + len >= w)
    <3>1. host'.phase = "data_in" /\ host'.tog = 1 - host.tog
      BY <1>7, <1>12, <2>3, <2>5
    <3>2. len = Mps /\ pos + Mps < w
      BY <1>2, <1>3, <1>5, <2>5
    <3> QED
      BY <1>8, <1>10, <1>11, <1>12, <2>2, <3>1, <3>2
  <2> QED
    BY <2>4, <2>5
<1>13. CASE dev.t_tog # host.tog
  <2>1. len = Mps /\ pos + Mps < w /\ host.got = Bytes(k, 0, pos + Mps)
    BY <1>13 DEF AnswerSent, pos, w, k, len
  <2>2. host'.phase = "data_in" /\ host'.tog = host.tog /\ host'.got = host.got
    BY <1>7, <1>13
  <2>3. host.tog = 1 - dev.t_tog
    BY <1>2, <1>13 DEF Bit
  <2> QED
    BY <1>8, <1>10, <1>11, <2>1, <2>2, <2>3
<1> QED
  BY <1>12, <1>13

LEMMA AnswerIn ==
  ASSUME AnswersFit, ControlInv, AnswerInv, NEW lost \in BOOLEAN, HostIn(lost)
  PROVE  AnswerInv'
<1>1. TypeOK /\ HostInv /\ host.phase \in {"data_in", "status_in"} /\ dev.t_res = "ACK"
  BY DEF ControlInv, HostIn
<1>2. CASE host.phase = "status_in"
  <2>1. dev.t_tog = host.tog
    BY <1>1, <1>2 DEF HostInv
  <2>2. host'.phase = "idle"
    BY <1>1, <1>2, <2>1, InStep, TakesDoes
  <2> QED
    BY <2>2 DEF AnswerInv
<1>3. CASE host.phase = "data_in"
  <2>1. host.req \in Request /\ IsIn(host.req)
    BY <1>1, <1>3 DEF HostInv
  <2>2. \/ host.req.kind \in Answered \/ host.req.kind \in {"get_status", "user_empty"}
        \/ host.req.kind \in {"bad_descr", "user_stall"}
    BY <2>1, KindsApart DEF IsIn
  <2>3. CASE host.req.kind \in Answered
    BY <1>3, <2>3, AnswerTaken DEF AnswerInv
  <2>4. CASE host.req.kind \in {"get_status", "user_empty"}
    <3>1. dev.t_len = 0 /\ dev.t_tog = host.tog /\ host.got = <<>>
      BY <1>3, <2>4 DEF AnswerInv
    <3>2. Sent = <<>> /\ <<>> \o <<>> = <<>> /\ dev.t_len < Mps
      BY <1>1, <3>1, SentIs, ControlAssumption
    <3>3. host'.req = host.req /\ host'.got = <<>> /\ host'.phase = "status_out"
      BY <1>1, <1>3, <3>1, <3>2, DataInStep
    <3>4. Len(<<>>) = 0 /\ Bytes(host.req.kind, 0, 0) = <<>> /\ 0 <= host.req.wLength
      BY <2>1, RequestIs, NoBytes
    <3>5. host.req.kind \notin Answered
      BY <2>4 DEF Answered, Descriptors
    <3> QED
      BY <3>3, <3>4, <3>5 DEF AnswerInv
  <2>5. CASE host.req.kind \in {"bad_descr", "user_stall"}
    BY <1>1, <1>3, <2>5 DEF AnswerInv
  <2> QED
    BY <2>2, <2>3, <2>4, <2>5
<1> QED
  BY <1>1, <1>2, <1>3

LEMMA AnswerOut ==
  ASSUME WholeOut, ControlInv, AnswerInv, NEW lost \in BOOLEAN, HostOut(lost)
  PROVE  AnswerInv'
<1>1. TypeOK /\ HostInv /\ OutInv /\ HandledInv /\ host.phase \in {"data_out", "status_out"}
  BY DEF ControlInv, HostOut
<1>2. CASE host.phase = "data_out"
  <2>1. host'.phase \in {"data_out", "status_in"}
    BY <1>1, <1>2, OutDataStep
  <2> QED
    BY <2>1 DEF AnswerInv
<1>3. CASE host.phase = "status_out"
  <2>1. IsIn(dev.req)
    BY <1>1, <1>3 DEF HostInv
  <2>2. \/ host'.phase = "idle"
        \/ /\ host'.phase = "status_out" /\ host'.req = host.req
           /\ host'.got = host.got /\ host'.early = host.early
    BY <1>1, <1>3, <2>1, StatusOutStep
  <2> QED
    BY <1>3, <2>2 DEF AnswerInv
<1> QED
  BY <1>1, <1>2, <1>3

(* Where the host stops early it has whole packets of an answer.           *)
LEMMA AnswerCut ==
  ASSUME ControlInv, AnswerInv, HostStopsEarly
  PROVE  AnswerInv'
<1> DEFINE k == host.req.kind
           w == host.req.wLength
<1>1. TypeOK /\ HostInv /\ host \in Host /\ host.phase = "data_in" /\ host.got # <<>>
      /\ host' = [host EXCEPT !.phase = "status_out", !.tog = 1, !.early = TRUE]
  BY DEF ControlInv, TypeOK, HostStopsEarly
<1>2. host'.phase = "status_out" /\ host'.early /\ host'.got = host.got /\ host'.req = host.req
  BY <1>1 DEF Host
<1>3. host.req \in Request /\ IsIn(host.req) /\ dev.pos \in Nat
  BY <1>1 DEF HostInv, TypeOK, Dev
<1>4. k \in Answered
  BY <1>1, <1>3, KindsApart DEF AnswerInv, IsIn
<1>5. w \in Nat /\ k \in Source /\ Mps \in Nat
  BY <1>3, RequestIs, ControlAssumption DEF Source, Kind
<1>6. PICK n \in Nat : n <= w /\ host.got = Bytes(k, 0, n)
  <2>1. \/ dev.pos < w /\ host.got = Bytes(k, 0, dev.pos)
        \/ dev.pos + Mps < w /\ host.got = Bytes(k, 0, dev.pos + Mps)
    BY <1>1, <1>4 DEF AnswerInv, AnswerSent
  <2> HIDE DEF k, w
  <2>2. dev.pos + Mps \in Nat /\ (dev.pos < w => dev.pos <= w) /\ (dev.pos + Mps < w => dev.pos + Mps <= w)
    BY <1>3, <1>5
  <2> QED
    BY <1>3, <2>1, <2>2
<1>7. Len(host.got) = n
  BY <1>5, <1>6, BytesIs
<1> QED
  BY <1>2, <1>6, <1>7 DEF AnswerInv

LEMMA AnswerNext ==
  ASSUME WholeOut, AnswersFit, ControlInv, AnswerInv, [Next]_vars
  PROVE  AnswerInv'
<1>1. CASE BusReset \/ HostStalled
  <2>1. host'.phase = "idle"
    <3>1. host' = HostWith(NoTransfer, 0) \/ host' = HostWith(NoTransfer, host.addr)
      BY <1>1 DEF BusReset, HostStalled
    <3>2. 0 \in Nat /\ host.addr \in Nat
      BY DEF ControlInv, TypeOK, Host
    <3> QED
      BY <3>1, <3>2, HostWithIs
  <2> QED
    BY <2>1 DEF AnswerInv
<1>2. ASSUME NEW r \in Request, HostSetup(r) PROVE AnswerInv'
  BY <1>2, AnswerSetup
<1>3. ASSUME NEW lost \in BOOLEAN, HostIn(lost) PROVE AnswerInv'
  BY <1>3, AnswerIn
<1>4. ASSUME NEW lost \in BOOLEAN, HostOut(lost) PROVE AnswerInv'
  BY <1>4, AnswerOut
<1>5. CASE HostStopsEarly
  BY <1>5, AnswerCut
<1>6. CASE UNCHANGED vars
  BY <1>6 DEF vars, AnswerInv, AnswerSent
<1> QED
  BY <1>1, <1>2, <1>3, <1>4, <1>5, <1>6 DEF Next

(* Whatever is lost, repeated or cut short, what the host has taken is the *)
(* beginning of the answer to its own request, no more than it asked for,  *)
(* and all of it at the end of the data stage: for every packet size,      *)
(* every length of the answers and every wLength, as long as no answer     *)
(* goes past wLength in the middle of a packet.                            *)
THEOREM AnswersArrive ==
  ASSUME WholeOut, AnswersFit
  PROVE  Spec => []AnswerIsHosts
<1>1. Init => AnswerInv
  BY ControlInit DEF Init, HostWith, NoTransfer, AnswerInv
<1>2. ControlInv /\ AnswerInv /\ [Next]_vars => AnswerInv'
  BY AnswerNext
<1>3. ControlInv /\ AnswerInv => AnswerIsHosts
  <2> SUFFICES ASSUME ControlInv, AnswerInv PROVE AnswerIsHosts
    OBVIOUS
  <2>1. CASE host.phase = "status_out"
    BY <2>1 DEF AnswerInv, AnswerIsHosts, Answered
  <2>2. CASE host.phase = "data_in"
    <3>1. host.req \in Request /\ IsIn(host.req) /\ dev.pos \in Nat
      BY <2>2 DEF ControlInv, HostInv, TypeOK, Dev
    <3>2. host.req.wLength \in Nat /\ host.req.kind \in Source /\ Mps \in Nat /\ 0 \in Nat
      BY <3>1, RequestIs, ControlAssumption DEF Source, Kind
    <3>3. PICK n \in Nat : n <= host.req.wLength /\ host.got = Bytes(host.req.kind, 0, n)
      <4>1. \/ dev.pos < host.req.wLength /\ host.got = Bytes(host.req.kind, 0, dev.pos)
            \/ /\ dev.pos + Mps < host.req.wLength
               /\ host.got = Bytes(host.req.kind, 0, dev.pos + Mps)
            \/ host.got = <<>>
        BY <2>2, <3>1, KindsApart DEF AnswerInv, AnswerSent, IsIn
      <4>2. Bytes(host.req.kind, 0, 0) = <<>>
        BY NoBytes
      <4> DEFINE a == dev.pos
                 w == host.req.wLength
      <4>3. a + Mps \in Nat /\ (a < w => a <= w) /\ (a + Mps < w => a + Mps <= w) /\ 0 <= w
        BY <3>1, <3>2
      <4> QED
        BY <3>1, <3>2, <4>1, <4>2, <4>3
    <3>4. Len(host.got) = n
      BY <3>2, <3>3, BytesIs
    <3> QED
      BY <2>2, <3>3, <3>4 DEF AnswerIsHosts
  <2>3. CASE host.phase \notin {"data_in", "status_out"}
    BY <2>3 DEF AnswerIsHosts
  <2> QED
    BY <2>1, <2>2, <2>3
<1> QED
  BY <1>1, <1>2, <1>3, ControlKept, PTL DEF Spec
=============================================================================
