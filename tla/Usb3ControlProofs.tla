-------------------------- MODULE Usb3ControlProofs --------------------------
(***************************************************************************)
(* Endpoint 0 of usb30.c for every packet size, any answers and wLengths,  *)
(* and any number of transfers, given up anywhere, and of hot resets.      *)
(*                                                                         *)
(* TransferInv says, phase by phase, what the registers promise the host:  *)
(* in the data stage the packet in the buffer is the next of the answer to *)
(* the host's own request, and pDescr and SetupLen name what follows it    *)
(* (NextPacket).  Apart are GET_CONFIGURATION and GET_INTERFACE, for which *)
(* the code returns no length and the host gets an empty packet, and the   *)
(* descriptors that are not set, for which the host gets what pDescr was   *)
(* left at: of these only the length is known.                             *)
(***************************************************************************)
EXTENDS Usb3Control, SequenceTheorems, TLAPS

Kind == InKinds \cup DataOutKinds \cup NoDataKinds
Source == Kind \cup {"none", "NULL"}
Byte == [src : Source, off : Nat]
Res == {"ACK", "NRDY", "STALL"}

Endpoint0 == [SetupReqCode : Kind \cup {"none", "invalid"}, SetupLen : Nat, src : Source,
              pos : Nat, buf : Seq(Byte), rx : Res, tx : [res : Res, len : Nat, seq : Nat],
              count : Nat, addr : Nat, config : Nat, state : {"DEFAULT", "ADDRESS", "CONFIGURED"}]
Phase == {"idle", "data_in", "data_out", "status"}
HostRequest == Request \cup {None}
Usb3Host == [phase : Phase, req : HostRequest,
             got : Seq(Byte), seq : Nat, n : Int, stalled : BOOLEAN, addr : Nat]

ControlTypeOK == dev \in Endpoint0 /\ host \in Usb3Host

(* How much is sent: for a descriptor that is not set, wLength bytes.      *)
Total(r) == IF r.kind \in Unset THEN r.wLength ELSE AnswerLength(r)

(* The packet that the host would take is the next of the answer to its    *)
(* own request, and pDescr and SetupLen say what is left after it.         *)
NextPacket ==
  LET n == Len(host.got) IN
  /\ Len(dev.buf) = dev.tx.len
  /\ n + dev.tx.len + dev.SetupLen = Total(host.req)
  /\ dev.SetupLen # 0 => dev.tx.len >= Mps
  /\ host.req.kind \notin Unset =>
       /\ dev.buf = Bytes(host.req.kind, n, dev.tx.len)
       /\ dev.SetupLen # 0 => dev.src = host.req.kind /\ dev.pos = n + dev.tx.len

(* In a transfer the device has the host's request, and the endpoint       *)
(* stalls where nobody handles it.  usb30_standard_req_handler returns no  *)
(* length for the byte of the Empty requests, so that answer is empty.     *)
TransferInv ==
  /\ host.req.kind \in Kind /\ host.req \in Request /\ ~host.stalled
  /\ dev.SetupReqCode \in {host.req.kind, "invalid"}
  /\ dev.rx = "STALL" <=> host.req.kind = "bad_out"
  /\ host.phase = "data_in" =>
       /\ IsIn(host.req)
       /\ dev.tx.res = "STALL" <=> host.req.kind \in Refused
       /\ dev.tx.res = "ACK" /\ dev.tx.seq = host.seq =>
            IF host.req.kind \in Empty THEN dev.tx.len = 0 ELSE NextPacket
  /\ host.phase = "data_out" => host.req.kind \in DataOutKinds
  /\ host.phase = "status" => host.req.kind \notin Refused \ {"bad_out"}
  /\ host.req.kind = "set_address" =>
       host.phase = "status" /\ dev.SetupReqCode = "set_address" /\ dev.SetupLen = 1

ControlInv ==
  /\ ControlTypeOK /\ AnswerIsHosts /\ RefusedIsStalled /\ AddressAgrees
  /\ host.phase # "idle" => TransferInv

-----------------------------------------------------------------------------
LEMMA Packets ==
  ASSUME NEW a \in Nat
  PROVE  /\ Mps \in Nat \ {0} /\ Min2(a, Mps) \in Nat /\ Min2(a, Mps) <= a
         /\ a - Min2(a, Mps) \in Nat /\ Min2(a, Mps) # STALL_LEN
         /\ (a # Min2(a, Mps) => Min2(a, Mps) = Mps) /\ (Min2(a, Mps) = 0 => a = 0)
BY ControlAssumption DEF Min2

LEMMA BytesIs ==
  ASSUME NEW src \in Source, NEW off \in Nat, NEW len \in Nat
  PROVE  /\ Bytes(src, off, len) \in Seq(Byte) /\ Len(Bytes(src, off, len)) = len
         /\ \A i \in 1..len : Bytes(src, off, len)[i] = [src |-> src, off |-> off + i - 1]
<1>1. \A i \in 1..len : off + i - 1 \in Nat
  OBVIOUS
<1>2. \A i \in 1..len : [src |-> src, off |-> off + i - 1] \in Byte
  BY <1>1 DEF Byte
<1> QED BY <1>2 DEF Bytes

LEMMA NoBytes == ASSUME NEW src, NEW off PROVE Bytes(src, off, 0) = <<>>
BY DEF Bytes

(* Bytes that follow each other.                                           *)
LEMMA BytesMore ==
  ASSUME NEW src \in Source, NEW k \in Nat, NEW n \in Nat
  PROVE  Bytes(src, 0, k) \o Bytes(src, k, n) = Bytes(src, 0, k + n)
<1> DEFINE p == Bytes(src, 0, k)
           s == Bytes(src, k, n)
           q == Bytes(src, 0, k + n)
<1>1. /\ p \in Seq(Byte) /\ Len(p) = k /\ \A i \in 1..k : p[i] = [src |-> src, off |-> 0 + i - 1]
      /\ s \in Seq(Byte) /\ Len(s) = n /\ \A i \in 1..n : s[i] = [src |-> src, off |-> k + i - 1]
  BY BytesIs
<1>2. q \in Seq(Byte) /\ Len(q) = k + n /\ \A i \in 1..(k + n) : q[i] = [src |-> src, off |-> 0 + i - 1]
  <2>1. k + n \in Nat
    OBVIOUS
  <2> QED BY <2>1, BytesIs
<1> HIDE DEF p, s, q
<1>3. /\ p \o s \in Seq(Byte) /\ Len(p \o s) = k + n
      /\ \A i \in 1..(k + n) : (p \o s)[i] = IF i <= k THEN p[i] ELSE s[i - k]
  <2>1. p \in Seq(Byte) /\ s \in Seq(Byte) /\ Len(p) = k /\ Len(s) = n
    BY <1>1
  <2>2. /\ p \o s \in Seq(Byte) /\ Len(p \o s) = Len(p) + Len(s)
        /\ \A i \in 1..(Len(p) + Len(s)) :
             (p \o s)[i] = IF i <= Len(p) THEN p[i] ELSE s[i - Len(p)]
    BY <2>1, ConcatProperties
  <2> QED BY <2>1, <2>2
<1>4. ASSUME NEW i \in 1..(k + n) PROVE (p \o s)[i] = q[i]
  <2>1. CASE i \in 1..k
    BY <1>1, <1>2, <1>3, <2>1
  <2>2. CASE i \notin 1..k
    <3>1. i - k \in 1..n /\ k + (i - k) - 1 = 0 + i - 1
      BY <2>2
    <3>2. (p \o s)[i] = s[i - k]
      BY <1>3, <2>2
    <3>3. s[i - k] = [src |-> src, off |-> k + (i - k) - 1]
      BY <1>1, <3>1
    <3> QED BY <1>2, <3>1, <3>2, <3>3
  <2> QED BY <2>1, <2>2
<1>5. p \o s = q
  BY <1>2, <1>3, <1>4, SeqEqual
<1> QED BY <1>5 DEF p, s, q

LEMMA RequestIs ==
  ASSUME NEW r \in Request
  PROVE  /\ r.kind \in Kinds /\ r.kind \in Kind /\ r.wLength \in Nat
         /\ r.kind \in NoDataKinds <=> r.wLength = 0
         /\ r.kind = "get_status" => r.wLength = 2
<1>1. CASE r \in [kind : Kinds \ (NoDataKinds \cup FixedLength), wLength : WLengths]
  BY <1>1, ControlAssumption DEF Kind, FixedLength
<1>2. CASE r \in [kind : Kinds \cap NoDataKinds, wLength : {0}]
  BY <1>2, ControlAssumption DEF Kind, NoDataKinds
<1>3. CASE r \in {[kind |-> k, wLength |-> AnswerSize[k]] : k \in Kinds \cap FixedLength}
  <2>1. PICK k \in Kinds \cap FixedLength : r = [kind |-> k, wLength |-> AnswerSize[k]]
    BY <1>3
  <2>2. AnswerSize[k] \in {1, 2} /\ (k = "get_status" => AnswerSize[k] = 2)
    BY <2>1, ControlAssumption DEF FixedLength
  <2>3. r.kind = k /\ r.wLength = AnswerSize[k] /\ k \in Kinds /\ k \in Kind /\ k \notin NoDataKinds
    BY <2>1, ControlAssumption DEF Kind, NoDataKinds, FixedLength, Empty
  <2> QED BY <2>2, <2>3
<1> QED BY <1>1, <1>2, <1>3 DEF Request

(* Which requests have which stages.                                       *)
LEMMA KindsApart ==
  ASSUME NEW k \in Kind
  PROVE  /\ k \in InKinds <=> k \in Answered \/ k \in Refused \ {"bad_out"}
         /\ k \in Answered <=> k \in Descriptors \cup {"user_in", "get_status"} \/ k \in Empty
         /\ k \in Answered => k \notin Refused /\ k # "bad_out" /\ k # "set_address"
         /\ k \in Empty => k \notin Descriptors \cup {"user_in", "get_status"}
         /\ k \in InKinds => k \notin NoDataKinds \cup DataOutKinds
         /\ k \in DataOutKinds => k \notin NoDataKinds \cup Refused \cup Answered
         /\ k \in Refused => k \in InKinds \/ k = "bad_out"
         /\ k = "set_address" => k \in NoDataKinds /\ k \notin Refused
         /\ k = "bad_out" => k \in NoDataKinds /\ k \in Refused
         /\ k # "none" /\ k # "invalid"
BY DEF Kind, InKinds, DataOutKinds, NoDataKinds, Descriptors, Answered, Refused, Empty

LEMMA UnsetIs == Unset \subseteq Descriptors /\ Unset \cap Empty = {}
BY ControlAssumption DEF Descriptors, Empty

LEMMA AnswerIs ==
  ASSUME NEW r \in Request, r.kind \in Answered
  PROVE  /\ AnswerLength(r) \in Nat /\ Total(r) \in Nat
         /\ ~Overlong(r) =>
              AnswerLength(r) = Min2(AnswerSize[r.kind], r.wLength) /\ Total(r) <= r.wLength
         /\ r.kind = "get_status" => Total(r) = 2
<1>1. AnswerSize[r.kind] \in Nat /\ r.wLength \in Nat /\ AnswerSize["get_status"] = 2
  BY RequestIs, ControlAssumption
<1>2. r.kind = "get_status" => r.wLength = 2 /\ r.kind \notin Unset
  BY RequestIs, UnsetIs DEF Descriptors
<1> QED BY <1>1, <1>2 DEF AnswerLength, Min2, Total, Overlong

-----------------------------------------------------------------------------
(* The handlers, field by field.                                           *)
LEMMA Loaded ==
  ASSUME NEW d \in Endpoint0
  PROVE  LET q == Load(d) n == Min2(d.SetupLen, Mps) IN
         /\ q \in Endpoint0 /\ q.SetupReqCode = d.SetupReqCode /\ q.src = d.src /\ q.addr = d.addr
         /\ q.rx = d.rx /\ q.tx = d.tx /\ q.count = d.count
         /\ q.buf = Bytes(d.src, d.pos, n) /\ Len(q.buf) = n
         /\ q.SetupLen = d.SetupLen - n /\ q.pos = d.pos + n
<1> DEFINE n == Min2(d.SetupLen, Mps)
           b == Bytes(d.src, d.pos, n)
<1>1. d.src \in Source /\ d.pos \in Nat /\ d.SetupLen \in Nat
  BY DEF Endpoint0
<1>2. n \in Nat /\ d.SetupLen - n \in Nat /\ d.pos + n \in Nat
  BY <1>1, Packets
<1>3. b \in Seq(Byte) /\ Len(b) = n
  <2> HIDE DEF n
  <2> QED BY <1>1, <1>2, BytesIs
<1>4. Load(d) = [d EXCEPT !.buf = b, !.SetupLen = d.SetupLen - n, !.pos = d.pos + n]
  BY DEF Load, Endpoint0
<1> HIDE DEF n, b
<1> QED BY <1>2, <1>3, <1>4 DEF Endpoint0, n, b

(* RequestEffect, request by request.                                      *)
LEMMA EffectIs ==
  ASSUME NEW d \in Endpoint0, NEW r \in Request
  PROVE  LET e == RequestEffect(d, r) IN
         /\ e \in Endpoint0 /\ e.addr = d.addr /\ e.rx = d.rx /\ e.tx = d.tx
         /\ e.SetupReqCode \in {r.kind, "invalid"}
         /\ r.kind \in Descriptors \cup {"user_in"} =>
              /\ e.SetupLen = Total(r) - Min2(Total(r), Mps) /\ Len(e.buf) = Min2(Total(r), Mps)
              /\ r.kind \notin Unset => /\ e.src = r.kind /\ e.pos = Min2(Total(r), Mps)
                                        /\ e.buf = Bytes(r.kind, 0, Min2(Total(r), Mps))
         /\ r.kind = "get_status" =>
              e.SetupLen = 0 /\ e.buf = Bytes("get_status", 0, 2) /\ Len(e.buf) = 2
         /\ r.kind = "set_address" => e.SetupReqCode = "set_address" /\ e.SetupLen = 1
<1> DEFINE e0 == [d EXCEPT !.SetupReqCode = r.kind, !.SetupLen = r.wLength]
           e == RequestEffect(d, r)
<1>1. /\ e0 \in Endpoint0 /\ e0.addr = d.addr /\ e0.rx = d.rx /\ e0.tx = d.tx
      /\ e0.SetupReqCode = r.kind /\ r.kind \in Source
  BY RequestIs DEF Endpoint0, Source
<1> HIDE DEF e0
<1>0. Unset \subseteq Descriptors
  BY UnsetIs
<1>2. CASE r.kind \in (Descriptors \ Unset) \cup {"user_in"}
  <2> DEFINE m == Total(r)
             x == [e0 EXCEPT !.src = r.kind, !.pos = 0, !.SetupLen = m]
             n == Min2(m, Mps)
  <2>1. m \in Nat /\ r.kind \notin Unset
    BY <1>0, <1>2, AnswerIs DEF Answered, Descriptors
  <2>2. e = Load(x)
    <3>1. e = Answer(e0, r, AnswerLength(r))
      BY <1>2, <2>1 DEF RequestEffect, e0, Descriptors
    <3> QED BY <2>1, <3>1 DEF Answer, Total
  <2> HIDE DEF m, e
  <2>3. /\ x \in Endpoint0 /\ x.SetupReqCode = r.kind /\ x.src = r.kind /\ x.pos = 0
        /\ x.SetupLen = m /\ x.addr = d.addr /\ x.rx = d.rx /\ x.tx = d.tx
    BY <1>1, <2>1 DEF Endpoint0
  <2> HIDE DEF x
  <2>4. /\ e \in Endpoint0 /\ e.SetupReqCode = x.SetupReqCode /\ e.src = x.src /\ e.addr = x.addr
        /\ e.rx = x.rx /\ e.tx = x.tx /\ e.buf = Bytes(x.src, x.pos, Min2(x.SetupLen, Mps))
        /\ Len(e.buf) = Min2(x.SetupLen, Mps)
        /\ e.SetupLen = x.SetupLen - Min2(x.SetupLen, Mps) /\ e.pos = x.pos + Min2(x.SetupLen, Mps)
    BY <2>2, <2>3, Loaded
  <2>5. n \in Nat /\ 0 + n = n
    BY <2>1, Packets
  <2> QED BY <1>2, <2>3, <2>4, <2>5 DEF m, n, e, Descriptors
<1>12. CASE r.kind \in Unset
  <2>1. e = Load(e0)
    BY <1>0, <1>12 DEF RequestEffect, e0, Descriptors
  <2> HIDE DEF e
  <2>2. e0.SetupLen = Total(r)
    BY <1>12 DEF e0, Endpoint0, Total
  <2>3. /\ e \in Endpoint0 /\ e.SetupReqCode = e0.SetupReqCode /\ e.addr = e0.addr
        /\ e.rx = e0.rx /\ e.tx = e0.tx /\ Len(e.buf) = Min2(Total(r), Mps)
        /\ e.SetupLen = Total(r) - Min2(Total(r), Mps)
    BY <1>1, <2>1, <2>2, Loaded
  <2>4. r.kind \in Descriptors
    BY <1>0, <1>12
  <2> QED BY <1>1, <1>12, <2>3, <2>4 DEF e, Descriptors
<1>3. CASE r.kind = "get_status"
  <2> DEFINE b == Bytes("get_status", 0, 2)
  <2>1. e = [e0 EXCEPT !.buf = b, !.SetupLen = 0]
    BY <1>0, <1>3 DEF RequestEffect, e0, Descriptors
  <2>2. b \in Seq(Byte) /\ Len(b) = 2
    <3>1. "get_status" \in Source
      BY <1>1, <1>3
    <3> QED BY <3>1, BytesIs
  <2> HIDE DEF e, b
  <2>3. /\ e \in Endpoint0 /\ e.addr = e0.addr /\ e.rx = e0.rx /\ e.tx = e0.tx
        /\ e.SetupReqCode = e0.SetupReqCode /\ e.SetupLen = 0 /\ e.buf = b
    BY <1>1, <2>1, <2>2 DEF Endpoint0
  <2>4. r.kind \notin Descriptors \cup {"user_in"}
    BY <1>3 DEF Descriptors
  <2> QED BY <1>1, <1>3, <2>2, <2>3, <2>4 DEF e, b
<1>4. CASE r.kind \in {"set_address", "isoch_delay"}
  <2>1. e = [e0 EXCEPT !.SetupLen = 1]
    BY <1>0, <1>4 DEF RequestEffect, e0, Descriptors, SetAddress
  <2> HIDE DEF e
  <2>2. /\ e \in Endpoint0 /\ e.addr = e0.addr /\ e.rx = e0.rx /\ e.tx = e0.tx
        /\ e.SetupReqCode = e0.SetupReqCode /\ e.SetupLen = 1
    BY <1>1, <2>1 DEF Endpoint0
  <2>3. r.kind \notin Descriptors \cup {"user_in", "get_status"}
    BY <1>4 DEF Descriptors
  <2> QED BY <1>1, <1>4, <2>2, <2>3 DEF e
<1>5. CASE r.kind = "set_config"
  <2>1. e = [e0 EXCEPT !.config = 1, !.state = "CONFIGURED"]
    BY <1>0, <1>5 DEF RequestEffect, e0, Descriptors
  <2> HIDE DEF e
  <2>2. /\ e \in Endpoint0 /\ e.addr = e0.addr /\ e.rx = e0.rx /\ e.tx = e0.tx
        /\ e.SetupReqCode = e0.SetupReqCode
    BY <1>1, <2>1 DEF Endpoint0
  <2>3. r.kind \notin Descriptors \cup {"user_in", "get_status"}
    BY <1>5 DEF Descriptors
  <2> QED BY <1>1, <1>5, <2>2, <2>3 DEF e
<1>6. CASE r.kind = "set_config0"
  <2>1. e = [e0 EXCEPT !.config = 0]
    BY <1>0, <1>6 DEF RequestEffect, e0, Descriptors
  <2> HIDE DEF e
  <2>2. /\ e \in Endpoint0 /\ e.addr = e0.addr /\ e.rx = e0.rx /\ e.tx = e0.tx
        /\ e.SetupReqCode = e0.SetupReqCode
    BY <1>1, <2>1 DEF Endpoint0
  <2>3. r.kind \notin Descriptors \cup {"user_in", "get_status"}
    BY <1>6 DEF Descriptors
  <2> QED BY <1>1, <1>6, <2>2, <2>3 DEF e
<1>7. CASE r.kind \in {"bad_descr", "bad_in", "bad_out"}
  <2>1. e = [e0 EXCEPT !.SetupReqCode = "invalid"]
    BY <1>0, <1>7 DEF RequestEffect, e0, Descriptors
  <2> HIDE DEF e
  <2>2. /\ e \in Endpoint0 /\ e.addr = e0.addr /\ e.rx = e0.rx /\ e.tx = e0.tx
        /\ e.SetupReqCode = "invalid"
    BY <1>1, <2>1 DEF Endpoint0
  <2>3. r.kind \notin Descriptors \cup {"user_in", "get_status"}
    BY <1>7 DEF Descriptors
  <2> QED BY <1>1, <1>7, <2>2, <2>3 DEF e
<1>8. CASE r.kind \in {"user_stall", "user_null"}
  <2> DEFINE n == IF r.kind = "user_stall" THEN STALL_LEN ELSE AnswerSize["user_in"]
  <2>1. e = [e0 EXCEPT !.SetupLen = n]
    BY <1>0, <1>8 DEF RequestEffect, e0, Descriptors
  <2> HIDE DEF e
  <2>2. /\ e \in Endpoint0 /\ e.addr = e0.addr /\ e.rx = e0.rx /\ e.tx = e0.tx
        /\ e.SetupReqCode = e0.SetupReqCode
    <3>1. n \in Nat
      BY ControlAssumption DEF STALL_LEN, Answered
    <3> HIDE DEF n
    <3> QED BY <1>1, <2>1, <3>1 DEF Endpoint0
  <2>3. r.kind \notin Descriptors \cup {"user_in", "get_status"}
    BY <1>8 DEF Descriptors
  <2> QED BY <1>1, <1>8, <2>2, <2>3 DEF e
<1>9. CASE r.kind \in {"user_5", "user_nodata", "user_out"}
  <2>1. e = [e0 EXCEPT !.SetupLen = 0]
    BY <1>0, <1>9 DEF RequestEffect, e0, Descriptors
  <2> HIDE DEF e
  <2>2. /\ e \in Endpoint0 /\ e.addr = e0.addr /\ e.rx = e0.rx /\ e.tx = e0.tx
        /\ e.SetupReqCode = e0.SetupReqCode
    BY <1>1, <2>1 DEF Endpoint0
  <2>3. r.kind \notin Descriptors \cup {"user_in", "get_status"}
    BY <1>9 DEF Descriptors
  <2> QED BY <1>1, <1>9, <2>2, <2>3 DEF e
<1>10. CASE r.kind = "get_config"
  <2> DEFINE b == Bytes("get_config", 0, 1)
  <2>1. e = [e0 EXCEPT !.buf = b, !.SetupLen = 1]
    BY <1>0, <1>10 DEF RequestEffect, e0, Descriptors
  <2>2. b \in Seq(Byte)
    <3>1. "get_config" \in Source
      BY <1>1, <1>10
    <3> QED BY <3>1, BytesIs
  <2> HIDE DEF e, b
  <2>3. /\ e \in Endpoint0 /\ e.addr = e0.addr /\ e.rx = e0.rx /\ e.tx = e0.tx
        /\ e.SetupReqCode = e0.SetupReqCode
    BY <1>1, <2>1, <2>2 DEF Endpoint0
  <2>4. r.kind \notin Descriptors \cup {"user_in"}
    BY <1>10 DEF Descriptors
  <2> QED BY <1>1, <1>10, <2>3, <2>4 DEF e
<1>11. CASE r.kind \notin Descriptors \cup {"user_in", "get_status", "get_config", "set_address",
                 "isoch_delay", "set_config", "set_config0", "bad_descr", "bad_in", "bad_out",
                 "user_stall", "user_null", "user_5", "user_nodata", "user_out"}
  <2>1. e = e0
    BY <1>0, <1>11 DEF RequestEffect, e0
  <2> QED BY <1>1, <1>11, <2>1
<1> QED BY <1>12, <1>2, <1>3, <1>4, <1>5, <1>6, <1>7, <1>8, <1>9, <1>10, <1>11

(* How a request leaves the endpoint: with the first packet of an answer,  *)
(* stalled in one of the directions, or listening.                         *)
LEMMA SetupIs ==
  ASSUME NEW d \in Endpoint0, NEW r \in Request
  PROVE  LET q == SetupStage(d, r) IN
         /\ q \in Endpoint0 /\ q.addr = d.addr
         /\ q.SetupReqCode \in {r.kind, "invalid"}
         /\ q.rx = "STALL" <=> r.kind = "bad_out"
         /\ IsIn(r) => (q.tx.res = "STALL" <=> r.kind \in Refused)
         /\ r.kind \in Empty => q.tx.len = 0
         /\ r.kind \in Answered \ Empty =>
              /\ q.tx.seq = 0 /\ Len(q.buf) = q.tx.len
              /\ q.tx.len \in Nat /\ q.tx.len + q.SetupLen = Total(r)
              /\ q.SetupLen # 0 => q.tx.len >= Mps
              /\ r.kind \notin Unset =>
                   /\ q.buf = Bytes(r.kind, 0, q.tx.len)
                   /\ q.SetupLen # 0 => q.src = r.kind /\ q.pos = q.tx.len
         /\ r.kind = "set_address" => q.SetupReqCode = "set_address" /\ q.SetupLen = 1
<1> DEFINE d0 == [d EXCEPT !.rx = "NRDY"]
           e == RequestEffect(d0, r)
           len == RequestLength(e, r)
           q == SetupStage(d, r)
<1>1. d0 \in Endpoint0 /\ d0.addr = d.addr /\ d0.rx = "NRDY"
  BY DEF Endpoint0, Res
<1> HIDE DEF d0
<1>2. /\ e \in Endpoint0 /\ e.addr = d.addr /\ e.rx = "NRDY"
      /\ e.SetupReqCode \in {r.kind, "invalid"}
      /\ r.kind \in Descriptors \cup {"user_in"} =>
           /\ e.SetupLen = Total(r) - Min2(Total(r), Mps) /\ Len(e.buf) = Min2(Total(r), Mps)
           /\ r.kind \notin Unset => /\ e.src = r.kind /\ e.pos = Min2(Total(r), Mps)
                                     /\ e.buf = Bytes(r.kind, 0, Min2(Total(r), Mps))
      /\ r.kind = "get_status" =>
           e.SetupLen = 0 /\ e.buf = Bytes("get_status", 0, 2) /\ Len(e.buf) = 2
      /\ r.kind = "set_address" => e.SetupReqCode = "set_address" /\ e.SetupLen = 1
  BY <1>1, EffectIs
<1>3. /\ IsIn(r) /\ len = STALL_LEN => q = [e EXCEPT !.tx = [NotReady EXCEPT !.res = "STALL"]]
      /\ IsIn(r) /\ len # STALL_LEN => q = [e EXCEPT !.tx = Send(len, 0)]
      /\ ~IsIn(r) /\ len = STALL_LEN => q = [e EXCEPT !.rx = "STALL"]
      /\ ~IsIn(r) /\ len # STALL_LEN => q = [e EXCEPT !.rx = "ACK"]
  BY DEF SetupStage, d0
<1>4. r.kind \in Kind
  BY RequestIs
<1>5. CASE r.kind \in Answered \ Empty
  <2>1. /\ IsIn(r) /\ r.kind \notin Refused /\ r.kind # "bad_out" /\ r.kind # "set_address"
        /\ r.kind \in Descriptors \cup {"user_in", "get_status"}
    BY <1>4, <1>5, KindsApart DEF IsIn
  <2>2. len = Len(e.buf)
    <3> HIDE DEF e
    <3> QED BY <2>1 DEF RequestLength
  <2> DEFINE m == Total(r)
             n == Min2(m, Mps)
  <2>3. m \in Nat /\ (r.kind = "get_status" => m = 2 /\ r.kind \notin Unset)
    BY <1>5, AnswerIs, UnsetIs DEF Descriptors
  <2>4. n \in Nat /\ m - n \in Nat /\ n # STALL_LEN /\ (m # n => n = Mps) /\ Mps \in Nat
    BY <2>3, Packets
  <2> HIDE DEF e, q, len, m, n
  <2>5. /\ len \in Nat /\ len # STALL_LEN /\ Len(e.buf) = len
        /\ len + e.SetupLen = m /\ (e.SetupLen # 0 => len = Mps)
        /\ r.kind \notin Unset => /\ e.buf = Bytes(r.kind, 0, len)
                                  /\ e.SetupLen # 0 => e.src = r.kind /\ e.pos = len
    <3>1. CASE r.kind \in Descriptors \cup {"user_in"}
      <4>1. /\ e.SetupLen = m - n /\ len = n
            /\ r.kind \notin Unset => e.src = r.kind /\ e.pos = n /\ e.buf = Bytes(r.kind, 0, n)
        BY <1>2, <2>2, <3>1 DEF m, n
      <4> QED BY <2>2, <2>3, <2>4, <4>1
    <3>2. CASE r.kind = "get_status"
      <4>1. e.SetupLen = 0 /\ e.buf = Bytes(r.kind, 0, 2) /\ len = 2 /\ m = 2
        BY <1>2, <2>2, <2>3, <3>2
      <4>2. 2 \in Nat /\ 2 # STALL_LEN /\ 2 + 0 = 2
        BY DEF STALL_LEN
      <4> QED BY <2>2, <4>1, <4>2
    <3> QED BY <2>1, <3>1, <3>2
  <2>6. q = [e EXCEPT !.tx = Send(len, 0)]
    BY <1>3, <2>1, <2>5
  <2>7. /\ q \in Endpoint0 /\ q.addr = e.addr /\ q.rx = e.rx /\ q.SetupReqCode = e.SetupReqCode
        /\ q.tx.res = "ACK" /\ q.tx.seq = 0 /\ q.tx.len = len /\ q.buf = e.buf
        /\ q.SetupLen = e.SetupLen /\ q.src = e.src /\ q.pos = e.pos
    BY <1>2, <2>5, <2>6 DEF Endpoint0, Send, Res
  <2>8. len \in Nat /\ Mps \in Nat /\ (len = Mps => len >= Mps)
    BY <2>4, <2>5
  <2>9. /\ q \in Endpoint0 /\ q.addr = d.addr /\ q.SetupReqCode \in {r.kind, "invalid"}
        /\ q.rx # "STALL" /\ q.tx.res # "STALL" /\ q.tx.seq = 0
        /\ q.tx.len \in Nat /\ Len(q.buf) = q.tx.len
        /\ q.tx.len + q.SetupLen = m
        /\ q.SetupLen # 0 => q.tx.len >= Mps
        /\ r.kind \notin Unset => /\ q.buf = Bytes(r.kind, 0, q.tx.len)
                                  /\ q.SetupLen # 0 => q.src = r.kind /\ q.pos = q.tx.len
    BY <1>2, <2>5, <2>7, <2>8
  <2> QED BY <1>5, <2>1, <2>9 DEF m, q
<1>6. CASE r.kind \in Refused
  <2>1. /\ len = STALL_LEN /\ r.kind \notin Answered /\ r.kind \notin Empty
        /\ r.kind # "set_address"
    BY <1>6 DEF RequestLength, Refused, Answered, Descriptors, Empty
  <2>2. IsIn(r) <=> r.kind # "bad_out"
    BY <1>4, <1>6, KindsApart DEF IsIn
  <2> HIDE DEF e, q, len
  <2>3. CASE r.kind = "bad_out"
    <3>1. q = [e EXCEPT !.rx = "STALL"]
      BY <1>3, <2>1, <2>2, <2>3
    <3>2. q \in Endpoint0 /\ q.addr = e.addr /\ q.rx = "STALL" /\ q.SetupReqCode = e.SetupReqCode
      BY <1>2, <3>1 DEF Endpoint0, Res
    <3> QED BY <1>2, <2>1, <2>2, <2>3, <3>2 DEF q
  <2>4. CASE r.kind # "bad_out"
    <3>1. q = [e EXCEPT !.tx = [NotReady EXCEPT !.res = "STALL"]]
      BY <1>3, <2>1, <2>2, <2>4
    <3>2. /\ q \in Endpoint0 /\ q.addr = e.addr /\ q.rx = e.rx /\ q.SetupReqCode = e.SetupReqCode
          /\ q.tx.res = "STALL"
      BY <1>2, <3>1 DEF Endpoint0, NotReady, Res
    <3> QED BY <1>2, <1>6, <2>1, <2>4, <3>2 DEF q
  <2> QED BY <2>3, <2>4
<1>7. CASE r.kind \in Empty
  <2>1. /\ len = 0 /\ IsIn(r) /\ r.kind \notin Refused /\ r.kind \notin Answered \ Empty
        /\ r.kind # "bad_out" /\ r.kind # "set_address"
    BY <1>7 DEF RequestLength, Answered, Refused, IsIn, InKinds, Descriptors, Empty
  <2> HIDE DEF e, q, len
  <2>2. q = [e EXCEPT !.tx = Send(0, 0)]
    BY <1>3, <2>1 DEF STALL_LEN
  <2>3. /\ q \in Endpoint0 /\ q.addr = e.addr /\ q.rx = "NRDY" /\ q.SetupReqCode = e.SetupReqCode
        /\ q.tx.len = 0 /\ q.tx.res = "ACK"
    BY <1>2, <2>2 DEF Endpoint0, Send, Res
  <2> QED BY <1>2, <1>7, <2>1, <2>3 DEF q
<1>8. CASE r.kind \notin Answered \cup Refused
  <2>1. len = 0 /\ ~IsIn(r) /\ r.kind # "bad_out" /\ r.kind \notin Empty
    BY <1>4, <1>8, KindsApart DEF RequestLength, Answered, Refused, IsIn, InKinds
  <2> HIDE DEF e, q, len
  <2>2. q = [e EXCEPT !.rx = "ACK"]
    BY <1>3, <2>1 DEF STALL_LEN
  <2>3. /\ q \in Endpoint0 /\ q.addr = e.addr /\ q.rx = "ACK" /\ q.SetupReqCode = e.SetupReqCode
        /\ q.SetupLen = e.SetupLen
    BY <1>2, <2>2 DEF Endpoint0, Res
  <2> QED BY <1>2, <1>8, <2>1, <2>3 DEF q
<1> QED BY <1>5, <1>6, <1>7, <1>8

(* After a packet: the next one of what is left, or the status stage.      *)
LEMMA InStageIs ==
  ASSUME NEW d \in Endpoint0
  PROVE  LET q == InStage(d) n == Min2(d.SetupLen, Mps) IN
         /\ q \in Endpoint0 /\ q.addr = d.addr /\ q.SetupReqCode = d.SetupReqCode
         /\ q.tx.res = "ACK" /\ q.rx # "STALL"
         /\ \/ q.tx.seq = 0
            \/ /\ n # 0 /\ q.tx.len = n /\ Len(q.buf) = n /\ q.buf = Bytes(d.src, d.pos, n)
               /\ q.SetupLen = d.SetupLen - n /\ q.src = d.src /\ q.pos = d.pos + n
<1> DEFINE h == ep0_in_handler(d)
           e == [h EXCEPT !.count = h.count + 1]
           n == Min2(d.SetupLen, Mps)
           len == IF IsNull(d) THEN 0 ELSE Len(e.buf)
           q == InStage(d)
<1>1. d.SetupLen \in Nat
  BY DEF Endpoint0
<1>2. n \in Nat
  BY <1>1, Packets
<1>3. /\ h \in Endpoint0 /\ h.addr = d.addr /\ h.SetupReqCode = d.SetupReqCode
      /\ ~IsNull(d) => /\ h.buf = Bytes(d.src, d.pos, n) /\ Len(h.buf) = n
                       /\ h.SetupLen = d.SetupLen - n /\ h.src = d.src /\ h.pos = d.pos + n
  <2>1. CASE ~IsNull(d)
    BY <2>1, Loaded DEF ep0_in_handler
  <2>2. CASE IsNull(d)
    BY <2>2 DEF ep0_in_handler
  <2> QED BY <2>1, <2>2
<1>4. q = IF len = 0 THEN InDone(e) ELSE [e EXCEPT !.rx = "NRDY", !.tx = Send(len, e.count)]
  BY <1>3 DEF InStage, Endpoint0
<1> HIDE DEF h, n, q
<1>5. /\ e \in Endpoint0 /\ e.addr = h.addr /\ e.SetupReqCode = h.SetupReqCode /\ e.buf = h.buf
      /\ e.SetupLen = h.SetupLen /\ e.src = h.src /\ e.pos = h.pos /\ e.count \in Nat
  <2>1. PICK c : c = h.count
    OBVIOUS
  <2>2. c \in Nat
    BY <1>3, <2>1 DEF Endpoint0
  <2>3. h.count + 1 \in Nat
    BY <2>1, <2>2
  <2> QED BY <1>3, <2>3 DEF Endpoint0
<1> HIDE DEF e
<1>6. len \in Nat
  BY <1>2, <1>3, <1>5
<1>7. CASE len = 0
  <2>1. q = [e EXCEPT !.count = 0, !.rx = "ACK", !.tx = Send(0, 0)]
    BY <1>4, <1>7 DEF InDone
  <2>2. /\ q \in Endpoint0 /\ q.addr = e.addr /\ q.SetupReqCode = e.SetupReqCode
        /\ q.tx.res = "ACK" /\ q.rx = "ACK" /\ q.tx.seq = 0
    BY <1>5, <2>1 DEF Endpoint0, Send, Res
  <2> QED BY <1>3, <1>5, <2>2 DEF q
<1>8. CASE len # 0
  <2> HIDE DEF len
  <2>1. q = [e EXCEPT !.rx = "NRDY", !.tx = Send(len, e.count)]
    BY <1>4, <1>8
  <2>2. /\ q \in Endpoint0 /\ q.addr = e.addr /\ q.SetupReqCode = e.SetupReqCode
        /\ q.tx.res = "ACK" /\ q.rx = "NRDY" /\ q.tx.len = len /\ q.buf = e.buf
        /\ q.SetupLen = e.SetupLen /\ q.src = e.src /\ q.pos = e.pos
    BY <1>5, <1>6, <2>1 DEF Endpoint0, Send, Res
  <2>3. ~IsNull(d) /\ len = n
    BY <1>3, <1>5, <1>8 DEF len
  <2> QED BY <1>3, <1>5, <1>8, <2>2, <2>3 DEF q, n
<1> QED BY <1>7, <1>8

(* Only a status stage of SET_ADDRESS, or of request 5 of another type,    *)
(* changes the address.                                                    *)
LEMMA StatusStageIs ==
  ASSUME NEW d \in Endpoint0
  PROVE  LET q == StatusStage(d) IN
         /\ q \in Endpoint0 /\ q.SetupReqCode = d.SetupReqCode
         /\ q.addr = IF d.SetupReqCode \in {"set_address", "user_5"} THEN d.SetupLen ELSE d.addr
<1> DEFINE e == ep0_status_stage_handler(d)
           q == StatusStage(d)
<1>1. /\ e \in Endpoint0 /\ e.SetupReqCode = d.SetupReqCode
      /\ e.addr = IF d.SetupReqCode \in {"set_address", "user_5"} THEN d.SetupLen ELSE d.addr
  <2>1. CASE d.SetupReqCode \in {"set_address", "user_5"}
    <3>1. e = [d EXCEPT !.state = "ADDRESS", !.addr = d.SetupLen]
      BY <2>1 DEF ep0_status_stage_handler
    <3> QED BY <2>1, <3>1 DEF Endpoint0
  <2>2. CASE d.SetupReqCode \notin {"set_address", "user_5"}
    BY <2>2 DEF ep0_status_stage_handler
  <2> QED BY <2>1, <2>2
<1>2. q = [e EXCEPT !.rx = "NRDY", !.tx = NotReady]
  BY DEF StatusStage
<1> HIDE DEF e, q
<1>3. q \in Endpoint0 /\ q.SetupReqCode = e.SetupReqCode /\ q.addr = e.addr
  BY <1>1, <1>2 DEF Endpoint0, NotReady, Res
<1> QED BY <1>1, <1>3 DEF q

LEMMA HotResetIs ==
  ASSUME NEW d \in Endpoint0
  PROVE  HotResetHandler(d) \in Endpoint0 /\ HotResetHandler(d).addr = 0
BY DEF HotResetHandler, Endpoint0, NotReady, Res

-----------------------------------------------------------------------------
Starting(p, r, a) ==
  [phase |-> p, req |-> r, got |-> <<>>, seq |-> 0, n |-> 0, stalled |-> FALSE, addr |-> a]

LEMMA StartingIs ==
  ASSUME NEW p \in Phase, NEW r \in HostRequest, NEW a \in Nat, NEW h, h = Starting(p, r, a)
  PROVE  /\ h \in Usb3Host /\ h.phase = p /\ h.req = r /\ h.got = <<>> /\ h.seq = 0
         /\ ~h.stalled /\ h.addr = a
<1>1. <<>> \in Seq(Byte) /\ 0 \in Nat
  OBVIOUS
<1> QED BY <1>1 DEF Starting, Usb3Host

LEMMA HostAtIs ==
  /\ HostAt(Idle, 0) = Starting("idle", None, 0)
  /\ \A p, r, a : HostAt([Idle EXCEPT !.phase = p, !.req = r], a) = Starting(p, r, a)
BY DEF HostAt, Idle, Starting

LEMMA IdleHostIs ==
  LET h == HostAt(Idle, 0) IN
  /\ h \in Usb3Host /\ h.phase = "idle" /\ h.req = None /\ h.got = <<>> /\ h.addr = 0
<1> DEFINE h == HostAt(Idle, 0)
<1>1. "idle" \in Phase /\ None \in HostRequest /\ 0 \in Nat
  BY DEF Phase, HostRequest
<1>2. h = Starting("idle", None, 0)
  BY HostAtIs
<1> HIDE DEF h
<1>3. h \in Usb3Host /\ h.phase = "idle" /\ h.req = None /\ h.got = <<>> /\ h.addr = 0
  BY <1>1, <1>2, StartingIs
<1> QED BY <1>3 DEF h

(* A host that starts anew has nothing yet of an answer.                   *)
LEMMA NothingGot ==
  ASSUME NEW r \in Request \cup {None}
  PROVE  <<>> = Bytes(r.kind, 0, Len(<<>>)) /\ Len(<<>>) <= r.wLength
<1>1. Len(<<>>) = 0 /\ Bytes(r.kind, 0, 0) = <<>>
  BY NoBytes
<1>2. r.wLength \in Nat
  BY RequestIs DEF None
<1> QED BY <1>1, <1>2

LEMMA NoneIs == None.kind = "none" /\ None.wLength = 0 /\ None \notin Request
BY RequestIs, KindsApart DEF None

LEMMA ControlInvInit == Init => ControlInv
<1> SUFFICES ASSUME Init PROVE ControlInv
  OBVIOUS
<1>1. dev \in Endpoint0 /\ dev.addr = 0
  <2>1. <<>> \in Seq(Byte)
    OBVIOUS
  <2> QED BY <2>1 DEF Init, Endpoint0, NotReady, Res, Source
<1>2. /\ host \in Usb3Host /\ host.phase = "idle" /\ host.req = None /\ host.got = <<>>
      /\ host.addr = 0
  BY IdleHostIs DEF Init
<1>3. AnswerIsHosts
  BY <1>2, NothingGot DEF AnswerIsHosts
<1> QED BY <1>1, <1>2, <1>3 DEF ControlInv, ControlTypeOK, RefusedIsStalled, AddressAgrees

LEMMA ControlHotReset == ASSUME ControlInv, HotReset PROVE ControlInv'
<1>1. dev' \in Endpoint0 /\ dev'.addr = 0
  BY HotResetIs DEF HotReset, ControlInv, ControlTypeOK
<1>2. /\ host' \in Usb3Host /\ host'.phase = "idle" /\ host'.req = None /\ host'.got = <<>>
      /\ host'.addr = 0
  BY IdleHostIs DEF HotReset
<1>3. AnswerIsHosts'
  BY <1>2, NothingGot DEF AnswerIsHosts
<1> QED BY <1>1, <1>2, <1>3 DEF ControlInv, ControlTypeOK, RefusedIsStalled, AddressAgrees

LEMMA ControlSetup ==
  ASSUME ControlInv, NEW r \in Request, HostSetup(r)
  PROVE  ControlInv'
<1>1. /\ r.kind \in Kind /\ r.wLength \in Nat
      /\ r.kind \in NoDataKinds <=> r.wLength = 0
  BY RequestIs
<1>2. /\ dev' \in Endpoint0 /\ dev'.addr = dev.addr
      /\ dev'.SetupReqCode \in {r.kind, "invalid"}
      /\ dev'.rx = "STALL" <=> r.kind = "bad_out"
      /\ IsIn(r) => (dev'.tx.res = "STALL" <=> r.kind \in Refused)
      /\ r.kind \in Empty => dev'.tx.len = 0
      /\ r.kind \in Answered \ Empty =>
           /\ dev'.tx.seq = 0 /\ Len(dev'.buf) = dev'.tx.len
           /\ dev'.tx.len \in Nat /\ dev'.tx.len + dev'.SetupLen = Total(r)
           /\ dev'.SetupLen # 0 => dev'.tx.len >= Mps
           /\ r.kind \notin Unset =>
                /\ dev'.buf = Bytes(r.kind, 0, dev'.tx.len)
                /\ dev'.SetupLen # 0 => dev'.src = r.kind /\ dev'.pos = dev'.tx.len
      /\ r.kind = "set_address" => dev'.SetupReqCode = "set_address" /\ dev'.SetupLen = 1
  BY <1>1, SetupIs DEF HostSetup, ControlInv, ControlTypeOK
<1>3. FirstPhase(r) \in {"data_in", "data_out", "status"}
  BY DEF FirstPhase
<1>4. /\ host' \in Usb3Host /\ host'.phase = FirstPhase(r) /\ host'.req = r /\ host'.got = <<>>
      /\ host'.seq = 0 /\ ~host'.stalled /\ host'.addr = host.addr
  <2>1. host.addr \in Nat
    BY DEF ControlInv, ControlTypeOK, Usb3Host
  <2>2. host' = HostAt([Idle EXCEPT !.phase = FirstPhase(r), !.req = r], host.addr)
    BY DEF HostSetup
  <2>3. FirstPhase(r) \in Phase /\ r \in HostRequest
    BY <1>3 DEF Phase, HostRequest
  <2>4. host' = Starting(FirstPhase(r), r, host.addr)
    BY <2>2, HostAtIs
  <2> QED BY <2>1, <2>3, <2>4, StartingIs
<1>5. /\ FirstPhase(r) = "data_in" <=> r.kind \in InKinds
      /\ FirstPhase(r) = "data_out" => r.kind \in DataOutKinds
      /\ FirstPhase(r) = "status" <=> r.kind \in NoDataKinds
  BY <1>1, KindsApart DEF FirstPhase, IsIn, Kind
<1>6. AnswerIsHosts'
  <2>1. host'.phase = "status" => host'.req.kind \notin Answered
    BY <1>1, <1>4, <1>5, KindsApart
  <2>2. host'.got = Bytes(host'.req.kind, 0, Len(host'.got)) /\ Len(host'.got) <= host'.req.wLength
    BY <1>4, NothingGot
  <2> QED BY <2>1, <2>2 DEF AnswerIsHosts
<1>7. host'.phase # "idle"
  BY <1>3, <1>4
<1>8. RefusedIsStalled' /\ AddressAgrees'
  BY <1>2, <1>4, <1>7 DEF RefusedIsStalled, AddressAgrees, HostSetup, Reachable
<1>9. FirstPhase(r) = "data_in" /\ dev'.tx.res = "ACK" /\ r.kind \notin Empty => NextPacket'
  <2> SUFFICES ASSUME FirstPhase(r) = "data_in", dev'.tx.res = "ACK", r.kind \notin Empty
               PROVE  NextPacket'
    OBVIOUS
  <2>1. r.kind \in Answered \ Empty
    BY <1>1, <1>2, <1>5, KindsApart DEF IsIn
  <2>2. Len(host'.got) = 0
    BY <1>4
  <2>3. 0 + dev'.tx.len = dev'.tx.len
    BY <1>2, <2>1
  <2>4. Total(host.req)' = Total(r)
    BY <1>4 DEF Total, AnswerLength
  <2> QED BY <1>2, <1>4, <2>1, <2>2, <2>3, <2>4 DEF NextPacket
<1>10. TransferInv'
  <2>1. r.kind \in NoDataKinds => r.kind \notin Refused \ {"bad_out"}
    BY <1>1, KindsApart
  <2>2. r.kind = "set_address" => FirstPhase(r) = "status"
    BY <1>1, <1>5, KindsApart
  <2> QED BY <1>1, <1>2, <1>4, <1>5, <1>9, <2>1, <2>2 DEF TransferInv, IsIn
<1> QED BY <1>2, <1>4, <1>6, <1>8, <1>10 DEF ControlInv, ControlTypeOK

(* The host takes a packet of an answer.                                   *)
LEMMA AnswerIn ==
  ASSUME ControlInv, HostIn, host.req.kind \notin Empty
  PROVE  ControlInv'
<1> DEFINE k == host.req.kind
           g == Len(host.got)
           n == dev.tx.len
           m == Min2(dev.SetupLen, Mps)
           total == Total(host.req)
<1>1. /\ dev \in Endpoint0 /\ host \in Usb3Host /\ TransferInv /\ host.phase = "data_in"
      /\ dev.tx.res = "ACK" /\ dev.tx.seq = host.seq /\ dev.addr = host.addr
      /\ k \notin Unset => host.got = Bytes(k, 0, g)
  BY DEF HostIn, ControlInv, ControlTypeOK, Reachable, AnswerIsHosts
<1>2. /\ host.req \in Request /\ k \in Kind /\ k \in InKinds /\ k \notin Refused /\ NextPacket
      /\ ~host.stalled /\ dev.SetupReqCode \in {k, "invalid"}
  BY <1>1 DEF TransferInv, IsIn
<1>3. /\ k \in Answered /\ k \in Source /\ k # "bad_out" /\ k # "set_address"
      /\ k \notin Refused \ {"bad_out"}
  BY <1>2, KindsApart DEF Source
<1>4. /\ n \in Nat /\ dev.SetupLen \in Nat /\ host.seq \in Nat /\ g \in Nat /\ host.got \in Seq(Byte)
      /\ dev.pos \in Nat /\ host.req \in HostRequest /\ dev.buf \in Seq(Byte)
  BY <1>1 DEF Endpoint0, Usb3Host
<1>5. total \in Nat /\ (~Overlong(host.req) => total <= host.req.wLength) /\ host.req.wLength \in Nat
  BY <1>2, <1>3, AnswerIs, RequestIs
<1>6. /\ g + n + dev.SetupLen = total /\ Len(dev.buf) = n /\ (dev.SetupLen # 0 => n >= Mps)
      /\ k \notin Unset => /\ dev.buf = Bytes(k, g, n)
                           /\ dev.SetupLen # 0 => dev.src = k /\ dev.pos = g + n
  BY <1>2 DEF NextPacket
<1>7. m \in Nat /\ dev.SetupLen - m \in Nat /\ (dev.SetupLen # m => m = Mps) /\ Mps \in Nat
  BY <1>4, Packets
<1> DEFINE got == host.got \o SubSeq(dev.buf, 1, dev.tx.len)
<1>8. got \in Seq(Byte) /\ Len(got) = g + n /\ (k \notin Unset => got = Bytes(k, 0, g + n))
  <2>1. SubSeq(dev.buf, 1, n) = dev.buf
    BY <1>4, <1>6
  <2>2. got = host.got \o dev.buf
    BY <2>1
  <2>3. got \in Seq(Byte) /\ Len(got) = g + n
    BY <1>4, <1>6, <2>2
  <2>4. ASSUME k \notin Unset PROVE got = Bytes(k, 0, g + n)
    <3>1. got = Bytes(k, 0, g) \o Bytes(k, g, n)
      BY <1>1, <1>6, <2>2, <2>4
    <3> HIDE DEF k, g, n, got
    <3> QED BY <1>3, <1>4, <3>1, BytesMore
  <2> QED BY <2>3, <2>4
<1> DEFINE over == n < Mps \/ Len(got) >= host.req.wLength
           phase == IF over THEN "status" ELSE "data_in"
<1>9. /\ host' = [host EXCEPT !.got = got, !.seq = host.seq + 1, !.phase = phase]
      /\ dev' = InStage(dev)
  BY <1>1 DEF HostIn, Usb3Host
<1> HIDE DEF got
<1>10. /\ dev' \in Endpoint0 /\ dev'.addr = dev.addr /\ dev'.SetupReqCode = dev.SetupReqCode
       /\ dev'.tx.res = "ACK" /\ dev'.rx # "STALL"
       /\ \/ dev'.tx.seq = 0
          \/ /\ m # 0 /\ dev'.tx.len = m /\ Len(dev'.buf) = m /\ dev'.buf = Bytes(dev.src, dev.pos, m)
             /\ dev'.SetupLen = dev.SetupLen - m /\ dev'.src = dev.src /\ dev'.pos = dev.pos + m
  BY <1>1, <1>9, InStageIs
<1> HIDE DEF over
<1>11. /\ host' \in Usb3Host /\ host'.got = got /\ host'.seq = host.seq + 1 /\ host'.phase = phase
       /\ host'.req = host.req /\ host'.stalled = host.stalled /\ host'.addr = host.addr
  <2>1. phase \in Phase /\ host.seq + 1 \in Nat
    BY <1>4 DEF Phase
  <2> HIDE DEF phase
  <2> QED BY <1>1, <1>8, <1>9, <2>1 DEF Usb3Host
<1>12. ~Overlong(host.req) => g + n <= host.req.wLength /\ (over => g + n = total)
  <2>1. g + n + dev.SetupLen = total /\ (dev.SetupLen # 0 => n >= Mps) /\ Len(got) = g + n
    BY <1>6, <1>8
  <2> SUFFICES ASSUME ~Overlong(host.req)
               PROVE  g + n <= host.req.wLength /\ (over => g + n = total)
    OBVIOUS
  <2>2. total <= host.req.wLength
    BY <1>5
  <2>3. /\ n \in Nat /\ g \in Nat /\ dev.SetupLen \in Nat /\ total \in Nat
        /\ host.req.wLength \in Nat /\ Mps \in Nat
    BY <1>4, <1>5, <1>7
  <2>4. g + n <= host.req.wLength
    <3> HIDE DEF g, n, total
    <3> QED BY <2>1, <2>2, <2>3
  <2>5. ASSUME over PROVE g + n = total
    <3>1. CASE n < Mps
      <4>1. dev.SetupLen = 0
        <5> HIDE DEF n
        <5> QED BY <2>1, <2>3, <3>1
      <4> HIDE DEF g, n, total
      <4> QED BY <2>1, <2>3, <4>1
    <3>2. CASE Len(got) >= host.req.wLength
      <4> HIDE DEF g, n, total
      <4> QED BY <2>1, <2>2, <2>3, <3>2
    <3> QED BY <2>5, <3>1, <3>2 DEF over
  <2> QED BY <2>4, <2>5
<1>13. AnswerIsHosts'
  <2>1. k \notin Unset => host'.got = Bytes(host'.req.kind, 0, Len(host'.got))
    BY <1>8, <1>11
  <2>2. ~Overlong(host.req) => Len(host'.got) <= host'.req.wLength
    BY <1>8, <1>11, <1>12
  <2>3. ~Overlong(host.req) /\ host'.phase = "status" /\ k \notin Unset =>
          Len(host'.got) = Min2(AnswerSize[k], host.req.wLength)
    <3>1. ~Overlong(host.req) /\ k \notin Unset => total = Min2(AnswerSize[k], host.req.wLength)
      BY <1>2, <1>3, AnswerIs DEF Total
    <3> QED BY <1>8, <1>11, <1>12, <3>1
  <2>4. host'.req = host.req /\ Overlong(host.req)' = Overlong(host.req)
    BY <1>11 DEF Overlong
  <2> QED BY <2>1, <2>2, <2>3, <2>4 DEF AnswerIsHosts
<1>14. dev'.tx.seq = host'.seq => NextPacket'
  <2> SUFFICES ASSUME dev'.tx.seq = host'.seq PROVE NextPacket'
    OBVIOUS
  <2>1. /\ m # 0 /\ dev'.tx.len = m /\ Len(dev'.buf) = m /\ dev'.buf = Bytes(dev.src, dev.pos, m)
        /\ dev'.SetupLen = dev.SetupLen - m /\ dev'.src = dev.src /\ dev'.pos = dev.pos + m
    BY <1>4, <1>10, <1>11
  <2>2. k \notin Unset => dev.src = k /\ dev.pos = g + n
    BY <1>4, <1>6, <1>7, <2>1 DEF Min2
  <2>3. Len(host'.got) = g + n /\ host'.req.kind = k /\ Total(host.req)' = total
    BY <1>8, <1>11 DEF Total, AnswerLength
  <2>4. g + n + m + (dev.SetupLen - m) = total /\ (dev.SetupLen - m # 0 => m >= Mps)
    <3> HIDE DEF g, n, m, total
    <3> QED BY <1>4, <1>5, <1>6, <1>7
  <2> QED BY <2>1, <2>2, <2>3, <2>4 DEF NextPacket
<1>15. TransferInv'
  <2>1. /\ host'.req = host.req /\ host'.req.kind = k /\ ~host'.stalled
        /\ dev'.SetupReqCode \in {k, "invalid"} /\ host'.phase \in {"status", "data_in"}
    BY <1>2, <1>10, <1>11
  <2> QED BY <1>2, <1>3, <1>10, <1>14, <2>1 DEF TransferInv, IsIn, InKinds, DataOutKinds
<1>16. AddressAgrees' /\ RefusedIsStalled'
  <2>1. host'.phase # "idle"
    BY <1>11
  <2> QED BY <1>1, <1>10, <1>11, <2>1 DEF AddressAgrees, RefusedIsStalled
<1> QED BY <1>10, <1>11, <1>13, <1>15, <1>16 DEF ControlInv, ControlTypeOK

(* The host takes the empty answer to an Empty request.                    *)
LEMMA EmptyIn ==
  ASSUME ControlInv, HostIn, host.req.kind \in Empty
  PROVE  ControlInv'
<1>1. /\ dev \in Endpoint0 /\ host \in Usb3Host /\ TransferInv /\ host.phase = "data_in"
      /\ dev.tx.res = "ACK" /\ dev.tx.seq = host.seq /\ dev.addr = host.addr /\ AnswerIsHosts
  BY DEF HostIn, ControlInv, ControlTypeOK, Reachable
<1>2. /\ host.req \in Request /\ dev.tx.len = 0 /\ ~host.stalled /\ host.req.kind \in Kind
      /\ dev.SetupReqCode \in {host.req.kind, "invalid"} /\ host.got \in Seq(Byte) /\ host.seq \in Nat
      /\ dev.buf \in Seq(Byte)
  BY <1>1 DEF TransferInv, Usb3Host, Endpoint0
<1>3. host.got \o SubSeq(dev.buf, 1, dev.tx.len) = host.got /\ dev.tx.len < Mps
  <2>1. SubSeq(dev.buf, 1, 0) = <<>> /\ 0 < Mps
    BY <1>2, ControlAssumption
  <2> QED BY <1>2, <2>1
<1>4. /\ host' = [host EXCEPT !.got = host.got, !.seq = host.seq + 1, !.phase = "status"]
      /\ dev' = InStage(dev)
  BY <1>1, <1>3 DEF HostIn, Usb3Host
<1>5. /\ dev' \in Endpoint0 /\ dev'.addr = dev.addr /\ dev'.SetupReqCode = dev.SetupReqCode
      /\ dev'.rx # "STALL"
  BY <1>1, <1>4, InStageIs
<1>6. /\ host' \in Usb3Host /\ host'.got = host.got /\ host'.phase = "status"
      /\ host'.req = host.req /\ host'.stalled = host.stalled /\ host'.addr = host.addr
  <2>1. "status" \in Phase /\ host.seq + 1 \in Nat
    BY <1>2 DEF Phase
  <2> QED BY <1>1, <1>2, <1>4, <2>1 DEF Usb3Host
<1>7. AnswerIsHosts'
  BY <1>1, <1>6 DEF AnswerIsHosts, Overlong
<1>8. TransferInv'
  BY <1>2, <1>5, <1>6 DEF TransferInv, Refused, Empty
<1>9. AddressAgrees' /\ RefusedIsStalled'
  BY <1>1, <1>5, <1>6 DEF AddressAgrees, RefusedIsStalled
<1> QED BY <1>5, <1>6, <1>7, <1>8, <1>9 DEF ControlInv, ControlTypeOK

(* The host sends OUT data.                                                *)
LEMMA ControlOut == ASSUME ControlInv, HostOut PROVE ControlInv'
<1> DEFINE n == host.n + Min2(Mps, host.req.wLength - host.n)
           phase == IF n = host.req.wLength THEN "status" ELSE "data_out"
<1>1. /\ dev \in Endpoint0 /\ host \in Usb3Host /\ TransferInv /\ host.phase = "data_out"
      /\ dev' = dev /\ dev.addr = host.addr /\ AnswerIsHosts
  BY DEF HostOut, ControlInv, ControlTypeOK, Reachable
<1>2. host' = [host EXCEPT !.n = n, !.phase = phase]
  BY <1>1 DEF HostOut, Usb3Host
<1>3. host.req.kind \in DataOutKinds /\ host.req \in Request /\ host.req.kind \in Kind
  BY <1>1 DEF TransferInv
<1>4. host.req.kind \notin Refused \cup Answered /\ host.req.kind # "set_address"
  BY <1>3, KindsApart DEF DataOutKinds
<1>5. /\ host' \in Usb3Host /\ host'.phase = phase /\ host'.req = host.req /\ host'.got = host.got
      /\ host'.seq = host.seq /\ host'.stalled = host.stalled /\ host'.addr = host.addr
  <2>1. host.n \in Int /\ host.req.wLength \in Nat /\ Mps \in Nat
    BY <1>1, <1>3, RequestIs, ControlAssumption DEF Usb3Host
  <2>2. n \in Int
    BY <2>1 DEF Min2
  <2>3. phase \in Phase
    BY DEF Phase
  <2> HIDE DEF n, phase
  <2> QED BY <1>1, <1>2, <2>2, <2>3 DEF Usb3Host
<1>6. host'.phase \in {"status", "data_out"}
  BY <1>5
<1> HIDE DEF n, phase
<1>7. AnswerIsHosts'
  BY <1>1, <1>4, <1>5 DEF AnswerIsHosts
<1>8. TransferInv'
  BY <1>1, <1>3, <1>4, <1>5, <1>6 DEF TransferInv
<1>9. AddressAgrees' /\ RefusedIsStalled'
  BY <1>1, <1>5, <1>6 DEF AddressAgrees, RefusedIsStalled
<1> QED BY <1>1, <1>5, <1>7, <1>8, <1>9 DEF ControlInv, ControlTypeOK

(* The status stage: both take the new address with the same packet.       *)
LEMMA ControlStatus == ASSUME ControlInv, HostStatus PROVE ControlInv'
<1> DEFINE a == IF host.req.kind = "set_address" THEN 1 ELSE host.addr
<1>1. /\ dev \in Endpoint0 /\ host \in Usb3Host /\ TransferInv /\ host.phase = "status"
      /\ dev' = StatusStage(dev) /\ dev.addr = host.addr /\ AnswerIsHosts /\ dev.rx = "ACK"
  BY DEF HostStatus, ControlInv, ControlTypeOK, Reachable
<1>2. host' = [host EXCEPT !.phase = "idle", !.addr = a]
  BY <1>1 DEF HostStatus, Usb3Host
<1>3. /\ dev' \in Endpoint0 /\ dev'.SetupReqCode = dev.SetupReqCode
      /\ dev'.addr = IF dev.SetupReqCode \in {"set_address", "user_5"} THEN dev.SetupLen ELSE dev.addr
  BY <1>1, StatusStageIs
<1>4. /\ host' \in Usb3Host /\ host'.phase = "idle" /\ host'.req = host.req /\ host'.got = host.got
      /\ host'.stalled = host.stalled /\ host'.addr = a
  <2>1. a \in Nat /\ "idle" \in Phase
    BY <1>1 DEF Usb3Host, Phase
  <2> HIDE DEF a
  <2> QED BY <1>1, <1>2, <2>1 DEF Usb3Host
<1>5. /\ ~host.stalled /\ host.req.kind \notin Refused
      /\ dev.SetupReqCode \in {host.req.kind, "invalid"}
      /\ host.req.kind = "set_address" => dev.SetupReqCode = "set_address" /\ dev.SetupLen = 1
  BY <1>1 DEF TransferInv
<1>6. AnswerIsHosts'
  BY <1>1, <1>4 DEF AnswerIsHosts
<1>7. RefusedIsStalled'
  BY <1>4, <1>5 DEF RefusedIsStalled
<1>8. AddressAgrees'
  BY <1>1, <1>3, <1>4, <1>5 DEF AddressAgrees
<1> QED BY <1>3, <1>4, <1>6, <1>7, <1>8 DEF ControlInv, ControlTypeOK

(* The host is told that nobody handles the request.                       *)
LEMMA ControlStalled == ASSUME ControlInv, HostStalled PROVE ControlInv'
<1>1. /\ dev \in Endpoint0 /\ host \in Usb3Host /\ TransferInv /\ dev' = dev
      /\ dev.addr = host.addr /\ AnswerIsHosts
      /\ host' = [host EXCEPT !.phase = "idle", !.stalled = TRUE]
  BY DEF HostStalled, ControlInv, ControlTypeOK, Reachable
<1>2. host.req.kind \in Refused
  <2>1. host.req.kind \in Kind /\ (dev.rx = "STALL" => host.req.kind = "bad_out")
    BY <1>1 DEF TransferInv
  <2>2. host.phase = "data_in" /\ dev.tx.res = "STALL" => host.req.kind \in Refused
    BY <1>1 DEF TransferInv
  <2> QED BY <2>1, <2>2, KindsApart DEF HostStalled
<1>3. /\ host' \in Usb3Host /\ host'.phase = "idle" /\ host'.req = host.req /\ host'.got = host.got
      /\ host'.stalled /\ host'.addr = host.addr
  <2>1. "idle" \in Phase
    BY DEF Phase
  <2> QED BY <1>1, <2>1 DEF Usb3Host
<1>4. AnswerIsHosts'
  BY <1>1, <1>3 DEF AnswerIsHosts
<1>5. RefusedIsStalled' /\ AddressAgrees'
  BY <1>1, <1>2, <1>3 DEF RefusedIsStalled, AddressAgrees
<1> QED BY <1>1, <1>3, <1>4, <1>5 DEF ControlInv, ControlTypeOK

LEMMA ControlInvStep == ASSUME ControlInv, [Next]_vars PROVE ControlInv'
<1>1. CASE UNCHANGED vars
  BY <1>1 DEF vars, ControlInv, ControlTypeOK, TransferInv, NextPacket, AnswerIsHosts,
     RefusedIsStalled, AddressAgrees
<1> QED
  BY <1>1, ControlHotReset, ControlSetup, AnswerIn, EmptyIn, ControlOut, ControlStatus, ControlStalled
     DEF Next

(* Whatever transfers the host gave up before and wherever a hot reset     *)
(* came, for every packet size, wLength and length of the answers: the     *)
(* host gets the beginning of the answer to its own request, never more    *)
(* than it asked for, and all of that by the end of the data stage         *)
(* (USBSS_IRQHandler, ep0_in_handler).  The exceptions are those of the    *)
(* code: the two Empty requests, an answer of the user longer than         *)
(* wLength, and a descriptor that is not set.                              *)
THEOREM AnswersArrive == Spec => []AnswerIsHosts
<1>1. ControlInv => AnswerIsHosts
  BY DEF ControlInv
<1> QED BY <1>1, ControlInvInit, ControlInvStep, PTL DEF Spec

(* A transfer ends with STALL exactly when its request is one of the       *)
(* Refused: unknown, or left or answered without a buffer by the user's    *)
(* handler (usb30_standard_req_handler, the SETUP branch of                *)
(* USBSS_IRQHandler).  A descriptor that is not set is not among them: the *)
(* driver answers, with what AnswerIsHosts does not say.                   *)
THEOREM RefusalsStall == Spec => []RefusedIsStalled
<1>1. ControlInv => RefusedIsStalled
  BY DEF ControlInv
<1> QED BY <1>1, ControlInvInit, ControlInvStep, PTL DEF Spec

(* Device and host take a new address with the same status stage, and a    *)
(* hot reset takes it from both (ep0_status_stage_handler, HOT_RESET_FLAG).*)
THEOREM AddressesAgree == Spec => []AddressAgrees
<1>1. ControlInv => AddressAgrees
  BY DEF ControlInv
<1> QED BY <1>1, ControlInvInit, ControlInvStep, PTL DEF Spec
=============================================================================
