---------------------------- MODULE LoggingProofs ---------------------------
(***************************************************************************)
(* Critical sections are exclusive for every number of nested handlers and *)
(* sections, and the logs written in them come out whole and in order, for *)
(* every size of the log buffer.                                           *)
(*                                                                         *)
(* SectionsExclusive is inductive with the types: the part that carries it *)
(* is that interrupts are off from before the counter is raised until      *)
(* after it is back at zero, so that what an interrupt preempts is in no   *)
(* section.  So only the running frame is ever inside lwrb_write, and what *)
(* it found free stays free.  The reader is in no section: JobsKept says   *)
(* that what it has copied is still in the ring until it moves the read    *)
(* index, since writers touch free slots only.                             *)
(***************************************************************************)
EXTENDS Logging, SequenceTheorems, TLAPS

Frame == [depth : Nat, at : {"code", "entering", "leaving"}]

(* A frame in no section that is in its code is as it was when new.        *)
LEMMA NewFrameIsQuiet ==
  /\ NewFrame \in Frame
  /\ \A f \in Frame : f = NewFrame <=> f.depth = 0 /\ f.at = "code"
<1>1. NewFrame \in Frame /\ NewFrame.depth = 0 /\ NewFrame.at = "code"
  BY DEF NewFrame, Frame
<1>2. ASSUME NEW f \in Frame, f.depth = 0, f.at = "code"
      PROVE  f = NewFrame
  BY <1>2 DEF NewFrame, Frame
<1> QED
  BY <1>1, <1>2

(* The last element of a sequence is replaced: the others stay.            *)
LEMMA TopReplaced ==
  ASSUME NEW S, NEW s \in Seq(S), Len(s) >= 1, NEW f \in S,
         NEW t, t = [s EXCEPT ![Len(s)] = f]
  PROVE  /\ t \in Seq(S) /\ Len(t) = Len(s) /\ t[Len(t)] = f
         /\ \A i \in 1..(Len(t) - 1) : t[i] = s[i]
<1>1. Len(s) \in Nat /\ Len(s) \in 1..Len(s)
  OBVIOUS
<1>2. t \in Seq(S) /\ Len(t) = Len(s)
  BY <1>1
<1>3. \A i \in 1..Len(s) : t[i] = IF i = Len(s) THEN f ELSE s[i]
  BY <1>1
<1>4. Len(t) \in 1..Len(s) /\ 1..(Len(t) - 1) \subseteq 1..Len(s) /\ Len(s) \notin 1..(Len(t) - 1)
  BY <1>1, <1>2
<1>5. t[Len(t)] = f
  BY <1>2, <1>3, <1>4
<1>6. \A i \in 1..(Len(t) - 1) : t[i] = s[i]
  BY <1>3, <1>4
<1> QED
  BY <1>2, <1>5, <1>6

(* The last frame of a sequence with frames in it.                         *)
LEMMA TopIsFrame ==
  ASSUME SectionTypeOK
  PROVE  /\ frames \in Seq(Frame) /\ Len(frames) >= 1
         /\ Top \in Nat /\ Top >= 1 /\ Top = Len(frames)
         /\ Running = frames[Len(frames)] /\ Running \in Frame
<1>1. frames \in Seq(Frame) /\ Len(frames) >= 1
  BY DEF SectionTypeOK, Frame
<1>2. Len(frames) \in Nat /\ Len(frames) \in 1..Len(frames)
  BY <1>1
<1>3. frames[Len(frames)] \in Frame
  BY <1>1, <1>2
<1> QED
  BY <1>1, <1>2, <1>3 DEF Top, Running

(* A step that replaces the last frame by f and keeps the counter its      *)
(* depth and interrupts off while f is in a section keeps the invariant.   *)
LEMMA ReplacePreserves ==
  ASSUME SectionTypeOK, SectionsExclusive, NEW f \in Frame,
         frames' = [frames EXCEPT ![Len(frames)] = f],
         bsp_critical_nesting' = f.depth,
         interrupts_enabled' \in BOOLEAN,
         f # NewFrame => ~interrupts_enabled',
         f = NewFrame => interrupts_enabled',
         interrupts' = interrupts
  PROVE  SectionTypeOK' /\ SectionsExclusive'
<1>1. /\ frames \in Seq(Frame) /\ Len(frames) >= 1 /\ Top = Len(frames) /\ Top \in Nat
  BY TopIsFrame
<1>2. /\ frames' \in Seq(Frame) /\ Len(frames') = Len(frames)
      /\ frames'[Len(frames')] = f
      /\ \A i \in 1..(Len(frames') - 1) : frames'[i] = frames[i]
  BY <1>1, TopReplaced
<1>3. SectionTypeOK'
  BY <1>2 DEF SectionTypeOK, Frame
<1>4. \A i \in 1..(Top' - 1) : frames'[i] = NewFrame
  BY <1>1, <1>2 DEF SectionsExclusive, Top
<1>5. Running' = f
  BY <1>2 DEF Running, Top
<1> QED
  BY <1>3, <1>4, <1>5 DEF SectionsExclusive

LEMMA SectionInvInit == SectionInit => SectionTypeOK /\ SectionsExclusive
<1> SUFFICES ASSUME SectionInit PROVE SectionTypeOK /\ SectionsExclusive
  OBVIOUS
<1>1. NewFrame \in Frame
  BY NewFrameIsQuiet
<1>2. frames \in Seq(Frame) /\ Len(frames) >= 1 /\ Len(frames) = 1 /\ frames[1] = NewFrame
  BY <1>1 DEF SectionInit
<1>3. SectionTypeOK
  BY <1>2 DEF SectionInit, SectionTypeOK, Frame
<1>4. NewFrame.depth = 0
  BY DEF NewFrame
<1>5. SectionsExclusive
  BY <1>2, <1>4 DEF SectionInit, SectionsExclusive, Top, Running
<1> QED
  BY <1>3, <1>5

(* Every step of a section, of the processor and of the handlers.          *)
LEMMA SectionInvStep ==
  SectionTypeOK /\ SectionsExclusive /\ [SectionNext]_section_vars
    => SectionTypeOK' /\ SectionsExclusive'
<1> SUFFICES ASSUME SectionTypeOK, SectionsExclusive, [SectionNext]_section_vars
             PROVE  SectionTypeOK' /\ SectionsExclusive'
  OBVIOUS
<1>1. /\ frames \in Seq(Frame) /\ Len(frames) >= 1
      /\ Top \in Nat /\ Top >= 1 /\ Top = Len(frames)
      /\ Running = frames[Len(frames)] /\ Running \in Frame
  BY TopIsFrame
<1>2. /\ Running.depth \in Nat /\ Running.at \in {"code", "entering", "leaving"}
      /\ bsp_critical_nesting = Running.depth
      /\ interrupts_enabled \in BOOLEAN
      /\ Running # NewFrame => ~interrupts_enabled
  BY <1>1 DEF Frame, SectionsExclusive, SectionTypeOK
<1>3. CASE EnterDisables
  <2> DEFINE f == [Running EXCEPT !.at = "entering"]
  <2>1. f \in Frame /\ f.depth = Running.depth /\ f.at = "entering"
    BY <1>1 DEF Frame
  <2>2. frames' = [frames EXCEPT ![Len(frames)] = f]
    BY <1>1, <1>3 DEF EnterDisables
  <2>3. f # NewFrame
    BY <2>1, NewFrameIsQuiet
  <2> HIDE DEF f
  <2> QED
    BY <1>2, <1>3, <2>1, <2>2, <2>3, ReplacePreserves DEF EnterDisables
<1>4. CASE EnterCounts
  <2> DEFINE f == [depth |-> Running.depth + 1, at |-> "code"]
  <2>1. f \in Frame /\ f.depth = Running.depth + 1 /\ f.at = "code"
    BY <1>1, <1>2 DEF Frame
  <2>2. frames' = [frames EXCEPT ![Len(frames)] = f]
    BY <1>1, <1>4 DEF EnterCounts
  <2>3. f.depth # 0
    BY <1>2, <2>1
  <2>4. f # NewFrame
    BY <2>1, <2>3, NewFrameIsQuiet
  <2>5. Running # NewFrame
    BY <1>1, <1>4, NewFrameIsQuiet DEF EnterCounts
  <2> HIDE DEF f
  <2> QED
    BY <1>2, <1>4, <2>1, <2>2, <2>4, <2>5, ReplacePreserves DEF EnterCounts
<1>5. CASE ExitCounts
  <2> DEFINE f == [depth |-> Running.depth - 1, at |-> "leaving"]
  <2>1. Running.depth - 1 \in Nat /\ Running.depth # 0
    BY <1>2, <1>5 DEF ExitCounts
  <2>2. f \in Frame /\ f.depth = Running.depth - 1 /\ f.at = "leaving"
    BY <1>1, <2>1 DEF Frame
  <2>3. frames' = [frames EXCEPT ![Len(frames)] = f]
    BY <1>1, <1>5 DEF ExitCounts
  <2>4. f # NewFrame
    BY <2>2, NewFrameIsQuiet
  <2>5. Running # NewFrame
    BY <1>1, <2>1, NewFrameIsQuiet
  <2> HIDE DEF f
  <2> QED
    BY <1>2, <1>5, <2>2, <2>3, <2>4, <2>5, ReplacePreserves DEF ExitCounts
<1>6. CASE ExitEnables
  <2> DEFINE f == [Running EXCEPT !.at = "code"]
  <2>1. f \in Frame /\ f.depth = Running.depth /\ f.at = "code"
    BY <1>1 DEF Frame
  <2>2. frames' = [frames EXCEPT ![Len(frames)] = f]
    BY <1>1, <1>6 DEF ExitEnables
  <2>3. f = NewFrame <=> Running.depth = 0
    BY <2>1, NewFrameIsQuiet
  <2>4. Running # NewFrame
    BY <1>1, <1>6, NewFrameIsQuiet DEF ExitEnables
  <2>5. interrupts_enabled' = (Running.depth = 0)
    BY <1>2, <1>6, <2>4 DEF ExitEnables
  <2> HIDE DEF f
  <2> QED
    BY <1>2, <1>6, <2>1, <2>2, <2>3, <2>5, ReplacePreserves DEF ExitEnables
<1>7. CASE Interrupt
  <2>1. Running = NewFrame /\ NewFrame \in Frame /\ NewFrame.depth = 0
    BY <1>2, <1>7, NewFrameIsQuiet DEF Interrupt
  <2>2. /\ frames' \in Seq(Frame) /\ Len(frames') = Len(frames) + 1
        /\ frames'[Len(frames')] = NewFrame
        /\ \A i \in 1..Len(frames) : frames'[i] = frames[i]
    BY <1>1, <1>7, <2>1 DEF Interrupt
  <2>3. SectionTypeOK'
    <3>1. interrupts' \in Nat /\ bsp_critical_nesting' \in Nat /\ Len(frames') >= 1
      BY <1>1, <1>7, <2>2 DEF Interrupt, SectionTypeOK
    <3>2. interrupts_enabled' \in BOOLEAN
      BY <1>7 DEF Interrupt
    <3> QED
      BY <2>2, <3>1, <3>2 DEF SectionTypeOK, Frame
  <2>4. \A i \in 1..(Top' - 1) : frames'[i] = NewFrame
    <3>1. \A i \in 1..Len(frames) : frames[i] = NewFrame
      <4>1. \A i \in 1..Len(frames) : i = Len(frames) \/ i \in 1..(Len(frames) - 1)
        BY <1>1
      <4> QED
        BY <1>1, <2>1, <4>1 DEF SectionsExclusive
    <3> QED
      BY <1>1, <2>2, <3>1 DEF Top
  <2>5. Running' = NewFrame /\ Top' = Top + 1
    BY <1>1, <2>2 DEF Running, Top
  <2>6. bsp_critical_nesting' = 0
    BY <1>2, <1>7, <2>1 DEF Interrupt
  <2> QED
    BY <1>1, <2>1, <2>3, <2>4, <2>5, <2>6 DEF SectionsExclusive
<1>8. CASE HandlerReturns
  <2>1. Top - 1 \in 1..(Top - 1) /\ Running.depth = 0
    BY <1>1, <1>8 DEF HandlerReturns
  <2>2. /\ frames' \in Seq(Frame) /\ Len(frames') = Len(frames) - 1
        /\ \A i \in 1..Len(frames') : frames'[i] = frames[i]
    <3>1. frames' = SubSeq(frames, 1, Len(frames) - 1) /\ Len(frames) - 1 \in 1..Len(frames)
      BY <1>1, <1>8 DEF HandlerReturns
    <3>2. Len(frames') = Len(frames) - 1 /\ frames' \in Seq(Frame)
      BY <1>1, <3>1
    <3>3. \A i \in 1..(Len(frames) - 1) : frames'[i] = frames[i]
      BY <1>1, <3>1
    <3> QED
      BY <1>1, <3>1, <3>2, <3>3
  <2>3. \A i \in 1..Top' : frames'[i] = NewFrame
    BY <1>1, <2>2 DEF SectionsExclusive, Top
  <2>4. Running' = NewFrame /\ NewFrame.depth = 0 /\ Top' = Top - 1
    BY <1>1, <2>1, <2>2, <2>3 DEF Running, Top, NewFrame
  <2>5. SectionTypeOK'
    <3>1. interrupts' \in Nat /\ bsp_critical_nesting' \in Nat /\ Len(frames') >= 1
      BY <1>1, <1>8, <2>1, <2>2 DEF HandlerReturns, SectionTypeOK
    <3>2. interrupts_enabled' \in BOOLEAN
      BY <1>8 DEF HandlerReturns
    <3> QED
      BY <2>2, <3>1, <3>2 DEF SectionTypeOK, Frame
  <2> QED
    BY <1>1, <1>2, <1>8, <2>1, <2>3, <2>4, <2>5 DEF HandlerReturns, SectionsExclusive
<1>9. CASE UNCHANGED section_vars
  BY <1>9 DEF section_vars, SectionTypeOK, SectionsExclusive, Top, Running
<1> QED
  BY <1>3, <1>4, <1>5, <1>6, <1>7, <1>8, <1>9 DEF SectionNext

(* However sections and handlers nest, and how many of them: what          *)
(* BSP_ENTER_CRITICAL and BSP_EXIT_CRITICAL bracket runs undisturbed, and  *)
(* main code gets its interrupts back with the last exit.                  *)
THEOREM Exclusive == SectionSpec => [](SectionTypeOK /\ SectionsExclusive)
BY SectionInvInit, SectionInvStep, PTL DEF SectionSpec

-----------------------------------------------------------------------------
(* The log buffer.                                                         *)

Byte == Nat \X Nat
Size == LOG_BUFFER_SIZE + 1
InSection == {"reserve", "copy", "written"}
Dumping == {"dump", "advance", "send", "ask"}
Jobs == [pc : {"idle", "write"} \cup InSection \cup Dumping, msg : Nat, size : Nat,
         n : Nat, from : Slots, chunk : Seq(Byte)]

LogTypeOK ==
  /\ jobs \in Seq(Jobs) /\ Len(jobs) = Len(frames)
  /\ buf \in [Slots -> Byte] /\ w \in Slots /\ r \in Slots
  /\ out \in Seq(Byte) /\ logged \in Seq(Byte) /\ messages \in Nat
  /\ filter \in Filters

(* What frame f does, job j in sections fr, fits the ring: it writes only  *)
(* inside a section, into bytes that are still free, and only main code    *)
(* dumps, bytes that are still there.                                      *)
Fits(f, j, fr) ==
  /\ j.pc \in InSection => fr # NewFrame
  /\ fr.at = "leaving" => j.pc = "idle"
  /\ j.pc \in Dumping => f = 1
  /\ j.pc = "copy" => j.from = w /\ j.n <= Free
  /\ j.pc = "advance" => j.n <= Full /\ j.chunk = Content(r, j.n)
JobsKept == \A f \in 1..Top : Fits(f, jobs[f], frames[f])

SectionInv == SectionTypeOK /\ SectionsExclusive
LogInv == SectionInv /\ LogTypeOK /\ JobsKept /\ LogsInOrder

(* Slot n places after slot i.                                             *)
After(i, n) == IF i + n < Size THEN i + n ELSE i + n - Size
(* Any sum or difference of slots is less than two rounds from slot 0.     *)
LEMMA ModIs ==
  ASSUME NEW x \in Int, -Size <= x, x < 2 * Size
  PROVE  x % Size = IF x < 0 THEN x + Size ELSE IF x < Size THEN x ELSE x - Size
<1>1. Size \in Nat /\ Size > 0
  BY LoggingAssumption DEF Size
<1> HIDE DEF Size
<1>2. CASE x < 0
  BY <1>1, <1>2, Z3
<1>3. CASE 0 <= x /\ x < Size
  BY <1>1, <1>3, Z3
<1>4. CASE x >= Size
  BY <1>1, <1>4, Z3
<1> QED BY <1>1, <1>2, <1>3, <1>4

LEMMA AfterIs ==
  ASSUME NEW i \in Slots, NEW n \in 0..LOG_BUFFER_SIZE
  PROVE  (i + n) % Size = After(i, n) /\ After(i, n) \in Slots
<1>1. LOG_BUFFER_SIZE \in Nat
  BY LoggingAssumption
<1> DEFINE x == i + n
<1>2. x \in Int /\ -Size <= x /\ ~(x < 0) /\ x < 2 * Size
  BY <1>1 DEF Slots, Size
<1>3. x % Size = IF x < Size THEN x ELSE x - Size
  <2> HIDE DEF x
  <2> QED BY <1>2, ModIs
<1>4. After(i, n) \in Slots
  BY <1>1 DEF After, Slots, Size
<1>5. After(i, n) = IF x < Size THEN x ELSE x - Size
  BY <1>1 DEF After, Slots, Size
<1> QED BY <1>3, <1>4, <1>5

(* How far slot j is behind slot i.                                        *)
LEMMA DistanceIs ==
  ASSUME NEW i \in Slots, NEW j \in Slots
  PROVE  /\ (j - i) % Size = IF j >= i THEN j - i ELSE j - i + Size
         /\ (j - i) % Size \in 0..LOG_BUFFER_SIZE
<1>1. LOG_BUFFER_SIZE \in Nat
  BY LoggingAssumption
<1>2. j - i \in Int /\ -Size <= j - i /\ j - i < Size /\ Size \in Nat
  BY <1>1 DEF Slots, Size
<1>3. (j - i) % Size = IF j >= i THEN j - i ELSE j - i + Size
  BY <1>1, <1>2, ModIs DEF Slots
<1> QED BY <1>1, <1>3 DEF Slots, Size

LEMMA FullIs ==
  ASSUME LogTypeOK
  PROVE  /\ Full = IF w >= r THEN w - r ELSE w - r + Size
         /\ Full \in 0..LOG_BUFFER_SIZE /\ Free = LOG_BUFFER_SIZE - Full /\ Free \in 0..LOG_BUFFER_SIZE
         /\ LOG_BUFFER_SIZE \in Nat
<1>1. w \in Slots /\ r \in Slots /\ LOG_BUFFER_SIZE \in Nat
  BY LoggingAssumption DEF LogTypeOK
<1>2. Full = IF w >= r THEN w - r ELSE w - r + Size
  BY <1>1, DistanceIs DEF Full, Size
<1>3. Full \in 0..LOG_BUFFER_SIZE
  BY <1>1, DistanceIs DEF Full, Size
<1> QED BY <1>1, <1>2, <1>3 DEF Free

(* What a buffer b holds in the n slots from slot i on.                    *)
Held(b, i, n) == [k \in 1..n |-> b[After(i, k - 1)]]

LEMMA HeldIs ==
  ASSUME NEW b \in [Slots -> Byte], NEW i \in Slots, NEW n \in 0..LOG_BUFFER_SIZE
  PROVE  /\ Held(b, i, n) \in Seq(Byte) /\ Len(Held(b, i, n)) = n
         /\ \A k \in 1..n : Held(b, i, n)[k] = b[After(i, k - 1)]
         /\ [k \in 1..n |-> b[(i + k - 1) % (LOG_BUFFER_SIZE + 1)]] = Held(b, i, n)
<1>1. LOG_BUFFER_SIZE \in Nat /\ n \in Nat
  BY LoggingAssumption
<1>2. ASSUME NEW k \in 1..n
      PROVE  /\ b[(i + k - 1) % (LOG_BUFFER_SIZE + 1)] = b[After(i, k - 1)]
             /\ b[After(i, k - 1)] \in Byte
  <2>1. k - 1 \in 0..LOG_BUFFER_SIZE /\ i + k - 1 = i + (k - 1)
    BY <1>1 DEF Slots
  <2> QED BY <2>1, AfterIs DEF Size
<1> QED BY <1>1, <1>2 DEF Held

LEMMA ContentIs ==
  ASSUME LogTypeOK, NEW n \in 0..LOG_BUFFER_SIZE
  PROVE  Content(r, n) = Held(buf, r, n)
BY HeldIs DEF Content, LogTypeOK

LEMMA BytesAssociate ==
  ASSUME NEW s \in Seq(Byte), NEW t \in Seq(Byte), NEW u \in Seq(Byte)
  PROVE  s \o (t \o u) = (s \o t) \o u
BY ConcatAssociative, SMTT(30)

LEMMA ContentTyped ==
  ASSUME LogTypeOK
  PROVE  Content(r, Full) \in Seq(Byte)
<1>1. PICK i \in Slots, n \in 0..LOG_BUFFER_SIZE : i = r /\ n = Full
  BY FullIs DEF LogTypeOK
<1>2. buf \in [Slots -> Byte]
  BY DEF LogTypeOK
<1>3. Held(buf, i, n) \in Seq(Byte)
  BY <1>2, HeldIs
<1>4. Content(r, n) = Held(buf, r, n)
  BY ContentIs
<1> QED BY <1>1, <1>3, <1>4

LEMMA TextIs ==
  ASSUME NEW msg \in Nat, NEW n \in Nat
  PROVE  /\ Text(msg, n) \in Seq(Byte) /\ Len(Text(msg, n)) = n
         /\ \A k \in 1..n : Text(msg, n)[k] = <<msg, k>>
BY DEF Text, Byte

(* A sequence that is two others in a row.                                 *)
LEMMA InARow ==
  ASSUME NEW S, NEW s \in Seq(S), NEW t \in Seq(S), NEW u \in Seq(S), Len(u) = Len(s) + Len(t),
         \A i \in 1..Len(s) : u[i] = s[i],
         \A i \in 1..Len(t) : u[Len(s) + i] = t[i]
  PROVE  u = s \o t
<1>1. /\ s \o t \in Seq(S) /\ Len(s \o t) = Len(s) + Len(t)
      /\ \A i \in 1..(Len(s) + Len(t)) : (s \o t)[i] = IF i <= Len(s) THEN s[i] ELSE t[i - Len(s)]
  BY ConcatProperties
<1>2. Len(s) \in Nat /\ Len(t) \in Nat
  OBVIOUS
<1>3. ASSUME NEW i \in 1..Len(u) PROVE u[i] = (s \o t)[i]
  <2>1. CASE i <= Len(s)
    BY <1>1, <1>2, <2>1
  <2>2. CASE i > Len(s)
    <3>1. i - Len(s) \in 1..Len(t) /\ Len(s) + (i - Len(s)) = i
      BY <1>2, <2>2
    <3> QED BY <1>1, <1>2, <2>2, <3>1
  <2> QED BY <1>2, <2>1, <2>2
<1> QED BY <1>1, <1>2, <1>3, SeqEqual

(* lwrb_write stores n bytes behind the stored ones and moves no other.    *)
LEMMA BytesStored ==
  ASSUME LogTypeOK, NEW msg \in Nat, NEW n \in 0..Free, r' = r,
         w' = (w + n) % (LOG_BUFFER_SIZE + 1),
         buf' = [s \in Slots |-> LET k == ((s - w) % (LOG_BUFFER_SIZE + 1)) + 1 IN
                                 IF k <= n THEN <<msg, k>> ELSE buf[s]]
  PROVE  /\ w' \in Slots /\ buf' \in [Slots -> Byte] /\ Full' = Full + n
         /\ \A m \in 0..Full : Content(r, m)' = Content(r, m)
         /\ Content(r, Full)' = Content(r, Full) \o Text(msg, n)
<1>1. /\ w \in Slots /\ r \in Slots /\ buf \in [Slots -> Byte] /\ LOG_BUFFER_SIZE \in Nat
      /\ Full = (IF w >= r THEN w - r ELSE w - r + Size)
      /\ Full \in 0..LOG_BUFFER_SIZE /\ Free = LOG_BUFFER_SIZE - Full /\ n \in 0..LOG_BUFFER_SIZE
      /\ n \in Nat /\ Full + n <= LOG_BUFFER_SIZE
  BY FullIs DEF LogTypeOK
<1>2. w' = After(w, n) /\ w' \in Slots
  BY <1>1, AfterIs DEF Size
<1>3. Full' = Full + n
  <2>1. Full' = IF w' >= r THEN w' - r ELSE w' - r + Size
    BY <1>1, <1>2, DistanceIs DEF Full, Size
  <2> QED BY <1>1, <1>2, <2>1 DEF After, Slots, Size
<1>4. ASSUME NEW s \in Slots, NEW d \in 0..LOG_BUFFER_SIZE, (s - w) % Size = d
      PROVE  buf'[s] = IF d < n THEN <<msg, d + 1>> ELSE buf[s]
  BY <1>1, <1>4 DEF Size
<1>5. buf' \in [Slots -> Byte]
  <2>1. ASSUME NEW s \in Slots PROVE buf'[s] \in Byte
    <3> DEFINE d == (s - w) % Size
    <3>1. d \in 0..LOG_BUFFER_SIZE
      BY <1>1, DistanceIs
    <3>2. buf'[s] = IF d < n THEN <<msg, d + 1>> ELSE buf[s]
      BY <1>4, <3>1
    <3> HIDE DEF d
    <3>3. <<msg, d + 1>> \in Byte /\ buf[s] \in Byte
      BY <1>1, <3>1 DEF Byte
    <3> QED BY <3>2, <3>3
  <2> QED BY <2>1
<1>6. ASSUME NEW i \in Nat, i < Full PROVE buf'[After(r, i)] = buf[After(r, i)]
  <2> DEFINE x == After(r, i)
             d == (x - w) % Size
  <2>1. x \in Slots /\ x = IF r + i < Size THEN r + i ELSE r + i - Size
    <3>1. i \in 0..LOG_BUFFER_SIZE
      BY <1>1, <1>6
    <3> QED BY <1>1, <3>1, AfterIs DEF After
  <2>2. d = (IF x >= w THEN x - w ELSE x - w + Size) /\ d \in 0..LOG_BUFFER_SIZE
    BY <1>1, <2>1, DistanceIs
  <2>3. buf'[x] = IF d < n THEN <<msg, d + 1>> ELSE buf[x]
    BY <1>4, <2>1, <2>2
  <2> HIDE DEF x, d
  <2>4. ~(d < n)
    BY <1>1, <1>6, <2>1, <2>2 DEF Slots, Size
  <2> QED BY <2>3, <2>4 DEF x
<1>7. ASSUME NEW i \in 1..n PROVE buf'[After(r, Full + i - 1)] = <<msg, i>>
  <2> DEFINE x == After(r, Full + i - 1)
             d == (x - w) % Size
  <2>1. x \in Slots /\ x = IF r + (Full + i - 1) < Size THEN r + (Full + i - 1) ELSE r + (Full + i - 1) - Size
    <3>1. Full + i - 1 \in 0..LOG_BUFFER_SIZE
      BY <1>1
    <3> QED BY <1>1, <3>1, AfterIs DEF After
  <2>2. d = (IF x >= w THEN x - w ELSE x - w + Size) /\ d \in 0..LOG_BUFFER_SIZE
    BY <1>1, <2>1, DistanceIs
  <2>3. buf'[x] = IF d < n THEN <<msg, d + 1>> ELSE buf[x]
    BY <1>4, <2>1, <2>2
  <2> HIDE DEF x, d
  <2>4. d = i - 1
    BY <1>1, <2>1, <2>2 DEF Slots, Size
  <2>5. d < n /\ d + 1 = i
    BY <1>1, <2>4
  <2> QED BY <2>3, <2>5 DEF x
<1>8. ASSUME NEW m \in 0..LOG_BUFFER_SIZE PROVE Content(r, m)' = Held(buf', r, m)
  <2>1. Content(r, m)' = [k \in 1..m |-> buf'[(r + k - 1) % (LOG_BUFFER_SIZE + 1)]]
    BY DEF Content
  <2> DEFINE b == buf'
  <2>2. b \in [Slots -> Byte]
    BY <1>5
  <2> HIDE DEF b
  <2>3. [k \in 1..m |-> b[(r + k - 1) % (LOG_BUFFER_SIZE + 1)]] = Held(b, r, m)
    BY <1>1, <2>2, HeldIs
  <2> QED BY <2>1, <2>3 DEF b
<1>9. ASSUME NEW m \in 0..Full PROVE Content(r, m)' = Content(r, m)
  <2>1. m \in 0..LOG_BUFFER_SIZE /\ \A k \in 1..m : k - 1 \in Nat /\ k - 1 < Full
    BY <1>1
  <2>2. Held(buf', r, m) = Held(buf, r, m)
    BY <1>6, <2>1 DEF Held
  <2> QED BY <1>8, <2>1, <2>2, ContentIs
<1>10. Content(r, Full)' = Content(r, Full) \o Text(msg, n)
  <2> DEFINE s == Held(buf, r, Full)
             u == Held(buf', r, Full + n)
  <2>1. Full \in 0..Full /\ Full + n \in 0..LOG_BUFFER_SIZE /\ Full \in Nat
    BY <1>1
  <2>2. Content(r, Full)' = u
    <3>1. Content(r, Full)' = [k \in 1..(Full + n) |-> buf'[(r + k - 1) % (LOG_BUFFER_SIZE + 1)]]
      BY <1>3 DEF Content
    <3> DEFINE b == buf'
               m == Full + n
    <3>2. b \in [Slots -> Byte] /\ m \in 0..LOG_BUFFER_SIZE
      BY <1>5, <2>1
    <3> HIDE DEF b, m
    <3>3. [k \in 1..m |-> b[(r + k - 1) % (LOG_BUFFER_SIZE + 1)]] = Held(b, r, m)
      BY <1>1, <3>2, HeldIs
    <3> QED BY <3>1, <3>3 DEF b, m
  <2>3. Content(r, Full) = s
    BY <1>1, ContentIs
  <2>4. s \in Seq(Byte) /\ Len(s) = Full /\ \A k \in 1..Full : s[k] = buf[After(r, k - 1)]
    BY <1>1, HeldIs
  <2>5. /\ u \in Seq(Byte) /\ Len(u) = Full + n
        /\ \A k \in 1..(Full + n) : u[k] = buf'[After(r, k - 1)]
    <3> DEFINE b == buf'
               m == Full + n
    <3>1. b \in [Slots -> Byte] /\ m \in 0..LOG_BUFFER_SIZE
      BY <1>5, <2>1
    <3> HIDE DEF b, m
    <3>2. /\ Held(b, r, m) \in Seq(Byte) /\ Len(Held(b, r, m)) = m
          /\ \A k \in 1..m : Held(b, r, m)[k] = b[After(r, k - 1)]
      BY <1>1, <3>1, HeldIs
    <3> QED BY <3>2 DEF b, m
  <2>6. Text(msg, n) \in Seq(Byte) /\ Len(Text(msg, n)) = n /\ \A k \in 1..n : Text(msg, n)[k] = <<msg, k>>
    BY <1>1, TextIs
  <2> HIDE DEF s, u
  <2>7. ASSUME NEW k \in 1..Full PROVE u[k] = s[k]
    <3>1. k - 1 \in Nat /\ k - 1 < Full /\ k \in 1..(Full + n)
      BY <1>1, <2>1
    <3> QED BY <1>6, <2>4, <2>5, <3>1
  <2>8. ASSUME NEW k \in 1..n PROVE u[Full + k] = Text(msg, n)[k]
    <3>1. Full + k \in 1..(Full + n) /\ (Full + k) - 1 = Full + k - 1
      BY <1>1, <2>1
    <3> QED BY <1>7, <2>5, <2>6, <3>1
  <2>9. u = s \o Text(msg, n)
    <3>1. Len(u) = Len(s) + Len(Text(msg, n)) /\ \A k \in 1..Len(s) : u[k] = s[k]
      BY <2>4, <2>5, <2>6, <2>7
    <3>2. \A k \in 1..Len(Text(msg, n)) : u[Len(s) + k] = Text(msg, n)[k]
      BY <2>4, <2>6, <2>8
    <3> QED BY <2>4, <2>5, <2>6, <3>1, <3>2, InARow
  <2> QED BY <2>2, <2>3, <2>9
<1> QED BY <1>2, <1>3, <1>5, <1>9, <1>10

(* lwrb_read takes the oldest n bytes.                                     *)
LEMMA BytesTaken ==
  ASSUME LogTypeOK, NEW n \in 0..Full, r' = (r + n) % (LOG_BUFFER_SIZE + 1), UNCHANGED <<w, buf>>
  PROVE  /\ r' \in Slots
         /\ Content(r, Full) = Content(r, n) \o Content(r, Full)'
<1>1. /\ w \in Slots /\ r \in Slots /\ buf \in [Slots -> Byte] /\ LOG_BUFFER_SIZE \in Nat
      /\ Full = (IF w >= r THEN w - r ELSE w - r + Size)
      /\ Full \in 0..LOG_BUFFER_SIZE /\ n \in 0..LOG_BUFFER_SIZE
      /\ n \in Nat /\ Full \in Nat /\ Full - n \in 0..LOG_BUFFER_SIZE
  BY FullIs DEF LogTypeOK
<1>2. r' = After(r, n) /\ r' \in Slots
  BY <1>1, AfterIs DEF Size
<1>3. Full' = Full - n
  <2>1. Full' = IF w >= r' THEN w - r' ELSE w - r' + Size
    BY <1>1, <1>2, DistanceIs DEF Full, Size
  <2> QED BY <1>1, <1>2, <2>1 DEF After, Slots, Size
<1> DEFINE s == Held(buf, r, n)
           t == Held(buf, r', Full - n)
           u == Held(buf, r, Full)
<1>4. Content(r, n) = s /\ Content(r, Full) = u
  BY <1>1, ContentIs
<1>5. Content(r, Full)' = t
  <2>1. Content(r, Full)' = [k \in 1..(Full - n) |-> buf[(r' + k - 1) % (LOG_BUFFER_SIZE + 1)]]
    BY <1>3 DEF Content
  <2>2. [k \in 1..(Full - n) |-> buf[(r' + k - 1) % (LOG_BUFFER_SIZE + 1)]] = Held(buf, r', Full - n)
    <3>1. PICK i \in Slots, m \in 0..LOG_BUFFER_SIZE, b \in [Slots -> Byte] : i = r' /\ m = Full - n /\ b = buf
      BY <1>1, <1>2
    <3>2. [k \in 1..m |-> b[(i + k - 1) % (LOG_BUFFER_SIZE + 1)]] = Held(b, i, m)
      BY HeldIs
    <3> QED BY <3>1, <3>2
  <2> QED BY <2>1, <2>2
<1>6. s \in Seq(Byte) /\ Len(s) = n /\ \A k \in 1..n : s[k] = buf[After(r, k - 1)]
  BY <1>1, HeldIs
<1>7. /\ t \in Seq(Byte) /\ Len(t) = Full - n
      /\ \A k \in 1..(Full - n) : t[k] = buf[After(r', k - 1)]
  <2>1. PICK i \in Slots, m \in 0..LOG_BUFFER_SIZE, b \in [Slots -> Byte] : i = r' /\ m = Full - n /\ b = buf
    BY <1>1, <1>2
  <2>2. /\ Held(b, i, m) \in Seq(Byte) /\ Len(Held(b, i, m)) = m
        /\ \A k \in 1..m : Held(b, i, m)[k] = b[After(i, k - 1)]
    BY HeldIs
  <2> QED BY <2>1, <2>2
<1>8. u \in Seq(Byte) /\ Len(u) = Full /\ \A k \in 1..Full : u[k] = buf[After(r, k - 1)]
  BY <1>1, HeldIs
<1> HIDE DEF s, t, u
<1>9. ASSUME NEW k \in 1..n PROVE u[k] = s[k]
  <2>1. k \in 1..Full
    BY <1>1
  <2> QED BY <1>6, <1>8, <2>1
<1>10. ASSUME NEW k \in 1..(Full - n) PROVE u[n + k] = t[k]
  <2>1. n + k \in 1..Full /\ k \in Nat
    BY <1>1
  <2>2. After(r', k - 1) = After(r, n + k - 1)
    BY <1>1, <1>2, <2>1 DEF After, Slots, Size
  <2> QED BY <1>7, <1>8, <2>1, <2>2
<1>11. u = s \o t
  <2>1. Len(u) = Len(s) + Len(t) /\ \A k \in 1..Len(s) : u[k] = s[k]
    BY <1>1, <1>6, <1>7, <1>8, <1>9
  <2>2. \A k \in 1..Len(t) : u[Len(s) + k] = t[k]
    BY <1>6, <1>7, <1>10
  <2> QED BY <1>6, <1>7, <1>8, <2>1, <2>2, InARow
<1> QED BY <1>2, <1>4, <1>5, <1>11

-----------------------------------------------------------------------------
(* What the steps do to the logs.                                          *)

(* The running frame and its job.                                          *)
LEMMA RunningIs ==
  ASSUME LogInv
  PROVE  /\ frames \in Seq(Frame) /\ jobs \in Seq(Jobs) /\ Top \in Nat /\ Top >= 1
         /\ Top = Len(frames) /\ Top = Len(jobs)
         /\ Running = frames[Top] /\ Running \in Frame /\ Job = jobs[Top] /\ Job \in Jobs
         /\ Fits(Top, Job, Running)
         /\ frames = [frames EXCEPT ![Top] = Running] /\ jobs = [jobs EXCEPT ![Top] = Job]
<1>1. /\ frames \in Seq(Frame) /\ Top \in Nat /\ Top >= 1 /\ Top = Len(frames)
      /\ Running = frames[Top] /\ Running \in Frame
  BY TopIsFrame DEF LogInv, SectionInv
<1>2. jobs \in Seq(Jobs) /\ Len(jobs) = Top /\ Job = jobs[Top] /\ Job \in Jobs
  BY <1>1 DEF LogInv, LogTypeOK, Job
<1>3. Fits(Top, Job, Running)
  BY <1>1, <1>2 DEF LogInv, JobsKept
<1>4. frames = [frames EXCEPT ![Top] = Running] /\ jobs = [jobs EXCEPT ![Top] = Job]
  BY <1>1, <1>2
<1> QED BY <1>1, <1>2, <1>3, <1>4

(* What was preempted is in no section, so inside neither lwrb_write.      *)
LEMMA PreemptedIs ==
  ASSUME LogInv, NEW f \in 1..(Top - 1)
  PROVE  f \in 1..Top /\ frames[f] = NewFrame /\ jobs[f].pc \notin InSection /\ Fits(f, jobs[f], frames[f])
<1>1. f \in 1..Top
  BY RunningIs
<1>2. frames[f] = NewFrame /\ Fits(f, jobs[f], frames[f])
  BY <1>1 DEF LogInv, SectionInv, SectionsExclusive, JobsKept
<1> QED BY <1>1, <1>2 DEF Fits

LEMMA RingRests ==
  ASSUME UNCHANGED <<buf, w, r>>
  PROVE  /\ Full' = Full /\ Free' = Free /\ Content(r, Full)' = Content(r, Full)
         /\ \A m : Content(r, m)' = Content(r, m)
         /\ \A f, j, fr : Fits(f, j, fr)' <=> Fits(f, j, fr)
<1>1. Full' = Full
  BY DEF Full
<1>2. Free' = Free
  BY <1>1 DEF Free
<1>3. \A m : Content(r, m)' = Content(r, m)
  BY DEF Content
<1>4. Content(r, Full)' = Content(r, Full)
  BY <1>1 DEF Content
<1>5. \A f, j, fr : Fits(f, j, fr)' <=> Fits(f, j, fr)
  BY <1>1, <1>2 DEF Fits, Content
<1> QED BY <1>1, <1>2, <1>3, <1>4, <1>5

LEMMA FramesReplaced ==
  ASSUME LogInv, NEW fr \in Frame, NEW t, t = Top, frames' = [frames EXCEPT ![t] = fr]
  PROVE  /\ frames' \in Seq(Frame) /\ Len(frames') = t /\ frames'[t] = fr
         /\ \A i \in 1..(t - 1) : frames'[i] = frames[i]
<1>1. frames \in Seq(Frame) /\ Len(frames) >= 1 /\ t = Len(frames)
  BY RunningIs
<1>2. frames' = [frames EXCEPT ![Len(frames)] = fr]
  BY <1>1
<1>3. /\ frames' \in Seq(Frame) /\ Len(frames') = Len(frames) /\ frames'[Len(frames')] = fr
      /\ \A i \in 1..(Len(frames') - 1) : frames'[i] = frames[i]
  BY <1>1, <1>2, TopReplaced
<1> QED BY <1>1, <1>3

(* The running frame goes on: its job becomes j, its sections fr.  Bytes   *)
(* move in the ring only behind those that are stored, unless it is main   *)
(* code that runs.                                                         *)
LEMMA GoesOn ==
  ASSUME LogInv, NEW j \in Jobs, NEW fr \in Frame, NEW t, t = Top,
         frames' = [frames EXCEPT ![t] = fr], jobs' = [jobs EXCEPT ![t] = j],
         Fits(t, j, fr)',
         t # 1 => /\ r' = r /\ Full' >= Full
                  /\ \A m \in 0..Full : Content(r, m)' = Content(r, m),
         buf' \in [Slots -> Byte], w' \in Slots, r' \in Slots, UNCHANGED filter,
         out' \in Seq(Byte), logged' \in Seq(Byte), messages' \in Nat
  PROVE  /\ LogTypeOK' /\ JobsKept'
         /\ jobs'[1] = IF t = 1 THEN j ELSE jobs[1]
<1>1. /\ frames \in Seq(Frame) /\ jobs \in Seq(Jobs) /\ t \in Nat /\ t >= 1
      /\ t = Len(frames) /\ t = Len(jobs)
  BY RunningIs
<1>2. /\ frames' \in Seq(Frame) /\ Len(frames') = t /\ frames'[t] = fr
      /\ \A i \in 1..(t - 1) : frames'[i] = frames[i]
  BY FramesReplaced
<1>3. /\ jobs' \in Seq(Jobs) /\ Len(jobs') = t /\ jobs'[t] = j
      /\ \A i \in 1..(t - 1) : jobs'[i] = jobs[i]
  BY <1>1, TopReplaced
<1>4. LogTypeOK'
  BY <1>2, <1>3 DEF LogTypeOK, LogInv
<1>5. ASSUME NEW f \in 1..t PROVE Fits(f, jobs[f], frames[f])'
  <2>1. CASE f = t
    BY <1>2, <1>3, <2>1 DEF Fits
  <2>2. CASE f # t
    <3>1. f \in 1..(t - 1) /\ t # 1
      BY <1>1, <2>2
    <3>2. /\ frames'[f] = NewFrame /\ jobs'[f] = jobs[f] /\ jobs[f].pc \notin InSection
          /\ Fits(f, jobs[f], frames[f])
      BY <1>2, <1>3, <3>1, PreemptedIs
    <3>3. NewFrame.at = "code"
      BY DEF NewFrame
    <3>4. jobs[f].pc \in Dumping => f = 1
      BY <3>2 DEF Fits
    <3>5. jobs[f].pc = "advance" => jobs[f].n <= Full' /\ jobs[f].chunk = Content(r, jobs[f].n)'
      <4> SUFFICES ASSUME jobs[f].pc = "advance"
                   PROVE  jobs[f].n <= Full' /\ jobs[f].chunk = Content(r, jobs[f].n)'
        OBVIOUS
      <4>1. jobs[f].n <= Full /\ jobs[f].chunk = Content(r, jobs[f].n)
        BY <3>2 DEF Fits
      <4>2. jobs[f].n \in Nat /\ Full \in Nat /\ Full' \in Nat
        <5>1. jobs[f] \in Jobs
          BY <1>1
        <5>2. Full \in Nat
          BY FullIs DEF LogInv
        <5>3. Full' \in Nat
          BY DistanceIs, LoggingAssumption DEF Full, Size
        <5> QED BY <5>1, <5>2, <5>3 DEF Jobs
      <4> QED BY <3>1, <4>1, <4>2
    <3> QED BY <3>2, <3>3, <3>4, <3>5 DEF Fits, InSection
  <2> QED BY <2>1, <2>2
<1>6. JobsKept'
  BY <1>2, <1>5 DEF JobsKept, Top
<1>7. jobs'[1] = IF t = 1 THEN j ELSE jobs[1]
  BY <1>1, <1>3
<1> QED BY <1>4, <1>6, <1>7

(* What a frame holds between lwrb_read and UART1_SendString.              *)
Taken(j) == IF j.pc = "send" THEN j.chunk ELSE <<>>

(* The running frame goes on without touching the ring.                    *)
LEMMA Quiet ==
  ASSUME LogInv, NEW j \in Jobs, NEW fr \in Frame,
         frames' = [frames EXCEPT ![Top] = fr], jobs' = [jobs EXCEPT ![Top] = j],
         Fits(Top, j, fr), Taken(j) = Taken(Job),
         UNCHANGED <<filter, buf, w, r, out, logged>>, messages' \in Nat
  PROVE  LogTypeOK' /\ JobsKept' /\ LogsInOrder'
<1>1. /\ Full' = Full /\ Content(r, Full)' = Content(r, Full)
      /\ \A m : Content(r, m)' = Content(r, m)
      /\ \A f, i, g : Fits(f, i, g)' <=> Fits(f, i, g)
  BY RingRests
<1>2. /\ buf' \in [Slots -> Byte] /\ w' \in Slots /\ r' \in Slots /\ r' = r
      /\ out' \in Seq(Byte) /\ logged' \in Seq(Byte) /\ Full \in Nat
  BY FullIs DEF LogInv, LogTypeOK
<1>3. PICK t : t = Top
  OBVIOUS
<1>4. /\ frames' = [frames EXCEPT ![t] = fr] /\ jobs' = [jobs EXCEPT ![t] = j]
      /\ Fits(t, j, fr) /\ Fits(t, j, fr)'
  BY <1>1, <1>3
<1>5. Full' >= Full /\ \A m \in 0..Full : Content(r, m)' = Content(r, m)
  BY <1>1, <1>2
<1>6. LogTypeOK' /\ JobsKept' /\ jobs'[1] = IF t = 1 THEN j ELSE jobs[1]
  BY <1>2, <1>3, <1>4, <1>5, GoesOn
<1>7. Taken(jobs'[1]) = Taken(jobs[1])
  BY <1>3, <1>6, RunningIs
<1>8. Pending' = Pending
  BY <1>1, <1>7 DEF Pending, Taken
<1> QED BY <1>6, <1>8 DEF LogInv, LogsInOrder

(* The record of an idle frame, and the fields of a job.                   *)
LEMMA JobIs ==
  /\ Idle \in Jobs /\ Idle.pc = "idle" /\ NewFrame \in Frame
  /\ \A j \in Jobs : /\ j.pc \in {"idle", "write"} \cup InSection \cup Dumping
                     /\ j.msg \in Nat /\ j.size \in Nat /\ j.n \in Nat
                     /\ j.from \in Slots /\ j.chunk \in Seq(Byte)
<1>1. 0 \in Slots /\ <<>> \in Seq(Byte)
  BY LoggingAssumption DEF Slots
<1> QED BY <1>1, NewFrameIsQuiet DEF Idle, Jobs

(* log_if, LOG: a message is on its way to the buffer.                     *)
LEMMA WriteKeeps ==
  ASSUME LogInv, NEW size \in Nat, Working("idle"), Write(size)
  PROVE  LogTypeOK' /\ JobsKept' /\ LogsInOrder'
<1> DEFINE j == [Idle EXCEPT !.pc = "write", !.msg = messages + 1, !.size = size]
<1>1. messages \in Nat /\ messages' \in Nat
  BY DEF LogInv, LogTypeOK, Write
<1>2. j \in Jobs /\ j.pc = "write"
  <2>1. Idle \in Jobs /\ messages + 1 \in Nat
    BY <1>1, JobIs
  <2> QED BY <2>1 DEF Jobs
<1>3. Job.pc = "idle" /\ Running.at = "code"
  BY DEF Working, InCode
<1>4. jobs' = [jobs EXCEPT ![Top] = j] /\ UNCHANGED <<frames, filter, buf, w, r, out, logged>>
  BY DEF Write, section_vars
<1> HIDE DEF j
<1>5. Fits(Top, j, Running) /\ Taken(j) = Taken(Job)
  BY <1>2, <1>3 DEF Fits, Taken, InSection, Dumping
<1> QED BY <1>1, <1>2, <1>4, <1>5, RunningIs, Quiet

(* BSP_ENTER_CRITICAL around the write.                                    *)
LEMMA WriteEntersKeeps ==
  ASSUME LogInv, WriteEnters
  PROVE  LogTypeOK' /\ JobsKept' /\ LogsInOrder'
<1> DEFINE j == [Job EXCEPT !.pc = "reserve"]
           fr == [Running EXCEPT !.at = "entering"]
<1>1. Job \in Jobs /\ Running \in Frame /\ Job.pc = "write"
  BY RunningIs DEF WriteEnters, Working
<1>2. j \in Jobs /\ j.pc = "reserve" /\ fr \in Frame /\ fr.at = "entering"
  BY <1>1 DEF Jobs, Frame, InSection
<1>3. /\ jobs' = [jobs EXCEPT ![Top] = j] /\ frames' = [frames EXCEPT ![Top] = fr]
      /\ UNCHANGED <<filter, buf, w, r, out, logged>> /\ messages' = messages
  BY DEF WriteEnters, EnterDisables, Go, Job, Running
<1> HIDE DEF j, fr
<1>4. fr # NewFrame
  BY <1>2, NewFrameIsQuiet
<1>5. Fits(Top, j, fr) /\ Taken(j) = Taken(Job)
  BY <1>1, <1>2, <1>4 DEF Fits, Taken, InSection, Dumping
<1>6. messages' \in Nat
  BY <1>3 DEF LogInv, LogTypeOK
<1> QED BY <1>2, <1>3, <1>5, <1>6, Quiet

(* lwrb_write looks at the indices.                                        *)
LEMMA LwrbReservesKeeps ==
  ASSUME LogInv, LwrbReserves
  PROVE  LogTypeOK' /\ JobsKept' /\ LogsInOrder'
<1> DEFINE j == [Job EXCEPT !.pc = "copy", !.from = w, !.n = Least(Job.size, Free)]
<1>1. Job \in Jobs /\ Job.pc = "reserve" /\ Running.at = "code" /\ Fits(Top, Job, Running)
  BY RunningIs DEF LwrbReserves, Working, InCode
<1>2. w \in Slots /\ Free \in Nat /\ Job.size \in Nat /\ messages \in Nat
  BY <1>1, FullIs DEF LogInv, LogTypeOK, Jobs
<1>3. Least(Job.size, Free) \in Nat /\ Least(Job.size, Free) <= Free
  BY <1>2 DEF Least
<1>4. j \in Jobs /\ j.pc = "copy" /\ j.from = w /\ j.n <= Free
  BY <1>1, <1>2, <1>3 DEF Jobs, InSection
<1>5. jobs' = [jobs EXCEPT ![Top] = j] /\ UNCHANGED <<frames, filter, buf, w, r, out, messages, logged>>
  BY RunningIs DEF LwrbReserves, section_vars, Job
<1> HIDE DEF j
<1>6. Fits(Top, j, Running) /\ Taken(j) = Taken(Job)
  BY <1>1, <1>4 DEF Fits, Taken, InSection, Dumping
<1> QED BY <1>2, <1>4, <1>5, <1>6, RunningIs, Quiet

(* BSP_EXIT_CRITICAL after the write.                                      *)
LEMMA WriteLeavesKeeps ==
  ASSUME LogInv, WriteLeaves
  PROVE  LogTypeOK' /\ JobsKept' /\ LogsInOrder'
<1> DEFINE j == [Job EXCEPT !.pc = "idle"]
           fr == [depth |-> Running.depth - 1, at |-> "leaving"]
<1>1. Job \in Jobs /\ Running \in Frame /\ Job.pc = "written" /\ Running.depth > 0
  BY RunningIs DEF WriteLeaves, Working, ExitCounts
<1>2. j \in Jobs /\ j.pc = "idle" /\ fr \in Frame
  BY <1>1 DEF Jobs, Frame
<1>3. /\ jobs' = [jobs EXCEPT ![Top] = j] /\ frames' = [frames EXCEPT ![Top] = fr]
      /\ UNCHANGED <<filter, buf, w, r, out, logged>> /\ messages' = messages
  BY DEF WriteLeaves, ExitCounts, Go, Job
<1> HIDE DEF j, fr
<1>4. Fits(Top, j, fr) /\ Taken(j) = Taken(Job)
  BY <1>1, <1>2 DEF Fits, Taken, InSection, Dumping
<1>5. messages' \in Nat
  BY <1>3 DEF LogInv, LogTypeOK
<1> QED BY <1>2, <1>3, <1>4, <1>5, Quiet

(* Sections of other code, and the second halves of both macros.           *)
LEMMA SectionKeeps ==
  ASSUME LogInv, UNCHANGED log_vars,
         \/ EnterCounts
         \/ ExitEnables
         \/ Working("idle") /\ EnterDisables
         \/ Working("idle") /\ ExitCounts
  PROVE  LogTypeOK' /\ JobsKept' /\ LogsInOrder'
<1>1. Job \in Jobs /\ Running \in Frame /\ Fits(Top, Job, Running)
  BY RunningIs
<1>2. /\ jobs' = [jobs EXCEPT ![Top] = Job]
      /\ UNCHANGED <<filter, buf, w, r, out, logged>> /\ messages' \in Nat
  BY RunningIs DEF log_vars, LogInv, LogTypeOK
<1>3. Running.depth \in Nat
  BY <1>1 DEF Frame
<1>4. CASE EnterCounts
  <2> DEFINE fr == [depth |-> Running.depth + 1, at |-> "code"]
  <2>1. fr \in Frame /\ fr.at = "code" /\ fr.depth = Running.depth + 1
    BY <1>3 DEF Frame
  <2>2. frames' = [frames EXCEPT ![Top] = fr]
    BY <1>4 DEF EnterCounts
  <2> HIDE DEF fr
  <2>3. fr # NewFrame
    <3>1. fr.depth # 0
      BY <1>3, <2>1
    <3> QED BY <2>1, <3>1, NewFrameIsQuiet
  <2>4. Fits(Top, Job, fr)
    BY <1>1, <2>1, <2>3 DEF Fits
  <2> QED BY <1>1, <1>2, <2>1, <2>2, <2>4, Quiet
<1>5. CASE ExitEnables
  <2> DEFINE fr == [Running EXCEPT !.at = "code"]
  <2>1. fr \in Frame /\ fr.at = "code"
    BY <1>1 DEF Frame
  <2>2. frames' = [frames EXCEPT ![Top] = fr]
    BY <1>5 DEF ExitEnables, Running
  <2> HIDE DEF fr
  <2>3. Job.pc = "idle"
    BY <1>1, <1>5 DEF ExitEnables, Fits
  <2>4. Fits(Top, Job, fr)
    BY <2>1, <2>3 DEF Fits, InSection, Dumping
  <2> QED BY <1>1, <1>2, <2>1, <2>2, <2>4, Quiet
<1>6. CASE Working("idle") /\ EnterDisables
  <2> DEFINE fr == [Running EXCEPT !.at = "entering"]
  <2>1. fr \in Frame /\ fr.at = "entering"
    BY <1>1 DEF Frame
  <2>2. frames' = [frames EXCEPT ![Top] = fr]
    BY <1>6 DEF EnterDisables, Running
  <2> HIDE DEF fr
  <2>3. Fits(Top, Job, fr)
    BY <1>6, <2>1 DEF Fits, InSection, Dumping, Working
  <2> QED BY <1>1, <1>2, <2>1, <2>2, <2>3, Quiet
<1>7. CASE Working("idle") /\ ExitCounts
  <2> DEFINE fr == [depth |-> Running.depth - 1, at |-> "leaving"]
  <2>1. fr \in Frame
    BY <1>3, <1>7 DEF Frame, ExitCounts
  <2>2. frames' = [frames EXCEPT ![Top] = fr]
    BY <1>7 DEF ExitCounts
  <2> HIDE DEF fr
  <2>3. Fits(Top, Job, fr)
    BY <1>7, <2>1 DEF Fits, InSection, Dumping, Working
  <2> QED BY <1>1, <1>2, <2>1, <2>2, <2>3, Quiet
<1> QED BY <1>4, <1>5, <1>6, <1>7

(* lwrb_write copies and stores its index.                                 *)
LEMMA LwrbWritesKeeps ==
  ASSUME LogInv, LwrbWrites
  PROVE  LogTypeOK' /\ JobsKept' /\ LogsInOrder'
<1>1. PICK t, fr, msg, n : t = Top /\ fr = Running /\ msg = Job.msg /\ n = Job.n
  OBVIOUS
<1>2. PICK j : j = [Idle EXCEPT !.pc = "written"]
  OBVIOUS
<1>3. /\ Job \in Jobs /\ Job.pc = "copy" /\ Fits(t, Job, fr) /\ fr \in Frame
      /\ fr.at = "code"
  BY <1>1, RunningIs DEF LwrbWrites, Working, InCode
<1>4. msg \in Nat /\ n \in 0..Free /\ Job.from = w /\ n \in Nat
  BY <1>1, <1>3, FullIs, JobIs DEF Fits, LogInv
<1>5. /\ jobs' = [jobs EXCEPT ![t] = j] /\ frames' = [frames EXCEPT ![t] = fr]
      /\ UNCHANGED <<filter, r, out, messages>> /\ logged' = logged \o Text(msg, n)
      /\ w' = (w + n) % (LOG_BUFFER_SIZE + 1)
      /\ buf' = [s \in Slots |-> LET k == ((s - w) % (LOG_BUFFER_SIZE + 1)) + 1 IN
                                 IF k <= n THEN <<msg, k>> ELSE buf[s]]
  BY <1>1, <1>2, <1>4, RunningIs DEF LwrbWrites, section_vars
<1>6. j \in Jobs /\ j.pc = "written"
  <2>1. Idle \in Jobs
    BY JobIs
  <2> QED BY <1>2, <2>1 DEF Jobs, InSection
<1>7. /\ w' \in Slots /\ buf' \in [Slots -> Byte] /\ Full' = Full + n
      /\ \A m \in 0..Full : Content(r, m)' = Content(r, m)
      /\ Content(r, Full)' = Content(r, Full) \o Text(msg, n)
  BY <1>4, <1>5, BytesStored DEF LogInv
<1>8. Full \in Nat /\ Full' >= Full /\ Full \in 0..LOG_BUFFER_SIZE
  BY <1>4, <1>7, FullIs DEF LogInv
<1>9. Fits(t, j, fr)'
  <2>1. fr # NewFrame
    BY <1>3 DEF Fits, InSection
  <2> QED BY <1>3, <1>6, <2>1 DEF Fits, Dumping
<1>10. Text(msg, n) \in Seq(Byte) /\ out \in Seq(Byte) /\ logged \in Seq(Byte)
  BY <1>4, TextIs DEF LogInv, LogTypeOK
<1>11. out' \in Seq(Byte) /\ logged' \in Seq(Byte) /\ messages' \in Nat /\ r' \in Slots
  BY <1>5, <1>10 DEF LogInv, LogTypeOK
<1>12. LogTypeOK' /\ JobsKept' /\ jobs'[1] = IF t = 1 THEN j ELSE jobs[1]
  <2>1. r' = r /\ Full' >= Full /\ \A m \in 0..Full : Content(r, m)' = Content(r, m)
    BY <1>5, <1>7, <1>8
  <2>2. t = Top /\ fr \in Frame /\ filter' = filter
    BY <1>1, <1>3, <1>5
  <2> QED BY <1>5, <1>6, <1>7, <1>9, <1>11, <2>1, <2>2, GoesOn
<1>13. Taken(jobs'[1]) = Taken(jobs[1])
  BY <1>1, <1>3, <1>6, <1>12, RunningIs DEF Taken
<1>14. Taken(jobs[1]) \in Seq(Byte)
  <2>1. jobs[1] \in Jobs
    BY RunningIs
  <2> QED BY <2>1, JobIs DEF Taken
<1>15. out \o (Taken(jobs[1]) \o (Content(r, Full) \o Text(msg, n)))
         = (out \o (Taken(jobs[1]) \o Content(r, Full))) \o Text(msg, n)
  <2>1. Content(r, Full) \in Seq(Byte)
    BY <1>8, HeldIs, ContentIs DEF LogInv, LogTypeOK
  <2> DEFINE a == out
             b == Taken(jobs[1])
             c == Content(r, Full)
             d == Text(msg, n)
  <2>2. a \in Seq(Byte) /\ b \in Seq(Byte) /\ c \in Seq(Byte) /\ d \in Seq(Byte)
    BY <1>10, <1>14, <2>1
  <2> HIDE DEF a, b, c, d
  <2>3. a \o (b \o (c \o d)) = (a \o (b \o c)) \o d
    <3>1. b \o (c \o d) = (b \o c) \o d
      BY <2>2, BytesAssociate
    <3>2. PICK e \in Seq(Byte) : e = b \o c
      BY <2>2, ConcatProperties
    <3>3. a \o (e \o d) = (a \o e) \o d
      <4>1. a \in Seq(Byte) /\ d \in Seq(Byte) /\ e \in Seq(Byte)
        BY <2>2, <3>2
      <4> QED BY <4>1, BytesAssociate, Zenon
    <3> QED BY <3>1, <3>2, <3>3
  <2> QED BY <2>3 DEF a, b, c, d
<1> QED
  BY <1>5, <1>7, <1>12, <1>13, <1>15 DEF LogInv, LogsInOrder, Pending, Taken

(* log_to_buffer_dump_to_uart looks at how much there is.                  *)
LEMMA AsksKeeps ==
  ASSUME LogInv, DumpStarts \/ DumpAsks
  PROVE  LogTypeOK' /\ JobsKept' /\ LogsInOrder'
<1>1. Job \in Jobs /\ Full \in Nat /\ messages \in Nat /\ Fits(Top, Job, Running) /\ Running \in Frame
  BY RunningIs, FullIs DEF LogInv, LogTypeOK
<1>2. /\ Job.pc \in {"idle", "dump", "ask"} /\ Running.at = "code" /\ Top = 1
      /\ UNCHANGED <<frames, filter, buf, w, r, out, messages, logged>>
      /\ jobs' = [jobs EXCEPT ![Top].pc = "dump", ![Top].size = Full] \/ jobs' = [jobs EXCEPT ![Top] = Idle]
  BY <1>1 DEF DumpStarts, DumpAsks, Working, InCode, NumReady, section_vars, Fits, Dumping
<1>3. CASE jobs' = [jobs EXCEPT ![Top].pc = "dump", ![Top].size = Full]
  <2> DEFINE j == [Job EXCEPT !.pc = "dump", !.size = Full]
  <2>1. j \in Jobs /\ j.pc = "dump"
    BY <1>1 DEF Jobs, Dumping
  <2>2. jobs' = [jobs EXCEPT ![Top] = j]
    BY <1>3, RunningIs DEF Job
  <2> HIDE DEF j
  <2>3. Fits(Top, j, Running) /\ Taken(j) = Taken(Job)
    BY <1>2, <2>1 DEF Fits, Taken, InSection, Dumping
  <2> QED BY <1>1, <1>2, <2>1, <2>2, <2>3, RunningIs, Quiet
<1>4. CASE jobs' = [jobs EXCEPT ![Top] = Idle]
  <2>1. Fits(Top, Idle, Running) /\ Taken(Idle) = Taken(Job)
    BY <1>2, JobIs DEF Fits, Taken, InSection, Dumping
  <2> QED BY <1>1, <1>2, <1>4, <2>1, JobIs, RunningIs, Quiet
<1> QED BY <1>2, <1>3, <1>4

(* lwrb_read copies the oldest bytes.                                      *)
LEMMA LwrbReadsKeeps ==
  ASSUME LogInv, LwrbReads
  PROVE  LogTypeOK' /\ JobsKept' /\ LogsInOrder'
<1> DEFINE n == Least(Least(Job.size, 2), Full)
           j == [Job EXCEPT !.pc = "advance", !.n = n, !.chunk = Content(r, n)]
<1>1. /\ Job \in Jobs /\ Job.pc = "dump" /\ Running.at = "code" /\ Running \in Frame
      /\ Fits(Top, Job, Running)
  BY RunningIs DEF LwrbReads, Working, InCode
<1>2. Top = 1
  BY <1>1 DEF Fits, Dumping
<1>3. Full \in Nat /\ Job.size \in Nat /\ messages \in Nat
  BY <1>1, FullIs DEF LogInv, LogTypeOK, Jobs
<1>4. n \in Nat /\ n <= Full
  BY <1>3 DEF Least
<1>5. Content(r, n) \in Seq(Byte)
  <2> HIDE DEF n
  <2>1. n \in 0..LOG_BUFFER_SIZE
    BY <1>4, FullIs DEF LogInv
  <2> QED BY <2>1, ContentIs, HeldIs DEF LogInv, LogTypeOK
<1>6. /\ jobs' = [jobs EXCEPT ![Top] = j]
      /\ UNCHANGED <<frames, filter, buf, w, r, out, messages, logged>>
  BY RunningIs DEF LwrbReads, section_vars, Job
<1> HIDE DEF n
<1>7. j \in Jobs /\ j.pc = "advance" /\ j.n = n /\ j.chunk = Content(r, n)
  BY <1>1, <1>4, <1>5 DEF Jobs, Dumping
<1> HIDE DEF j
<1>8. Fits(Top, j, Running) /\ Taken(j) = Taken(Job)
  BY <1>1, <1>2, <1>4, <1>7 DEF Fits, Taken, InSection, Dumping
<1> QED BY <1>1, <1>3, <1>6, <1>7, <1>8, RunningIs, Quiet

LEMMA NothingBefore == ASSUME NEW S, NEW s \in Seq(S) PROVE <<>> \o s = s
BY SMT

(* ... and moves the read index past them.                                 *)
LEMMA LwrbAdvancesKeeps ==
  ASSUME LogInv, LwrbAdvances
  PROVE  LogTypeOK' /\ JobsKept' /\ LogsInOrder'
<1>1. PICK t, fr, n, j : t = Top /\ fr = Running /\ n = Job.n /\ j = [Job EXCEPT !.pc = "send"]
  OBVIOUS
<1>2. /\ Job \in Jobs /\ Job.pc = "advance" /\ Fits(t, Job, fr) /\ fr \in Frame
      /\ fr.at = "code"
  BY <1>1, RunningIs DEF LwrbAdvances, Working, InCode
<1>3. t = 1 /\ n \in Nat /\ n <= Full /\ Job.chunk = Content(r, n)
  BY <1>1, <1>2, JobIs DEF Fits, Dumping
<1>4. j \in Jobs /\ j.pc = "send" /\ j.chunk = Content(r, n)
  BY <1>1, <1>2, <1>3 DEF Jobs, Dumping
<1>5. /\ jobs' = [jobs EXCEPT ![t] = j] /\ frames' = [frames EXCEPT ![t] = fr]
      /\ UNCHANGED <<filter, buf, w, out, messages, logged>>
      /\ r' = (r + n) % (LOG_BUFFER_SIZE + 1)
  BY <1>1, RunningIs DEF LwrbAdvances, Go, section_vars, Job
<1>6. n \in 0..Full
  BY <1>3, FullIs DEF LogInv
<1>7. r' \in Slots /\ Content(r, Full) = Content(r, n) \o Content(r, Full)'
  BY <1>5, <1>6, BytesTaken DEF LogInv
<1>8. Fits(t, j, fr)'
  BY <1>2, <1>3, <1>4 DEF Fits, InSection, Dumping
<1>9. LogTypeOK' /\ JobsKept' /\ jobs'[1] = j
  <2>1. /\ buf' \in [Slots -> Byte] /\ w' \in Slots /\ filter' = filter
        /\ out' \in Seq(Byte) /\ logged' \in Seq(Byte) /\ messages' \in Nat
    BY <1>5 DEF LogInv, LogTypeOK
  <2>2. /\ t = Top /\ fr \in Frame /\ j \in Jobs /\ r' \in Slots /\ Fits(t, j, fr)'
        /\ jobs' = [jobs EXCEPT ![t] = j] /\ frames' = [frames EXCEPT ![t] = fr]
    BY <1>1, <1>2, <1>4, <1>5, <1>7, <1>8
  <2>3. t # 1 => /\ r' = r /\ Full' >= Full
                 /\ \A m \in 0..Full : Content(r, m)' = Content(r, m)
    BY <1>3
  <2>4. LogTypeOK' /\ JobsKept' /\ jobs'[1] = IF t = 1 THEN j ELSE jobs[1]
    BY <2>1, <2>2, <2>3, GoesOn
  <2> QED BY <1>3, <2>4
<1>10. Taken(jobs[1]) = <<>> /\ Taken(jobs'[1]) = Content(r, n)
  BY <1>1, <1>2, <1>3, <1>4, <1>9, RunningIs DEF Taken
<1>11. <<>> \o Content(r, Full) = Content(r, Full)
  <2>1. Content(r, Full) \in Seq(Byte)
    BY ContentTyped DEF LogInv
  <2> QED BY <2>1, NothingBefore
<1> QED
  BY <1>5, <1>7, <1>9, <1>10, <1>11 DEF LogInv, LogsInOrder, Pending, Taken

(* What was read goes to the UART.                                         *)
LEMMA UARTKeeps ==
  ASSUME LogInv, UART1_SendString
  PROVE  LogTypeOK' /\ JobsKept' /\ LogsInOrder'
<1>1. PICK t, fr, chunk : t = Top /\ fr = Running /\ chunk = Job.chunk
  OBVIOUS
<1>2. PICK j : j = [Idle EXCEPT !.pc = "ask"]
  OBVIOUS
<1>3. /\ Job \in Jobs /\ Job.pc = "send" /\ Fits(t, Job, fr) /\ fr \in Frame
      /\ fr.at = "code" /\ chunk \in Seq(Byte)
  BY <1>1, RunningIs, JobIs DEF UART1_SendString, Working, InCode
<1>4. t = 1
  BY <1>3 DEF Fits, Dumping
<1>5. j \in Jobs /\ j.pc = "ask"
  <2>1. Idle \in Jobs
    BY JobIs
  <2> QED BY <1>2, <2>1 DEF Jobs, Dumping
<1>6. /\ jobs' = [jobs EXCEPT ![t] = j] /\ frames' = [frames EXCEPT ![t] = fr]
      /\ UNCHANGED <<filter, buf, w, r, messages, logged>> /\ out' = out \o chunk
  BY <1>1, <1>2, RunningIs DEF UART1_SendString, section_vars
<1>7. Fits(t, j, fr)'
  BY <1>3, <1>4, <1>5 DEF Fits, InSection, Dumping
<1>8. out \in Seq(Byte) /\ out \o chunk \in Seq(Byte)
  BY <1>3, ConcatProperties DEF LogInv, LogTypeOK
<1>9. LogTypeOK' /\ JobsKept' /\ jobs'[1] = j
  <2>1. /\ buf' \in [Slots -> Byte] /\ w' \in Slots /\ r' \in Slots /\ filter' = filter
        /\ out' \in Seq(Byte) /\ logged' \in Seq(Byte) /\ messages' \in Nat
    BY <1>6, <1>8 DEF LogInv, LogTypeOK
  <2> QED BY <1>1, <1>3, <1>4, <1>5, <1>6, <1>7, <2>1, GoesOn
<1>10. Taken(jobs[1]) = chunk /\ Taken(jobs'[1]) = <<>>
  BY <1>1, <1>3, <1>4, <1>5, <1>9, RunningIs DEF Taken
<1>11. Content(r, Full)' = Content(r, Full)
  BY <1>6, RingRests
<1>12. out \o (chunk \o Content(r, Full)) = (out \o chunk) \o (<<>> \o Content(r, Full))
  <2>1. Content(r, Full) \in Seq(Byte)
    BY ContentTyped DEF LogInv
  <2> DEFINE c == Content(r, Full)
  <2>2. c \in Seq(Byte)
    BY <2>1
  <2> HIDE DEF c
  <2>3. out \o (chunk \o c) = (out \o chunk) \o c
    <3>1. out \in Seq(Byte) /\ chunk \in Seq(Byte)
      BY <1>3, <1>8
    <3> QED BY <2>2, <3>1, BytesAssociate
  <2>4. <<>> \o c = c
    BY <2>2, NothingBefore
  <2> QED BY <2>3, <2>4 DEF c
<1> QED
  BY <1>6, <1>9, <1>10, <1>11, <1>12 DEF LogInv, LogsInOrder, Pending, Taken

(* One element more, and one less.                                         *)
LEMMA Appended ==
  ASSUME NEW S, NEW s \in Seq(S), NEW e \in S, NEW n, n = Len(s), NEW u, u = Append(s, e)
  PROVE  u \in Seq(S) /\ Len(u) = n + 1 /\ u[n + 1] = e /\ \A i \in 1..n : u[i] = s[i]
OBVIOUS

LEMMA Shortened ==
  ASSUME NEW S, NEW s \in Seq(S), NEW n, n = Len(s), n > 1, NEW u, u = SubSeq(s, 1, n - 1)
  PROVE  u \in Seq(S) /\ Len(u) = n - 1 /\ \A i \in 1..(n - 1) : u[i] = s[i]
<1>1. n - 1 \in 1..n
  OBVIOUS
<1> QED BY <1>1

(* An interrupt puts a handler, which is in no section, on top of code     *)
(* that is in none.                                                        *)
LEMMA PreemptedKeeps ==
  ASSUME LogInv, Preempted
  PROVE  LogTypeOK' /\ JobsKept' /\ LogsInOrder'
<1>1. PICK t : t = Top
  OBVIOUS
<1>2. /\ frames \in Seq(Frame) /\ jobs \in Seq(Jobs) /\ t \in Nat /\ t >= 1
      /\ t = Len(frames) /\ t = Len(jobs) /\ Idle \in Jobs /\ NewFrame \in Frame
  BY <1>1, RunningIs, JobIs
<1>3. /\ frames' = Append(frames, NewFrame) /\ jobs' = Append(jobs, Idle)
      /\ UNCHANGED <<filter, buf, w, r, out, messages, logged>>
  BY DEF Preempted, Interrupt
<1>4. /\ frames' \in Seq(Frame) /\ Len(frames') = t + 1 /\ frames'[t + 1] = NewFrame
      /\ \A f \in 1..t : frames'[f] = frames[f]
  <2>1. /\ frames \in Seq(Frame) /\ NewFrame \in Frame /\ t = Len(frames)
        /\ frames' = Append(frames, NewFrame)
    BY <1>2, <1>3
  <2> QED BY <2>1, Appended
<1>5. /\ jobs' \in Seq(Jobs) /\ Len(jobs') = t + 1 /\ jobs'[t + 1] = Idle
      /\ \A f \in 1..t : jobs'[f] = jobs[f]
  BY <1>2, <1>3, Appended
<1>6. LogTypeOK'
  BY <1>3, <1>4, <1>5 DEF LogTypeOK, LogInv
<1>7. ASSUME NEW f \in 1..(t + 1) PROVE Fits(f, jobs'[f], frames'[f])
  <2>1. CASE f = t + 1
    BY <1>4, <1>5, <2>1, JobIs DEF Fits, InSection, Dumping, NewFrame
  <2>2. CASE f # t + 1
    <3>1. f \in 1..t
      BY <1>2, <2>2
    <3>2. Fits(f, jobs[f], frames[f])
      BY <1>1, <3>1 DEF LogInv, JobsKept
    <3> QED BY <1>4, <1>5, <3>1, <3>2
  <2> QED BY <2>1, <2>2
<1>8. JobsKept'
  <2>1. ASSUME NEW f \in 1..(t + 1) PROVE Fits(f, jobs[f], frames[f])'
    BY <1>3, <1>7, RingRests DEF Fits, Content, Full, Free
  <2> QED BY <1>4, <2>1 DEF JobsKept, Top
<1>9. Content(r, Full)' = Content(r, Full) /\ jobs'[1] = jobs[1]
  BY <1>2, <1>3, <1>5, RingRests
<1> QED BY <1>3, <1>6, <1>8, <1>9 DEF LogInv, LogsInOrder, Pending

(* A handler that returns leaves what it preempted on top.                 *)
LEMMA ResumedKeeps ==
  ASSUME LogInv, Resumed
  PROVE  LogTypeOK' /\ JobsKept' /\ LogsInOrder'
<1>1. PICK t : t = Top
  OBVIOUS
<1>2. /\ frames \in Seq(Frame) /\ jobs \in Seq(Jobs) /\ t \in Nat /\ t > 1
      /\ t = Len(frames) /\ t = Len(jobs)
  BY <1>1, RunningIs DEF Resumed, HandlerReturns
<1>3. /\ frames' = SubSeq(frames, 1, t - 1) /\ jobs' = SubSeq(jobs, 1, t - 1)
      /\ UNCHANGED <<filter, buf, w, r, out, messages, logged>>
  BY <1>1 DEF Resumed, HandlerReturns
<1>4. t - 1 \in 1..t
  BY <1>2
<1>5. /\ frames' \in Seq(Frame) /\ Len(frames') = t - 1
      /\ \A f \in 1..(t - 1) : frames'[f] = frames[f]
  <2>1. /\ frames \in Seq(Frame) /\ t = Len(frames) /\ t > 1
        /\ frames' = SubSeq(frames, 1, t - 1)
    BY <1>2, <1>3
  <2> QED BY <2>1, Shortened
<1>6. /\ jobs' \in Seq(Jobs) /\ Len(jobs') = t - 1
      /\ \A f \in 1..(t - 1) : jobs'[f] = jobs[f]
  BY <1>2, <1>3, Shortened
<1>7. LogTypeOK'
  BY <1>3, <1>5, <1>6 DEF LogTypeOK, LogInv
<1>8. JobsKept'
  <2>1. ASSUME NEW f \in 1..(t - 1) PROVE Fits(f, jobs[f], frames[f])'
    <3>1. Fits(f, jobs[f], frames[f])
      BY <1>1, <1>2 DEF LogInv, JobsKept
    <3>2. Free' = Free /\ frames'[f] = frames[f] /\ jobs'[f] = jobs[f]
      BY <1>3, <1>5, <1>6 DEF Free, Full
    <3> QED BY <1>3, <3>1, <3>2, RingRests DEF Fits, Content, Full
  <2> QED BY <1>5, <2>1 DEF JobsKept, Top
<1>9. Content(r, Full)' = Content(r, Full) /\ jobs'[1] = jobs[1]
  BY <1>2, <1>3, <1>6, RingRests
<1> QED BY <1>3, <1>7, <1>8, <1>9 DEF LogInv, LogsInOrder, Pending

LEMMA LogInvInit == LogInit => LogInv
<1> SUFFICES ASSUME LogInit PROVE LogInv
  OBVIOUS
<1>1. SectionInv
  BY SectionInvInit DEF LogInit, SectionInv
<1>2. LogTypeOK
  <2>1. jobs = <<Idle>> /\ Idle \in Jobs /\ frames = <<NewFrame>>
    BY JobIs DEF LogInit, SectionInit
  <2>2. 0 \in Slots /\ <<0, 0>> \in Byte
    BY LoggingAssumption DEF Slots, Byte
  <2> QED BY <2>1, <2>2 DEF LogInit, LogTypeOK
<1>3. JobsKept
  <2>1. Top = 1 /\ jobs[1] = Idle /\ frames[1] = NewFrame
    BY DEF LogInit, SectionInit, Top
  <2> QED BY <2>1, JobIs DEF JobsKept, Fits, InSection, Dumping, NewFrame
<1>4. LogsInOrder
  <2>1. Full = 0
    BY FullIs, <1>2 DEF LogInit
  <2>2. Content(r, Full) = <<>>
    BY <2>1 DEF Content
  <2>3. jobs[1].pc # "send"
    BY JobIs DEF LogInit
  <2> QED BY <2>2, <2>3 DEF LogInit, LogsInOrder, Pending
<1> QED BY <1>1, <1>2, <1>3, <1>4 DEF LogInv

(* What a step of the logs does to the sections is a step of theirs.       *)
LEMMA LogStepIsSectionStep == [Next]_vars => [SectionNext]_section_vars
BY DEF Next, Progress, vars, log_if, _log, Write, DumpStarts, SectionEnters, Preempted, Resumed,
       WriteEnters, LwrbReserves, LwrbWrites, WriteLeaves, LwrbReads, LwrbAdvances,
       UART1_SendString, DumpAsks, SectionLeaves, SectionNext

LEMMA LogInvStep == LogInv /\ [Next]_vars => LogInv'
<1> SUFFICES ASSUME LogInv, [Next]_vars PROVE LogInv'
  OBVIOUS
<1>1. SectionInv'
  BY LogStepIsSectionStep, SectionInvStep DEF LogInv, SectionInv
<1>2. ASSUME NEW size \in Sizes, Working("idle"), Write(size)
      PROVE  LogTypeOK' /\ JobsKept' /\ LogsInOrder'
  BY <1>2, WriteKeeps, LoggingAssumption
<1>3. ASSUME UNCHANGED <<section_vars, filter, jobs, buf, w, r, out, messages, logged>>
      PROVE  LogTypeOK' /\ JobsKept' /\ LogsInOrder'
  <2>1. LogTypeOK'
    BY <1>3 DEF LogInv, LogTypeOK, section_vars
  <2>2. JobsKept'
    BY <1>3, RingRests DEF LogInv, JobsKept, section_vars, Top
  <2>3. LogsInOrder'
    BY <1>3, RingRests DEF LogInv, LogsInOrder, Pending
  <2> QED BY <2>1, <2>2, <2>3
<1>4. ASSUME NEW prio \in Prios, NEW id \in Ids, NEW size \in Sizes, log_if(prio, id, size)
      PROVE  LogTypeOK' /\ JobsKept' /\ LogsInOrder'
  BY <1>2, <1>3, <1>4 DEF log_if
<1>5. ASSUME NEW size \in Sizes, _log(size)
      PROVE  LogTypeOK' /\ JobsKept' /\ LogsInOrder'
  BY <1>2, <1>5 DEF _log
<1>6. LogTypeOK' /\ JobsKept' /\ LogsInOrder'
  <2>1. CASE DumpStarts
    BY <2>1, AsksKeeps
  <2>2. CASE SectionEnters
    BY <2>2, SectionKeeps DEF SectionEnters
  <2>3. CASE Preempted
    BY <2>3, PreemptedKeeps
  <2>4. CASE Resumed
    BY <2>4, ResumedKeeps
  <2>5. CASE EnterCounts /\ UNCHANGED log_vars
    BY <2>5, SectionKeeps
  <2>6. CASE ExitEnables /\ UNCHANGED log_vars
    BY <2>6, SectionKeeps
  <2>7. CASE WriteEnters
    BY <2>7, WriteEntersKeeps
  <2>8. CASE LwrbReserves
    BY <2>8, LwrbReservesKeeps
  <2>9. CASE LwrbWrites
    BY <2>9, LwrbWritesKeeps
  <2>10. CASE WriteLeaves
    BY <2>10, WriteLeavesKeeps
  <2>11. CASE LwrbReads
    BY <2>11, LwrbReadsKeeps
  <2>12. CASE LwrbAdvances
    BY <2>12, LwrbAdvancesKeeps
  <2>13. CASE UART1_SendString
    BY <2>13, UARTKeeps
  <2>14. CASE DumpAsks
    BY <2>14, AsksKeeps
  <2>15. CASE SectionLeaves
    BY <2>15, SectionKeeps DEF SectionLeaves
  <2>16. CASE UNCHANGED vars
    BY <1>3, <2>16 DEF vars, log_vars
  <2> QED
    BY <1>4, <1>5, <2>1, <2>2, <2>3, <2>4, <2>5, <2>6, <2>7, <2>8, <2>9, <2>10, <2>11, <2>12,
       <2>13, <2>14, <2>15, <2>16 DEF Next, Progress
<1> QED BY <1>1, <1>6 DEF LogInv

(* However handlers preempt main code and each other, whatever they log    *)
(* and for every size of the ring: what main code dumped, what the dump    *)
(* holds and what lies in the ring are the bytes that fitted, in the order *)
(* written (_write_to_buffer, log_to_buffer_dump_to_uart).                 *)
THEOREM LogsOrdered == Spec => []LogsInOrder
<1>1. LogInv => LogsInOrder
  BY DEF LogInv
<1> QED BY <1>1, LogInvInit, LogInvStep, PTL DEF Spec

(* The sections stay exclusive with the logs and their dump in them.       *)
THEOREM LogSectionsExclusive == Spec => []SectionsExclusive
<1>1. LogInv => SectionsExclusive
  BY DEF LogInv, SectionInv
<1> QED BY <1>1, LogInvInit, LogInvStep, PTL DEF Spec
=============================================================================
