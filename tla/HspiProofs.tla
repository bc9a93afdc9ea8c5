----------------------------- MODULE HspiProofs -----------------------------
(***************************************************************************)
(* hspi_scheduled.c for any number of buffers, argument slots and queued   *)
(* tasks, wherever the interrupt falls between the steps of main code.     *)
(* The one condition is that user code does not free the buffer that       *)
(* _hspi_cleanup frees after the callback (UserFrees; with it the run      *)
(* HspiUserFrees finds a buffer freed twice).                              *)
(*                                                                         *)
(* ArgsInv: every used argument slot has one holder, the task that runs,   *)
(* a queued task or the caller of hydra_pool_get.  RefsInv: the reference  *)
(* counts are the pointers that exist, at least, and exactly until a pool  *)
(* or the queue has run short.  Both are needed for the order of packets   *)
(* (OrderInv: the packets delivered, the one at the callback, those queued *)
(* and the last one filled follow each other) and of sends (SentInv: where *)
(* in the list of calls the transmitter, the running task and the queue    *)
(* are).                                                                   *)
(*                                                                         *)
(* The second part is about the drivers below, hspi.c and serdes.c         *)
(* (DoubleBuffer, as Link).                                                *)
(***************************************************************************)
EXTENDS HspiScheduled, PacketLink, FiniteSetTheorems, WellFoundedInduction, TLAPS

(* A set of numbers that is not empty has a least element: first fit finds *)
(* what is free.                                                           *)
LEMMA MinIsMember ==
  ASSUME NEW S, S \subseteq Nat, S # {}
  PROVE  Min(S) \in S
<1>1. \E x \in S : \A y \in S : ~(<<y, x>> \in OpToRel(<, Nat))
  BY NatLessThanWellFounded, WFMin
<1>2. PICK x \in S : \A y \in S : ~(<<y, x>> \in OpToRel(<, Nat))
  BY <1>1
<1>3. ASSUME NEW y \in S PROVE x <= y
  <2>1. <<y, x>> \in Nat \X Nat /\ x \in Nat /\ y \in Nat
    OBVIOUS
  <2>2. ~(y < x)
    BY <1>2, <2>1 DEF OpToRel
  <2> QED
    BY <2>1, <2>2
<1> QED
  BY <1>3 DEF Min

LEMMA Indices == Buf \subseteq Nat /\ Arg \subseteq Nat /\ NULL \notin Buf /\ NULL \notin Arg
BY DEF Buf, Arg, NULL

LEMMA AllocIsFree ==
  ASSUME NEW rf \in [Buf -> Nat]
  PROVE  \/ ramx_alloc(rf) = NULL
         \/ ramx_alloc(rf) \in Buf /\ ramx_alloc(rf) # NULL /\ rf[ramx_alloc(rf)] = 0
<1> DEFINE free == {b \in Buf : rf[b] = 0}
<1>1. CASE free = {}
  BY <1>1 DEF ramx_alloc
<1>2. CASE free # {}
  <2>1. Min(free) \in free
    BY <1>2, MinIsMember, Indices
  <2> QED
    BY <1>2, <2>1, Indices DEF ramx_alloc
<1> QED
  BY <1>1, <1>2

LEMMA GetIsFree ==
  ASSUME NEW us \in [Arg -> BOOLEAN]
  PROVE  \/ hydra_pool_get(us) = NULL
         \/ hydra_pool_get(us) \in Arg /\ hydra_pool_get(us) # NULL /\ ~us[hydra_pool_get(us)]
<1> DEFINE free == {a \in Arg : ~us[a]}
<1>1. CASE free = {}
  BY <1>1 DEF hydra_pool_get
<1>2. CASE free # {}
  <2>1. Min(free) \in free
    BY <1>2, MinIsMember, Indices
  <2> QED
    BY <1>2, <2>1, Indices DEF hydra_pool_get
<1> QED
  BY <1>1, <1>2

-----------------------------------------------------------------------------
(* References to a buffer, counted one by one.                             *)
Task == [task : {"rx", "send", "other"}, arg : Arg \cup {NULL}]
One(x, b) == IF x = b THEN 1 ELSE 0

Pointing(q, ar, b) == {i \in 1..Len(q) : q[i].arg # NULL /\ ar[q[i].arg] = b}
InQueue(q, ar, b) == Cardinality(Pointing(q, ar, b))
OfTask(t, ar) == IF t.arg = NULL THEN NULL ELSE ar[t.arg]

-----------------------------------------------------------------------------
(* Types, and what user code remembers at each point.                      *)
Pcs == {"idle", "task", "t_done", "cleanup", "cleanup_args", "send", "send_buffer", "send_queue"}
Main == [pc : Pcs, task : {"none", "rx", "send"}, arg : Arg \cup {NULL}, src : Buf \cup {NULL},
         new : Arg \cup {NULL}, then : {"idle", "cleanup"}]

Budget == [tx : Nat, other : Nat]

TypeOK ==
  /\ refs \in [Buf -> Nat] /\ content \in [Buf -> Int]
  /\ used \in [Arg -> BOOLEAN] /\ args \in [Arg -> Buf \cup {NULL}]
  /\ queue \in Seq(Task)
  /\ rx_buffer \in [Dma -> Buf \cup {NULL}] /\ tx_buffer \in [Dma -> Buf \cup {NULL}]
  /\ rx_tog \in Dma /\ r_done \in BOOLEAN /\ rx_err \in BOOLEAN /\ isr \in {"none", "ack"}
  /\ main \in Main
  /\ arrived \in Nat /\ mishap \in BOOLEAN
  /\ delivered \in Seq(Int) /\ accepted \in Seq(Int) /\ sent \in Seq(Int)
  /\ budget \in Budget

Sending == main.pc \in {"send", "send_buffer", "send_queue"}
Running == main.pc \in {"task", "t_done", "cleanup", "cleanup_args"}

MainOK ==
  /\ main.pc = "idle" => main.task = "none" /\ main.new = NULL
  /\ Running => main.task # "none" /\ main.new = NULL
  /\ main.task # "none" => main.arg \in Arg
  /\ main.pc = "t_done" => main.task = "send"
  /\ Sending => /\ main.task = IF main.then = "cleanup" THEN "rx" ELSE "none"
                /\ main.src = IF main.then = "cleanup" THEN args[main.arg] ELSE NULL
                /\ main.new = NULL <=> main.pc = "send"
  /\ main.pc = "send_queue" => args[main.new] # NULL
  /\ main.task = "send" => args[main.arg] # NULL

QueueOK ==
  /\ Len(queue) <= QueueSize
  /\ \A i \in 1..Len(queue) : /\ queue[i].arg = NULL <=> queue[i].task = "other"
                              /\ queue[i].task = "send" => args[queue[i].arg] # NULL

(* ArgsExclusive, spelled out.                                             *)
Exclusive ==
  /\ \A i \in 1..Len(queue) : queue[i].arg # NULL =>
       /\ used[queue[i].arg] /\ queue[i].arg # main.new
       /\ main.task # "none" => queue[i].arg # main.arg
       /\ \A j \in 1..Len(queue) : queue[i].arg = queue[j].arg => i = j
  /\ main.task # "none" => used[main.arg] /\ main.arg # main.new
  /\ main.new # NULL => used[main.new]

(* A buffer that user code still has a reference to.                       *)
RunBuf == IF main.task # "none" /\ main.pc # "cleanup_args" THEN args[main.arg] ELSE NULL
NewBuf == IF main.pc = "send_queue" THEN args[main.new] ELSE NULL

Count(b) ==
  One(rx_buffer[0], b) + One(rx_buffer[1], b) + One(tx_buffer[0], b) + One(tx_buffer[1], b)
  + InQueue(queue, args, b) + One(RunBuf, b) + One(NewBuf, b)

Counted == \A b \in Buf : Count(b) <= refs[b] /\ (~mishap => refs[b] = Count(b))

UsedFor(a) == \/ main.task # "none" /\ main.arg = a
              \/ main.new # NULL /\ main.new = a
              \/ \E i \in 1..Len(queue) : queue[i].arg = a
Accounted == ~mishap => \A a \in Arg : used[a] => UsedFor(a)

ArgsInv == TypeOK /\ MainOK /\ QueueOK /\ Exclusive
RefsInv == Counted /\ Accounted

(* The DMA shares its receive buffers with nobody.                         *)
Held(b) == \/ \E i \in 1..Len(queue) : queue[i].arg # NULL /\ args[queue[i].arg] = b
           \/ RunBuf = b \/ NewBuf = b
RxAlone ==
  \A d \in Dma : rx_buffer[d] # NULL =>
    rx_buffer[1 - d] # rx_buffer[d] /\ ~Held(rx_buffer[d])

(* Packets that are not waiting for the handler.                           *)
Handled == IF r_done \/ isr = "ack" THEN arrived - 1 ELSE arrived
RxTask(i) == queue[i].task = "rx"
Packet(i) == content[args[queue[i].arg]]

(* The packet that waits for the handler, the packets the callback was      *)
(* given, those in the queue, and the one the callback is about to get.     *)
LastFilled ==
  /\ \A d \in Dma : rx_buffer[d] # NULL
  /\ r_done => isr = "none"
  /\ r_done \/ isr = "ack" => content[rx_buffer[1 - rx_tog]] = arrived /\ arrived > 0
DeliveredOrder ==
  /\ \A i \in 1..Len(delivered) : 0 < delivered[i] /\ delivered[i] <= Handled
  /\ \A i, j \in 1..Len(delivered) : i < j => delivered[i] < delivered[j]
QueueOrder ==
  \A i \in 1..Len(queue) : RxTask(i) =>
    /\ args[queue[i].arg] # NULL
    /\ 0 < Packet(i) /\ Packet(i) <= Handled
    /\ \A j \in 1..Len(queue) : i < j /\ RxTask(j) => Packet(i) < Packet(j)
    /\ \A j \in 1..Len(delivered) : delivered[j] < Packet(i)
AtCallback == main.pc = "task" /\ main.task = "rx"
Current == content[args[main.arg]]
CallbackOrder ==
  AtCallback =>
    /\ args[main.arg] # NULL
    /\ 0 < Current /\ Current <= Handled
    /\ \A i \in 1..Len(queue) : RxTask(i) => Current < Packet(i)
    /\ \A i \in 1..Len(delivered) : delivered[i] < Current
InOrder == LastFilled /\ DeliveredOrder /\ QueueOrder /\ CallbackOrder
OrderInv == ~mishap => InOrder

(* Where in accepted each send is: at for those sent, low for the last one *)
(* that was taken from the queue, pos for those in it.                     *)
SentAt(at, low) ==
  /\ \A i \in 1..Len(sent) : sent[i] = accepted[at[i]] /\ at[i] <= low
  /\ \A i, j \in 1..Len(sent) : i < j => at[i] < at[j]
AtSend == main.task = "send" /\ main.pc \in {"task", "t_done"}
UnderWay(at, low) ==
  AtSend => /\ low > 0 /\ content[args[main.arg]] = accepted[low]
            /\ \A i \in 1..Len(sent) : at[i] < low
WaitAt(low, pos) ==
  \A i \in 1..Len(queue) : queue[i].task = "send" =>
    /\ low < pos[i] /\ accepted[pos[i]] = Packet(i)
    /\ \A j \in 1..Len(queue) : i < j /\ queue[j].task = "send" => pos[i] < pos[j]

SentInv ==
  \E at \in [1..Len(sent) -> 1..Len(accepted)], low \in 0..Len(accepted),
     pos \in [1..Len(queue) -> 0..Len(accepted)] :
    SentAt(at, low) /\ UnderWay(at, low) /\ WaitAt(low, pos)

-----------------------------------------------------------------------------
LEMMA OneIsBit == \A x, b : One(x, b) \in {0, 1}
BY DEF One

LEMMA PointingFinite ==
  ASSUME NEW q \in Seq(Task), NEW ar, NEW b
  PROVE  IsFiniteSet(Pointing(q, ar, b)) /\ InQueue(q, ar, b) \in Nat
<1>1. IsFiniteSet(1..Len(q))
  BY FS_Interval
<1>2. Pointing(q, ar, b) \in SUBSET (1..Len(q))
  BY DEF Pointing
<1>3. IsFiniteSet(Pointing(q, ar, b))
  BY <1>1, <1>2, FS_Subset
<1> QED
  BY <1>3, FS_CardinalityType DEF InQueue

LEMMA InEmptyQueue == ASSUME NEW ar, NEW b PROVE InQueue(<<>>, ar, b) = 0
<1>1. Pointing(<<>>, ar, b) = {}
  BY DEF Pointing
<1> QED
  BY <1>1, FS_EmptySet DEF InQueue

(* A task that is queued adds its reference.                               *)
LEMMA InAppended ==
  ASSUME NEW q \in Seq(Task), NEW t \in Task, NEW ar, NEW b \in Buf
  PROVE  InQueue(Append(q, t), ar, b) = InQueue(q, ar, b) + One(OfTask(t, ar), b)
<1> DEFINE S == Pointing(q, ar, b)
           n == Len(q) + 1
<1>1. /\ Append(q, t) \in Seq(Task) /\ Len(Append(q, t)) = n /\ n \in Nat
      /\ \A i \in 1..Len(q) : Append(q, t)[i] = q[i]
      /\ Append(q, t)[n] = t
  OBVIOUS
<1>2. IsFiniteSet(S) /\ InQueue(q, ar, b) \in Nat
  BY PointingFinite
<1>3. n \notin S
  BY DEF Pointing
<1>4. CASE t.arg # NULL /\ ar[t.arg] = b
  <2>1. Pointing(Append(q, t), ar, b) = S \cup {n}
    BY <1>1, <1>4 DEF Pointing
  <2>2. Cardinality(S \cup {n}) = Cardinality(S) + 1
    BY <1>2, <1>3, FS_AddElement
  <2> QED
    BY <1>4, <2>1, <2>2 DEF InQueue, One, OfTask
<1>5. CASE ~(t.arg # NULL /\ ar[t.arg] = b)
  <2>1. Pointing(Append(q, t), ar, b) = S
    BY <1>1, <1>5 DEF Pointing
  <2>2. One(OfTask(t, ar), b) = 0
    BY <1>5, Indices DEF One, OfTask
  <2> QED
    BY <1>2, <2>1, <2>2 DEF InQueue
<1> QED
  BY <1>4, <1>5

(* The task at the head takes its reference with it.                       *)
LEMMA InTail ==
  ASSUME NEW q \in Seq(Task), q # <<>>, NEW ar, NEW b \in Buf
  PROVE  InQueue(q, ar, b) = InQueue(Tail(q), ar, b) + One(OfTask(Head(q), ar), b)
<1> DEFINE S == Pointing(Tail(q), ar, b)
           T == Pointing(q, ar, b) \ {1}
           f == [i \in S |-> i + 1]
<1>1. /\ Tail(q) \in Seq(Task) /\ Len(Tail(q)) = Len(q) - 1 /\ Len(q) \in Nat \ {0} /\ Head(q) = q[1]
      /\ \A i \in 1..Len(Tail(q)) : Tail(q)[i] = q[i + 1]
  OBVIOUS
<1>2. IsFiniteSet(S) /\ InQueue(Tail(q), ar, b) \in Nat /\ IsFiniteSet(Pointing(q, ar, b))
  BY <1>1, PointingFinite
<1>3. S \subseteq Nat /\ T \subseteq Nat
  BY DEF Pointing
<1>4. ASSUME NEW i \in S PROVE i + 1 \in T
  BY <1>1 DEF Pointing
<1>5. ASSUME NEW j \in T PROVE j - 1 \in S
  BY <1>1 DEF Pointing
<1> HIDE DEF S, T
<1>6. f \in Bijection(S, T)
  <2>1. f \in [S -> T]
    BY <1>4
  <2>2. \A x, y \in S : f[x] = f[y] => x = y
    BY <1>3
  <2>3. \A j \in T : \E i \in S : f[i] = j
    <3>1. TAKE j \in T
    <3>2. j - 1 \in S /\ f[j - 1] = j
      BY <1>3, <1>5
    <3> QED
      BY <3>2
  <2> QED
    BY <2>1, <2>2, <2>3 DEF Bijection, Injection, Surjection, IsInjective
<1>7. Cardinality(T) = Cardinality(S)
  BY <1>2, <1>6, FS_Bijection DEF ExistsBijection
<1>8. Cardinality(T) = IF 1 \in Pointing(q, ar, b) THEN Cardinality(Pointing(q, ar, b)) - 1
                       ELSE Cardinality(Pointing(q, ar, b))
  BY <1>2, FS_RemoveElement DEF T
<1>9. 1 \in Pointing(q, ar, b) <=> Head(q).arg # NULL /\ ar[Head(q).arg] = b
  BY <1>1 DEF Pointing
<1>10. One(OfTask(Head(q), ar), b) = IF 1 \in Pointing(q, ar, b) THEN 1 ELSE 0
  BY <1>9, Indices DEF One, OfTask
<1>11. Cardinality(Pointing(q, ar, b)) \in Nat
  BY <1>2, FS_CardinalityType
<1> QED
  BY <1>2, <1>7, <1>8, <1>10, <1>11 DEF InQueue, S

(* Slots that no queued task has may be written.                           *)
LEMMA InOthers ==
  ASSUME NEW q \in Seq(Task), NEW ar, NEW br, NEW b,
         \A i \in 1..Len(q) : q[i].arg # NULL => br[q[i].arg] = ar[q[i].arg]
  PROVE  InQueue(q, br, b) = InQueue(q, ar, b)
<1>1. Pointing(q, br, b) = Pointing(q, ar, b)
  BY DEF Pointing
<1> QED
  BY <1>1 DEF InQueue

-----------------------------------------------------------------------------
(* Where user code goes, field by field.                                   *)
Becomes(pc, task, arg, src, new, then) ==
  /\ main' \in Main /\ main'.pc = pc /\ main'.task = task /\ main'.arg = arg
  /\ main'.src = src /\ main'.new = new /\ main'.then = then

LEMMA RunDoes ==
  ASSUME ArgsInv, NEW first \in {"task", "cleanup"}, hydra_interrupt_queue_run(first)
  PROVE  /\ At("idle") /\ queue # <<>> /\ queue' = Tail(queue) /\ Head(queue) \in Task
         /\ Head(queue) = queue[1] /\ 1 \in 1..Len(queue)
         /\ UNCHANGED <<poolvars, rx_buffer, tx_buffer, hwvars, isr, logvars, budget>>
         /\ \/ Head(queue).task = "other" /\ Becomes("idle", "none", NULL, NULL, NULL, "idle")
            \/ /\ Head(queue).task # "other" /\ Head(queue).arg \in Arg
               /\ Becomes(first, Head(queue).task, Head(queue).arg, NULL, NULL, "idle")
<1>1. Idle \in Main
  BY DEF Idle, Main, Pcs
<1>2. queue \in Seq(Task) /\ queue # <<>>
  BY DEF ArgsInv, TypeOK, hydra_interrupt_queue_run
<1>3. Head(queue) \in Task /\ Head(queue) = queue[1] /\ 1 \in 1..Len(queue)
  BY <1>2
<1>4. CASE Head(queue).task = "other"
  <2>1. main' = Idle
    BY <1>4 DEF hydra_interrupt_queue_run
  <2> QED
    BY <1>1, <1>2, <1>3, <1>4, <2>1 DEF hydra_interrupt_queue_run, Becomes, Idle
<1>5. CASE Head(queue).task # "other"
  <2>1. main' = [Idle EXCEPT !.pc = first, !.task = Head(queue).task, !.arg = Head(queue).arg]
    BY <1>5 DEF hydra_interrupt_queue_run
  <2>2. Head(queue).arg \in Arg /\ Head(queue).task \in {"rx", "send"}
    BY <1>3, <1>5 DEF ArgsInv, QueueOK, Task
  <2>3. Becomes(first, Head(queue).task, Head(queue).arg, NULL, NULL, "idle")
    BY <2>1, <2>2 DEF Becomes, Idle, Main, Pcs
  <2> QED
    BY <1>2, <1>3, <1>5, <2>2, <2>3 DEF hydra_interrupt_queue_run
<1> QED
  BY <1>4, <1>5

(* Only the program counter moves.                                         *)
LEMMA PcMoves ==
  ASSUME TypeOK, NEW pc \in Pcs, main' = [main EXCEPT !.pc = pc]
  PROVE  Becomes(pc, main.task, main.arg, main.src, main.new, main.then)
BY DEF TypeOK, Main, Becomes

LEMMA Spends ==
  ASSUME NEW g \in Budget
  PROVE  /\ g.tx > 0 => [g EXCEPT !.tx = @ - 1] \in Budget
         /\ g.other > 0 => [g EXCEPT !.other = @ - 1] \in Budget
<1>1. g.tx \in Nat /\ g.other \in Nat
  BY DEF Budget
<1>2. g.tx > 0 => g.tx - 1 \in Nat
  BY <1>1
<1>3. g.other > 0 => g.other - 1 \in Nat
  BY <1>1
<1> QED
  BY <1>2, <1>3 DEF Budget

LEMMA CallbackDoes ==
  ASSUME ArgsInv, UserFrees = FALSE, _hspi_rx_callback
  PROVE  /\ At("task") /\ main.task = "rx"
         /\ delivered' = Append(delivered, IF args[main.arg] = NULL THEN 0 ELSE content[args[main.arg]])
         /\ UNCHANGED <<refs, content, used, args, queue, rx_buffer, tx_buffer, hwvars, isr,
                        accepted, sent, mishap>>
         /\ budget' \in Budget
         /\ \/ Becomes("cleanup", main.task, main.arg, main.src, main.new, main.then)
            \/ /\ args[main.arg] # NULL
               /\ Becomes("send", main.task, main.arg, args[main.arg], main.new, "cleanup")
<1> DEFINE b == args[main.arg]
<1>1. b \in Buf \cup {NULL} /\ main.arg \in Arg
  BY DEF ArgsInv, TypeOK, MainOK, _hspi_rx_callback
<1>2. CASE main' = [main EXCEPT !.pc = "cleanup"] /\ UNCHANGED <<budget, refs>>
  <2>1. Becomes("cleanup", main.task, main.arg, main.src, main.new, main.then)
    BY <1>2, PcMoves DEF ArgsInv, Pcs
  <2> QED
    BY <1>2, <2>1 DEF _hspi_rx_callback, ArgsInv, TypeOK
<1>3. CASE /\ b # NULL /\ budget.tx > 0 /\ main' = [main EXCEPT !.pc = "send", !.src = b, !.then = "cleanup"]
           /\ budget' = [budget EXCEPT !.tx = @ - 1] /\ UNCHANGED refs
  <2>1. Becomes("send", main.task, main.arg, b, main.new, "cleanup")
    BY <1>1, <1>3 DEF ArgsInv, TypeOK, Main, Pcs, Becomes
  <2>2. budget' \in Budget
    BY <1>3, Spends DEF ArgsInv, TypeOK
  <2> QED
    BY <1>3, <2>1, <2>2 DEF _hspi_rx_callback
<1> QED
  BY <1>2, <1>3 DEF _hspi_rx_callback

LEMMA CallSendDoes ==
  ASSUME ArgsInv, CallSend
  PROVE  /\ At("idle") /\ Becomes("send", main.task, main.arg, NULL, main.new, "idle")
         /\ budget' \in Budget
         /\ UNCHANGED <<poolvars, queue, rx_buffer, tx_buffer, hwvars, isr, logvars>>
<1>1. main' = [main EXCEPT !.pc = "send", !.src = NULL, !.then = "idle"]
  BY DEF CallSend
<1>2. Becomes("send", main.task, main.arg, NULL, main.new, "idle")
  BY <1>1 DEF ArgsInv, TypeOK, Main, Pcs, Becomes
<1>3. budget' \in Budget
  BY Spends DEF ArgsInv, TypeOK, CallSend
<1> QED
  BY <1>2, <1>3 DEF CallSend

LEMMA ReturnDoes ==
  ASSUME ArgsInv, Sending, Return
  PROVE  \/ /\ main.then = "idle" /\ main.task = "none"
            /\ Becomes("idle", "none", NULL, NULL, NULL, "idle")
         \/ /\ main.then = "cleanup" /\ main.task = "rx"
            /\ Becomes("cleanup", "rx", main.arg, NULL, NULL, "cleanup")
<1>1. main \in Main /\ main.then \in {"idle", "cleanup"}
  BY DEF ArgsInv, TypeOK, Main
<1>2. main.task = IF main.then = "cleanup" THEN "rx" ELSE "none"
  BY DEF ArgsInv, MainOK
<1>3. CASE main.then = "idle"
  <2>1. main' = Idle
    BY <1>3 DEF Return
  <2> QED
    BY <1>2, <1>3, <2>1 DEF Becomes, Idle, Main, Pcs
<1>4. CASE main.then = "cleanup"
  <2>1. main' = [main EXCEPT !.pc = "cleanup", !.src = NULL, !.new = NULL]
    BY <1>4 DEF Return
  <2> QED
    BY <1>1, <1>2, <1>4, <2>1 DEF Becomes, Main, Pcs
<1> QED
  BY <1>1, <1>3, <1>4

LEMMA GetArgsDoes ==
  ASSUME ArgsInv, SendGetArgs
  PROVE  /\ At("send") /\ Sending
         /\ UNCHANGED <<refs, content, args, queue, rx_buffer, tx_buffer, hwvars, isr, logvars, budget>>
         /\ \/ Return /\ UNCHANGED used
            \/ \E a \in Arg : /\ a # NULL /\ ~used[a] /\ used' = [used EXCEPT ![a] = TRUE]
                              /\ Becomes("send_buffer", main.task, main.arg, main.src, a, main.then)
<1> DEFINE a == hydra_pool_get(used)
<1>1. Sending /\ At("send")
  BY DEF SendGetArgs, At, Sending
<1>2. CASE Return /\ UNCHANGED used
  BY <1>1, <1>2 DEF SendGetArgs
<1>3. CASE /\ a # NULL /\ used' = [used EXCEPT ![a] = TRUE]
           /\ main' = [main EXCEPT !.pc = "send_buffer", !.new = a]
  <2>1. a \in Arg /\ ~used[a]
    BY <1>3, GetIsFree DEF ArgsInv, TypeOK
  <2> HIDE DEF a
  <2>2. Becomes("send_buffer", main.task, main.arg, main.src, a, main.then)
    BY <1>3, <2>1 DEF ArgsInv, TypeOK, Main, Pcs, Becomes
  <2> QED
    BY <1>1, <1>3, <2>1, <2>2 DEF SendGetArgs
<1> QED
  BY <1>2, <1>3 DEF SendGetArgs

LEMMA SharesDoes ==
  ASSUME ArgsInv, SendShares
  PROVE  /\ At("send_buffer") /\ main.src \in Buf /\ main.new \in Arg
         /\ main.task = "rx" /\ main.arg \in Arg /\ main.src = args[main.arg]
         /\ refs' = [refs EXCEPT ![main.src] = @ + 1]
         /\ args' = [args EXCEPT ![main.new] = main.src]
         /\ Becomes("send_queue", main.task, main.arg, main.src, main.new, main.then)
         /\ UNCHANGED <<content, used, queue, rx_buffer, tx_buffer, hwvars, isr, logvars, budget>>
<1>1. /\ main.src \in Buf /\ main.new \in Arg
      /\ main.task = "rx" /\ main.arg \in Arg /\ main.src = args[main.arg]
  BY DEF SendShares, At, ArgsInv, TypeOK, Main, MainOK, Sending
<1>2. Becomes("send_queue", main.task, main.arg, main.src, main.new, main.then)
  BY PcMoves DEF SendShares, ArgsInv, Pcs
<1> QED
  BY <1>1, <1>2, Indices DEF SendShares, Owned

LEMMA CopiesDoes ==
  ASSUME ArgsInv, SendCopies
  PROVE  /\ At("send_buffer") /\ Sending /\ main.new \in Arg /\ main.src = NULL
         /\ UNCHANGED <<used, queue, rx_buffer, tx_buffer, hwvars, isr, delivered, accepted, sent, budget>>
         /\ \/ Return /\ mishap' = TRUE /\ UNCHANGED <<refs, content, args>>
            \/ \E b \in Buf, v \in Int :
                 /\ refs[b] = 0 /\ refs' = [refs EXCEPT ![b] = @ + 1]
                 /\ content' = [content EXCEPT ![b] = v]
                 /\ args' = [args EXCEPT ![main.new] = b]
                 /\ Becomes("send_queue", main.task, main.arg, main.src, main.new, main.then)
                 /\ mishap' = mishap
<1> DEFINE b == ramx_alloc(refs)
<1>1. At("send_buffer") /\ Sending /\ main.new \in Arg /\ main.src = NULL
  BY DEF SendCopies, At, Sending, ArgsInv, TypeOK, Main, MainOK
<1>2. UNCHANGED <<used, queue, rx_buffer, tx_buffer, hwvars, isr, delivered, accepted, sent, budget>>
  BY DEF SendCopies
<1>3. mishap' = (mishap \/ b = NULL) /\ mishap \in BOOLEAN
  BY DEF SendCopies, ArgsInv, TypeOK
<1>4. CASE b = NULL
  <2>1. Return /\ UNCHANGED <<refs, content, args>>
    BY <1>4 DEF SendCopies
  <2> QED
    BY <1>1, <1>2, <1>3, <1>4, <2>1
<1>5. CASE b # NULL
  <2> DEFINE v == budget.tx - MaxTx
  <2>1. /\ refs' = Owned(refs, b) /\ content' = [content EXCEPT ![b] = v]
        /\ args' = [args EXCEPT ![main.new] = b] /\ main' = [main EXCEPT !.pc = "send_queue"]
    BY <1>5 DEF SendCopies
  <2>2. b \in Buf /\ refs[b] = 0
    BY <1>5, AllocIsFree DEF ArgsInv, TypeOK
  <2>3. v \in Int
    BY HspiAssumption DEF ArgsInv, TypeOK, Budget
  <2> HIDE DEF b, v
  <2>4. Becomes("send_queue", main.task, main.arg, main.src, main.new, main.then)
    BY <2>1, PcMoves DEF ArgsInv, Pcs
  <2>5. mishap' = mishap
    BY <1>3, <1>5
  <2>6. refs' = [refs EXCEPT ![b] = @ + 1]
    BY <1>5, <2>1 DEF Owned
  <2> QED
    BY <1>1, <1>2, <2>1, <2>2, <2>3, <2>4, <2>5, <2>6
<1> QED
  BY <1>4, <1>5

LEMMA NextTask ==
  ASSUME NEW q \in Seq(Task), NEW t \in Task
  PROVE  /\ set_next_task(q, t) \in Seq(Task)
         /\ \/ set_next_task(q, t) = Append(q, t) /\ Len(q) # QueueSize
            \/ set_next_task(q, t) = q /\ Len(q) >= QueueSize
BY HspiAssumption DEF set_next_task

LEMMA QueuesDoes ==
  ASSUME ArgsInv, SendQueues
  PROVE  /\ At("send_queue") /\ Sending /\ main.new \in Arg /\ args[main.new] \in Buf
         /\ queue' = set_next_task(queue, [task |-> "send", arg |-> main.new])
         /\ [task |-> "send", arg |-> main.new] \in Task
         /\ accepted' = Append(accepted, content[args[main.new]])
         /\ mishap' = (mishap \/ Len(queue) = QueueSize)
         /\ Return
         /\ UNCHANGED <<poolvars, rx_buffer, tx_buffer, hwvars, isr, delivered, sent, budget>>
<1>1. Sending /\ main.new \in Arg /\ args[main.new] \in Buf
  BY DEF SendQueues, At, Sending, ArgsInv, TypeOK, Main, MainOK
<1>2. [task |-> "send", arg |-> main.new] \in Task
  BY <1>1 DEF Task
<1> QED
  BY <1>1, <1>2 DEF SendQueues

LEMMA IrqDoes ==
  ASSUME ArgsInv, IrqPacket
  PROVE  \E d \in Dma, b \in Buf \cup {NULL} :
         /\ d = 1 - rx_tog /\ isr = "ack"
         /\ b # NULL => refs[b] = 0
         /\ refs' = Owned(refs, b)
         /\ rx_buffer' = [rx_buffer EXCEPT ![d] = b]
         /\ b = NULL => mishap' = TRUE
         /\ mishap' \in BOOLEAN /\ (mishap => mishap')
         /\ isr' = "none"
         /\ UNCHANGED <<content, tx_buffer, hwvars, main, delivered, accepted, sent, budget>>
         /\ \/ mishap' = TRUE /\ UNCHANGED <<used, args, queue>>
            \/ \E a \in Arg :
                 LET t == [task |-> "rx", arg |-> a] IN
                 /\ ~used[a] /\ t \in Task
                 /\ used' = [used EXCEPT ![a] = TRUE]
                 /\ args' = [args EXCEPT ![a] = rx_buffer[d]]
                 /\ queue' = set_next_task(queue, t)
                 /\ Len(queue) = QueueSize => mishap' = TRUE
<1> DEFINE d == FilledDma(rx_tog)
           a == hydra_pool_get(used)
           b == ramx_alloc(refs)
<1>1. d \in Dma /\ d = 1 - rx_tog
  BY DEF ArgsInv, TypeOK, Dma, FilledDma
<1>2. b \in Buf \cup {NULL} /\ (b # NULL => refs[b] = 0)
  BY AllocIsFree DEF ArgsInv, TypeOK
<1>3. /\ refs' = Owned(refs, b) /\ rx_buffer' = [rx_buffer EXCEPT ![d] = b] /\ isr' = "none" /\ isr = "ack"
      /\ mishap' = (mishap \/ a = NULL \/ b = NULL \/ Len(queue) = QueueSize)
      /\ UNCHANGED <<content, tx_buffer, hwvars, main, delivered, accepted, sent, budget>>
  BY DEF IrqPacket
<1>4. /\ mishap' \in BOOLEAN /\ (mishap => mishap') /\ (b = NULL => mishap' = TRUE)
      /\ (a = NULL => mishap' = TRUE) /\ (Len(queue) = QueueSize => mishap' = TRUE)
  BY <1>3
<1>5. \/ mishap' = TRUE /\ UNCHANGED <<used, args, queue>>
      \/ LET t == [task |-> "rx", arg |-> a] IN
         /\ a \in Arg /\ ~used[a] /\ t \in Task
         /\ used' = [used EXCEPT ![a] = TRUE]
         /\ args' = [args EXCEPT ![a] = rx_buffer[d]]
         /\ queue' = set_next_task(queue, t)
  <2>1. CASE a = NULL
    BY <1>4, <2>1 DEF IrqPacket
  <2>2. CASE a # NULL
    <3>1. a \in Arg /\ ~used[a]
      BY <2>2, GetIsFree DEF ArgsInv, TypeOK
    <3> QED
      BY <2>2, <3>1 DEF IrqPacket, Task
  <2> QED
    BY <2>1, <2>2
<1> HIDE DEF a, b, d
<1>6. \/ mishap' = TRUE /\ UNCHANGED <<used, args, queue>>
      \/ \E c \in Arg :
           LET t == [task |-> "rx", arg |-> c] IN
           /\ ~used[c] /\ t \in Task
           /\ used' = [used EXCEPT ![c] = TRUE]
           /\ args' = [args EXCEPT ![c] = rx_buffer[d]]
           /\ queue' = set_next_task(queue, t)
           /\ Len(queue) = QueueSize => mishap' = TRUE
  BY <1>4, <1>5
<1> QED
  BY <1>1, <1>2, <1>3, <1>4, <1>6

-----------------------------------------------------------------------------
(* Argument slots: each step of user code and of the handler.              *)
LEMMA ArgsInit == Init => ArgsInv
<1> SUFFICES ASSUME Init PROVE ArgsInv
  OBVIOUS
<1>1. main \in Main /\ main.pc = "idle" /\ main.task = "none" /\ main.new = NULL /\ main.arg = NULL
  BY DEF Init, Idle, Main, Pcs
<1>2. refs \in [Buf -> Nat] /\ rx_buffer \in [Dma -> Buf \cup {NULL}] /\ tx_buffer \in [Dma -> Buf \cup {NULL}]
  BY HspiAssumption DEF Init, Buf, Dma
<1>3. budget \in Budget
  BY HspiAssumption DEF Init, Budget
<1>0. content \in [Buf -> Int] /\ used \in [Arg -> BOOLEAN] /\ args \in [Arg -> Buf \cup {NULL}]
  BY DEF Init
<1>4. /\ queue = <<>> /\ delivered = <<>> /\ accepted = <<>> /\ sent = <<>>
      /\ rx_tog \in Dma /\ r_done \in BOOLEAN /\ rx_err \in BOOLEAN /\ isr \in {"none", "ack"}
      /\ arrived \in Nat /\ mishap \in BOOLEAN
  BY DEF Init, Dma
<1>5. TypeOK
  BY <1>0, <1>1, <1>2, <1>3, <1>4 DEF TypeOK
<1> QED
  BY <1>1, <1>4, <1>5, HspiAssumption DEF ArgsInv, MainOK, QueueOK, Exclusive, Running, Sending

LEMMA QueuedTask ==
  ASSUME TypeOK, NEW i \in 1..Len(queue)
  PROVE  queue[i] \in Task /\ queue[i].arg \in Arg \cup {NULL}
<1>1. queue[i] \in Task
  BY DEF TypeOK
<1> QED
  BY <1>1 DEF Task

LEMMA ArgsRest ==
  ASSUME ArgsInv, TypeOK', UNCHANGED <<main, queue, used, args>>
  PROVE  ArgsInv'
BY DEF ArgsInv, MainOK, QueueOK, Exclusive, Running, Sending

LEMMA HardwareKeepsArgs ==
  ASSUME ArgsInv, (\E bad \in BOOLEAN : DmaReceive(bad)) \/ HSPI_IRQHandler \/ IrqError
  PROVE  ArgsInv'
<1>1. UNCHANGED <<main, queue, used, args, refs, rx_buffer, tx_buffer, delivered, accepted, sent, budget>>
  BY DEF DmaReceive, HSPI_IRQHandler, IrqError, poolvars, logvars
<1>2. /\ content' \in [Buf -> Int] /\ rx_tog' \in Dma /\ r_done' \in BOOLEAN /\ rx_err' \in BOOLEAN
      /\ isr' \in {"none", "ack"} /\ arrived' \in Nat /\ mishap' \in BOOLEAN
  <2>1. CASE HSPI_IRQHandler \/ IrqError
    BY <2>1 DEF HSPI_IRQHandler, IrqError, ArgsInv, TypeOK, poolvars, hwvars, logvars
  <2>2. ASSUME NEW bad \in BOOLEAN, DmaReceive(bad)
        PROVE  /\ content' \in [Buf -> Int] /\ rx_tog' \in Dma /\ r_done' \in BOOLEAN /\ rx_err' \in BOOLEAN
               /\ isr' \in {"none", "ack"} /\ arrived' \in Nat /\ mishap' \in BOOLEAN
    <3>1. rx_tog' \in Dma
      BY <2>2 DEF DmaReceive, ArgsInv, TypeOK, Dma
    <3>2. arrived' \in Nat /\ arrived' = arrived + 1
      BY <2>2 DEF DmaReceive, ArgsInv, TypeOK
    <3>3. content' \in [Buf -> Int]
      BY <2>2, <3>2 DEF DmaReceive, ArgsInv, TypeOK
    <3> QED
      BY <2>2, <3>1, <3>2, <3>3 DEF DmaReceive, ArgsInv, TypeOK
  <2> QED
    BY <2>1, <2>2
<1>3. TypeOK'
  BY <1>1, <1>2 DEF ArgsInv, TypeOK
<1> QED
  BY <1>1, <1>3, ArgsRest

(* What queueing a task with a fresh slot leaves of the queue.             *)
LEMMA QueueGrows ==
  ASSUME TypeOK, QueueOK, NEW t \in Task, queue' = set_next_task(queue, t)
  PROVE  /\ queue' \in Seq(Task) /\ Len(queue') <= QueueSize /\ Len(queue) \in Nat
         /\ \A i \in 1..Len(queue') : \/ i \in 1..Len(queue) /\ queue'[i] = queue[i]
                                      \/ i = Len(queue) + 1 /\ queue'[i] = t
<1>1. queue \in Seq(Task)
  BY DEF TypeOK
<1>2. Len(queue) <= QueueSize /\ QueueSize \in Nat
  BY HspiAssumption DEF QueueOK
<1>3. queue' = queue \/ (queue' = Append(queue, t) /\ Len(queue) # QueueSize)
  BY <1>1, NextTask
<1>4. CASE queue' = queue
  BY <1>1, <1>2, <1>4
<1>5. CASE queue' = Append(queue, t) /\ Len(queue) # QueueSize
  BY <1>1, <1>2, <1>5
<1> QED
  BY <1>3, <1>4, <1>5

LEMMA OtherTaskKeepsArgs == ASSUME ArgsInv, OtherTask PROVE ArgsInv'
<1> DEFINE t == [task |-> "other", arg |-> NULL]
<1>1. t \in Task /\ t.arg = NULL /\ t.task = "other"
  BY DEF Task
<1>2. queue' = set_next_task(queue, t) /\ budget' \in Budget
  BY Spends DEF OtherTask, ArgsInv, TypeOK
<1>3. UNCHANGED <<poolvars, rx_buffer, tx_buffer, hwvars, isr, main, logvars>>
  BY DEF OtherTask
<1> HIDE DEF t
<1>4. /\ queue' \in Seq(Task) /\ Len(queue') <= QueueSize
      /\ \A i \in 1..Len(queue') : \/ i \in 1..Len(queue) /\ queue'[i] = queue[i]
                                   \/ i = Len(queue) + 1 /\ queue'[i] = t
  BY <1>1, <1>2, QueueGrows DEF ArgsInv
<1>5. TypeOK'
  BY <1>2, <1>3, <1>4 DEF ArgsInv, TypeOK, poolvars, hwvars, logvars
<1>6. MainOK'
  BY <1>3 DEF ArgsInv, MainOK, Running, Sending, poolvars
<1>7. QueueOK' /\ Exclusive'
  BY <1>1, <1>3, <1>4 DEF ArgsInv, QueueOK, Exclusive, poolvars
<1> QED
  BY <1>5, <1>6, <1>7 DEF ArgsInv

LEMMA IrqPacketKeepsArgs == ASSUME ArgsInv, IrqPacket PROVE ArgsInv'
<1>1. PICK d \in Dma, b \in Buf \cup {NULL} :
        /\ refs' = Owned(refs, b)
        /\ rx_buffer' = [rx_buffer EXCEPT ![d] = b]
        /\ mishap' \in BOOLEAN /\ isr' = "none"
        /\ UNCHANGED <<content, tx_buffer, hwvars, main, delivered, accepted, sent, budget>>
        /\ \/ UNCHANGED <<used, args, queue>>
           \/ \E a \in Arg :
                LET t == [task |-> "rx", arg |-> a] IN
                /\ ~used[a] /\ t \in Task
                /\ used' = [used EXCEPT ![a] = TRUE]
                /\ args' = [args EXCEPT ![a] = rx_buffer[d]]
                /\ queue' = set_next_task(queue, t)
  BY IrqDoes
<1>2. refs' \in [Buf -> Nat] /\ rx_buffer' \in [Dma -> Buf \cup {NULL}]
  BY <1>1 DEF ArgsInv, TypeOK, Owned
<1>3. CASE UNCHANGED <<used, args, queue>>
  <2>1. TypeOK'
    BY <1>1, <1>2, <1>3 DEF ArgsInv, TypeOK, hwvars
  <2> QED
    BY <1>1, <1>3, <2>1, ArgsRest
<1>4. ASSUME NEW a \in Arg, ~used[a], [task |-> "rx", arg |-> a] \in Task,
             used' = [used EXCEPT ![a] = TRUE], args' = [args EXCEPT ![a] = rx_buffer[d]],
             queue' = set_next_task(queue, [task |-> "rx", arg |-> a])
      PROVE  ArgsInv'
  <2> DEFINE t == [task |-> "rx", arg |-> a]
  <2>1. t \in Task /\ t.arg = a /\ t.task = "rx" /\ a # NULL
    BY <1>4, Indices
  <2>2. /\ queue' = set_next_task(queue, t)
    BY <1>4
  <2> HIDE DEF t
  <2>3. /\ queue' \in Seq(Task) /\ Len(queue') <= QueueSize /\ Len(queue) \in Nat
        /\ \A i \in 1..Len(queue') : \/ i \in 1..Len(queue) /\ queue'[i] = queue[i]
                                     \/ i = Len(queue) + 1 /\ queue'[i] = t
    BY <2>1, <2>2, QueueGrows DEF ArgsInv
  <2>4. used' \in [Arg -> BOOLEAN] /\ args' \in [Arg -> Buf \cup {NULL}]
    BY <1>1, <1>4 DEF ArgsInv, TypeOK
  <2>5. TypeOK'
    BY <1>1, <1>2, <2>3, <2>4 DEF ArgsInv, TypeOK, hwvars
  <2>6. /\ \A c \in Arg : c # a => args'[c] = args[c] /\ used'[c] = used[c]
        /\ used'[a] = TRUE
    BY <1>4 DEF ArgsInv, TypeOK
  <2>7. main.task # "none" => main.arg \in Arg /\ main.arg # a
    BY <1>4 DEF ArgsInv, MainOK, Exclusive
  <2>8. main.new \in Arg \cup {NULL} /\ main.new # a
    BY <1>4, Indices DEF ArgsInv, Exclusive, TypeOK, Main
  <2>9. \A i \in 1..Len(queue) : queue[i].arg \in Arg \cup {NULL} /\ queue[i].arg # a
    BY <1>4, Indices, QueuedTask DEF ArgsInv, Exclusive
  <2>10. MainOK'
    BY <1>1, <2>6, <2>7, <2>8 DEF ArgsInv, MainOK, Running, Sending
  <2>11. QueueOK'
    BY <2>1, <2>3, <2>6, <2>9 DEF ArgsInv, QueueOK
  <2>12. Exclusive'
    BY <1>1, <2>1, <2>3, <2>6, <2>7, <2>8, <2>9 DEF ArgsInv, Exclusive
  <2> QED
    BY <2>5, <2>10, <2>11, <2>12 DEF ArgsInv
<1> QED
  BY <1>1, <1>3, <1>4

LEMMA RunKeepsArgs ==
  ASSUME ArgsInv, NEW first \in {"task", "cleanup"}, hydra_interrupt_queue_run(first)
  PROVE  ArgsInv'
<1>1. /\ queue # <<>> /\ queue' = Tail(queue) /\ Head(queue) = queue[1] /\ 1 \in 1..Len(queue)
      /\ UNCHANGED <<poolvars, rx_buffer, tx_buffer, hwvars, isr, logvars, budget>>
      /\ \/ Becomes("idle", "none", NULL, NULL, NULL, "idle")
         \/ /\ Head(queue).task # "other" /\ Head(queue).arg \in Arg
            /\ Becomes(first, Head(queue).task, Head(queue).arg, NULL, NULL, "idle")
  BY RunDoes
<1>2. /\ queue' \in Seq(Task) /\ Len(queue') <= Len(queue) /\ Len(queue) \in Nat /\ Len(queue') \in Nat
      /\ \A i \in 1..Len(queue') : i + 1 \in 1..Len(queue) /\ queue'[i] = queue[i + 1] /\ i + 1 # 1
  BY <1>1 DEF ArgsInv, TypeOK
<1>3. main' \in Main
  BY <1>1 DEF Becomes
<1>4. TypeOK'
  BY <1>1, <1>2, <1>3 DEF ArgsInv, TypeOK, poolvars, hwvars, logvars
<1>5. UNCHANGED <<used, args>>
  BY <1>1 DEF poolvars
<1>6. QueueOK'
  BY <1>2, <1>5, HspiAssumption DEF ArgsInv, QueueOK
<1>7. \A i, j \in 1..Len(queue') : queue'[i].arg # NULL /\ queue'[i].arg = queue'[j].arg => i = j
  <2>1. TAKE i, j \in 1..Len(queue')
  <2>2. HAVE queue'[i].arg # NULL /\ queue'[i].arg = queue'[j].arg
  <2>3. i + 1 = j + 1
    BY <1>2, <2>2 DEF ArgsInv, Exclusive
  <2> QED
    BY <2>3
<1>8. CASE Becomes("idle", "none", NULL, NULL, NULL, "idle")
  <2>1. MainOK'
    BY <1>8 DEF Becomes, MainOK, Running, Sending
  <2>2. Exclusive'
    BY <1>2, <1>5, <1>7, <1>8 DEF Becomes, ArgsInv, Exclusive
  <2> QED
    BY <1>4, <1>6, <2>1, <2>2 DEF ArgsInv
<1>9. CASE /\ Head(queue).task # "other" /\ Head(queue).arg \in Arg
           /\ Becomes(first, Head(queue).task, Head(queue).arg, NULL, NULL, "idle")
  <2>1. Head(queue).arg # NULL /\ (Head(queue).task = "send" => args[Head(queue).arg] # NULL)
    BY <1>1, <1>9, Indices DEF ArgsInv, QueueOK
  <2>2. MainOK'
    <3>1. Head(queue).task # "none"
      BY <1>1, QueuedTask DEF ArgsInv, Task
    <3> QED
      BY <1>5, <1>9, <2>1, <3>1 DEF Becomes, MainOK, Running, Sending
  <2>3. Exclusive'
    <3>1. \A i \in 1..Len(queue') : queue'[i].arg # NULL =>
            used'[queue'[i].arg] /\ queue'[i].arg # Head(queue).arg
      BY <1>1, <1>2, <1>5, <2>1 DEF ArgsInv, Exclusive
    <3>2. used'[Head(queue).arg]
      BY <1>1, <1>5, <2>1 DEF ArgsInv, Exclusive
    <3> QED
      BY <1>7, <1>9, <2>1, <3>1, <3>2 DEF Becomes, Exclusive
  <2> QED
    BY <1>4, <1>6, <2>2, <2>3 DEF ArgsInv
<1> QED
  BY <1>1, <1>8, <1>9

(* Steps that move on with the same slots.                                 *)
LEMMA MovesKeepArgs ==
  ASSUME ArgsInv, UserFrees = FALSE,
         _hspi_rx_callback \/ _hspi_send \/ TransmitDone \/ _hspi_cleanup \/ CallSend
  PROVE  ArgsInv'
<1>1. UNCHANGED <<content, used, args, queue, rx_buffer, tx_buffer, hwvars, isr, mishap, accepted>>
  BY DEF _hspi_rx_callback, _hspi_send, TransmitDone, _hspi_cleanup, CallSend, poolvars, logvars
<1>2. ASSUME NEW pc \in Pcs, main' = [main EXCEPT !.pc = pc], main.task # "none",
             Running, pc \in {"task", "t_done", "cleanup", "cleanup_args"}, pc = "t_done" => main.task = "send"
      PROVE  main' \in Main /\ MainOK' /\ Exclusive'
  <2>1. Becomes(pc, main.task, main.arg, main.src, main.new, main.then)
    BY <1>2, PcMoves DEF ArgsInv
  <2>2. MainOK'
    BY <1>1, <1>2, <2>1 DEF ArgsInv, MainOK, Becomes, Running, Sending
  <2>3. Exclusive'
    BY <1>1, <2>1 DEF ArgsInv, Exclusive, Becomes
  <2> QED
    BY <2>1, <2>2, <2>3 DEF Becomes
<1>3. QueueOK'
  BY <1>1 DEF ArgsInv, QueueOK
<1>4. CASE _hspi_rx_callback
  <2>1. /\ main.pc = "task" /\ main.task = "rx" /\ budget' \in Budget /\ refs' = refs /\ sent' = sent
        /\ delivered' = Append(delivered, IF args[main.arg] = NULL THEN 0 ELSE content[args[main.arg]])
        /\ \/ Becomes("cleanup", main.task, main.arg, main.src, main.new, main.then)
           \/ /\ args[main.arg] # NULL
              /\ Becomes("send", main.task, main.arg, args[main.arg], main.new, "cleanup")
    BY <1>4, CallbackDoes DEF At
  <2>2. main.arg \in Arg
    BY <2>1 DEF ArgsInv, MainOK
  <2>3. delivered' \in Seq(Int)
    BY <2>1, <2>2 DEF ArgsInv, TypeOK
  <2>4. main' \in Main /\ Exclusive'
    BY <1>1, <2>1 DEF ArgsInv, Exclusive, Becomes
  <2>5. MainOK'
    BY <1>1, <2>1 DEF ArgsInv, MainOK, Becomes, Running, Sending
  <2> QED
    BY <1>1, <1>3, <2>1, <2>3, <2>4, <2>5 DEF ArgsInv, TypeOK, hwvars
<1>5. CASE _hspi_send
  <2>1. main' \in Main /\ MainOK' /\ Exclusive'
    BY <1>2, <1>5 DEF _hspi_send, At, Pcs, Running
  <2> QED
    BY <1>1, <1>3, <1>5, <2>1 DEF _hspi_send, ArgsInv, TypeOK, poolvars, hwvars, logvars
<1>6. CASE TransmitDone
  <2>1. main.task = "send" /\ args[main.arg] \in Buf
    BY <1>6 DEF TransmitDone, At, ArgsInv, TypeOK, MainOK
  <2>2. main' \in Main /\ MainOK' /\ Exclusive'
    BY <1>2, <1>6, <2>1 DEF TransmitDone, At, Pcs, Running
  <2>3. sent' \in Seq(Int)
    BY <1>6, <2>1 DEF TransmitDone, ArgsInv, TypeOK
  <2> QED
    BY <1>1, <1>3, <1>6, <2>2, <2>3 DEF TransmitDone, ArgsInv, TypeOK, poolvars, hwvars
<1>7. CASE _hspi_cleanup
  <2>1. main.task # "none" /\ main.arg \in Arg
    BY <1>7 DEF _hspi_cleanup, At, ArgsInv, MainOK, Running
  <2>2. main' \in Main /\ MainOK' /\ Exclusive'
    BY <1>2, <1>7, <2>1 DEF _hspi_cleanup, At, Pcs, Running
  <2>3. refs' \in [Buf -> Nat]
    BY <1>7, <2>1 DEF _hspi_cleanup, ramx_pool_free, ArgsInv, TypeOK
  <2> QED
    BY <1>1, <1>3, <1>7, <2>2, <2>3 DEF _hspi_cleanup, ArgsInv, TypeOK, hwvars, logvars
<1>8. CASE CallSend
  <2>1. /\ main.pc = "idle" /\ Becomes("send", main.task, main.arg, NULL, main.new, "idle")
        /\ budget' \in Budget
        /\ UNCHANGED <<poolvars, queue, rx_buffer, tx_buffer, hwvars, isr, logvars>>
    BY <1>8, CallSendDoes DEF At
  <2>2. main' \in Main /\ Exclusive'
    BY <1>1, <2>1 DEF ArgsInv, Exclusive, Becomes
  <2>3. MainOK'
    BY <1>1, <2>1 DEF ArgsInv, MainOK, Becomes, Running, Sending
  <2> QED
    BY <1>1, <1>3, <2>1, <2>2, <2>3 DEF ArgsInv, TypeOK, poolvars, hwvars, logvars
<1> QED
  BY <1>4, <1>5, <1>6, <1>7, <1>8

LEMMA CleanupArgsKeepsArgs == ASSUME ArgsInv, CleanupArgs PROVE ArgsInv'
<1>1. main.task # "none" /\ main.arg \in Arg /\ main.pc = "cleanup_args"
  BY DEF CleanupArgs, At, ArgsInv, MainOK, Running
<1>2. used' = [used EXCEPT ![main.arg] = FALSE] /\ used' \in [Arg -> BOOLEAN]
  BY <1>1 DEF CleanupArgs, ArgsInv, TypeOK
<1>3. Becomes("idle", "none", NULL, NULL, NULL, "idle")
  BY DEF CleanupArgs, Becomes, Idle, Main, Pcs
<1>4. UNCHANGED <<refs, content, args, queue, rx_buffer, tx_buffer, hwvars, isr, logvars, budget>>
  BY DEF CleanupArgs
<1>5. TypeOK'
  BY <1>2, <1>3, <1>4 DEF ArgsInv, TypeOK, Becomes, hwvars, logvars
<1>6. MainOK' /\ QueueOK'
  BY <1>3, <1>4 DEF ArgsInv, MainOK, QueueOK, Becomes, Running, Sending
<1>7. Exclusive'
  <2>1. ASSUME NEW i \in 1..Len(queue), queue[i].arg # NULL
        PROVE  used'[queue[i].arg]
    <3>1. queue[i].arg \in Arg /\ queue[i].arg # main.arg /\ used[queue[i].arg]
      BY <1>1, <2>1, QueuedTask DEF ArgsInv, Exclusive
    <3> QED
      BY <1>2, <3>1 DEF ArgsInv, TypeOK
  <2> QED
    BY <1>3, <1>4, <2>1 DEF ArgsInv, Exclusive, Becomes
<1> QED
  BY <1>5, <1>6, <1>7 DEF ArgsInv

(* hspi_send comes back: its slot is queued, or stays in use.              *)
LEMMA ReturnKeepsArgs ==
  ASSUME ArgsInv, Sending, Return, UNCHANGED <<used, args>>, TypeOK', QueueOK',
         \A i \in 1..Len(queue') : \/ i \in 1..Len(queue) /\ queue'[i] = queue[i]
                                   \/ i = Len(queue) + 1 /\ queue'[i].arg = main.new /\ main.new # NULL
  PROVE  ArgsInv'
<1>1. \/ main.task = "none" /\ Becomes("idle", "none", NULL, NULL, NULL, "idle")
      \/ main.task = "rx" /\ Becomes("cleanup", "rx", main.arg, NULL, NULL, "cleanup")
  BY ReturnDoes
<1>2. MainOK'
  BY <1>1 DEF ArgsInv, MainOK, Becomes, Running, Sending
<1>3. main.task # "none" => main.arg \in Arg /\ main.arg # NULL
  BY Indices DEF ArgsInv, MainOK
<1>4. Exclusive'
  <2>1. ASSUME NEW i \in 1..Len(queue'), queue'[i].arg # NULL
        PROVE  used[queue'[i].arg] /\ (main.task # "none" => queue'[i].arg # main.arg)
    BY <2>1 DEF ArgsInv, Exclusive
  <2>2. ASSUME NEW i \in 1..Len(queue'), NEW j \in 1..Len(queue'), queue'[i].arg # NULL,
               queue'[i].arg = queue'[j].arg
        PROVE  i = j
    BY <2>2 DEF ArgsInv, Exclusive
  <2>3. main.task # "none" => used[main.arg]
    BY DEF ArgsInv, Exclusive
  <2> QED
    BY <1>1, <1>3, <2>1, <2>2, <2>3 DEF Exclusive, Becomes
<1> QED
  BY <1>2, <1>4 DEF ArgsInv

LEMMA GetArgsKeepsArgs == ASSUME ArgsInv, SendGetArgs PROVE ArgsInv'
<1>1. /\ main.pc = "send" /\ Sending
      /\ UNCHANGED <<refs, content, args, queue, rx_buffer, tx_buffer, hwvars, isr, logvars, budget>>
      /\ \/ Return /\ UNCHANGED used
         \/ \E a \in Arg : /\ a # NULL /\ ~used[a] /\ used' = [used EXCEPT ![a] = TRUE]
                           /\ Becomes("send_buffer", main.task, main.arg, main.src, a, main.then)
  BY GetArgsDoes DEF At
<1>2. QueueOK'
  BY <1>1 DEF ArgsInv, QueueOK
<1>3. CASE Return /\ UNCHANGED used
  <2>1. main' \in Main
    BY <1>1, <1>3, ReturnDoes DEF Becomes
  <2>2. TypeOK'
    BY <1>1, <1>3, <2>1 DEF ArgsInv, TypeOK, hwvars, logvars
  <2> QED
    BY <1>1, <1>2, <1>3, <2>2, ReturnKeepsArgs
<1>4. ASSUME NEW a \in Arg, a # NULL, ~used[a], used' = [used EXCEPT ![a] = TRUE],
             Becomes("send_buffer", main.task, main.arg, main.src, a, main.then)
      PROVE  ArgsInv'
  <2>1. used' \in [Arg -> BOOLEAN] /\ used'[a] = TRUE /\ (\A c \in Arg : used[c] => used'[c])
    BY <1>4 DEF ArgsInv, TypeOK
  <2>2. TypeOK'
    BY <1>1, <1>4, <2>1 DEF ArgsInv, TypeOK, Becomes, hwvars, logvars
  <2>3. MainOK'
    BY <1>1, <1>4 DEF ArgsInv, MainOK, Becomes, Running, Sending
  <2>4. \A i \in 1..Len(queue) : queue[i].arg # NULL => used'[queue[i].arg] /\ queue[i].arg # a
    BY <1>4, <2>1, QueuedTask DEF ArgsInv, Exclusive
  <2>5. main.task # "none" => used'[main.arg] /\ main.arg # a
    BY <1>4, <2>1 DEF ArgsInv, Exclusive, MainOK
  <2>6. Exclusive'
    BY <1>1, <1>4, <2>1, <2>4, <2>5 DEF ArgsInv, Exclusive, Becomes
  <2> QED
    BY <1>2, <2>2, <2>3, <2>6 DEF ArgsInv
<1> QED
  BY <1>1, <1>3, <1>4

(* hspi_send fills its slot, which no task has.                            *)
LEMMA FillKeepsArgs ==
  ASSUME ArgsInv, main.pc = "send_buffer", main.new \in Arg, NEW b \in Buf,
         args' = [args EXCEPT ![main.new] = b], UNCHANGED <<used, queue>>, TypeOK',
         Becomes("send_queue", main.task, main.arg, main.src, main.new, main.then)
  PROVE  ArgsInv'
<1>1. main.new # NULL /\ b # NULL /\ NULL \notin Arg
  BY Indices
<1>2. args'[main.new] = b /\ \A a \in Arg : a # main.new => args'[a] = args[a]
  BY DEF ArgsInv, TypeOK
<1>3. main.task # "none" => main.arg \in Arg /\ main.arg # main.new
  BY DEF ArgsInv, MainOK, Exclusive
<1>4. MainOK'
  BY <1>1, <1>2, <1>3 DEF ArgsInv, MainOK, Becomes, Running, Sending
<1>5. \A i \in 1..Len(queue) : queue[i].arg # NULL => queue[i].arg \in Arg /\ queue[i].arg # main.new
  BY QueuedTask DEF ArgsInv, Exclusive
<1>6. QueueOK'
  BY <1>2, <1>5, HspiAssumption DEF ArgsInv, QueueOK
<1>7. Exclusive'
  BY DEF ArgsInv, Exclusive, Becomes
<1> QED
  BY <1>4, <1>6, <1>7 DEF ArgsInv

LEMMA SharesKeepsArgs == ASSUME ArgsInv, SendShares PROVE ArgsInv'
<1>1. /\ main.pc = "send_buffer" /\ main.src \in Buf /\ main.new \in Arg
      /\ refs' = [refs EXCEPT ![main.src] = @ + 1]
      /\ args' = [args EXCEPT ![main.new] = main.src]
      /\ Becomes("send_queue", main.task, main.arg, main.src, main.new, main.then)
      /\ UNCHANGED <<content, used, queue, rx_buffer, tx_buffer, hwvars, isr, logvars, budget>>
  BY SharesDoes DEF At
<1>2. refs' \in [Buf -> Nat] /\ args' \in [Arg -> Buf \cup {NULL}]
  BY <1>1 DEF ArgsInv, TypeOK
<1>3. TypeOK'
  BY <1>1, <1>2 DEF ArgsInv, TypeOK, Becomes, hwvars, logvars
<1> QED
  BY <1>1, <1>3, FillKeepsArgs

LEMMA CopiesKeepsArgs == ASSUME ArgsInv, SendCopies PROVE ArgsInv'
<1>1. /\ main.pc = "send_buffer" /\ Sending /\ main.new \in Arg
      /\ UNCHANGED <<used, queue, rx_buffer, tx_buffer, hwvars, isr, delivered, accepted, sent, budget>>
      /\ \/ Return /\ mishap' = TRUE /\ UNCHANGED <<refs, content, args>>
         \/ \E b \in Buf, v \in Int :
              /\ refs' = [refs EXCEPT ![b] = @ + 1]
              /\ content' = [content EXCEPT ![b] = v]
              /\ args' = [args EXCEPT ![main.new] = b]
              /\ Becomes("send_queue", main.task, main.arg, main.src, main.new, main.then)
              /\ mishap' = mishap
  BY CopiesDoes DEF At
<1>2. CASE Return /\ mishap' = TRUE /\ UNCHANGED <<refs, content, args>>
  <2>1. main' \in Main
    BY <1>1, <1>2, ReturnDoes DEF Becomes
  <2>2. TypeOK'
    BY <1>1, <1>2, <2>1 DEF ArgsInv, TypeOK, hwvars
  <2>3. QueueOK'
    BY <1>1, <1>2 DEF ArgsInv, QueueOK
  <2> QED
    BY <1>1, <1>2, <2>2, <2>3, ReturnKeepsArgs
<1>3. ASSUME NEW b \in Buf, NEW v \in Int, refs' = [refs EXCEPT ![b] = @ + 1],
             content' = [content EXCEPT ![b] = v], args' = [args EXCEPT ![main.new] = b],
             Becomes("send_queue", main.task, main.arg, main.src, main.new, main.then), mishap' = mishap
      PROVE  ArgsInv'
  <2>1. refs' \in [Buf -> Nat] /\ content' \in [Buf -> Int] /\ args' \in [Arg -> Buf \cup {NULL}]
    BY <1>1, <1>3 DEF ArgsInv, TypeOK
  <2>2. TypeOK'
    BY <1>1, <1>3, <2>1 DEF ArgsInv, TypeOK, Becomes, hwvars
  <2> QED
    BY <1>1, <1>3, <2>2, FillKeepsArgs
<1> QED
  BY <1>1, <1>2, <1>3

LEMMA QueuesKeepsArgs == ASSUME ArgsInv, SendQueues PROVE ArgsInv'
<1> DEFINE t == [task |-> "send", arg |-> main.new]
<1>1. /\ Sending /\ main.new \in Arg /\ args[main.new] \in Buf /\ t \in Task
      /\ queue' = set_next_task(queue, t)
      /\ accepted' = Append(accepted, content[args[main.new]])
      /\ mishap' = (mishap \/ Len(queue) = QueueSize)
      /\ Return
      /\ UNCHANGED <<poolvars, rx_buffer, tx_buffer, hwvars, isr, delivered, sent, budget>>
  BY QueuesDoes
<1>2. t.arg = main.new /\ t.task = "send" /\ main.new # NULL /\ args[main.new] # NULL
  BY <1>1, Indices
<1> HIDE DEF t
<1>3. /\ queue' \in Seq(Task) /\ Len(queue') <= QueueSize
      /\ \A i \in 1..Len(queue') : \/ i \in 1..Len(queue) /\ queue'[i] = queue[i]
                                   \/ i = Len(queue) + 1 /\ queue'[i] = t
  BY <1>1, QueueGrows DEF ArgsInv
<1>4. main' \in Main
  BY <1>1, ReturnDoes DEF Becomes
<1>5. accepted' \in Seq(Int) /\ mishap' \in BOOLEAN
  BY <1>1 DEF ArgsInv, TypeOK
<1>6. TypeOK'
  BY <1>1, <1>3, <1>4, <1>5 DEF ArgsInv, TypeOK, poolvars, hwvars
<1>7. QueueOK'
  BY <1>1, <1>2, <1>3 DEF ArgsInv, QueueOK, poolvars
<1> QED
  BY <1>1, <1>2, <1>3, <1>6, <1>7, ReturnKeepsArgs DEF poolvars

(* An allocation takes a buffer nobody has, and counts it.                 *)
LEMMA AllocCounts ==
  ASSUME NEW rf \in [Buf -> Nat]
  PROVE  LET b == ramx_alloc(rf) IN
         /\ b \in Buf \cup {NULL} /\ (b # NULL => rf[b] = 0)
         /\ Owned(rf, b) \in [Buf -> Nat]
         /\ \A x \in Buf : Owned(rf, b)[x] = rf[x] + One(b, x)
<1> DEFINE b == ramx_alloc(rf)
<1>1. b \in Buf \cup {NULL} /\ (b # NULL => b \in Buf /\ rf[b] = 0)
  BY AllocIsFree
<1> HIDE DEF b
<1>2. Owned(rf, b) \in [Buf -> Nat] /\ \A x \in Buf : Owned(rf, b)[x] = rf[x] + One(b, x)
  <2>1. CASE b = NULL
    BY <1>1, <2>1, Indices DEF Owned, One
  <2>2. CASE b # NULL
    BY <1>1, <2>2 DEF Owned, One
  <2> QED
    BY <2>1, <2>2
<1> QED
  BY <1>1, <1>2 DEF b

LEMMA ReinitDoes ==
  ASSUME ArgsInv, hspi_reinit_buffers
  PROVE  /\ At("idle") /\ queue = <<>> /\ main.task = "none" /\ main.new = NULL
         /\ used' = [a \in Arg |-> FALSE] /\ mishap' = TRUE /\ budget' \in Budget
         /\ UNCHANGED <<content, args, queue, hwvars, isr, main, delivered, accepted, sent>>
         /\ refs' \in [Buf -> Nat]
         /\ rx_buffer' \in [Dma -> Buf \cup {NULL}] /\ tx_buffer' \in [Dma -> Buf \cup {NULL}]
         /\ rx_buffer'[0] = rx_buffer'[1] => rx_buffer'[0] = NULL
         /\ \A x \in Buf : refs'[x] = refs[x] + One(rx_buffer'[0], x) + One(rx_buffer'[1], x)
                                              + One(tx_buffer'[0], x) + One(tx_buffer'[1], x)
<1> DEFINE b0 == ramx_alloc(refs)   r0 == Owned(refs, b0)
           b1 == ramx_alloc(r0)     r1 == Owned(r0, b1)
           b2 == ramx_alloc(r1)     r2 == Owned(r1, b2)
           b3 == ramx_alloc(r2)     r3 == Owned(r2, b3)
<1>1. /\ refs' = r3
      /\ rx_buffer' = [d \in Dma |-> IF d = 0 THEN b0 ELSE b1]
      /\ tx_buffer' = [d \in Dma |-> IF d = 0 THEN b2 ELSE b3]
      /\ used' = [a \in Arg |-> FALSE] /\ mishap' = TRUE
      /\ budget.other > 0 /\ budget' = [budget EXCEPT !.other = @ - 1]
      /\ At("idle") /\ queue = <<>>
      /\ UNCHANGED <<content, args, queue, hwvars, isr, main, delivered, accepted, sent>>
  BY DEF hspi_reinit_buffers
<1>2. refs \in [Buf -> Nat] /\ budget \in Budget
  BY DEF ArgsInv, TypeOK
<1>3. /\ b0 \in Buf \cup {NULL} /\ r0 \in [Buf -> Nat] /\ \A x \in Buf : r0[x] = refs[x] + One(b0, x)
  BY <1>2, AllocCounts
<1> HIDE DEF b0, r0
<1>4. /\ b1 \in Buf \cup {NULL} /\ (b1 # NULL => r0[b1] = 0)
      /\ r1 \in [Buf -> Nat] /\ \A x \in Buf : r1[x] = r0[x] + One(b1, x)
  BY <1>3, AllocCounts
<1> HIDE DEF b1, r1
<1>5. b2 \in Buf \cup {NULL} /\ r2 \in [Buf -> Nat] /\ \A x \in Buf : r2[x] = r1[x] + One(b2, x)
  BY <1>4, AllocCounts
<1> HIDE DEF b2, r2
<1>6. b3 \in Buf \cup {NULL} /\ r3 \in [Buf -> Nat] /\ \A x \in Buf : r3[x] = r2[x] + One(b3, x)
  BY <1>5, AllocCounts
<1> HIDE DEF b3, r3
<1>7. b0 = b1 => b0 = NULL
  BY <1>2, <1>3, <1>4 DEF One
<1>8. /\ rx_buffer'[0] = b0 /\ rx_buffer'[1] = b1 /\ tx_buffer'[0] = b2 /\ tx_buffer'[1] = b3
      /\ rx_buffer' \in [Dma -> Buf \cup {NULL}] /\ tx_buffer' \in [Dma -> Buf \cup {NULL}]
  BY <1>1, <1>3, <1>4, <1>5, <1>6 DEF Dma
<1>9. main.task = "none" /\ main.new = NULL
  BY <1>1 DEF ArgsInv, MainOK, At
<1>10. budget' \in Budget
  BY <1>1, <1>2, Spends
<1>11. \A x \in Buf : refs'[x] = refs[x] + One(rx_buffer'[0], x) + One(rx_buffer'[1], x)
                                         + One(tx_buffer'[0], x) + One(tx_buffer'[1], x)
  <2> TAKE x \in Buf
  <2>1. refs'[x] = r2[x] + One(b3, x) /\ r2[x] = r1[x] + One(b2, x)
    BY <1>1, <1>5, <1>6
  <2>2. r1[x] = r0[x] + One(b1, x) /\ r0[x] = refs[x] + One(b0, x)
    BY <1>3, <1>4
  <2> QED
    BY <1>8, <2>1, <2>2
<1> QED
  BY <1>1, <1>6, <1>7, <1>8, <1>9, <1>10, <1>11

LEMMA ReinitKeepsArgs == ASSUME ArgsInv, hspi_reinit_buffers PROVE ArgsInv'
<1>1. /\ queue = <<>> /\ main.task = "none" /\ main.new = NULL
      /\ used' = [a \in Arg |-> FALSE] /\ mishap' = TRUE /\ budget' \in Budget
      /\ UNCHANGED <<content, args, queue, hwvars, isr, main, delivered, accepted, sent>>
      /\ refs' \in [Buf -> Nat]
      /\ rx_buffer' \in [Dma -> Buf \cup {NULL}] /\ tx_buffer' \in [Dma -> Buf \cup {NULL}]
  BY ReinitDoes
<1>2. TypeOK'
  BY <1>1 DEF ArgsInv, TypeOK, hwvars
<1>3. MainOK' /\ QueueOK'
  BY <1>1 DEF ArgsInv, MainOK, QueueOK, Running, Sending
<1>4. Exclusive'
  BY <1>1 DEF ArgsInv, Exclusive
<1> QED
  BY <1>2, <1>3, <1>4 DEF ArgsInv

LEMMA ArgsNext == ASSUME UserFrees = FALSE, ArgsInv, [Next]_vars PROVE ArgsInv'
<1>1. CASE UNCHANGED vars
  BY <1>1 DEF vars, ArgsInv, TypeOK, MainOK, QueueOK, Exclusive, Running, Sending
<1>2. CASE (\E bad \in BOOLEAN : DmaReceive(bad)) \/ Interrupt \/ OtherTask
  BY <1>2, HardwareKeepsArgs, IrqPacketKeepsArgs, OtherTaskKeepsArgs DEF Interrupt
<1>3. CASE RunTask \/ hydra_interrupt_queue_free_all \/ CallSend \/ hspi_reinit_buffers
  <2>1. CASE hydra_interrupt_queue_run("task") \/ hydra_interrupt_queue_free_all
    BY <2>1, RunKeepsArgs DEF hydra_interrupt_queue_free_all
  <2>2. CASE ~(hydra_interrupt_queue_run("task") \/ hydra_interrupt_queue_free_all)
    BY <1>3, <2>2, MovesKeepArgs, CleanupArgsKeepsArgs, GetArgsKeepsArgs, SharesKeepsArgs,
       CopiesKeepsArgs, QueuesKeepsArgs, ReinitKeepsArgs DEF RunTask
  <2> QED
    BY <2>1, <2>2
<1> QED
  BY <1>1, <1>2, <1>3 DEF Next

LEMMA ArgsAlways == ASSUME UserFrees = FALSE PROVE Spec => []ArgsInv
<1>1. ArgsInv /\ [Next]_vars => ArgsInv'
  BY ArgsNext
<1> QED
  BY <1>1, ArgsInit, PTL DEF Spec

(* hspi_scheduled.c never gives an argument slot to two tasks: what the    *)
(* interrupt and hspi_send get from hydra_pool_get is theirs until         *)
(* _hspi_cleanup, wherever the interrupt falls.                            *)
THEOREM SlotsExclusive == ASSUME UserFrees = FALSE PROVE Spec => []ArgsExclusive
<1>1. ArgsInv => ArgsExclusive
  <2> SUFFICES ASSUME ArgsInv PROVE ArgsExclusive
    OBVIOUS
  <2>1. main.task \in {"none", "rx", "send"} /\ queue \in Seq(Task)
    BY DEF ArgsInv, TypeOK, Main
  <2> QED
    BY <2>1 DEF ArgsInv, ArgsExclusive, Exclusive, QueuedArgs, RunArgs, NewArgs
<1> QED
  BY <1>1, ArgsAlways, PTL

-----------------------------------------------------------------------------
(* References: each step moves, adds or takes as many as refs says.        *)
LEMMA Bufs ==
  ASSUME ArgsInv
  PROVE  /\ RunBuf \in Buf \cup {NULL} /\ NewBuf \in Buf \cup {NULL}
         /\ \A d \in Dma : rx_buffer[d] \in Buf \cup {NULL} /\ tx_buffer[d] \in Buf \cup {NULL}
         /\ \A x : One(NULL, x) \in {0, 1} /\ (x \in Buf => One(NULL, x) = 0)
         /\ \A x : InQueue(queue, args, x) \in Nat
<1>1. main.pc = "send_queue" => main.new \in Arg
  BY DEF ArgsInv, MainOK, TypeOK, Main, Sending
<1>2. RunBuf \in Buf \cup {NULL} /\ NewBuf \in Buf \cup {NULL}
  BY <1>1 DEF ArgsInv, TypeOK, MainOK, RunBuf, NewBuf
<1>3. \A x : One(NULL, x) \in {0, 1} /\ (x \in Buf => One(NULL, x) = 0)
  BY Indices DEF One
<1>4. \A x : InQueue(queue, args, x) \in Nat
  BY PointingFinite DEF ArgsInv, TypeOK
<1> QED
  BY <1>2, <1>3, <1>4 DEF ArgsInv, TypeOK

LEMMA CountInit == Init => Counted /\ Accounted
<1> SUFFICES ASSUME Init PROVE Counted /\ Accounted
  OBVIOUS
<1>1. queue = <<>> /\ main.task = "none" /\ main.pc = "idle"
  BY DEF Init, Idle
<1>2. RunBuf = NULL /\ NewBuf = NULL
  BY <1>1 DEF RunBuf, NewBuf
<1>3. ASSUME NEW b \in Buf PROVE Count(b) = refs[b]
  <2>1. InQueue(queue, args, b) = 0 /\ One(RunBuf, b) = 0 /\ One(NewBuf, b) = 0
    BY <1>1, <1>2, InEmptyQueue, Indices DEF One
  <2>2. rx_buffer[0] = 0 /\ rx_buffer[1] = 1 /\ tx_buffer[0] = 2 /\ tx_buffer[1] = 3
    BY DEF Init, Dma
  <2>3. refs[b] = IF b < 4 THEN 1 ELSE 0
    BY DEF Init
  <2>4. b \in Nat
    BY Indices
  <2> QED
    BY <2>1, <2>2, <2>3, <2>4 DEF Count, One
<1>4. \A a \in Arg : ~used[a]
  BY DEF Init
<1>5. Count(0) \in Int /\ \A b \in Buf : refs[b] \in Nat
  <2>1. \A b \in Buf : refs[b] \in Nat
    BY DEF Init
  <2> QED
    BY <1>3, <2>1, HspiAssumption DEF Buf
<1> QED
  BY <1>3, <1>4, <1>5 DEF Counted, Accounted

LEMMA CountRests ==
  ASSUME Counted, UNCHANGED <<refs, rx_buffer, tx_buffer, queue, args>>,
         RunBuf' = RunBuf, NewBuf' = NewBuf, mishap => mishap'
  PROVE  Counted'
<1>1. ASSUME NEW b \in Buf PROVE Count(b)' = Count(b)
  BY DEF Count
<1> QED
  BY <1>1 DEF Counted

LEMMA ReturnBufs ==
  ASSUME ArgsInv, Sending, Return, UNCHANGED args
  PROVE  RunBuf' = RunBuf /\ NewBuf' = NULL
<1>1. \/ main.task = "none" /\ Becomes("idle", "none", NULL, NULL, NULL, "idle")
      \/ main.task = "rx" /\ Becomes("cleanup", "rx", main.arg, NULL, NULL, "cleanup")
  BY ReturnDoes
<1>2. main.pc # "cleanup_args"
  BY DEF Sending
<1> QED
  BY <1>1, <1>2 DEF Becomes, RunBuf, NewBuf

(* The steps that touch no reference.                                      *)
LEMMA QuietKeepsCount ==
  ASSUME ArgsInv, Counted, UserFrees = FALSE,
         \/ \E bad \in BOOLEAN : DmaReceive(bad)
         \/ HSPI_IRQHandler \/ IrqError \/ _hspi_rx_callback \/ _hspi_send \/ TransmitDone
         \/ CallSend \/ SendGetArgs \/ CleanupArgs
  PROVE  Counted'
<1>1. CASE (\E bad \in BOOLEAN : DmaReceive(bad)) \/ HSPI_IRQHandler \/ IrqError
  <2>1. UNCHANGED <<main, queue, args, refs, rx_buffer, tx_buffer>>
    BY <1>1 DEF DmaReceive, HSPI_IRQHandler, IrqError, poolvars
  <2>2. mishap => mishap'
    BY <1>1, Zenon DEF DmaReceive, HSPI_IRQHandler, IrqError, logvars
  <2>3. RunBuf' = RunBuf /\ NewBuf' = NewBuf
    BY <2>1 DEF RunBuf, NewBuf
  <2> QED
    BY <2>1, <2>2, <2>3, CountRests
<1>2. CASE _hspi_rx_callback
  <2>1. /\ main.pc = "task" /\ UNCHANGED <<refs, args, queue, rx_buffer, tx_buffer, mishap>>
        /\ main'.pc \in {"cleanup", "send"} /\ main'.task = main.task /\ main'.arg = main.arg
    BY <1>2, CallbackDoes DEF At, Becomes
  <2>2. RunBuf' = RunBuf /\ NewBuf' = NewBuf
    BY <2>1 DEF RunBuf, NewBuf
  <2> QED
    BY <2>1, <2>2, CountRests
<1>3. CASE _hspi_send \/ TransmitDone
  <2>1. /\ main.pc \in {"task", "t_done"}
        /\ UNCHANGED <<refs, args, queue, rx_buffer, tx_buffer, mishap>>
    BY <1>3 DEF _hspi_send, TransmitDone, At, poolvars, logvars
  <2>2. PICK pc \in {"t_done", "cleanup"} : main' = [main EXCEPT !.pc = pc]
    BY <1>3 DEF _hspi_send, TransmitDone
  <2>3. Becomes(pc, main.task, main.arg, main.src, main.new, main.then)
    BY <2>2, PcMoves DEF ArgsInv, Pcs
  <2>4. RunBuf' = RunBuf /\ NewBuf' = NewBuf
    BY <2>1, <2>3 DEF RunBuf, NewBuf, Becomes
  <2> QED
    BY <2>1, <2>4, CountRests
<1>4. CASE CallSend
  <2>1. /\ main.pc = "idle" /\ Becomes("send", main.task, main.arg, NULL, main.new, "idle")
        /\ UNCHANGED <<refs, args, queue, rx_buffer, tx_buffer, mishap>>
    BY <1>4, CallSendDoes DEF At, poolvars, logvars
  <2>2. RunBuf' = RunBuf /\ NewBuf' = NewBuf
    BY <2>1 DEF RunBuf, NewBuf, Becomes
  <2> QED
    BY <2>1, <2>2, CountRests
<1>5. CASE SendGetArgs
  <2>1. /\ main.pc = "send" /\ Sending /\ UNCHANGED <<refs, args, queue, rx_buffer, tx_buffer, mishap>>
        /\ \/ Return
           \/ \E a \in Arg : Becomes("send_buffer", main.task, main.arg, main.src, a, main.then)
    BY <1>5, GetArgsDoes DEF At, logvars
  <2>2. RunBuf' = RunBuf /\ NewBuf' = NewBuf
    BY <2>1, ReturnBufs DEF RunBuf, NewBuf, Becomes
  <2> QED
    BY <2>1, <2>2, CountRests
<1>6. CASE CleanupArgs
  <2>1. main.pc = "cleanup_args" /\ UNCHANGED <<refs, args, queue, rx_buffer, tx_buffer, mishap>>
    BY <1>6 DEF CleanupArgs, At, logvars
  <2>2. main'.task = "none" /\ main'.pc = "idle"
    BY <1>6 DEF CleanupArgs, Idle
  <2>3. RunBuf' = RunBuf /\ NewBuf' = NewBuf
    BY <2>1, <2>2 DEF RunBuf, NewBuf
  <2> QED
    BY <2>1, <2>3, CountRests
<1> QED
  BY <1>1, <1>2, <1>3, <1>4, <1>5, <1>6

LEMMA OtherTaskKeepsCount == ASSUME ArgsInv, Counted, OtherTask PROVE Counted'
<1> DEFINE t == [task |-> "other", arg |-> NULL]
<1>1. t \in Task /\ OfTask(t, args) = NULL /\ queue' = set_next_task(queue, t) /\ queue \in Seq(Task)
  BY DEF Task, OfTask, OtherTask, ArgsInv, TypeOK
<1> HIDE DEF t
<1>2. ASSUME NEW x \in Buf PROVE InQueue(queue', args, x) = InQueue(queue, args, x)
  <2>1. InQueue(Append(queue, t), args, x) = InQueue(queue, args, x) + One(NULL, x)
    BY <1>1, InAppended
  <2>2. InQueue(queue, args, x) \in Nat /\ One(NULL, x) = 0
    BY Bufs
  <2>3. InQueue(Append(queue, t), args, x) = InQueue(queue, args, x)
    BY <2>1, <2>2
  <2>4. queue' = queue \/ queue' = Append(queue, t)
    BY <1>1, NextTask
  <2> QED
    BY <2>3, <2>4
<1>3. UNCHANGED <<main, args, refs, rx_buffer, tx_buffer, mishap>>
  BY DEF OtherTask, poolvars, logvars
<1>4. ASSUME NEW x \in Buf PROVE Count(x)' = Count(x)
  BY <1>2, <1>3 DEF Count, RunBuf, NewBuf
<1> QED
  BY <1>3, <1>4 DEF Counted

(* The oldest task takes its reference from the queue to user code.        *)
LEMMA RunKeepsCount ==
  ASSUME ArgsInv, Counted, NEW first \in {"task", "cleanup"}, hydra_interrupt_queue_run(first)
  PROVE  Counted'
<1>1. /\ main.pc = "idle" /\ queue # <<>> /\ queue' = Tail(queue) /\ queue \in Seq(Task)
      /\ Head(queue) = queue[1] /\ 1 \in 1..Len(queue)
      /\ UNCHANGED <<refs, args, rx_buffer, tx_buffer, mishap>>
      /\ \/ Head(queue).task = "other" /\ Becomes("idle", "none", NULL, NULL, NULL, "idle")
         \/ /\ Head(queue).task # "other" /\ Head(queue).arg \in Arg
            /\ Becomes(first, Head(queue).task, Head(queue).arg, NULL, NULL, "idle")
  BY RunDoes DEF At, poolvars, logvars, ArgsInv, TypeOK
<1>2. RunBuf = NULL /\ NewBuf = NULL
  BY <1>1 DEF RunBuf, NewBuf, ArgsInv, MainOK
<1>3. RunBuf' = OfTask(Head(queue), args) /\ NewBuf' = NULL
  <2>1. Head(queue).arg = NULL <=> Head(queue).task = "other"
    BY <1>1 DEF ArgsInv, QueueOK
  <2>2. Head(queue).task # "none"
    BY <1>1, QueuedTask DEF ArgsInv, Task
  <2> QED
    BY <1>1, <2>1, <2>2 DEF RunBuf, NewBuf, OfTask, Becomes
<1>4. ASSUME NEW x \in Buf PROVE Count(x)' = Count(x)
  <2>1. InQueue(queue, args, x) = InQueue(queue', args, x) + One(RunBuf', x)
    BY <1>1, <1>3, InTail
  <2>2. InQueue(queue', args, x) \in Nat
    <3>1. Tail(queue) \in Seq(Task)
      BY <1>1
    <3> QED
      BY <1>1, <3>1, PointingFinite
  <2>3. One(RunBuf, x) = 0 /\ One(NewBuf, x) = 0 /\ One(NewBuf', x) = 0
    BY <1>2, <1>3, Bufs
  <2> QED
    BY <1>1, <2>1, <2>2, <2>3 DEF Count, One
<1> QED
  BY <1>1, <1>4 DEF Counted

(* _hspi_cleanup gives back the reference that the task held.              *)
LEMMA CleanupKeepsCount == ASSUME ArgsInv, Counted, _hspi_cleanup PROVE Counted'
<1> DEFINE r == args[main.arg]
<1>1. /\ main.pc = "cleanup" /\ refs' = ramx_pool_free(refs, r)
      /\ UNCHANGED <<args, queue, rx_buffer, tx_buffer, mishap>>
      /\ main' = [main EXCEPT !.pc = "cleanup_args"]
  BY DEF _hspi_cleanup, At, logvars
<1>2. Becomes("cleanup_args", main.task, main.arg, main.src, main.new, main.then)
  BY <1>1, PcMoves DEF ArgsInv, Pcs
<1>3. RunBuf = r /\ NewBuf = NULL /\ RunBuf' = NULL /\ NewBuf' = NULL
  BY <1>1, <1>2 DEF RunBuf, NewBuf, Becomes, ArgsInv, MainOK, Running
<1> HIDE DEF r
<1>4. ASSUME NEW x \in Buf PROVE Count(x)' = Count(x) - One(r, x)
  <2>1. One(NULL, x) = 0 /\ InQueue(queue, args, x) \in Nat
    BY Bufs
  <2> QED
    BY <1>1, <1>3, <2>1 DEF Count, One
<1>5. ASSUME NEW x \in Buf PROVE Count(x) >= One(r, x) /\ Count(x) \in Nat
  <2>1. InQueue(queue, args, x) \in Nat
    BY Bufs
  <2> QED
    BY <1>3, <2>1 DEF Count, One
<1>6. ASSUME NEW x \in Buf PROVE refs'[x] = refs[x] - One(r, x)
  <2>1. r \in Buf \cup {NULL} /\ refs \in [Buf -> Nat]
    BY <1>3, Bufs DEF ArgsInv, TypeOK
  <2>2. r \in Buf => refs[r] > 0
    BY <1>5, <2>1 DEF Counted, One
  <2> QED
    BY <1>1, <2>1, <2>2, Indices DEF ramx_pool_free, One
<1>7. ASSUME NEW x \in Buf PROVE refs[x] \in Nat /\ One(r, x) \in Nat
  BY DEF ArgsInv, TypeOK, One
<1> QED
  BY <1>1, <1>4, <1>5, <1>6, <1>7 DEF Counted

(* hspi_send takes a reference for the slot it fills.                      *)
LEMMA FillKeepsCount ==
  ASSUME ArgsInv, Counted, main.pc = "send_buffer", main.new \in Arg, NEW b \in Buf,
         refs' = [refs EXCEPT ![b] = @ + 1], args' = [args EXCEPT ![main.new] = b],
         UNCHANGED <<queue, rx_buffer, tx_buffer, mishap>>,
         Becomes("send_queue", main.task, main.arg, main.src, main.new, main.then)
  PROVE  Counted'
<1>1. args'[main.new] = b /\ \A a \in Arg : a # main.new => args'[a] = args[a]
  BY DEF ArgsInv, TypeOK
<1>2. main.task # "none" => main.arg \in Arg /\ main.arg # main.new
  BY DEF ArgsInv, MainOK, Exclusive
<1>3. NewBuf = NULL /\ NewBuf' = b /\ RunBuf' = RunBuf
  BY <1>1, <1>2 DEF RunBuf, NewBuf, Becomes
<1>4. \A i \in 1..Len(queue) : queue[i].arg # NULL => args'[queue[i].arg] = args[queue[i].arg]
  BY <1>1, QueuedTask DEF ArgsInv, Exclusive
<1>5. ASSUME NEW x \in Buf PROVE Count(x)' = Count(x) + One(b, x) /\ Count(x) \in Nat
  <2>1. InQueue(queue, args', x) = InQueue(queue, args, x)
    <3>1. queue \in Seq(Task)
      BY DEF ArgsInv, TypeOK
    <3> QED
      BY <1>4, <3>1, InOthers
  <2>2. One(NULL, x) = 0 /\ InQueue(queue, args, x) \in Nat
    BY Bufs
  <2> QED
    BY <1>3, <2>1, <2>2 DEF Count, One
<1>6. ASSUME NEW x \in Buf PROVE refs'[x] = refs[x] + One(b, x) /\ refs[x] \in Nat /\ One(b, x) \in Nat
  BY DEF One, ArgsInv, TypeOK
<1> QED
  BY <1>5, <1>6 DEF Counted

LEMMA CopiesKeepsCount == ASSUME ArgsInv, Counted, SendCopies PROVE Counted'
<1>1. /\ main.pc = "send_buffer" /\ Sending /\ main.new \in Arg
      /\ UNCHANGED <<queue, rx_buffer, tx_buffer>>
      /\ \/ Return /\ mishap' = TRUE /\ UNCHANGED <<refs, content, args>>
         \/ \E b \in Buf :
              /\ refs' = [refs EXCEPT ![b] = @ + 1]
              /\ args' = [args EXCEPT ![main.new] = b]
              /\ Becomes("send_queue", main.task, main.arg, main.src, main.new, main.then)
              /\ mishap' = mishap
  BY CopiesDoes DEF At
<1>2. CASE Return /\ mishap' = TRUE /\ UNCHANGED <<refs, content, args>>
  <2>1. RunBuf' = RunBuf /\ NewBuf' = NULL /\ NewBuf = NULL
    BY <1>1, <1>2, ReturnBufs DEF NewBuf
  <2> QED
    BY <1>1, <1>2, <2>1, CountRests
<1> QED
  BY <1>1, <1>2, FillKeepsCount

(* The reference goes to the queue with the slot, or stays behind.         *)
LEMMA QueuesKeepsCount == ASSUME ArgsInv, Counted, SendQueues PROVE Counted'
<1> DEFINE t == [task |-> "send", arg |-> main.new]
<1>1. /\ main.pc = "send_queue" /\ Sending /\ main.new \in Arg /\ t \in Task
      /\ queue' = set_next_task(queue, t)
      /\ mishap' = (mishap \/ Len(queue) = QueueSize)
      /\ Return
      /\ UNCHANGED <<refs, args, rx_buffer, tx_buffer>>
  BY QueuesDoes DEF At, poolvars
<1>2. OfTask(t, args) = args[main.new] /\ NewBuf = args[main.new]
  BY <1>1, Indices DEF OfTask, NewBuf
<1> HIDE DEF t
<1>3. RunBuf' = RunBuf /\ NewBuf' = NULL
  BY <1>1, ReturnBufs
<1>4. queue \in Seq(Task) /\ Len(queue) \in Nat /\ refs \in [Buf -> Nat]
  BY DEF ArgsInv, TypeOK
<1>5. \/ queue' = Append(queue, t) /\ Len(queue) # QueueSize
      \/ queue' = queue /\ Len(queue) >= QueueSize
  BY <1>1, <1>4, NextTask
<1>6. ASSUME NEW x \in Buf
      PROVE  /\ InQueue(Append(queue, t), args, x) = InQueue(queue, args, x) + One(NewBuf, x)
             /\ One(NULL, x) = 0 /\ InQueue(queue, args, x) \in Nat
  BY <1>1, <1>2, <1>4, InAppended, Bufs
<1>7. CASE queue' = Append(queue, t)
  <2>1. ASSUME NEW x \in Buf PROVE Count(x)' = Count(x)
    BY <1>1, <1>3, <1>6, <1>7 DEF Count, One
  <2> QED
    BY <1>1, <2>1 DEF Counted
<1>8. CASE queue' = queue /\ Len(queue) >= QueueSize
  <2>1. ASSUME NEW x \in Buf PROVE Count(x)' <= Count(x) /\ Count(x)' \in Nat /\ Count(x) \in Nat
    BY <1>1, <1>3, <1>6, <1>8 DEF Count, One
  <2>2. mishap' = TRUE
    <3>1. Len(queue) = QueueSize
      BY <1>4, <1>8, HspiAssumption DEF ArgsInv, QueueOK
    <3> QED
      BY <1>1, <3>1
  <2> QED
    BY <1>1, <1>4, <2>1, <2>2 DEF Counted
<1> QED
  BY <1>5, <1>7, <1>8

(* The handler hands its buffer over with a slot, or leaves it behind, and *)
(* takes a new one.                                                        *)
LEMMA IrqPacketKeepsCount == ASSUME ArgsInv, Counted, IrqPacket PROVE Counted'
<1>1. PICK d \in Dma, b \in Buf \cup {NULL} :
        /\ b # NULL => refs[b] = 0
        /\ refs' = Owned(refs, b)
        /\ rx_buffer' = [rx_buffer EXCEPT ![d] = b]
        /\ mishap => mishap'
        /\ UNCHANGED <<tx_buffer, main>>
        /\ \/ mishap' = TRUE /\ UNCHANGED <<used, args, queue>>
           \/ \E a \in Arg :
                LET t == [task |-> "rx", arg |-> a] IN
                /\ ~used[a] /\ t \in Task
                /\ args' = [args EXCEPT ![a] = rx_buffer[d]]
                /\ queue' = set_next_task(queue, t)
                /\ Len(queue) = QueueSize => mishap' = TRUE
  BY IrqDoes
<1>2. refs \in [Buf -> Nat] /\ queue \in Seq(Task) /\ Len(queue) \in Nat /\ rx_buffer \in [Dma -> Buf \cup {NULL}]
  BY DEF ArgsInv, TypeOK
<1>3. ASSUME NEW x \in Buf
      PROVE  /\ refs'[x] = refs[x] + One(b, x) /\ refs[x] \in Nat
             /\ One(rx_buffer'[0], x) + One(rx_buffer'[1], x)
                = One(rx_buffer[0], x) + One(rx_buffer[1], x) - One(rx_buffer[d], x) + One(b, x)
  <2>1. refs'[x] = refs[x] + One(b, x) /\ refs[x] \in Nat
    BY <1>1, <1>2, Indices DEF Owned, One
  <2>2. CASE d = 0
    BY <1>1, <1>2, <2>1, <2>2 DEF Dma, One
  <2>3. CASE d = 1
    BY <1>1, <1>2, <2>1, <2>3 DEF Dma, One
  <2> QED
    BY <2>2, <2>3 DEF Dma
<1>4. ASSUME NEW x \in Buf
      PROVE  InQueue(queue, args, x) \in Nat /\ One(rx_buffer[d], x) <= One(rx_buffer[0], x) + One(rx_buffer[1], x)
  BY Bufs DEF One, Dma
<1>5. CASE mishap' = TRUE /\ UNCHANGED <<used, args, queue>>
  <2>1. ASSUME NEW x \in Buf
        PROVE  Count(x)' = Count(x) - One(rx_buffer[d], x) + One(b, x) /\ Count(x) \in Nat
    <3>1. RunBuf' = RunBuf /\ NewBuf' = NewBuf
      BY <1>1, <1>5 DEF RunBuf, NewBuf
    <3> QED
      BY <1>1, <1>3, <1>4, <1>5, <3>1 DEF Count, One
  <2>2. ASSUME NEW x \in Buf PROVE Count(x)' <= refs'[x]
    BY <1>3, <2>1 DEF Counted, One
  <2> QED
    BY <1>5, <2>2 DEF Counted
<1>6. ASSUME NEW a \in Arg, ~used[a], [task |-> "rx", arg |-> a] \in Task,
             args' = [args EXCEPT ![a] = rx_buffer[d]],
             queue' = set_next_task(queue, [task |-> "rx", arg |-> a]),
             Len(queue) = QueueSize => mishap' = TRUE
      PROVE  Counted'
  <2> DEFINE t == [task |-> "rx", arg |-> a]
  <2>1. args'[a] = rx_buffer[d] /\ \A c \in Arg : c # a => args'[c] = args[c]
    BY <1>6 DEF ArgsInv, TypeOK
  <2>2. t \in Task /\ OfTask(t, args') = rx_buffer[d] /\ queue' = set_next_task(queue, t)
    BY <1>6, <2>1, Indices DEF OfTask
  <2> HIDE DEF t
  <2>3. RunBuf' = RunBuf /\ NewBuf' = NewBuf
    <3>1. main.task # "none" => main.arg \in Arg /\ main.arg # a
      BY <1>6 DEF ArgsInv, MainOK, Exclusive
    <3>2. main.pc = "send_queue" => main.new \in Arg /\ main.new # a
      BY <1>6 DEF ArgsInv, MainOK, Sending, Exclusive, TypeOK, Main
    <3> QED
      BY <1>1, <2>1, <3>1, <3>2 DEF RunBuf, NewBuf
  <2>4. \A i \in 1..Len(queue) : queue[i].arg # NULL => args'[queue[i].arg] = args[queue[i].arg]
    BY <1>6, <2>1, QueuedTask DEF ArgsInv, Exclusive
  <2>5. ASSUME NEW x \in Buf
        PROVE  /\ InQueue(queue, args', x) = InQueue(queue, args, x)
               /\ InQueue(Append(queue, t), args', x) = InQueue(queue, args, x) + One(rx_buffer[d], x)
    <3>1. InQueue(queue, args', x) = InQueue(queue, args, x)
      BY <1>2, <2>4, InOthers
    <3> QED
      BY <1>2, <2>2, <3>1, InAppended
  <2>6. \/ queue' = Append(queue, t)
        \/ queue' = queue /\ mishap' = TRUE
    <3>1. Len(queue) <= QueueSize /\ QueueSize \in Nat
      BY HspiAssumption DEF ArgsInv, QueueOK
    <3>2. queue' = Append(queue, t) \/ (queue' = queue /\ Len(queue) >= QueueSize)
      BY <1>2, <2>2, NextTask
    <3> QED
      BY <1>2, <1>6, <3>1, <3>2
  <2>7. CASE queue' = Append(queue, t)
    <3>1. ASSUME NEW x \in Buf PROVE Count(x)' = Count(x) + One(b, x) /\ Count(x) \in Nat
      <4>1. InQueue(queue', args', x) = InQueue(queue, args, x) + One(rx_buffer[d], x)
        BY <2>5, <2>7
      <4> QED
        <5>1. /\ One(rx_buffer'[0], x) + One(rx_buffer'[1], x)
                 = One(rx_buffer[0], x) + One(rx_buffer[1], x) - One(rx_buffer[d], x) + One(b, x)
              /\ InQueue(queue, args, x) \in Nat
          BY <1>3, <1>4
        <5>2. /\ One(rx_buffer[0], x) \in Nat /\ One(rx_buffer[1], x) \in Nat
              /\ One(tx_buffer[0], x) \in Nat /\ One(tx_buffer[1], x) \in Nat
              /\ One(RunBuf, x) \in Nat /\ One(NewBuf, x) \in Nat
              /\ One(rx_buffer[d], x) \in Nat /\ One(b, x) \in Nat
              /\ One(rx_buffer'[0], x) \in Nat /\ One(rx_buffer'[1], x) \in Nat
          BY DEF One
        <5>3. Count(x)' = One(rx_buffer'[0], x) + One(rx_buffer'[1], x) + One(tx_buffer[0], x)
                          + One(tx_buffer[1], x) + InQueue(queue', args', x)
                          + One(RunBuf, x) + One(NewBuf, x)
          BY <1>1, <2>3 DEF Count
        <5> HIDE DEF One, InQueue, RunBuf, NewBuf
        <5> QED
          BY <4>1, <5>1, <5>2, <5>3 DEF Count
    <3>2. ASSUME NEW x \in Buf PROVE One(b, x) \in Nat
      BY OneIsBit
    <3> QED
      BY <1>1, <1>3, <3>1, <3>2 DEF Counted
  <2>8. CASE queue' = queue /\ mishap' = TRUE
    <3>1. ASSUME NEW x \in Buf
          PROVE  Count(x)' = Count(x) - One(rx_buffer[d], x) + One(b, x) /\ Count(x) \in Nat
      BY <1>1, <1>3, <1>4, <2>3, <2>5, <2>8 DEF Count, One
    <3>2. ASSUME NEW x \in Buf PROVE Count(x)' <= refs'[x]
      BY <1>3, <3>1 DEF Counted, One
    <3> QED
      BY <2>8, <3>2 DEF Counted
  <2> QED
    BY <2>6, <2>7, <2>8
<1> QED
  BY <1>1, <1>5, <1>6

LEMMA ReinitKeepsCount == ASSUME ArgsInv, Counted, hspi_reinit_buffers PROVE Counted'
<1>1. /\ main.pc = "idle" /\ queue = <<>> /\ main.task = "none" /\ mishap' = TRUE
      /\ UNCHANGED <<args, queue, main>> /\ refs \in [Buf -> Nat]
      /\ \A x \in Buf : refs'[x] = refs[x] + One(rx_buffer'[0], x) + One(rx_buffer'[1], x)
                                           + One(tx_buffer'[0], x) + One(tx_buffer'[1], x)
  BY ReinitDoes DEF At, ArgsInv, TypeOK
<1>2. RunBuf' = NULL /\ NewBuf' = NULL
  BY <1>1 DEF RunBuf, NewBuf
<1>3. ASSUME NEW x \in Buf PROVE Count(x)' <= refs'[x]
  <2>1. InQueue(queue', args', x) = 0 /\ One(NULL, x) = 0
    BY <1>1, InEmptyQueue, Bufs
  <2> QED
    BY <1>1, <1>2, <2>1 DEF Count, One
<1> QED
  BY <1>1, <1>3 DEF Counted

LEMMA CountNext == ASSUME UserFrees = FALSE, ArgsInv, Counted, [Next]_vars PROVE Counted'
<1>1. CASE UNCHANGED vars
  <2>1. RunBuf' = RunBuf /\ NewBuf' = NewBuf
    BY <1>1 DEF vars, RunBuf, NewBuf
  <2> QED
    BY <1>1, <2>1, CountRests DEF vars
<1>2. CASE (\E bad \in BOOLEAN : DmaReceive(bad)) \/ Interrupt \/ OtherTask
  BY <1>2, QuietKeepsCount, IrqPacketKeepsCount, OtherTaskKeepsCount DEF Interrupt
<1>3. CASE hydra_interrupt_queue_run("task") \/ hydra_interrupt_queue_free_all
  BY <1>3, RunKeepsCount DEF hydra_interrupt_queue_free_all
<1>4. CASE SendShares
  BY <1>4, SharesDoes, FillKeepsCount DEF At, logvars
<1>5. CASE (RunTask /\ ~hydra_interrupt_queue_run("task")) \/ CallSend \/ hspi_reinit_buffers
  BY <1>4, <1>5, QuietKeepsCount, CleanupKeepsCount, CopiesKeepsCount, QueuesKeepsCount,
     ReinitKeepsCount DEF RunTask
<1> QED
  BY <1>1, <1>2, <1>3, <1>5 DEF Next

(* A slot stays in use only for a task that has it, unless a queue or pool *)
(* was short.                                                              *)
LEMMA AccountedNext ==
  ASSUME UserFrees = FALSE, ArgsInv, Accounted, [Next]_vars
  PROVE  Accounted'
<1> SUFFICES ASSUME ~mishap', NEW a \in Arg, used'[a] PROVE UsedFor(a)'
  BY DEF Accounted
<1> USE DEF UsedFor
<1>0. \A c \in Arg : c # NULL
  BY Indices
<1>1. CASE UNCHANGED vars
  BY <1>1 DEF vars, Accounted
<1>2. CASE (\E bad \in BOOLEAN : DmaReceive(bad)) \/ HSPI_IRQHandler \/ IrqError
  <2>1. UNCHANGED <<main, queue, used>>
    BY <1>2 DEF DmaReceive, HSPI_IRQHandler, IrqError, poolvars
  <2>2. ~mishap
    BY <1>2, Zenon DEF DmaReceive, HSPI_IRQHandler, IrqError, logvars
  <2> QED
    BY <2>1, <2>2 DEF Accounted
<1>3. ASSUME NEW t \in Task, queue' = set_next_task(queue, t), Len(queue) # QueueSize
      PROVE  /\ \A i \in 1..Len(queue) : i \in 1..Len(queue') /\ queue'[i] = queue[i]
             /\ \E i \in 1..Len(queue') : queue'[i] = t
  <2>1. queue \in Seq(Task) /\ Len(queue) <= QueueSize /\ QueueSize \in Nat
    BY HspiAssumption DEF ArgsInv, TypeOK, QueueOK
  <2>2. queue' = Append(queue, t)
    BY <1>3, <2>1 DEF set_next_task
  <2>3. Len(queue') = Len(queue) + 1 /\ queue'[Len(queue) + 1] = t
    BY <2>1, <2>2
  <2> QED
    BY <2>1, <2>2, <2>3
<1>4. CASE OtherTask
  <2>1. queue' = set_next_task(queue, [task |-> "other", arg |-> NULL]) /\ UNCHANGED <<main, used, mishap>>
    BY <1>4 DEF OtherTask, poolvars, logvars
  <2>2. \A i \in 1..Len(queue) : i \in 1..Len(queue') /\ queue'[i] = queue[i]
    <3>1. queue \in Seq(Task)
      BY DEF ArgsInv, TypeOK
    <3> QED
      BY <2>1, <3>1 DEF set_next_task
  <2> QED
    BY <2>1, <2>2 DEF Accounted
<1>5. CASE IrqPacket
  <2>1. /\ mishap => mishap'
        /\ UNCHANGED main
        /\ \/ mishap' = TRUE
           \/ \E c \in Arg :
                LET t == [task |-> "rx", arg |-> c] IN
                /\ t \in Task
                /\ used' = [used EXCEPT ![c] = TRUE]
                /\ queue' = set_next_task(queue, t)
                /\ Len(queue) = QueueSize => mishap' = TRUE
    BY <1>5, IrqDoes
  <2>2. PICK c \in Arg :
          LET t == [task |-> "rx", arg |-> c] IN
          /\ t \in Task
          /\ used' = [used EXCEPT ![c] = TRUE]
          /\ queue' = set_next_task(queue, t)
          /\ Len(queue) # QueueSize
    BY <2>1
  <2>3. CASE a = c
    BY <1>3, <2>2, <2>3
  <2>4. CASE a # c
    <3>1. used[a] /\ ~mishap
      BY <2>1, <2>2, <2>4 DEF ArgsInv, TypeOK
    <3> QED
      BY <1>3, <2>1, <2>2, <3>1 DEF Accounted
  <2> QED
    BY <2>3, <2>4
<1>6. ASSUME NEW first \in {"task", "cleanup"}, hydra_interrupt_queue_run(first)
      PROVE  UsedFor(a)'
  <2>1. /\ main.pc = "idle" /\ queue # <<>> /\ queue' = Tail(queue) /\ queue \in Seq(Task)
        /\ Head(queue) = queue[1] /\ UNCHANGED <<used, mishap>>
        /\ \/ Head(queue).task = "other"
           \/ /\ Head(queue).task # "other"
              /\ Becomes(first, Head(queue).task, Head(queue).arg, NULL, NULL, "idle")
    BY <1>6, RunDoes DEF At, poolvars, logvars, ArgsInv, TypeOK
  <2>2. main.task = "none" /\ main.new = NULL
    BY <2>1 DEF ArgsInv, MainOK
  <2>3. PICK i \in 1..Len(queue) : queue[i].arg = a
    BY <2>1, <2>2 DEF Accounted
  <2>4. CASE i = 1
    <3>1. Head(queue).task # "other" /\ Head(queue).task # "none"
      BY <1>0, <2>1, <2>3, <2>4, QueuedTask DEF ArgsInv, QueueOK, Task
    <3> QED
      BY <2>1, <2>3, <2>4, <3>1 DEF Becomes
  <2>5. CASE i # 1
    <3>1. i - 1 \in 1..Len(queue') /\ queue'[i - 1] = queue[i]
      BY <2>1, <2>5
    <3> QED
      BY <2>3, <3>1
  <2> QED
    BY <2>4, <2>5
<1>7. CASE _hspi_rx_callback \/ _hspi_send \/ TransmitDone \/ _hspi_cleanup \/ CallSend
  <2>1. UNCHANGED <<queue, used, mishap>>
    BY <1>7 DEF _hspi_rx_callback, _hspi_send, TransmitDone, _hspi_cleanup, CallSend, poolvars, logvars
  <2>2. main'.task = main.task /\ main'.arg = main.arg /\ main'.new = main.new
    <3>1. CASE _hspi_rx_callback
      BY <3>1, CallbackDoes DEF Becomes
    <3>2. CASE CallSend
      BY <3>2, CallSendDoes DEF Becomes
    <3>3. CASE _hspi_send \/ TransmitDone \/ _hspi_cleanup
      <4>1. PICK pc \in Pcs : main' = [main EXCEPT !.pc = pc]
        BY <3>3 DEF _hspi_send, TransmitDone, _hspi_cleanup, Pcs
      <4> QED
        BY <4>1, PcMoves DEF ArgsInv, Becomes
    <3> QED
      BY <1>7, <3>1, <3>2, <3>3
  <2> QED
    BY <2>1, <2>2 DEF Accounted
<1>8. CASE CleanupArgs
  <2>1. /\ main.arg \in Arg /\ main.new = NULL /\ used' = [used EXCEPT ![main.arg] = FALSE]
        /\ UNCHANGED <<queue, mishap>>
    BY <1>8 DEF CleanupArgs, At, ArgsInv, MainOK, Running, logvars
  <2>2. a # main.arg /\ used[a]
    BY <2>1 DEF ArgsInv, TypeOK
  <2> QED
    BY <2>1, <2>2 DEF Accounted
<1>9. CASE SendGetArgs
  <2>1. /\ main.pc = "send" /\ Sending /\ UNCHANGED <<queue, mishap>>
        /\ \/ Return /\ UNCHANGED used
           \/ \E c \in Arg : /\ c # NULL /\ used' = [used EXCEPT ![c] = TRUE]
                             /\ Becomes("send_buffer", main.task, main.arg, main.src, c, main.then)
    BY <1>9, GetArgsDoes DEF At, logvars
  <2>2. main.new = NULL
    BY <2>1 DEF ArgsInv, MainOK
  <2>3. CASE Return /\ UNCHANGED used
    <3>1. main'.task = main.task /\ (main.task # "none" => main'.arg = main.arg)
      BY <2>1, <2>3, ReturnDoes DEF Becomes
    <3> QED
      BY <2>1, <2>2, <2>3, <3>1 DEF Accounted
  <2>4. ASSUME NEW c \in Arg, c # NULL, used' = [used EXCEPT ![c] = TRUE],
               Becomes("send_buffer", main.task, main.arg, main.src, c, main.then)
        PROVE  UsedFor(a)'
    <3>1. a = c \/ used[a]
      BY <2>4 DEF ArgsInv, TypeOK
    <3> QED
      BY <2>1, <2>2, <2>4, <3>1 DEF Accounted, Becomes
  <2> QED
    BY <2>1, <2>3, <2>4
<1>10. CASE SendShares \/ SendCopies
  <2>1. /\ UNCHANGED <<used, queue, mishap>>
        /\ Becomes("send_queue", main.task, main.arg, main.src, main.new, main.then)
    BY <1>10, SharesDoes, CopiesDoes DEF logvars
  <2> QED
    BY <2>1 DEF Accounted, Becomes
<1>11. CASE SendQueues
  <2> DEFINE t == [task |-> "send", arg |-> main.new]
  <2>1. /\ Sending /\ t \in Task /\ queue' = set_next_task(queue, t)
        /\ mishap' = (mishap \/ Len(queue) = QueueSize) /\ Return /\ UNCHANGED used
    BY <1>11, QueuesDoes DEF poolvars
  <2>2. ~mishap /\ Len(queue) # QueueSize
    BY <2>1
  <2>3. main'.task = main.task /\ (main.task # "none" => main'.arg = main.arg)
    BY <2>1, ReturnDoes DEF Becomes
  <2>4. CASE main.new = a
    BY <1>3, <2>1, <2>2, <2>4
  <2>5. CASE main.new # a
    BY <1>3, <2>1, <2>2, <2>3, <2>5 DEF Accounted
  <2> QED
    BY <2>4, <2>5
<1>12. CASE hspi_reinit_buffers
  BY <1>12, ReinitDoes
<1> QED
  BY <1>1, <1>2, <1>4, <1>5, <1>6, <1>7, <1>8, <1>9, <1>10, <1>11, <1>12
     DEF Next, Interrupt, RunTask, hydra_interrupt_queue_free_all

(* Holders counts what Count adds up.                                      *)
LEMMA TwoCount ==
  ASSUME NEW f, NEW b
  PROVE  Cardinality({d \in Dma : f[d] = b}) = One(f[0], b) + One(f[1], b)
<1> DEFINE S == {d \in Dma : f[d] = b}
<1>1. /\ Cardinality({}) = 0 /\ IsFiniteSet({0}) /\ Cardinality({0}) = 1 /\ Cardinality({1}) = 1
      /\ Cardinality({0} \cup {1}) = 2
  <2>1. IsFiniteSet({0}) /\ Cardinality({0}) = 1 /\ Cardinality({1}) = 1
    BY FS_Singleton
  <2>2. Cardinality({0} \cup {1}) = Cardinality({0}) + 1
    BY <2>1, FS_AddElement
  <2> QED
    BY <2>1, <2>2, FS_EmptySet
<1>2. CASE f[0] = b /\ f[1] = b
  <2>1. S = {0} \cup {1}
    BY <1>2 DEF Dma
  <2> QED
    BY <1>1, <1>2, <2>1 DEF One
<1>3. CASE f[0] = b /\ f[1] # b
  <2>1. S = {0}
    BY <1>3 DEF Dma
  <2> QED
    BY <1>1, <1>3, <2>1 DEF One
<1>4. CASE f[0] # b /\ f[1] = b
  <2>1. S = {1}
    BY <1>4 DEF Dma
  <2> QED
    BY <1>1, <1>4, <2>1 DEF One
<1>5. CASE f[0] # b /\ f[1] # b
  <2>1. S = {}
    BY <1>5 DEF Dma
  <2> QED
    BY <1>1, <1>5, <2>1 DEF One
<1> QED
  BY <1>2, <1>3, <1>4, <1>5

LEMMA HoldersAreCounted == ASSUME ArgsInv, NEW b \in Buf PROVE Holders(b) = Count(b)
<1> DEFINE R == {a \in RunArgs : main.pc # "cleanup_args" /\ args[a] = b}
           N == {a \in NewArgs : main.pc = "send_queue" /\ args[a] = b}
           Q == {i \in QueuedArgs : args[queue[i].arg] = b}
<1>1. Cardinality({}) = 0 /\ \A x : Cardinality({x}) = 1
  BY FS_EmptySet, FS_Singleton
<1>2. Q = Pointing(queue, args, b)
  BY DEF QueuedArgs, Pointing
<1>3. Cardinality(R) = One(RunBuf, b)
  <2>1. main.task \in {"none", "rx", "send"}
    BY DEF ArgsInv, TypeOK, Main
  <2>2. CASE main.task # "none" /\ main.pc # "cleanup_args" /\ args[main.arg] = b
    <3>1. R = {main.arg}
      BY <2>1, <2>2 DEF RunArgs
    <3> QED
      BY <1>1, <2>2, <3>1 DEF One, RunBuf
  <2>3. CASE ~(main.task # "none" /\ main.pc # "cleanup_args" /\ args[main.arg] = b)
    <3>1. R = {}
      BY <2>1, <2>3 DEF RunArgs
    <3>2. RunBuf # b
      BY <2>3, Indices DEF RunBuf
    <3> QED
      BY <1>1, <3>1, <3>2 DEF One
  <2> QED
    BY <2>2, <2>3
<1>4. Cardinality(N) = One(NewBuf, b)
  <2>1. main.pc = "send_queue" => main.new # NULL
    BY DEF ArgsInv, MainOK, Sending
  <2>2. CASE main.pc = "send_queue" /\ args[main.new] = b
    <3>1. N = {main.new}
      BY <2>1, <2>2 DEF NewArgs
    <3> QED
      BY <1>1, <2>2, <3>1 DEF One, NewBuf
  <2>3. CASE ~(main.pc = "send_queue" /\ args[main.new] = b)
    <3>1. N = {}
      BY <2>3 DEF NewArgs
    <3>2. NewBuf # b
      BY <2>3, Indices DEF NewBuf
    <3> QED
      BY <1>1, <3>1, <3>2 DEF One
  <2> QED
    BY <2>2, <2>3
<1>5. /\ Cardinality({d \in Dma : rx_buffer[d] = b}) = One(rx_buffer[0], b) + One(rx_buffer[1], b)
      /\ Cardinality({d \in Dma : tx_buffer[d] = b}) = One(tx_buffer[0], b) + One(tx_buffer[1], b)
  BY TwoCount
<1>6. Holders(b) = Cardinality({d \in Dma : rx_buffer[d] = b}) + Cardinality({d \in Dma : tx_buffer[d] = b})
                   + Cardinality(Q) + Cardinality(R) + Cardinality(N)
  BY DEF Holders
<1> HIDE DEF Q, R, N
<1>7. InQueue(queue, args, b) \in Nat /\ InQueue(queue, args, b) = Cardinality(Q)
  BY <1>2, Bufs DEF InQueue
<1> QED
  BY <1>3, <1>4, <1>5, <1>6, <1>7, OneIsBit DEF Count

LEMMA RefsAlways == ASSUME UserFrees = FALSE PROVE Spec => [](ArgsInv /\ RefsInv)
<1>1. ArgsInv /\ RefsInv /\ [Next]_vars => RefsInv'
  BY CountNext, AccountedNext DEF RefsInv
<1>2. Init => RefsInv
  BY CountInit DEF RefsInv
<1> QED
  BY <1>1, <1>2, ArgsAlways, PTL DEF Spec

(* hspi_scheduled.c counts every reference it holds: no buffer is free     *)
(* that the DMA, a queued task or user code still points to, and until a   *)
(* pool or the queue runs short nothing is forgotten.                      *)
THEOREM RefsCounted == ASSUME UserFrees = FALSE PROVE Spec => []ReferencesCounted
<1>1. ArgsInv /\ RefsInv => ReferencesCounted
  <2> SUFFICES ASSUME ArgsInv, RefsInv PROVE ReferencesCounted
    OBVIOUS
  <2>1. \A b \in Buf : Holders(b) <= refs[b] /\ (~mishap => refs[b] = Holders(b))
    BY HoldersAreCounted DEF RefsInv, Counted
  <2>2. ASSUME NEW a \in Arg, UsedFor(a)
        PROVE  a \in RunArgs \cup NewArgs \cup {queue[i].arg : i \in QueuedArgs}
    <3>1. a # NULL /\ main.task \in {"none", "rx", "send"}
      BY Indices DEF ArgsInv, TypeOK, Main
    <3> QED
      BY <2>2, <3>1 DEF UsedFor, RunArgs, NewArgs, QueuedArgs
  <2> QED
    BY <2>1, <2>2 DEF ReferencesCounted, RefsInv, Accounted
<1> QED
  BY <1>1, RefsAlways, PTL

-----------------------------------------------------------------------------
(* What a buffer holds does not change while somebody waits to use it.     *)
LEMMA FreeIsUnheld ==
  ASSUME ArgsInv, Counted, NEW b \in Buf, refs[b] = 0
  PROVE  ~Held(b) /\ \A d \in Dma : rx_buffer[d] # b
<1>1. Count(b) <= 0 /\ InQueue(queue, args, b) \in Nat
  BY Bufs DEF Counted
<1>2. /\ InQueue(queue, args, b) = 0 /\ One(RunBuf, b) = 0 /\ One(NewBuf, b) = 0
      /\ One(rx_buffer[0], b) = 0 /\ One(rx_buffer[1], b) = 0
  BY <1>1, OneIsBit DEF Count
<1>3. RunBuf # b /\ NewBuf # b /\ \A d \in Dma : rx_buffer[d] # b
  BY <1>2 DEF One, Dma
<1>4. Pointing(queue, args, b) = {}
  <2>1. IsFiniteSet(Pointing(queue, args, b))
    BY PointingFinite DEF ArgsInv, TypeOK
  <2> QED
    BY <1>2, <2>1, FS_EmptySet DEF InQueue
<1>5. \A i \in 1..Len(queue) : queue[i].arg # NULL => args[queue[i].arg] # b
  BY <1>4 DEF Pointing
<1> QED
  BY <1>3, <1>5 DEF Held

(* No step but the interrupt's gives user code a buffer that was neither   *)
(* its own nor free.                                                       *)
LEMMA HeldStays ==
  ASSUME ArgsInv, UserFrees = FALSE, [Next]_vars, ~IrqPacket, ~hspi_reinit_buffers, NEW b \in Buf, Held(b)'
  PROVE  Held(b) \/ refs[b] = 0
<1>0. b # NULL /\ queue \in Seq(Task)
  BY Indices DEF ArgsInv, TypeOK
<1>1. CASE UNCHANGED <<main, queue, args>>
  BY <1>1 DEF Held, RunBuf, NewBuf
<1>2. ASSUME UNCHANGED <<queue, args>>, RunBuf' \in {RunBuf, NULL}, NewBuf' \in {NewBuf, NULL}
      PROVE  Held(b)
  BY <1>0, <1>2 DEF Held
<1>3. CASE OtherTask
  <2>1. queue' = set_next_task(queue, [task |-> "other", arg |-> NULL]) /\ UNCHANGED <<main, args>>
    BY <1>3 DEF OtherTask, poolvars
  <2>2. [task |-> "other", arg |-> NULL] \in Task
    BY DEF Task
  <2>3. \A i \in 1..Len(queue') : (i \in 1..Len(queue) /\ queue'[i] = queue[i]) \/ queue'[i].arg = NULL
    BY <2>1, <2>2, QueueGrows DEF ArgsInv
  <2> QED
    BY <2>1, <2>3 DEF Held, RunBuf, NewBuf
<1>4. ASSUME NEW first \in {"task", "cleanup"}, hydra_interrupt_queue_run(first)
      PROVE  Held(b)
  <2>1. /\ queue # <<>> /\ queue' = Tail(queue) /\ Head(queue) = queue[1] /\ 1 \in 1..Len(queue)
        /\ UNCHANGED args
        /\ \/ Becomes("idle", "none", NULL, NULL, NULL, "idle")
           \/ /\ Head(queue).arg \in Arg
              /\ Becomes(first, Head(queue).task, Head(queue).arg, NULL, NULL, "idle")
    BY <1>4, RunDoes DEF poolvars
  <2>2. NewBuf' = NULL /\ (RunBuf' = NULL \/ (RunBuf' = args[queue[1].arg] /\ queue[1].arg # NULL))
    BY <2>1, Indices DEF RunBuf, NewBuf, Becomes
  <2>3. \A i \in 1..Len(queue') : i + 1 \in 1..Len(queue) /\ queue'[i] = queue[i + 1]
    BY <1>0, <2>1
  <2> QED
    BY <1>0, <2>1, <2>2, <2>3 DEF Held
<1>5. CASE _hspi_rx_callback
  <2>1. /\ main.pc = "task" /\ UNCHANGED <<args, queue>>
        /\ main'.pc \in {"cleanup", "send"} /\ main'.task = main.task /\ main'.arg = main.arg
    BY <1>5, CallbackDoes DEF At, Becomes
  <2> QED
    BY <1>2, <2>1 DEF RunBuf, NewBuf
<1>6. CASE _hspi_send \/ TransmitDone \/ _hspi_cleanup
  <2>1. main.pc \in {"task", "t_done", "cleanup"} /\ UNCHANGED <<args, queue>>
    BY <1>6 DEF _hspi_send, TransmitDone, _hspi_cleanup, At, poolvars
  <2>2. PICK pc \in {"t_done", "cleanup", "cleanup_args"} : main' = [main EXCEPT !.pc = pc]
    BY <1>6 DEF _hspi_send, TransmitDone, _hspi_cleanup
  <2>3. Becomes(pc, main.task, main.arg, main.src, main.new, main.then)
    BY <2>2, PcMoves DEF ArgsInv, Pcs
  <2> QED
    BY <1>2, <2>1, <2>3 DEF RunBuf, NewBuf, Becomes
<1>7. CASE CleanupArgs
  <2>1. UNCHANGED <<args, queue>> /\ main'.task = "none" /\ main'.pc = "idle"
    BY <1>7 DEF CleanupArgs, Idle
  <2> QED
    BY <1>2, <2>1 DEF RunBuf, NewBuf
<1>8. CASE CallSend
  <2>1. /\ main.pc = "idle" /\ Becomes("send", main.task, main.arg, NULL, main.new, "idle")
        /\ UNCHANGED <<args, queue>>
    BY <1>8, CallSendDoes DEF At, poolvars
  <2> QED
    BY <1>2, <2>1 DEF RunBuf, NewBuf, Becomes
<1>9. CASE SendGetArgs
  <2>1. /\ main.pc = "send" /\ Sending /\ UNCHANGED <<args, queue>>
        /\ \/ Return
           \/ \E a \in Arg : Becomes("send_buffer", main.task, main.arg, main.src, a, main.then)
    BY <1>9, GetArgsDoes DEF At
  <2>2. RunBuf' = RunBuf /\ NewBuf' = NULL
    BY <2>1, ReturnBufs DEF RunBuf, NewBuf, Becomes
  <2> QED
    BY <1>2, <2>1, <2>2
<1>10. ASSUME NEW c \in Buf, main.pc = "send_buffer", main.new \in Arg,
              args' = [args EXCEPT ![main.new] = c], UNCHANGED queue, RunBuf = c \/ refs[c] = 0,
              Becomes("send_queue", main.task, main.arg, main.src, main.new, main.then)
       PROVE  Held(b) \/ refs[b] = 0
  <2>1. args'[main.new] = c /\ \A a \in Arg : a # main.new => args'[a] = args[a]
    BY <1>10 DEF ArgsInv, TypeOK
  <2>2. main.task # "none" => main.arg \in Arg /\ main.arg # main.new
    BY DEF ArgsInv, MainOK, Exclusive
  <2>3. NewBuf' = c /\ RunBuf' = RunBuf
    BY <1>10, <2>1, <2>2 DEF RunBuf, NewBuf, Becomes
  <2>4. \A i \in 1..Len(queue) : queue[i].arg # NULL => args'[queue[i].arg] = args[queue[i].arg]
    BY <2>1, QueuedTask DEF ArgsInv, Exclusive
  <2> QED
    BY <1>10, <2>3, <2>4 DEF Held
<1>11. CASE SendShares
  <2>1. /\ main.pc = "send_buffer" /\ main.src \in Buf /\ main.new \in Arg
        /\ main.task = "rx" /\ main.src = args[main.arg]
        /\ args' = [args EXCEPT ![main.new] = main.src]
        /\ Becomes("send_queue", main.task, main.arg, main.src, main.new, main.then)
        /\ UNCHANGED queue
    BY <1>11, SharesDoes DEF At
  <2> QED
    BY <1>10, <2>1 DEF RunBuf
<1>12. CASE SendCopies
  <2>1. /\ main.pc = "send_buffer" /\ Sending /\ main.new \in Arg /\ UNCHANGED queue
        /\ \/ Return /\ UNCHANGED args
           \/ \E c \in Buf :
                /\ refs[c] = 0
                /\ args' = [args EXCEPT ![main.new] = c]
                /\ Becomes("send_queue", main.task, main.arg, main.src, main.new, main.then)
    BY <1>12, CopiesDoes DEF At
  <2> QED
    BY <1>2, <1>10, <2>1, ReturnBufs
<1>13. CASE SendQueues
  <2> DEFINE t == [task |-> "send", arg |-> main.new]
  <2>1. /\ main.pc = "send_queue" /\ Sending /\ t \in Task /\ queue' = set_next_task(queue, t)
        /\ Return /\ UNCHANGED args
    BY <1>13, QueuesDoes DEF At, poolvars
  <2>2. RunBuf' = RunBuf /\ NewBuf' = NULL /\ NewBuf = args[main.new]
    BY <2>1, ReturnBufs DEF NewBuf
  <2>3. t.arg = main.new
    OBVIOUS
  <2> HIDE DEF t
  <2>4. \A i \in 1..Len(queue') : (i \in 1..Len(queue) /\ queue'[i] = queue[i]) \/ queue'[i] = t
    BY <2>1, QueueGrows DEF ArgsInv
  <2> QED
    BY <1>0, <2>1, <2>2, <2>3, <2>4 DEF Held
<1>14. CASE UNCHANGED vars \/ (\E bad \in BOOLEAN : DmaReceive(bad)) \/ HSPI_IRQHandler \/ IrqError
  <2>1. UNCHANGED <<main, queue, args>>
    BY <1>14 DEF vars, DmaReceive, HSPI_IRQHandler, IrqError, poolvars
  <2> QED
    BY <1>1, <2>1
<1> QED
  BY <1>3, <1>4, <1>5, <1>6, <1>7, <1>8, <1>9, <1>11, <1>12, <1>13, <1>14
     DEF Next, Interrupt, RunTask, hydra_interrupt_queue_free_all

(* The interrupt hands user code the buffer the DMA has filled.            *)
LEMMA IrqHands ==
  ASSUME ArgsInv, IrqPacket, NEW b \in Buf, Held(b)'
  PROVE  Held(b) \/ rx_buffer[1 - rx_tog] = b
<1>0. b # NULL
  BY Indices
<1>1. PICK d \in Dma :
        /\ d = 1 - rx_tog /\ UNCHANGED main
        /\ \/ UNCHANGED <<args, queue>>
           \/ \E a \in Arg :
                LET t == [task |-> "rx", arg |-> a] IN
                /\ ~used[a] /\ t \in Task
                /\ args' = [args EXCEPT ![a] = rx_buffer[d]]
                /\ queue' = set_next_task(queue, t)
  BY IrqDoes
<1>2. CASE UNCHANGED <<args, queue>>
  BY <1>1, <1>2 DEF Held, RunBuf, NewBuf
<1>3. ASSUME NEW a \in Arg, ~used[a], [task |-> "rx", arg |-> a] \in Task,
             args' = [args EXCEPT ![a] = rx_buffer[d]],
             queue' = set_next_task(queue, [task |-> "rx", arg |-> a])
      PROVE  Held(b) \/ rx_buffer[d] = b
  <2> DEFINE t == [task |-> "rx", arg |-> a]
  <2>1. t \in Task /\ t.arg = a /\ queue' = set_next_task(queue, t)
    BY <1>3
  <2> HIDE DEF t
  <2>2. \A i \in 1..Len(queue') : (i \in 1..Len(queue) /\ queue'[i] = queue[i]) \/ queue'[i] = t
    BY <2>1, QueueGrows DEF ArgsInv
  <2>3. args'[a] = rx_buffer[d] /\ \A c \in Arg : c # a => args'[c] = args[c]
    BY <1>3 DEF ArgsInv, TypeOK
  <2>4. main.task # "none" => main.arg \in Arg /\ main.arg # a
    BY <1>3 DEF ArgsInv, MainOK, Exclusive
  <2>5. main.pc = "send_queue" => main.new \in Arg /\ main.new # a
    BY <1>3 DEF ArgsInv, MainOK, Sending, Exclusive, TypeOK, Main
  <2>6. RunBuf' = RunBuf /\ NewBuf' = NewBuf
    BY <1>1, <2>3, <2>4, <2>5 DEF RunBuf, NewBuf
  <2>7. \A i \in 1..Len(queue) : queue[i].arg # NULL => args'[queue[i].arg] = args[queue[i].arg]
    BY <1>3, <2>3, QueuedTask DEF ArgsInv, Exclusive
  <2> QED
    BY <2>1, <2>2, <2>3, <2>6, <2>7 DEF Held
<1> QED
  BY <1>1, <1>2, <1>3

LEMMA RxAloneInit == Init => RxAlone
<1> SUFFICES ASSUME Init PROVE RxAlone
  OBVIOUS
<1>1. /\ queue = <<>> /\ RunBuf = NULL /\ NewBuf = NULL
      /\ \A d \in Dma : rx_buffer[d] = d /\ 1 - d \in Dma /\ 1 - d # d
  BY DEF Init, Idle, RunBuf, NewBuf, Dma
<1> QED
  BY <1>1 DEF RxAlone, Held

(* The DMA's new buffer was free, and the one it had filled is not the one *)
(* it is about to fill.                                                    *)
LEMMA RxAloneNext ==
  ASSUME ArgsInv, Counted, RxAlone, UserFrees = FALSE, [Next]_vars
  PROVE  RxAlone'
<1>0. /\ \A d \in Dma : rx_buffer[d] \in Buf \cup {NULL} /\ 1 - d \in Dma /\ 1 - d # d /\ 1 - (1 - d) = d
      /\ rx_tog \in Dma
  BY DEF ArgsInv, TypeOK, Dma
<1>1. CASE IrqPacket
  <2>1. PICK d \in Dma, b \in Buf \cup {NULL} :
          /\ d = 1 - rx_tog /\ (b # NULL => refs[b] = 0)
          /\ rx_buffer' = [rx_buffer EXCEPT ![d] = b]
    BY <1>1, IrqDoes
  <2>2. rx_buffer'[d] = b /\ rx_buffer'[1 - d] = rx_buffer[1 - d]
    BY <1>0, <2>1 DEF ArgsInv, TypeOK
  <2>3. b # NULL => ~Held(b) /\ \A e \in Dma : rx_buffer[e] # b
    BY <2>1, FreeIsUnheld
  <2>4. \A x \in Buf : Held(x)' => Held(x) \/ rx_buffer[d] = x
    BY <1>1, <2>1, IrqHands
  <2>5. b # NULL => rx_buffer'[1 - d] # b /\ ~Held(b)'
    BY <1>0, <2>1, <2>2, <2>3, <2>4
  <2>6. rx_buffer[1 - d] # NULL => rx_buffer[1 - d] # b /\ ~Held(rx_buffer[1 - d])'
    BY <1>0, <2>1, <2>3, <2>4 DEF RxAlone
  <2>7. \A e \in Dma : e = d \/ e = 1 - d
    BY DEF Dma
  <2> QED
    BY <1>0, <2>2, <2>5, <2>6, <2>7 DEF RxAlone, Held
<1>2. CASE hspi_reinit_buffers
  <2>1. /\ At("idle") /\ queue = <<>> /\ main.task = "none"
        /\ UNCHANGED <<queue, main>>
        /\ rx_buffer'[0] = rx_buffer'[1] => rx_buffer'[0] = NULL
    BY <1>2, ReinitDoes
  <2>2. RunBuf' = NULL /\ NewBuf' = NULL
    BY <2>1 DEF At, RunBuf, NewBuf
  <2> QED
    BY <2>1, <2>2 DEF RxAlone, Held, Dma
<1>3. CASE ~IrqPacket /\ ~hspi_reinit_buffers
  <2>1. rx_buffer' = rx_buffer
    BY <1>3 DEF Next, Interrupt, RunTask, hydra_interrupt_queue_free_all, vars, DmaReceive, HSPI_IRQHandler,
       IrqError, OtherTask, hydra_interrupt_queue_run, _hspi_rx_callback, _hspi_send, TransmitDone,
       _hspi_cleanup, CleanupArgs, SendGetArgs, SendShares, SendCopies, SendQueues, CallSend
  <2>2. \A b \in Buf : Held(b)' => Held(b) \/ refs[b] = 0
    BY <1>3, HeldStays
  <2>3. ASSUME NEW d \in Dma, rx_buffer[d] # NULL
        PROVE  ~Held(rx_buffer[d])'
    BY <1>0, <2>1, <2>2, <2>3, FreeIsUnheld DEF RxAlone
  <2> QED
    BY <2>1, <2>3 DEF RxAlone, Held
<1> QED
  BY <1>1, <1>2, <1>3

(* A slot in use is written only while hspi_send fills it.                 *)
LEMMA SlotStays ==
  ASSUME ArgsInv, UserFrees = FALSE, [Next]_vars, NEW a \in Arg, used[a],
         ~(main.pc = "send_buffer" /\ main.new = a)
  PROVE  args'[a] = args[a]
<1>0. args \in [Arg -> Buf \cup {NULL}]
  BY DEF ArgsInv, TypeOK
<1>1. CASE IrqPacket
  <2>1. \/ UNCHANGED args
        \/ \E c \in Arg, v \in Buf \cup {NULL} : ~used[c] /\ args' = [args EXCEPT ![c] = v]
    <3>1. PICK d \in Dma :
            \/ UNCHANGED args
            \/ \E c \in Arg : ~used[c] /\ args' = [args EXCEPT ![c] = rx_buffer[d]]
      BY <1>1, IrqDoes
    <3> QED
      BY <3>1 DEF ArgsInv, TypeOK
  <2> QED
    BY <1>0, <2>1
<1>2. CASE SendShares
  BY <1>0, <1>2, SharesDoes DEF At
<1>3. CASE SendCopies
  BY <1>0, <1>3, CopiesDoes DEF At
<1>4. CASE ~IrqPacket /\ ~SendShares /\ ~SendCopies
  BY <1>4 DEF Next, Interrupt, RunTask, hydra_interrupt_queue_free_all, vars, DmaReceive, HSPI_IRQHandler,
     IrqError, OtherTask, hydra_interrupt_queue_run, _hspi_rx_callback, _hspi_send, TransmitDone,
     _hspi_cleanup, CleanupArgs, SendGetArgs, SendQueues, CallSend, hspi_reinit_buffers, poolvars
<1> QED
  BY <1>1, <1>2, <1>3, <1>4

(* Only the DMA and the copy of hspi_send write to a buffer, the one to a  *)
(* receive buffer, the other to a free one.                                *)
LEMMA ContentWritten ==
  ASSUME ArgsInv, [Next]_vars, NEW b \in Buf, content'[b] # content[b]
  PROVE  \/ refs[b] = 0
         \/ rx_buffer[rx_tog] = b /\ \E bad \in BOOLEAN : DmaReceive(bad)
<1>0. content \in [Buf -> Int]
  BY DEF ArgsInv, TypeOK
<1>1. ASSUME NEW bad \in BOOLEAN, DmaReceive(bad)
      PROVE  rx_buffer[rx_tog] = b
  BY <1>0, <1>1 DEF DmaReceive
<1>2. CASE SendCopies
  BY <1>0, <1>2, CopiesDoes
<1>3. CASE ~SendCopies /\ ~\E bad \in BOOLEAN : DmaReceive(bad)
  BY <1>3 DEF Next, Interrupt, RunTask, hydra_interrupt_queue_free_all, vars, IrqPacket, HSPI_IRQHandler,
     IrqError, OtherTask, hydra_interrupt_queue_run, _hspi_rx_callback, _hspi_send, TransmitDone,
     _hspi_cleanup, CleanupArgs, SendGetArgs, SendShares, SendQueues, CallSend, hspi_reinit_buffers, poolvars
<1> QED
  BY <1>1, <1>2, <1>3

LEMMA ContentStays ==
  ASSUME ArgsInv, Counted, RxAlone, [Next]_vars, NEW b \in Buf, Held(b)
  PROVE  content'[b] = content[b]
<1>1. refs[b] # 0
  BY FreeIsUnheld
<1>2. rx_buffer[rx_tog] # b
  BY Indices DEF RxAlone, ArgsInv, TypeOK
<1> QED
  BY <1>1, <1>2, ContentWritten

(* So a task finds in its buffer what was there when it was queued.        *)
LEMMA QueuedStays ==
  ASSUME ArgsInv, Counted, RxAlone, UserFrees = FALSE, [Next]_vars,
         NEW i \in 1..Len(queue), queue[i].arg # NULL
  PROVE  LET b == args[queue[i].arg] IN
         args'[queue[i].arg] = b /\ (b # NULL => content'[b] = content[b])
<1> DEFINE a == queue[i].arg
<1>1. a \in Arg /\ used[a] /\ main.new # a /\ args[a] \in Buf \cup {NULL}
  BY QueuedTask DEF ArgsInv, Exclusive, TypeOK
<1>2. Held(args[a])
  BY DEF Held
<1> QED
  BY <1>1, <1>2, SlotStays, ContentStays

LEMMA RunningStays ==
  ASSUME ArgsInv, Counted, RxAlone, UserFrees = FALSE, [Next]_vars,
         main.task # "none", main.pc # "cleanup_args"
  PROVE  LET b == args[main.arg] IN
         args'[main.arg] = b /\ (b # NULL => content'[b] = content[b])
<1>1. main.arg \in Arg /\ used[main.arg] /\ main.new # main.arg /\ args[main.arg] \in Buf \cup {NULL}
  BY DEF ArgsInv, MainOK, Exclusive, TypeOK
<1>2. Held(args[main.arg])
  BY DEF Held, RunBuf
<1> QED
  BY <1>1, <1>2, SlotStays, ContentStays

LEMMA AloneAlways == ASSUME UserFrees = FALSE PROVE Spec => [](ArgsInv /\ Counted /\ RxAlone)
<1>1. ArgsInv /\ RefsInv /\ RxAlone /\ [Next]_vars => RxAlone'
  BY RxAloneNext DEF RefsInv
<1>2. RefsInv => Counted
  BY DEF RefsInv
<1> QED
  BY <1>1, <1>2, RxAloneInit, RefsAlways, PTL DEF Spec

-----------------------------------------------------------------------------
(* The order of the packets.                                               *)
Stable == ArgsInv /\ Counted /\ RxAlone

LEMMA MishapStays == ASSUME ArgsInv, [Next]_vars, mishap PROVE mishap'
<1>1. CASE IrqPacket
  BY <1>1, IrqDoes
<1>2. CASE SendCopies \/ SendQueues \/ \E bad \in BOOLEAN : DmaReceive(bad)
  BY <1>2 DEF SendCopies, SendQueues, DmaReceive
<1>3. CASE hspi_reinit_buffers
  BY <1>3 DEF hspi_reinit_buffers
<1>4. CASE UNCHANGED mishap
  BY <1>4
<1> QED
  BY <1>1, <1>2, <1>3, <1>4 DEF Next, Interrupt, RunTask, hydra_interrupt_queue_free_all, vars, HSPI_IRQHandler,
     IrqError, OtherTask, hydra_interrupt_queue_run, _hspi_rx_callback, _hspi_send, TransmitDone,
     _hspi_cleanup, CleanupArgs, SendGetArgs, SendShares, CallSend, logvars

LEMMA HandledIsNat == ASSUME ArgsInv, LastFilled PROVE Handled \in Nat
BY DEF ArgsInv, TypeOK, LastFilled, Handled

LEMMA QueuedPacket ==
  ASSUME ArgsInv, NEW i \in 1..Len(queue), queue[i].task = "rx", args[queue[i].arg] # NULL
  PROVE  queue[i].arg \in Arg /\ queue[i].arg # NULL /\ Packet(i) \in Int
<1>1. queue[i].arg \in Arg /\ queue[i].arg # NULL
  BY QueuedTask DEF ArgsInv, QueueOK
<1> QED
  BY <1>1 DEF ArgsInv, TypeOK, Packet

LEMMA WaitingPackets ==
  ASSUME Stable, UserFrees = FALSE, [Next]_vars, QueueOrder, NEW i \in 1..Len(queue), queue[i].task = "rx"
  PROVE  /\ Packet(i) \in Int
         /\ args'[queue[i].arg] # NULL /\ content'[args'[queue[i].arg]] = Packet(i)
<1>1. args[queue[i].arg] # NULL
  BY DEF QueueOrder, RxTask
<1>2. queue[i].arg # NULL /\ Packet(i) \in Int
  BY <1>1, QueuedPacket DEF Stable
<1> QED
  BY <1>1, <1>2, QueuedStays DEF Stable, Packet

LEMMA CurrentPacket ==
  ASSUME Stable, UserFrees = FALSE, [Next]_vars, CallbackOrder, AtCallback
  PROVE  /\ Current \in Int /\ main.arg \in Arg /\ args[main.arg] # NULL
         /\ args'[main.arg] # NULL /\ content'[args'[main.arg]] = Current
<1>1. args[main.arg] # NULL /\ main.arg \in Arg
  BY DEF CallbackOrder, AtCallback, Stable, ArgsInv, MainOK
<1>2. Current \in Int
  BY <1>1 DEF Current, Stable, ArgsInv, TypeOK
<1> QED
  BY <1>1, <1>2, RunningStays DEF Stable, Current, AtCallback

(* Steps that deliver nothing and take nothing from the queue: what they   *)
(* append, if it is a packet, is later than all handled before.            *)
LEMMA OrderGrows ==
  ASSUME Stable, UserFrees = FALSE, [Next]_vars, InOrder, UNCHANGED delivered,
         Handled' \in Nat, Handled <= Handled',
         \A i \in 1..Len(queue') : queue'[i].task = "rx" =>
            \/ i \in 1..Len(queue) /\ queue'[i] = queue[i]
            \/ /\ i = Len(queue) + 1 /\ args'[queue'[i].arg] # NULL
               /\ content'[args'[queue'[i].arg]] \in Int
               /\ Handled < content'[args'[queue'[i].arg]] /\ content'[args'[queue'[i].arg]] <= Handled',
         AtCallback' => AtCallback /\ main'.arg = main.arg
  PROVE  DeliveredOrder' /\ QueueOrder' /\ CallbackOrder'
<1>1. Handled \in Nat /\ Len(queue) \in Nat /\ Len(delivered) \in Nat /\ Len(queue') \in Nat
  <2>1. ArgsInv'
    BY ArgsNext DEF Stable
  <2>2. queue \in Seq(Task) /\ queue' \in Seq(Task) /\ delivered \in Seq(Int)
    BY <2>1 DEF Stable, ArgsInv, TypeOK
  <2> QED
    BY <2>2, HandledIsNat DEF Stable, InOrder
<1>2. \A j \in 1..Len(delivered) : delivered[j] \in Int
  BY DEF Stable, ArgsInv, TypeOK
<1>3. DeliveredOrder'
  BY <1>1, <1>2 DEF InOrder, DeliveredOrder
<1>4. ASSUME NEW i \in 1..Len(queue), queue[i].task = "rx"
      PROVE  /\ Packet(i) \in Int
             /\ args'[queue[i].arg] # NULL /\ content'[args'[queue[i].arg]] = Packet(i)
  BY <1>4, WaitingPackets DEF InOrder
<1>5. \A i \in 1..Len(queue') : RxTask(i)' =>
        /\ args'[queue'[i].arg] # NULL /\ Packet(i)' \in Int
        /\ \/ i \in 1..Len(queue) /\ RxTask(i) /\ Packet(i)' = Packet(i)
           \/ i = Len(queue) + 1 /\ Handled < Packet(i)' /\ Packet(i)' <= Handled'
  BY <1>4 DEF RxTask, Packet
<1>6. QueueOrder'
  <2> SUFFICES ASSUME NEW i \in 1..Len(queue'), RxTask(i)'
               PROVE  /\ args'[queue'[i].arg] # NULL
                      /\ 0 < Packet(i)' /\ Packet(i)' <= Handled'
                      /\ \A j \in 1..Len(queue') : i < j /\ RxTask(j)' => Packet(i)' < Packet(j)'
                      /\ \A j \in 1..Len(delivered) : delivered[j] < Packet(i)'
    BY DEF QueueOrder
  <2>1. CASE i = Len(queue) + 1 /\ Handled < Packet(i)' /\ Packet(i)' <= Handled'
    <3>1. args'[queue'[i].arg] # NULL /\ Packet(i)' \in Int
      BY <1>5
    <3>2. 0 < Packet(i)' /\ Packet(i)' <= Handled'
      BY <1>1, <2>1, <3>1
    <3>3. ASSUME NEW j \in 1..Len(queue'), i < j, RxTask(j)' PROVE FALSE
      BY <1>1, <1>5, <2>1, <3>3
    <3>4. ASSUME NEW j \in 1..Len(delivered) PROVE delivered[j] < Packet(i)'
      <4>1. delivered[j] <= Handled
        BY <1>1 DEF InOrder, DeliveredOrder
      <4> QED
        BY <1>1, <1>2, <2>1, <3>1, <4>1
    <3> QED
      BY <3>1, <3>2, <3>3, <3>4
  <2>2. CASE i \in 1..Len(queue) /\ RxTask(i) /\ Packet(i)' = Packet(i)
    BY <1>1, <1>2, <1>5, <2>2 DEF InOrder, QueueOrder
  <2> QED
    BY <1>5, <2>1, <2>2
<1>7. CallbackOrder'
  <2> SUFFICES ASSUME AtCallback' PROVE CallbackOrder'
    BY DEF CallbackOrder
  <2>1. AtCallback /\ Current \in Int /\ args'[main'.arg] # NULL /\ Current' = Current
    BY CurrentPacket DEF InOrder, Current
  <2>2. \A i \in 1..Len(queue') : RxTask(i)' => Current < Packet(i)'
    BY <1>1, <1>5, <2>1 DEF InOrder, CallbackOrder
  <2> QED
    BY <1>1, <2>1, <2>2 DEF InOrder, CallbackOrder
<1> QED
  BY <1>3, <1>6, <1>7

(* The DMA and the handler: a packet that came in while the last one was   *)
(* still being handled is a mishap.                                        *)
LEMMA HardwareKeepsOrder ==
  ASSUME Stable, UserFrees = FALSE, InOrder, ~mishap',
         (\E bad \in BOOLEAN : DmaReceive(bad)) \/ HSPI_IRQHandler \/ IrqError
  PROVE  InOrder'
<1>0. /\ UNCHANGED <<main, queue, delivered, rx_buffer, args>> /\ [Next]_vars
      /\ rx_tog \in Dma /\ arrived \in Nat /\ rx_buffer \in [Dma -> Buf \cup {NULL}]
      /\ r_done \in BOOLEAN /\ isr \in {"none", "ack"} /\ content \in [Buf -> Int]
  BY DEF DmaReceive, HSPI_IRQHandler, IrqError, poolvars, logvars, Next, Interrupt, Stable, ArgsInv, TypeOK
<1>1. LastFilled /\ Handled \in Nat
  BY HandledIsNat DEF InOrder, Stable
<1>2. AtCallback' => AtCallback /\ main'.arg = main.arg
  BY <1>0 DEF AtCallback
<1>3. LastFilled' /\ Handled' \in Nat /\ Handled <= Handled'
  <2>1. ASSUME NEW bad \in BOOLEAN, DmaReceive(bad)
        PROVE  LastFilled' /\ Handled' \in Nat /\ Handled <= Handled'
    <3>1. ~r_done /\ isr = "none" /\ arrived' = arrived + 1 /\ r_done' = TRUE /\ isr' = isr
      BY <1>0, <2>1 DEF DmaReceive
    <3>2. rx_buffer[rx_tog] \in Buf /\ 1 - rx_tog' = rx_tog
      BY <1>0, <1>1, <2>1 DEF DmaReceive, LastFilled, Dma
    <3>3. content'[rx_buffer[rx_tog]] = arrived + 1
      BY <1>0, <2>1, <3>2, Indices DEF DmaReceive
    <3> QED
      BY <1>0, <1>1, <3>1, <3>2, <3>3 DEF LastFilled, Handled
  <2>2. CASE HSPI_IRQHandler
    BY <1>0, <1>1, <2>2 DEF HSPI_IRQHandler, LastFilled, Handled, poolvars
  <2>3. CASE IrqError
    BY <1>0, <1>1, <2>3 DEF IrqError, LastFilled, Handled, poolvars, hwvars
  <2> QED
    BY <2>1, <2>2, <2>3
<1> QED
  BY <1>0, <1>2, <1>3, OrderGrows DEF InOrder

LEMMA IrqPacketKeepsOrder ==
  ASSUME Stable, UserFrees = FALSE, InOrder, ~mishap', IrqPacket
  PROVE  InOrder'
<1>0. /\ [Next]_vars /\ rx_tog \in Dma /\ arrived \in Nat /\ rx_buffer \in [Dma -> Buf \cup {NULL}]
      /\ r_done \in BOOLEAN /\ content \in [Buf -> Int] /\ args \in [Arg -> Buf \cup {NULL}]
  BY DEF Next, Interrupt, Stable, ArgsInv, TypeOK
<1>1. PICK d \in Dma, b \in Buf \cup {NULL} :
        /\ d = 1 - rx_tog /\ isr = "ack" /\ b # NULL
        /\ rx_buffer' = [rx_buffer EXCEPT ![d] = b]
        /\ isr' = "none"
        /\ UNCHANGED <<content, hwvars, main, delivered>>
        /\ \E a \in Arg :
             LET t == [task |-> "rx", arg |-> a] IN
             /\ ~used[a] /\ t \in Task
             /\ args' = [args EXCEPT ![a] = rx_buffer[d]]
             /\ queue' = set_next_task(queue, t)
  BY IrqDoes DEF Stable
<1>2. PICK a \in Arg :
        LET t == [task |-> "rx", arg |-> a] IN
        /\ ~used[a] /\ t \in Task
        /\ args' = [args EXCEPT ![a] = rx_buffer[d]]
        /\ queue' = set_next_task(queue, t)
  BY <1>1
<1>3. LastFilled /\ ~r_done /\ arrived > 0 /\ content[rx_buffer[d]] = arrived /\ rx_buffer[d] \in Buf
  BY <1>0, <1>1 DEF InOrder, LastFilled
<1>4. Handled = arrived - 1 /\ Handled' = arrived /\ Handled' \in Nat /\ Handled <= Handled'
  BY <1>0, <1>1, <1>3 DEF Handled, hwvars
<1>5. LastFilled'
  BY <1>0, <1>1, <1>3 DEF LastFilled, hwvars
<1>6. args'[a] = rx_buffer[d] /\ args'[a] # NULL /\ content'[args'[a]] = arrived
  BY <1>0, <1>1, <1>2, <1>3, Indices
<1> DEFINE t == [task |-> "rx", arg |-> a]
<1>7. t \in Task /\ t.arg = a /\ queue' = set_next_task(queue, t)
  BY <1>2
<1> HIDE DEF t
<1>8. \A i \in 1..Len(queue') : \/ i \in 1..Len(queue) /\ queue'[i] = queue[i]
                                \/ i = Len(queue) + 1 /\ queue'[i].arg = a
  BY <1>7, QueueGrows DEF Stable, ArgsInv
<1>9. AtCallback' => AtCallback /\ main'.arg = main.arg
  BY <1>1 DEF AtCallback
<1>10. \A i \in 1..Len(queue') : queue'[i].task = "rx" =>
            \/ i \in 1..Len(queue) /\ queue'[i] = queue[i]
            \/ /\ i = Len(queue) + 1 /\ args'[queue'[i].arg] # NULL
               /\ content'[args'[queue'[i].arg]] \in Int
               /\ Handled < content'[args'[queue'[i].arg]] /\ content'[args'[queue'[i].arg]] <= Handled'
  BY <1>0, <1>4, <1>6, <1>8
<1> QED
  BY <1>0, <1>1, <1>4, <1>5, <1>9, <1>10, OrderGrows DEF InOrder

(* The packet that waits for the handler is in a buffer that only the DMA  *)
(* writes to.                                                              *)
LEMMA FilledStays ==
  ASSUME Stable, UserFrees = FALSE, [Next]_vars, InOrder, UNCHANGED <<rx_buffer, hwvars, isr>>
  PROVE  LastFilled' /\ Handled' = Handled /\ Handled' \in Nat
<1>1. rx_tog \in Dma /\ arrived \in Nat /\ rx_buffer \in [Dma -> Buf \cup {NULL}] /\ 1 - rx_tog \in Dma
  BY DEF Stable, ArgsInv, TypeOK, Dma
<1>2. rx_buffer[1 - rx_tog] \in Buf
  BY <1>1 DEF InOrder, LastFilled
<1>3. ~\E bad \in BOOLEAN : DmaReceive(bad)
  BY <1>1 DEF DmaReceive, hwvars
<1>4. content'[rx_buffer[1 - rx_tog]] = content[rx_buffer[1 - rx_tog]]
  BY <1>1, <1>2, <1>3, ContentWritten, FreeIsUnheld DEF Stable
<1>5. LastFilled' /\ Handled' = Handled
  BY <1>1, <1>4 DEF InOrder, LastFilled, Handled, hwvars
<1> QED
  BY <1>5, HandledIsNat DEF Stable, InOrder

LEMMA AppendKeepsOrder ==
  ASSUME Stable, UserFrees = FALSE, InOrder, OtherTask \/ SendQueues
  PROVE  InOrder'
<1>0. /\ [Next]_vars /\ UNCHANGED <<rx_buffer, hwvars, isr, delivered>>
  BY DEF Next, RunTask, OtherTask, SendQueues, logvars
<1>1. AtCallback' => AtCallback /\ main'.arg = main.arg
  <2>1. CASE OtherTask
    BY <2>1 DEF OtherTask, AtCallback
  <2>2. CASE SendQueues
    <3>1. Sending /\ Return
      BY <2>2, QueuesDoes DEF Stable
    <3> QED
      BY <3>1, ReturnDoes DEF Stable, Becomes, AtCallback
  <2> QED
    BY <2>1, <2>2
<1>2. \E t \in Task : t.task # "rx" /\ queue' = set_next_task(queue, t)
  <2>1. CASE OtherTask
    <3>1. [task |-> "other", arg |-> NULL] \in Task
      BY DEF Task
    <3> QED
      BY <2>1, <3>1 DEF OtherTask
  <2>2. CASE SendQueues
    BY <2>2, QueuesDoes DEF Stable
  <2> QED
    BY <2>1, <2>2
<1>3. PICK t \in Task : t.task # "rx" /\ queue' = set_next_task(queue, t)
  BY <1>2
<1>4. \A i \in 1..Len(queue') : queue'[i].task = "rx" => i \in 1..Len(queue) /\ queue'[i] = queue[i]
  BY <1>3, QueueGrows DEF Stable, ArgsInv
<1>5. LastFilled' /\ Handled' = Handled /\ Handled' \in Nat
  BY <1>0, FilledStays
<1>6. Handled <= Handled'
  BY <1>5
<1> QED
  BY <1>0, <1>1, <1>4, <1>5, <1>6, OrderGrows DEF InOrder

LEMMA MovesKeepOrder ==
  ASSUME Stable, UserFrees = FALSE, InOrder,
         \/ _hspi_send \/ TransmitDone \/ _hspi_cleanup \/ CleanupArgs \/ CallSend
         \/ SendGetArgs \/ SendShares \/ SendCopies
  PROVE  InOrder'
<1>0. /\ [Next]_vars /\ UNCHANGED <<rx_buffer, hwvars, isr, delivered, queue>>
  BY DEF Next, RunTask, _hspi_send, TransmitDone, _hspi_cleanup, CleanupArgs, CallSend, SendGetArgs,
     SendShares, SendCopies, logvars
<1>1. ~AtCallback'
  <2>1. CASE _hspi_send \/ TransmitDone \/ _hspi_cleanup \/ CleanupArgs
    <3>1. CASE CleanupArgs
      BY <3>1 DEF CleanupArgs, Idle, AtCallback
    <3>2. CASE _hspi_send \/ TransmitDone \/ _hspi_cleanup
      <4>1. PICK pc \in {"t_done", "cleanup", "cleanup_args"} : main' = [main EXCEPT !.pc = pc]
        BY <3>2 DEF _hspi_send, TransmitDone, _hspi_cleanup
      <4> QED
        BY <4>1, PcMoves DEF Stable, ArgsInv, Pcs, Becomes, AtCallback
    <3> QED
      BY <2>1, <3>1, <3>2
  <2>2. CASE CallSend
    BY <2>2, CallSendDoes DEF Stable, Becomes, AtCallback
  <2>3. CASE SendGetArgs
    BY <2>3, GetArgsDoes, ReturnDoes DEF Stable, Becomes, AtCallback
  <2>4. CASE SendShares
    BY <2>4, SharesDoes DEF Stable, Becomes, AtCallback
  <2>5. CASE SendCopies
    BY <2>5, CopiesDoes, ReturnDoes DEF Stable, Becomes, AtCallback
  <2> QED
    BY <2>1, <2>2, <2>3, <2>4, <2>5
<1>2. LastFilled' /\ Handled' = Handled /\ Handled' \in Nat
  BY <1>0, FilledStays
<1>3. Handled <= Handled'
  BY <1>2
<1>4. \A i \in 1..Len(queue') : queue'[i].task = "rx" => i \in 1..Len(queue) /\ queue'[i] = queue[i]
  BY <1>0
<1> QED
  BY <1>0, <1>1, <1>2, <1>3, <1>4, OrderGrows DEF InOrder

(* The task at the head of the queue is the next to be called.             *)
LEMMA RunKeepsOrder ==
  ASSUME Stable, UserFrees = FALSE, InOrder, [Next]_vars,
         NEW first \in {"task", "cleanup"}, hydra_interrupt_queue_run(first)
  PROVE  InOrder'
<1>1. /\ queue # <<>> /\ queue' = Tail(queue) /\ Head(queue) = queue[1] /\ 1 \in 1..Len(queue)
      /\ UNCHANGED <<content, args, rx_buffer, hwvars, isr, delivered>>
      /\ \/ Becomes("idle", "none", NULL, NULL, NULL, "idle")
         \/ Becomes(first, Head(queue).task, Head(queue).arg, NULL, NULL, "idle")
  BY RunDoes DEF Stable, poolvars, logvars
<1>2. LastFilled' /\ Handled' = Handled /\ Handled' \in Nat
  BY <1>1, FilledStays
<1>3. /\ Len(queue) \in Nat /\ Len(queue') = Len(queue) - 1
      /\ \A i \in 1..Len(queue') : i + 1 \in 1..Len(queue) /\ queue'[i] = queue[i + 1]
  <2>1. queue \in Seq(Task)
    BY DEF Stable, ArgsInv, TypeOK
  <2> QED
    BY <1>1, <2>1
<1>4. \A i \in 1..Len(queue') : RxTask(i)' = RxTask(i + 1) /\ Packet(i)' = Packet(i + 1)
  BY <1>1, <1>3 DEF RxTask, Packet
<1>5. DeliveredOrder'
  BY <1>1, <1>2 DEF InOrder, DeliveredOrder
<1>6. QueueOrder'
  <2> SUFFICES ASSUME NEW i \in 1..Len(queue'), RxTask(i)'
               PROVE  /\ args'[queue'[i].arg] # NULL
                      /\ 0 < Packet(i)' /\ Packet(i)' <= Handled'
                      /\ \A j \in 1..Len(queue') : i < j /\ RxTask(j)' => Packet(i)' < Packet(j)'
                      /\ \A j \in 1..Len(delivered') : delivered'[j] < Packet(i)'
    BY DEF QueueOrder
  <2>1. i \in Int /\ i + 1 \in 1..Len(queue) /\ RxTask(i + 1) /\ QueueOrder
    BY <1>3, <1>4 DEF InOrder
  <2>2. /\ args[queue[i + 1].arg] # NULL
        /\ 0 < Packet(i + 1) /\ Packet(i + 1) <= Handled
        /\ \A j \in 1..Len(queue) : i + 1 < j /\ RxTask(j) => Packet(i + 1) < Packet(j)
        /\ \A j \in 1..Len(delivered) : delivered[j] < Packet(i + 1)
    BY <2>1 DEF QueueOrder
  <2>3. ASSUME NEW j \in 1..Len(queue'), i < j, RxTask(j)' PROVE Packet(i)' < Packet(j)'
    BY <1>3, <1>4, <2>1, <2>2, <2>3
  <2> QED
    BY <1>1, <1>2, <1>3, <1>4, <2>2, <2>3
<1>7. CallbackOrder'
  <2> SUFFICES ASSUME AtCallback' PROVE CallbackOrder'
    BY DEF CallbackOrder
  <2>1. main'.arg = queue[1].arg /\ RxTask(1)
    BY <1>1 DEF AtCallback, Becomes, RxTask
  <2>2. Current' = Packet(1)
    BY <1>1, <2>1 DEF Current, Packet
  <2>3. /\ args[queue[1].arg] # NULL
        /\ 0 < Packet(1) /\ Packet(1) <= Handled
        /\ \A j \in 1..Len(queue) : 1 < j /\ RxTask(j) => Packet(1) < Packet(j)
        /\ \A j \in 1..Len(delivered) : delivered[j] < Packet(1)
    BY <1>1, <2>1 DEF InOrder, QueueOrder
  <2>4. ASSUME NEW j \in 1..Len(queue'), RxTask(j)' PROVE Current' < Packet(j)'
    BY <1>3, <1>4, <2>2, <2>3, <2>4
  <2> QED
    BY <1>1, <1>2, <2>1, <2>2, <2>3, <2>4 DEF CallbackOrder
<1> QED
  BY <1>2, <1>5, <1>6, <1>7 DEF InOrder

LEMMA CallbackKeepsOrder ==
  ASSUME Stable, UserFrees = FALSE, InOrder, _hspi_rx_callback
  PROVE  InOrder'
<1>0. [Next]_vars
  BY DEF Next, RunTask
<1>1. /\ AtCallback /\ ~AtCallback'
      /\ UNCHANGED <<content, args, queue, rx_buffer, hwvars, isr>>
      /\ delivered' = Append(delivered, IF args[main.arg] = NULL THEN 0 ELSE content[args[main.arg]])
  BY CallbackDoes DEF Stable, AtCallback, At, Becomes
<1>2. Current \in Int /\ args[main.arg] # NULL
  BY <1>0, <1>1, CurrentPacket DEF InOrder
<1>3. /\ 0 < Current /\ Current <= Handled
      /\ \A i \in 1..Len(queue) : RxTask(i) => Current < Packet(i)
      /\ \A i \in 1..Len(delivered) : delivered[i] < Current
  BY <1>1 DEF InOrder, CallbackOrder
<1>4. delivered' = Append(delivered, Current) /\ delivered \in Seq(Int)
  BY <1>1, <1>2 DEF Current, Stable, ArgsInv, TypeOK
<1>5. /\ Len(delivered) \in Nat /\ Len(delivered') = Len(delivered) + 1
      /\ \A i \in 1..Len(delivered) : delivered'[i] = delivered[i] /\ delivered[i] \in Int
      /\ delivered'[Len(delivered) + 1] = Current
  BY <1>2, <1>4
<1>6. LastFilled' /\ Handled' = Handled /\ Handled' \in Nat
  BY <1>0, <1>1, FilledStays
<1>7. DeliveredOrder'
  <2>1. \A i \in 1..Len(delivered') : 0 < delivered'[i] /\ delivered'[i] <= Handled'
    BY <1>3, <1>5, <1>6 DEF InOrder, DeliveredOrder
  <2>2. ASSUME NEW i \in 1..Len(delivered'), NEW j \in 1..Len(delivered'), i < j
        PROVE  delivered'[i] < delivered'[j]
    <3>1. i \in 1..Len(delivered)
      BY <1>5, <2>2
    <3>2. CASE j \in 1..Len(delivered)
      BY <1>5, <2>2, <3>1, <3>2 DEF InOrder, DeliveredOrder
    <3>3. CASE j = Len(delivered) + 1
      BY <1>3, <1>5, <3>1, <3>3
    <3> QED
      BY <1>5, <3>2, <3>3
  <2> QED
    BY <2>1, <2>2 DEF DeliveredOrder
<1>8. QueueOrder'
  <2> SUFFICES ASSUME NEW i \in 1..Len(queue), RxTask(i)
               PROVE  /\ args[queue[i].arg] # NULL
                      /\ 0 < Packet(i) /\ Packet(i) <= Handled'
                      /\ \A j \in 1..Len(queue) : i < j /\ RxTask(j) => Packet(i) < Packet(j)
                      /\ \A j \in 1..Len(delivered') : delivered'[j] < Packet(i)
    BY <1>1 DEF QueueOrder, RxTask, Packet
  <2> QED
    BY <1>3, <1>5, <1>6 DEF InOrder, QueueOrder
<1> QED
  BY <1>1, <1>6, <1>7, <1>8 DEF InOrder, CallbackOrder

LEMMA OrderNext ==
  ASSUME Stable, UserFrees = FALSE, OrderInv, [Next]_vars
  PROVE  OrderInv'
<1> SUFFICES ASSUME ~mishap' PROVE InOrder'
  BY DEF OrderInv
<1>1. InOrder
  BY MishapStays DEF OrderInv, Stable
<1>2. CASE UNCHANGED vars
  BY <1>1, <1>2 DEF vars, InOrder, LastFilled, DeliveredOrder, QueueOrder, CallbackOrder, AtCallback,
     Current, RxTask, Packet, Handled
<1>3. CASE (\E bad \in BOOLEAN : DmaReceive(bad)) \/ Interrupt \/ OtherTask
  BY <1>1, <1>3, HardwareKeepsOrder, IrqPacketKeepsOrder, AppendKeepsOrder DEF Interrupt
<1>4. CASE hydra_interrupt_queue_run("task") \/ hydra_interrupt_queue_free_all
  BY <1>1, <1>4, RunKeepsOrder DEF hydra_interrupt_queue_free_all
<1>5. CASE (RunTask /\ ~hydra_interrupt_queue_run("task")) \/ CallSend
  BY <1>1, <1>5, MovesKeepOrder, CallbackKeepsOrder, AppendKeepsOrder DEF RunTask
<1>6. CASE hspi_reinit_buffers
  BY <1>6 DEF hspi_reinit_buffers
<1> QED
  BY <1>2, <1>3, <1>4, <1>5, <1>6 DEF Next

LEMMA OrderInit == Init => OrderInv
<1> SUFFICES ASSUME Init PROVE InOrder
  BY DEF OrderInv
<1>1. /\ queue = <<>> /\ delivered = <<>> /\ main.pc = "idle" /\ ~r_done /\ isr = "none"
      /\ \A d \in Dma : rx_buffer[d] = d /\ d # NULL
  BY DEF Init, Idle, Dma, NULL
<1> QED
  BY <1>1 DEF InOrder, LastFilled, DeliveredOrder, QueueOrder, CallbackOrder, AtCallback

(* Until a pool or the queue runs short or a packet comes in too early,    *)
(* the receive callback gets the packets in the order they arrived, each   *)
(* at most once: no buffer that waits in the queue is written to again.    *)
THEOREM PacketsInOrder == ASSUME UserFrees = FALSE PROVE Spec => []DeliveredInOrder
<1>1. Stable /\ OrderInv /\ [Next]_vars => OrderInv'
  BY OrderNext
<1>2. Spec => []Stable
  BY AloneAlways DEF Stable
<1>3. Stable /\ OrderInv => DeliveredInOrder
  <2> SUFFICES ASSUME Stable, OrderInv, ~mishap PROVE DeliveredInOrder
    BY DEF DeliveredInOrder
  <2>1. DeliveredOrder /\ Len(delivered) \in Nat
    BY DEF OrderInv, InOrder, Stable, ArgsInv, TypeOK
  <2>2. \A i \in 1..(Len(delivered) - 1) : i \in 1..Len(delivered) /\ i + 1 \in 1..Len(delivered) /\ i < i + 1
    BY <2>1
  <2> QED
    BY <2>1, <2>2 DEF DeliveredInOrder, DeliveredOrder
<1> QED
  BY <1>1, <1>2, <1>3, OrderInit, PTL DEF Spec

-----------------------------------------------------------------------------
(* The order of the sends: where in accepted each of them is.              *)
Places(at, low, pos) ==
  /\ at \in [1..Len(sent) -> 1..Len(accepted)] /\ low \in 0..Len(accepted)
  /\ pos \in [1..Len(queue) -> 0..Len(accepted)]
  /\ SentAt(at, low) /\ UnderWay(at, low) /\ WaitAt(low, pos)

LEMMA WaitingSends ==
  ASSUME Stable, UserFrees = FALSE, [Next]_vars, NEW i \in 1..Len(queue), queue[i].task = "send"
  PROVE  content'[args'[queue[i].arg]] = Packet(i)
<1>1. queue[i].arg # NULL /\ args[queue[i].arg] # NULL
  BY DEF Stable, ArgsInv, QueueOK
<1> QED
  BY <1>1, QueuedStays DEF Stable, Packet

(* Steps that take nothing from the queue and transmit nothing: a send     *)
(* they queue is the last that was accepted.                               *)
LEMMA SendsGrow ==
  ASSUME Stable, UserFrees = FALSE, [Next]_vars, SentInv, UNCHANGED sent,
         accepted' = accepted \/ \E v \in Int : accepted' = Append(accepted, v),
         \A i \in 1..Len(queue') : queue'[i].task = "send" =>
            \/ i \in 1..Len(queue) /\ queue'[i] = queue[i]
            \/ /\ i = Len(queue) + 1
               /\ accepted' = Append(accepted, content'[args'[queue'[i].arg]]),
         AtSend' => AtSend /\ main'.arg = main.arg
  PROVE  SentInv'
<1>0. /\ queue \in Seq(Task) /\ queue' \in Seq(Task) /\ accepted \in Seq(Int) /\ accepted' \in Seq(Int)
      /\ Len(queue) \in Nat /\ Len(queue') \in Nat /\ Len(accepted) \in Nat /\ Len(accepted') \in Nat
  <2>1. ArgsInv'
    BY ArgsNext DEF Stable
  <2>2. queue \in Seq(Task) /\ queue' \in Seq(Task) /\ accepted \in Seq(Int) /\ accepted' \in Seq(Int)
    BY <2>1 DEF Stable, ArgsInv, TypeOK
  <2> QED
    BY <2>2
<1>1. PICK at, low, pos : Places(at, low, pos)
  BY DEF SentInv, Places
<1>2. /\ at \in [1..Len(sent) -> 1..Len(accepted)] /\ low \in 0..Len(accepted)
      /\ pos \in [1..Len(queue) -> 0..Len(accepted)]
      /\ SentAt(at, low) /\ UnderWay(at, low) /\ WaitAt(low, pos)
  BY <1>1 DEF Places
<1>3. /\ Len(accepted) <= Len(accepted')
      /\ \A i \in 1..Len(accepted) : i \in 1..Len(accepted') /\ accepted'[i] = accepted[i]
  BY <1>0
<1>4. PICK next : next = [i \in 1..Len(queue') |-> IF i \in 1..Len(queue) THEN pos[i] ELSE Len(accepted')]
  OBVIOUS
<1>5. next \in [1..Len(queue') -> 0..Len(accepted')]
  BY <1>0, <1>2, <1>3, <1>4
<1>6. at \in [1..Len(sent) -> 1..Len(accepted')] /\ low \in 0..Len(accepted')
  BY <1>0, <1>2, <1>3
<1>7. SentAt(at, low)'
  BY <1>2, <1>3 DEF SentAt
<1>8. UnderWay(at, low)'
  <2> SUFFICES ASSUME AtSend' PROVE UnderWay(at, low)'
    BY DEF UnderWay
  <2>1. AtSend /\ main'.arg = main.arg /\ args[main.arg] # NULL
    BY DEF AtSend, Stable, ArgsInv, MainOK
  <2>2. content'[args'[main.arg]] = content[args[main.arg]]
    BY <2>1, RunningStays DEF AtSend, Stable
  <2>3. low > 0 /\ low \in 1..Len(accepted) /\ content[args[main.arg]] = accepted[low]
        /\ \A i \in 1..Len(sent) : at[i] < low
    BY <1>2, <2>1 DEF UnderWay
  <2> QED
    BY <1>3, <2>1, <2>2, <2>3 DEF UnderWay
<1>9. ASSUME NEW i \in 1..Len(queue'), queue'[i].task = "send"
      PROVE  /\ accepted'[next[i]] = Packet(i)'
             /\ \/ /\ i \in 1..Len(queue) /\ queue[i].task = "send" /\ next[i] = pos[i]
                   /\ pos[i] \in 1..Len(accepted) /\ low < pos[i]
                \/ i = Len(queue) + 1 /\ next[i] = Len(accepted) + 1
  <2>1. CASE i \in 1..Len(queue) /\ queue'[i] = queue[i]
    <3>1. /\ low < pos[i] /\ accepted[pos[i]] = Packet(i) /\ pos[i] \in 0..Len(accepted)
      BY <1>2, <1>9, <2>1 DEF WaitAt
    <3>2. pos[i] \in 1..Len(accepted)
      BY <1>0, <1>2, <3>1
    <3>3. Packet(i)' = Packet(i)
      BY <1>9, <2>1, WaitingSends DEF Packet
    <3> QED
      BY <1>3, <1>9, <1>4, <2>1, <3>1, <3>2, <3>3
  <2>2. CASE i = Len(queue) + 1 /\ accepted' = Append(accepted, content'[args'[queue'[i].arg]])
    <3>1. next[i] = Len(accepted')
      BY <1>0, <1>4, <2>2
    <3>2. Len(accepted') = Len(accepted) + 1 /\ accepted'[Len(accepted) + 1] = Packet(i)'
      BY <1>0, <2>2 DEF Packet
    <3> QED
      BY <2>2, <3>1, <3>2
  <2> QED
    BY <1>9, <2>1, <2>2
<1>10. WaitAt(low, next)'
  <2> SUFFICES ASSUME NEW i \in 1..Len(queue'), queue'[i].task = "send"
               PROVE  /\ low < next[i] /\ accepted'[next[i]] = Packet(i)'
                      /\ \A j \in 1..Len(queue') : i < j /\ queue'[j].task = "send" => next[i] < next[j]
    BY DEF WaitAt
  <2>1. low < next[i] /\ accepted'[next[i]] = Packet(i)'
    <3>1. accepted'[next[i]] = Packet(i)'
      BY <1>9
    <3>2. (next[i] = pos[i] /\ low < pos[i]) \/ next[i] = Len(accepted) + 1
      BY <1>9
    <3>3. low < Len(accepted) + 1
      BY <1>0, <1>2
    <3> QED
      BY <3>1, <3>2, <3>3
  <2>2. ASSUME NEW j \in 1..Len(queue'), i < j, queue'[j].task = "send" PROVE next[i] < next[j]
    <3>1. i \in Int /\ j \in Int /\ j <= Len(queue) + 1
      BY <1>0, <1>9, <2>2
    <3>2. CASE i = Len(queue) + 1
      BY <1>0, <2>2, <3>1, <3>2
    <3>3. CASE i \in 1..Len(queue) /\ queue[i].task = "send" /\ next[i] = pos[i] /\ pos[i] \in 1..Len(accepted)
      <4>1. CASE j = Len(queue) + 1 /\ next[j] = Len(accepted) + 1
        BY <1>0, <3>3, <4>1
      <4>2. CASE j \in 1..Len(queue) /\ queue[j].task = "send" /\ next[j] = pos[j]
        BY <1>2, <2>2, <3>3, <4>2 DEF WaitAt
      <4> QED
        BY <1>9, <2>2, <4>1, <4>2
    <3> QED
      BY <1>9, <3>2, <3>3
  <2> QED
    BY <2>1, <2>2
<1> QED
  BY <1>5, <1>6, <1>7, <1>8, <1>10 DEF SentInv

LEMMA AppendsKeepSends ==
  ASSUME Stable, UserFrees = FALSE, SentInv, [Next]_vars, IrqPacket \/ OtherTask
  PROVE  SentInv'
<1>1. UNCHANGED <<main, sent, accepted>>
  BY DEF IrqPacket, OtherTask, logvars
<1>2. queue' = queue \/ \E t \in Task : t.task # "send" /\ queue' = set_next_task(queue, t)
  <2>1. CASE OtherTask
    <3>1. [task |-> "other", arg |-> NULL] \in Task
      BY DEF Task
    <3> QED
      BY <2>1, <3>1 DEF OtherTask
  <2>2. CASE IrqPacket
    <3>1. \/ UNCHANGED queue
          \/ \E a \in Arg : /\ [task |-> "rx", arg |-> a] \in Task
                            /\ queue' = set_next_task(queue, [task |-> "rx", arg |-> a])
      BY <2>2, IrqDoes DEF Stable
    <3> QED
      BY <3>1
  <2> QED
    BY <2>1, <2>2
<1>3. \A i \in 1..Len(queue') : queue'[i].task = "send" => i \in 1..Len(queue) /\ queue'[i] = queue[i]
  BY <1>2, QueueGrows DEF Stable, ArgsInv
<1>4. AtSend' => AtSend /\ main'.arg = main.arg
  BY <1>1 DEF AtSend
<1> QED
  BY <1>1, <1>3, <1>4, SendsGrow

LEMMA QueuesKeepsSends ==
  ASSUME Stable, UserFrees = FALSE, SentInv, [Next]_vars, SendQueues
  PROVE  SentInv'
<1> DEFINE t == [task |-> "send", arg |-> main.new]
           v == content[args[main.new]]
<1>1. /\ Sending /\ Return /\ t \in Task /\ main.new \in Arg /\ args[main.new] \in Buf
      /\ queue' = set_next_task(queue, t) /\ accepted' = Append(accepted, v)
      /\ UNCHANGED <<sent, args, content>>
  BY QueuesDoes DEF Stable, poolvars
<1>2. ~AtSend'
  BY <1>1, ReturnDoes DEF Stable, Becomes, AtSend
<1>3. v \in Int /\ t.arg = main.new
  BY <1>1 DEF Stable, ArgsInv, TypeOK
<1>4. v = content'[args'[t.arg]]
  BY <1>1, <1>3
<1> HIDE DEF t, v
<1>5. \A i \in 1..Len(queue') : \/ i \in 1..Len(queue) /\ queue'[i] = queue[i]
                                \/ i = Len(queue) + 1 /\ queue'[i] = t
  BY <1>1, QueueGrows DEF Stable, ArgsInv
<1> QED
  BY <1>1, <1>2, <1>3, <1>4, <1>5, SendsGrow

LEMMA OthersKeepSends ==
  ASSUME Stable, UserFrees = FALSE, SentInv, [Next]_vars,
         UNCHANGED <<queue, sent, accepted>>, AtSend' => AtSend /\ main'.arg = main.arg
  PROVE  SentInv'
<1>1. \A i \in 1..Len(queue') : queue'[i].task = "send" => i \in 1..Len(queue) /\ queue'[i] = queue[i]
  OBVIOUS
<1> QED
  BY <1>1, SendsGrow

LEMMA MovesKeepSends ==
  ASSUME Stable, UserFrees = FALSE, SentInv, [Next]_vars,
         \/ _hspi_rx_callback \/ _hspi_send \/ _hspi_cleanup \/ CleanupArgs \/ CallSend
         \/ SendGetArgs \/ SendShares \/ SendCopies
  PROVE  SentInv'
<1>1. UNCHANGED <<queue, sent, accepted>>
  BY DEF _hspi_rx_callback, _hspi_send, _hspi_cleanup, CleanupArgs, CallSend, SendGetArgs,
     SendShares, SendCopies, logvars
<1>2. AtSend' => AtSend /\ main'.arg = main.arg
  <2>1. CASE _hspi_rx_callback
    BY <2>1, CallbackDoes DEF Stable, Becomes, AtSend
  <2>2. CASE _hspi_send
    <3>1. main.pc = "task" /\ Becomes("t_done", main.task, main.arg, main.src, main.new, main.then)
      BY <2>2, PcMoves DEF _hspi_send, At, Stable, ArgsInv, Pcs
    <3> QED
      BY <3>1 DEF Becomes, AtSend
  <2>3. CASE _hspi_cleanup
    <3>1. Becomes("cleanup_args", main.task, main.arg, main.src, main.new, main.then)
      BY <2>3, PcMoves DEF _hspi_cleanup, Stable, ArgsInv, Pcs
    <3> QED
      BY <3>1 DEF Becomes, AtSend
  <2>4. CASE CleanupArgs
    BY <2>4 DEF CleanupArgs, Idle, AtSend
  <2>5. CASE CallSend
    BY <2>5, CallSendDoes DEF Stable, Becomes, AtSend
  <2>6. CASE SendGetArgs
    BY <2>6, GetArgsDoes, ReturnDoes DEF Stable, Becomes, AtSend
  <2>7. CASE SendShares
    BY <2>7, SharesDoes DEF Stable, Becomes, AtSend
  <2>8. CASE SendCopies
    BY <2>8, CopiesDoes, ReturnDoes DEF Stable, Becomes, AtSend
  <2> QED
    BY <2>1, <2>2, <2>3, <2>4, <2>5, <2>6, <2>7, <2>8
<1> QED
  BY <1>1, <1>2, OthersKeepSends

(* A send that is taken from the queue is before all that wait in it.      *)
LEMMA RunKeepsSends ==
  ASSUME Stable, UserFrees = FALSE, SentInv, [Next]_vars,
         NEW first \in {"task", "cleanup"}, hydra_interrupt_queue_run(first)
  PROVE  SentInv'
<1>1. /\ queue # <<>> /\ queue' = Tail(queue) /\ Head(queue) = queue[1] /\ 1 \in 1..Len(queue)
      /\ UNCHANGED <<content, args, sent, accepted>>
      /\ \/ Becomes("idle", "none", NULL, NULL, NULL, "idle")
         \/ Becomes(first, Head(queue).task, Head(queue).arg, NULL, NULL, "idle")
  BY RunDoes DEF Stable, poolvars, logvars
<1>2. /\ Len(queue) \in Nat /\ Len(queue') = Len(queue) - 1 /\ Len(accepted) \in Nat
      /\ \A i \in 1..Len(queue') : i + 1 \in 1..Len(queue) /\ queue'[i] = queue[i + 1]
  <2>1. queue \in Seq(Task) /\ accepted \in Seq(Int)
    BY DEF Stable, ArgsInv, TypeOK
  <2> QED
    BY <1>1, <2>1
<1>3. PICK at, low, pos : Places(at, low, pos)
  BY DEF SentInv, Places
<1>4. /\ at \in [1..Len(sent) -> 1..Len(accepted)] /\ low \in 0..Len(accepted)
      /\ pos \in [1..Len(queue) -> 0..Len(accepted)]
      /\ SentAt(at, low) /\ UnderWay(at, low) /\ WaitAt(low, pos)
  BY <1>3 DEF Places
<1>5. PICK lw : lw = IF queue[1].task = "send" THEN pos[1] ELSE low
  OBVIOUS
<1>6. PICK next : next = [i \in 1..Len(queue') |-> pos[i + 1]]
  OBVIOUS
<1>7. lw \in 0..Len(accepted) /\ low <= lw /\ next \in [1..Len(queue') -> 0..Len(accepted)]
  BY <1>1, <1>2, <1>4, <1>5, <1>6 DEF WaitAt
<1>8. \A i \in 1..Len(sent) : at[i] \in Int /\ at[i] <= low
  BY <1>4 DEF SentAt
<1>9. SentAt(at, lw)'
  <2>1. \A i \in 1..Len(sent) : at[i] <= lw
    BY <1>4, <1>7, <1>8
  <2> QED
    BY <1>1, <1>4, <2>1 DEF SentAt
<1>10. UnderWay(at, lw)'
  <2> SUFFICES ASSUME AtSend' PROVE UnderWay(at, lw)'
    BY DEF UnderWay
  <2>1. queue[1].task = "send" /\ main'.arg = queue[1].arg
    BY <1>1 DEF AtSend, Becomes
  <2>2. lw = pos[1] /\ low < pos[1] /\ accepted[pos[1]] = content[args[queue[1].arg]] /\ pos[1] \in Int
    BY <1>1, <1>4, <1>5, <2>1 DEF WaitAt, Packet
  <2>3. \A i \in 1..Len(sent) : at[i] < lw
    BY <1>4, <1>8, <2>2
  <2>4. lw > 0
    BY <1>4, <2>2
  <2> QED
    BY <1>1, <2>1, <2>2, <2>3, <2>4 DEF UnderWay
<1>11. WaitAt(lw, next)'
  <2> SUFFICES ASSUME NEW i \in 1..Len(queue'), queue'[i].task = "send"
               PROVE  /\ lw < next[i] /\ accepted'[next[i]] = Packet(i)'
                      /\ \A j \in 1..Len(queue') : i < j /\ queue'[j].task = "send" => next[i] < next[j]
    BY DEF WaitAt
  <2>1. /\ i \in Int /\ i > 0 /\ i + 1 \in 1..Len(queue) /\ queue[i + 1].task = "send" /\ next[i] = pos[i + 1]
        /\ Packet(i)' = Packet(i + 1)
    BY <1>1, <1>2, <1>6 DEF Packet
  <2>2. /\ low < pos[i + 1] /\ accepted[pos[i + 1]] = Packet(i + 1)
        /\ \A j \in 1..Len(queue) : i + 1 < j /\ queue[j].task = "send" => pos[i + 1] < pos[j]
    BY <1>4, <2>1 DEF WaitAt
  <2>3. lw < next[i]
    <3>1. queue[1].task = "send" => pos[1] < pos[i + 1]
      BY <1>1, <1>4, <2>1 DEF WaitAt
    <3> QED
      BY <1>5, <2>1, <2>2, <3>1
  <2>4. ASSUME NEW j \in 1..Len(queue'), i < j, queue'[j].task = "send" PROVE next[i] < next[j]
    BY <1>2, <1>6, <2>1, <2>2, <2>4
  <2> QED
    BY <1>1, <2>1, <2>2, <2>3, <2>4
<1> QED
  BY <1>1, <1>4, <1>7, <1>9, <1>10, <1>11 DEF SentInv

LEMMA TransmitKeepsSends ==
  ASSUME Stable, UserFrees = FALSE, SentInv, [Next]_vars, TransmitDone
  PROVE  SentInv'
<1>1. /\ main.pc = "t_done" /\ main.task = "send" /\ AtSend
      /\ sent' = Append(sent, content[args[main.arg]])
      /\ UNCHANGED <<content, args, queue, accepted>>
  BY DEF TransmitDone, At, Stable, ArgsInv, MainOK, AtSend, poolvars
<1>2. ~AtSend'
  <2>1. Becomes("cleanup", main.task, main.arg, main.src, main.new, main.then)
    BY PcMoves DEF TransmitDone, Stable, ArgsInv, Pcs
  <2> QED
    BY <2>1 DEF Becomes, AtSend
<1>3. PICK at, low, pos : Places(at, low, pos)
  BY DEF SentInv, Places
<1>4. /\ at \in [1..Len(sent) -> 1..Len(accepted)] /\ low \in 0..Len(accepted)
      /\ pos \in [1..Len(queue) -> 0..Len(accepted)]
      /\ SentAt(at, low) /\ UnderWay(at, low) /\ WaitAt(low, pos)
  BY <1>3 DEF Places
<1>5. /\ low > 0 /\ content[args[main.arg]] = accepted[low]
      /\ \A i \in 1..Len(sent) : at[i] < low
  BY <1>1, <1>4 DEF UnderWay
<1>6. accepted \in Seq(Int) /\ sent \in Seq(Int) /\ Len(accepted) \in Nat /\ Len(sent) \in Nat
  BY DEF Stable, ArgsInv, TypeOK
<1>7. low \in 1..Len(accepted) /\ accepted[low] \in Int
  BY <1>4, <1>5, <1>6
<1>8. /\ Len(sent') = Len(sent) + 1 /\ sent'[Len(sent) + 1] = accepted[low]
      /\ \A i \in 1..Len(sent) : sent'[i] = sent[i]
  BY <1>1, <1>5, <1>6, <1>7
<1>9. PICK next : next = [i \in 1..Len(sent') |-> IF i \in 1..Len(sent) THEN at[i] ELSE low]
  OBVIOUS
<1>10. /\ next \in [1..Len(sent') -> 1..Len(accepted)]
       /\ next[Len(sent) + 1] = low /\ \A i \in 1..Len(sent) : next[i] = at[i]
  BY <1>4, <1>6, <1>7, <1>8, <1>9
<1>11. SentAt(next, low)'
  <2>1. \A i \in 1..Len(sent') : i \in 1..Len(sent) \/ i = Len(sent) + 1
    BY <1>6, <1>8
  <2>2. \A i \in 1..Len(sent') : sent'[i] = accepted[next[i]] /\ next[i] <= low
    <3>1. ASSUME NEW i \in 1..Len(sent) PROVE sent'[i] = accepted[next[i]] /\ next[i] <= low
      BY <1>4, <1>8, <1>10 DEF SentAt
    <3>2. sent'[Len(sent) + 1] = accepted[next[Len(sent) + 1]] /\ next[Len(sent) + 1] <= low
      BY <1>7, <1>8, <1>10
    <3> QED
      BY <2>1, <3>1, <3>2
  <2>3. ASSUME NEW i \in 1..Len(sent'), NEW j \in 1..Len(sent'), i < j
        PROVE  next[i] < next[j]
    <3>1. i \in 1..Len(sent)
      BY <1>6, <1>8, <2>3
    <3> QED
      BY <1>4, <1>5, <1>10, <2>1, <2>3, <3>1 DEF SentAt
  <2> QED
    BY <1>1, <2>2, <2>3 DEF SentAt
<1>12. UnderWay(next, low)' /\ WaitAt(low, pos)'
  BY <1>1, <1>2, <1>4 DEF UnderWay, WaitAt, Packet
<1> QED
  BY <1>1, <1>4, <1>10, <1>11, <1>12 DEF SentInv

LEMMA SendsNext ==
  ASSUME Stable, UserFrees = FALSE, SentInv, [Next]_vars
  PROVE  SentInv'
<1>1. CASE UNCHANGED vars \/ (\E bad \in BOOLEAN : DmaReceive(bad)) \/ HSPI_IRQHandler \/ IrqError \/ hspi_reinit_buffers
  <2>1. UNCHANGED <<main, queue, sent, accepted>>
    BY <1>1 DEF vars, DmaReceive, HSPI_IRQHandler, IrqError, hspi_reinit_buffers, logvars
  <2> QED
    BY <2>1, OthersKeepSends DEF AtSend
<1>2. CASE IrqPacket \/ OtherTask
  BY <1>2, AppendsKeepSends
<1>3. CASE hydra_interrupt_queue_run("task") \/ hydra_interrupt_queue_free_all
  BY <1>3, RunKeepsSends DEF hydra_interrupt_queue_free_all
<1>4. CASE (RunTask /\ ~hydra_interrupt_queue_run("task")) \/ CallSend
  BY <1>4, MovesKeepSends, QueuesKeepsSends, TransmitKeepsSends DEF RunTask
<1> QED
  BY <1>1, <1>2, <1>3, <1>4 DEF Next, Interrupt

LEMMA SendsInit == Init => SentInv
<1> SUFFICES ASSUME Init PROVE SentInv
  OBVIOUS
<1>1. sent = <<>> /\ accepted = <<>> /\ queue = <<>> /\ ~AtSend
  BY DEF Init, Idle, AtSend
<1>2. <<>> \in [1..Len(sent) -> 1..Len(accepted)] /\ <<>> \in [1..Len(queue) -> 0..Len(accepted)]
  BY <1>1
<1>3. 0 \in 0..Len(accepted)
  BY <1>1
<1>4. SentAt(<<>>, 0) /\ UnderWay(<<>>, 0) /\ WaitAt(0, <<>>)
  BY <1>1 DEF SentAt, UnderWay, WaitAt
<1> QED
  BY <1>2, <1>3, <1>4 DEF SentInv

(* What goes over the wire is what hspi_send was given, in the order of    *)
(* the calls and at most once, also when the pools or the queue run short. *)
THEOREM SendsAsGiven == ASSUME UserFrees = FALSE PROVE Spec => []SentAsGiven
<1>1. Stable /\ SentInv /\ [Next]_vars => SentInv'
  BY SendsNext
<1>2. Spec => []Stable
  BY AloneAlways DEF Stable
<1>3. Stable /\ SentInv => SentAsGiven
  <2> SUFFICES ASSUME Stable, SentInv PROVE SentAsGiven
    OBVIOUS
  <2>1. PICK at, low, pos : Places(at, low, pos)
    BY DEF SentInv, Places
  <2>2. at \in [1..Len(sent) -> 1..Len(accepted)] /\ SentAt(at, low) /\ Len(sent) \in Nat
    BY <2>1 DEF Places, Stable, ArgsInv, TypeOK
  <2>3. \A i \in 1..(Len(sent) - 1) : i \in 1..Len(sent) /\ i + 1 \in 1..Len(sent) /\ i < i + 1
    BY <2>2
  <2>4. \A i \in 1..(Len(sent) - 1) : at[i] < at[i + 1]
    BY <2>2, <2>3 DEF SentAt
  <2> QED
    BY <2>2, <2>4 DEF SentAsGiven, SentAt
<1> QED
  BY <1>1, <1>2, <1>3, SendsInit, PTL DEF Spec

-----------------------------------------------------------------------------
(***************************************************************************)
(* The packet links below (DoubleBuffer): hspi.c and serdes.c report every *)
(* undamaged packet once, in order and from a stable buffer, for any       *)
(* number of packets, sizes and values of custom_register.  The condition  *)
(* is the one that DoubleBuffer explains: with serdes.c no packet arrives  *)
(* while the callback runs.                                                *)
(*                                                                         *)
(* The invariant (LinkInv) says where the packet is that the handler has   *)
(* not seen yet (Waiting), that the toggles of driver and hardware differ  *)
(* exactly then, and which buffer the callback works on.                   *)
(***************************************************************************)
CONSTANTS Overlap, Sizes, Customs, MaxPackets
VARIABLES driver, tx, waiting, link_sent

Link == INSTANCE DoubleBuffer WITH sent <- link_sent

LinkConstants == Link!LinkAssumption
CallbackIsShort == "serdes" \notin Overlap

Slot == [n : Nat, word : Nat]
LinkPacket == [n : Nat, size : Nat, custom : Nat]
Decoded(p) == [n |-> p.n, size |-> Link!SizeOf(p.word), custom |-> Link!CustomOf(p.word)]

Sender == [current : Link!Slots, slot : [Link!Slots -> Slot], hw : Link!Slots,
           pc : {"idle", "sending", "sent"}]
Receiver == [current : Link!Slots, hw : Link!Slots, done : BOOLEAN, err : BOOLEAN,
             pc : {"idle", "callback", "error"}]

LinkTypeOK ==
  /\ driver \in {"hspi", "serdes"}
  /\ tx \in Sender
  /\ rx \in Receiver
  /\ dma \in [Link!Slots -> Slot]
  /\ call \in [buf : Link!Slots, n : Nat]
  /\ waiting \in {0, 1}
  /\ link_sent \in Seq(LinkPacket) /\ good \in Seq(LinkPacket) /\ reported \in Seq(LinkPacket)

(* The hardware sends the slot that the driver filled, with the header of  *)
(* the last packet given to it.                                            *)
SenderInStep ==
  /\ tx.hw = IF Link!Hspi /\ tx.pc = "sent" THEN 1 - tx.current ELSE tx.current
  /\ tx.pc = "sending" => link_sent # <<>> /\ Decoded(tx.slot[tx.hw]) = link_sent[Len(link_sent)]

(* An undamaged packet that no handler has looked at.                      *)
Waiting == waiting = 1 /\ rx.done /\ ~rx.err

(* Only that packet is not reported yet, and it lies in the buffer that    *)
(* the handler will look at.                                               *)
NothingForgotten ==
  /\ Waiting => good = Append(reported, Link!Report(rx.current))
  /\ ~Waiting => reported = good

HspiInStep ==
  /\ waiting = 1 <=> rx.done
  /\ rx.pc # "error"
  /\ rx.hw = IF Waiting THEN 1 - rx.current ELSE rx.current
  /\ rx.pc = "callback" => call.buf = 1 - rx.current

SerdesInStep ==
  /\ rx.pc = "idle" => (waiting = 1 <=> rx.done \/ rx.err)
  /\ rx.pc # "idle" => waiting = 0 /\ (rx.done <=> rx.pc = "callback")
  /\ rx.done => ~rx.err
  /\ rx.hw = IF rx.done THEN 1 - rx.current ELSE rx.current
  /\ rx.pc = "callback" => call.buf = rx.current

LinkInv ==
  /\ LinkTypeOK
  /\ SenderInStep
  /\ NothingForgotten
  /\ Link!Hspi => HspiInStep
  /\ ~Link!Hspi => SerdesInStep
  /\ BufferStable

-----------------------------------------------------------------------------
(* The 13 bits of size and the bits of custom_register come out of the     *)
(* header word as they went in.                                            *)
LEMMA HeaderDecodes ==
  ASSUME NEW size \in Nat, size <= 4096, NEW custom \in Nat, custom <= Link!MaxCustom
  PROVE  /\ Link!Header(size, custom) \in Nat
         /\ Link!SizeOf(Link!Header(size, custom)) = size
         /\ Link!CustomOf(Link!Header(size, custom)) = custom
<1>1. size % 8192 = size
  BY SMT
<1>2. size + custom * 8192 \in Nat /\ size + custom * 8192 < Link!WordRange
  BY SMT DEF Link!MaxCustom, Link!WordRange
<1>3. Link!WordRange \in Nat \ {0}
  BY SMT DEF Link!WordRange
<1>4. Link!Header(size, custom) = size + custom * 8192
  BY <1>1, <1>2, <1>3, SMT DEF Link!Header, Link!SizeRange
<1> QED
  BY <1>4, SMT DEF Link!SizeOf, Link!CustomOf, Link!SizeRange

LEMMA LinkInitInv == Link!Init => LinkInv
<1> SUFFICES ASSUME Link!Init PROVE LinkInv
  OBVIOUS
<1> USE DEF Link!Init
<1>1. LinkTypeOK
  BY DEF LinkTypeOK, Sender, Receiver, Link!Slots, Slot, Link!Nothing
<1>2. SenderInStep /\ NothingForgotten /\ BufferStable
  BY DEF SenderInStep, NothingForgotten, Waiting, BufferStable
<1>3. HspiInStep /\ SerdesInStep
  BY DEF HspiInStep, SerdesInStep, Waiting
<1> QED
  BY <1>1, <1>2, <1>3 DEF LinkInv

(* Switching buffers stays within the two.                                 *)
LEMMA ToggleIsSlot == \A b \in Link!Slots : 1 - b \in Link!Slots
BY DEF Link!Slots

(* What a callback is given is a packet.                                   *)
LEMMA ReportIsPacket == ASSUME LinkTypeOK, NEW b \in Link!Slots PROVE Link!Report(b) \in LinkPacket
<1>1. dma[b].n \in Nat /\ dma[b].word \in Nat
  BY DEF LinkTypeOK, Slot
<1>2. dma[b].word % Link!SizeRange \in Nat /\ dma[b].word \div Link!SizeRange \in Nat
  BY <1>1, SMT DEF Link!SizeRange
<1> QED
  BY <1>1, <1>2 DEF Link!Report, Link!SizeOf, Link!CustomOf, LinkPacket

(* The receiver's part of the invariant while the receiver rests.          *)
LEMMA ReceiverRests ==
  ASSUME LinkInv, UNCHANGED <<driver, rx, dma, call, waiting, good, reported>>
  PROVE  (NothingForgotten /\ (Link!Hspi => HspiInStep) /\ (~Link!Hspi => SerdesInStep) /\ BufferStable)'
<1>1. NothingForgotten' /\ BufferStable'
  BY DEF LinkInv, NothingForgotten, Waiting, Link!Report, Link!SizeOf, Link!CustomOf, BufferStable
<1>2. (Link!Hspi => HspiInStep)' /\ (~Link!Hspi => SerdesInStep)'
  BY DEF LinkInv, Link!Hspi, HspiInStep, SerdesInStep, Waiting
<1> QED
  BY <1>1, <1>2

(* The sender's part while the sender rests.                               *)
LEMMA SenderRests == ASSUME LinkInv, UNCHANGED <<driver, tx, link_sent>> PROVE SenderInStep'
BY DEF LinkInv, SenderInStep, Link!Hspi, Decoded, Link!SizeOf, Link!CustomOf

(* hspi_send, serdes_send: the slot that the hardware sends next.          *)
LEMMA SendKeepsLinkInv ==
  ASSUME LinkConstants, LinkInv, NEW size \in Sizes, NEW custom \in Customs, Link!send(size, custom)
  PROVE  LinkInv'
<1> DEFINE slot == [n |-> Len(link_sent) + 1, word |-> Link!Header(size, custom)]
           packet == [n |-> Len(link_sent) + 1, size |-> size, custom |-> custom]
<1>1. size \in Nat /\ size <= 4096 /\ custom \in Nat /\ custom <= Link!MaxCustom
  <2>1. custom <= Link!MaxCustom
    BY DEF Link!send
  <2>2. size \in Nat /\ size <= 4096 /\ custom \in Nat
    BY DEF LinkConstants, Link!LinkAssumption
  <2> QED
    BY <2>1, <2>2
<1>2. /\ Link!Header(size, custom) \in Nat
      /\ Link!SizeOf(Link!Header(size, custom)) = size
      /\ Link!CustomOf(Link!Header(size, custom)) = custom
  BY <1>1, HeaderDecodes
<1>3. slot \in Slot /\ packet \in LinkPacket /\ Decoded(slot) = packet
  BY <1>1, <1>2 DEF LinkInv, LinkTypeOK, Slot, LinkPacket, Decoded
<1>4. tx.current \in Link!Slots /\ tx.slot \in [Link!Slots -> Slot] /\ tx.hw = tx.current
  BY DEF LinkInv, LinkTypeOK, Sender, SenderInStep, Link!send
<1>5. /\ tx' = [tx EXCEPT !.slot = [tx.slot EXCEPT ![tx.current] = slot], !.pc = "sending"]
      /\ link_sent' = Append(link_sent, packet)
  BY DEF LinkInv, LinkTypeOK, Sender, Link!send
<1> HIDE DEF slot, packet
<1>6. /\ tx' \in Sender /\ tx'.pc = "sending" /\ tx'.hw = tx.current /\ tx'.current = tx.current
      /\ tx'.slot[tx.current] = slot
  BY <1>3, <1>4, <1>5 DEF LinkInv, LinkTypeOK, Sender
<1>7. link_sent' \in Seq(LinkPacket) /\ link_sent' # <<>> /\ link_sent'[Len(link_sent')] = packet
  <2>1. link_sent \in Seq(LinkPacket)
    BY DEF LinkInv, LinkTypeOK
  <2> QED
    BY <1>3, <1>5, <2>1
<1>9. LinkTypeOK'
  BY <1>6, <1>7 DEF LinkInv, LinkTypeOK, Link!send
<1>10. SenderInStep'
  <2>1. Decoded(tx'.slot[tx'.hw]) = packet
    BY <1>3, <1>6
  <2> QED
    BY <1>6, <1>7, <2>1 DEF SenderInStep, Decoded, Link!SizeOf, Link!CustomOf
<1> QED
  BY <1>9, <1>10, ReceiverRests DEF LinkInv, Link!send

LEMMA SentKeepsLinkInv == ASSUME LinkInv, Link!Sent PROVE LinkInv'
<1>1. LinkTypeOK' /\ SenderInStep'
  BY DEF LinkInv, LinkTypeOK, Sender, Link!Sent, SenderInStep, Link!Slots, Link!Hspi
<1> QED
  BY <1>1, ReceiverRests DEF LinkInv, Link!Sent

(* A packet is stored only where no callback works, because the toggles    *)
(* agree while nothing waits.                                              *)
LEMMA TransmitKeepsLinkInv ==
  ASSUME CallbackIsShort, LinkInv, NEW damaged \in BOOLEAN, Link!Transmit(damaged)
  PROVE  LinkInv'
<1>1. /\ tx \in Sender /\ rx \in Receiver /\ dma \in [Link!Slots -> Slot]
      /\ rx.hw \in Link!Slots /\ tx.hw \in Link!Slots /\ rx.current \in Link!Slots /\ tx.slot[tx.hw] \in Slot
      /\ rx.done \in BOOLEAN /\ rx.err \in BOOLEAN
  BY DEF LinkInv, LinkTypeOK, Sender, Receiver
<1>2. /\ tx' \in Sender /\ tx'.pc = "sent" /\ tx'.current = tx.current
      /\ tx'.hw = IF Link!Hspi THEN 1 - tx.hw ELSE tx.hw
  <2>1. tx' = [tx EXCEPT !.hw = IF Link!Hspi THEN 1 - @ ELSE @, !.pc = "sent"]
    BY DEF Link!Transmit
  <2>2. CASE Link!Hspi
    BY <1>1, <2>1, <2>2, ToggleIsSlot DEF Sender
  <2>3. CASE ~Link!Hspi
    BY <1>1, <2>1, <2>3 DEF Sender
  <2> QED
    BY <2>2, <2>3
<1>3. dma' = [dma EXCEPT ![rx.hw] = tx.slot[tx.hw]] /\ dma' \in [Link!Slots -> Slot]
  BY <1>1 DEF Link!Transmit
<1>4. /\ waiting = 0 /\ waiting' = 1 /\ UNCHANGED <<driver, call, link_sent, reported>>
      /\ tx.pc = "sending"
  BY DEF Link!Transmit
<1>5. rx.pc = "callback" => call.buf = 1 - rx.hw /\ call.buf \in Link!Slots
  BY <1>1, <1>4 DEF LinkInv, LinkTypeOK, HspiInStep, Waiting, Link!Transmit, CallbackIsShort, Link!Hspi, Link!Slots
<1>6. SenderInStep'
  BY <1>1, <1>2, <1>4 DEF LinkInv, SenderInStep, Link!Hspi, Link!Slots
<1>7. BufferStable'
  <2>1. rx'.pc = rx.pc
    BY <1>1 DEF Link!Transmit, Receiver
  <2>2. call.buf = 1 - rx.hw /\ call.buf \in Link!Slots => dma'[call.buf] = dma[call.buf]
    BY <1>1, <1>3 DEF Link!Slots
  <2> QED
    BY <1>4, <1>5, <2>1, <2>2 DEF BufferStable, LinkInv
<1>8. CASE ~damaged
  <2>1. /\ rx' = [rx EXCEPT !.done = TRUE, !.err = FALSE, !.hw = 1 - @]
        /\ good' = Append(good, link_sent[Len(link_sent)])
    BY <1>8 DEF Link!Transmit
  <2>2. /\ rx' \in Receiver /\ rx'.done = TRUE /\ rx'.err = FALSE /\ rx'.hw = 1 - rx.hw
        /\ rx'.current = rx.current /\ rx'.pc = rx.pc
    BY <1>1, <2>1, ToggleIsSlot DEF Receiver
  <2>3. Waiting' /\ reported = good /\ rx.hw = rx.current
    BY <1>1, <1>4, <2>2 DEF Waiting, LinkInv, NothingForgotten, HspiInStep, SerdesInStep, Link!Transmit,
                            CallbackIsShort, LinkTypeOK, Link!Hspi
  <2>4. Link!Report(rx.current)' = link_sent[Len(link_sent)] /\ link_sent # <<>>
    <3>1. Decoded(tx.slot[tx.hw]) = link_sent[Len(link_sent)] /\ link_sent # <<>>
      BY <1>4 DEF LinkInv, SenderInStep
    <3>2. dma'[rx'.current] = tx.slot[tx.hw]
      BY <1>1, <1>3, <2>2, <2>3
    <3> QED
      BY <3>1, <3>2 DEF Link!Report, Decoded, Link!SizeOf, Link!CustomOf
  <2>5. good' = Append(reported', Link!Report(rx.current)')
    BY <1>4, <2>1, <2>3, <2>4
  <2>6. link_sent[Len(link_sent)] \in LinkPacket
    BY <2>4 DEF LinkInv, LinkTypeOK
  <2>7. LinkTypeOK'
    BY <1>2, <1>3, <1>4, <2>1, <2>2, <2>6 DEF LinkInv, LinkTypeOK
  <2>8. NothingForgotten'
    BY <2>3, <2>5 DEF NothingForgotten
  <2>9. (Link!Hspi => HspiInStep)'
    BY <1>1, <1>4, <2>2, <2>3 DEF Link!Hspi, HspiInStep, LinkInv, Link!Slots
  <2>10. (~Link!Hspi => SerdesInStep)'
    <3>1. ~Link!Hspi => rx.pc = "idle" /\ SerdesInStep
      BY DEF LinkInv, LinkTypeOK, Link!Hspi, Link!Transmit, CallbackIsShort
    <3>2. Link!Hspi' <=> Link!Hspi
      BY <1>4 DEF Link!Hspi
    <3> QED
      BY <1>1, <1>4, <2>2, <2>3, <3>1, <3>2 DEF SerdesInStep
  <2> QED
    BY <1>6, <1>7, <2>7, <2>8, <2>9, <2>10 DEF LinkInv
<1>9. CASE damaged
  <2>1. /\ rx' = IF Link!Hspi THEN [rx EXCEPT !.done = TRUE, !.err = TRUE] ELSE [rx EXCEPT !.err = TRUE]
        /\ good' = good
    BY <1>9 DEF Link!Transmit
  <2>2. /\ rx' \in Receiver /\ rx'.done = (IF Link!Hspi THEN TRUE ELSE rx.done) /\ rx'.err = TRUE
        /\ rx'.hw = rx.hw /\ rx'.current = rx.current /\ rx'.pc = rx.pc
    BY <1>1, <2>1 DEF Receiver
  <2>3. ~Waiting' /\ reported = good /\ rx.hw = rx.current
    BY <1>1, <1>4, <2>2 DEF Waiting, LinkInv, NothingForgotten, HspiInStep, SerdesInStep, Link!Transmit,
                            CallbackIsShort, LinkTypeOK, Link!Hspi
  <2>4. LinkTypeOK'
    BY <1>2, <1>3, <1>4, <2>1, <2>2 DEF LinkInv, LinkTypeOK
  <2>5. NothingForgotten'
    BY <1>4, <2>1, <2>3 DEF NothingForgotten
  <2>6. (Link!Hspi => HspiInStep)'
    BY <1>1, <1>4, <2>2, <2>3 DEF Link!Hspi, HspiInStep, LinkInv, Link!Slots
  <2>7. (~Link!Hspi => SerdesInStep)'
    <3>1. ~Link!Hspi => rx.pc = "idle" /\ SerdesInStep
      BY DEF LinkInv, LinkTypeOK, Link!Hspi, Link!Transmit, CallbackIsShort
    <3>2. Link!Hspi' <=> Link!Hspi
      BY <1>4 DEF Link!Hspi
    <3> QED
      BY <1>1, <1>4, <2>2, <2>3, <3>1, <3>2 DEF SerdesInStep
  <2> QED
    BY <1>6, <1>7, <2>4, <2>5, <2>6, <2>7 DEF LinkInv
<1> QED
  BY <1>8, <1>9

LEMMA HspiIrqKeepsLinkInv == ASSUME LinkInv, Link!HSPI_IRQHandler PROVE LinkInv'
<1>1. /\ rx \in Receiver /\ rx.current \in Link!Slots /\ rx.err \in BOOLEAN /\ Link!Hspi /\ rx.done
      /\ rx.pc = "idle" /\ dma[rx.current].n \in Nat
  BY DEF LinkInv, LinkTypeOK, Receiver, Slot, Link!HSPI_IRQHandler
<1>2. Link!Report(rx.current) \in LinkPacket
  BY <1>1, ReportIsPacket DEF LinkInv
<1>3. waiting' = 0 /\ waiting = 1 /\ Link!Hspi' /\ UNCHANGED <<driver, tx, dma, link_sent, good>>
  BY <1>1 DEF Link!HSPI_IRQHandler, LinkInv, HspiInStep, Link!Hspi
<1>4. ~Waiting' /\ SenderInStep'
  BY <1>3, SenderRests DEF Waiting
<1>5. CASE ~rx.err
  <2>1. /\ rx' = [rx EXCEPT !.done = FALSE, !.current = 1 - @, !.pc = "callback"]
        /\ call' = [buf |-> rx.current, n |-> dma[rx.current].n]
        /\ reported' = Append(reported, Link!Report(rx.current))
    BY <1>5 DEF Link!HSPI_IRQHandler, Link!Callback
  <2>2. /\ rx' \in Receiver /\ rx'.done = FALSE /\ rx'.err = FALSE /\ rx'.hw = rx.hw
        /\ rx'.current = 1 - rx.current /\ rx'.pc = "callback"
    BY <1>1, <1>5, <2>1, ToggleIsSlot DEF Receiver
  <2>3. Waiting
    BY <1>1, <1>3, <1>5 DEF Waiting
  <2>4. NothingForgotten'
    BY <1>3, <1>4, <2>1, <2>3 DEF NothingForgotten, LinkInv
  <2>5. LinkTypeOK'
    BY <1>1, <1>2, <1>3, <2>1, <2>2 DEF LinkInv, LinkTypeOK
  <2>6. HspiInStep'
    BY <1>1, <1>3, <1>4, <2>1, <2>2, <2>3 DEF HspiInStep, LinkInv, Link!Slots
  <2>7. BufferStable'
    BY <1>3, <2>1 DEF BufferStable
  <2> QED
    BY <1>3, <1>4, <2>4, <2>5, <2>6, <2>7 DEF LinkInv
<1>6. CASE rx.err
  <2>1. rx' = [rx EXCEPT !.done = FALSE] /\ UNCHANGED <<call, reported>>
    BY <1>6 DEF Link!HSPI_IRQHandler
  <2>2. /\ rx' \in Receiver /\ rx'.done = FALSE /\ rx'.hw = rx.hw
        /\ rx'.current = rx.current /\ rx'.pc = "idle"
    BY <1>1, <2>1 DEF Receiver
  <2>3. ~Waiting
    BY <1>6 DEF Waiting
  <2>4. NothingForgotten' /\ BufferStable'
    BY <1>3, <1>4, <2>1, <2>2, <2>3 DEF NothingForgotten, BufferStable, LinkInv
  <2>5. LinkTypeOK'
    BY <1>3, <2>1, <2>2 DEF LinkInv, LinkTypeOK
  <2>6. HspiInStep'
    BY <1>1, <1>3, <1>4, <2>2, <2>3 DEF HspiInStep, LinkInv
  <2> QED
    BY <1>3, <1>4, <2>4, <2>5, <2>6 DEF LinkInv
<1> QED
  BY <1>1, <1>5, <1>6

LEMMA HspiReturnKeepsLinkInv == ASSUME LinkInv, Link!HspiReturns PROVE LinkInv'
<1>1. /\ rx' \in Receiver /\ rx'.done = rx.done /\ rx'.err = rx.err /\ rx'.hw = rx.hw
      /\ rx'.current = rx.current /\ rx'.pc = "idle"
  BY DEF LinkInv, LinkTypeOK, Receiver, Link!HspiReturns
<1>2. Link!Hspi /\ Link!Hspi' /\ UNCHANGED <<driver, tx, dma, call, waiting, link_sent, good, reported>>
  BY DEF Link!HspiReturns, Link!Hspi
<1>3. LinkTypeOK' /\ SenderInStep' /\ BufferStable'
  BY <1>1, <1>2, SenderRests DEF LinkInv, LinkTypeOK, BufferStable
<1>4. Waiting' <=> Waiting
  BY <1>1, <1>2 DEF Waiting
<1>5. NothingForgotten'
  BY <1>1, <1>2, <1>4 DEF LinkInv, NothingForgotten, Link!Report, Link!SizeOf, Link!CustomOf
<1>6. HspiInStep'
  BY <1>1, <1>2, <1>4 DEF LinkInv, HspiInStep
<1> QED
  BY <1>2, <1>3, <1>5, <1>6 DEF LinkInv

LEMMA SerdesIrqKeepsLinkInv == ASSUME LinkInv, Link!SERDES_IRQHandler PROVE LinkInv'
<1>1. /\ rx \in Receiver /\ rx.current \in Link!Slots /\ ~Link!Hspi /\ rx.pc = "idle"
      /\ rx.done \in BOOLEAN /\ rx.err \in BOOLEAN /\ dma[rx.current].n \in Nat
  BY DEF LinkInv, LinkTypeOK, Receiver, Slot, Link!SERDES_IRQHandler
<1>2. Link!Report(rx.current) \in LinkPacket
  BY <1>1, ReportIsPacket DEF LinkInv
<1>3. waiting' = 0 /\ waiting = 1 /\ ~Link!Hspi' /\ UNCHANGED <<driver, tx, dma, link_sent, good>>
  BY <1>1 DEF Link!SERDES_IRQHandler, LinkInv, SerdesInStep, Link!Hspi
<1>4. ~Waiting' /\ SenderInStep'
  BY <1>3, SenderRests DEF Waiting
<1>5. rx' = [rx EXCEPT !.pc = IF rx.done THEN "callback" ELSE "error"]
  BY DEF Link!SERDES_IRQHandler
<1>6. /\ rx' \in Receiver /\ rx'.done = rx.done /\ rx'.err = rx.err /\ rx'.hw = rx.hw
      /\ rx'.current = rx.current /\ rx'.pc = (IF rx.done THEN "callback" ELSE "error")
  BY <1>1, <1>5 DEF Receiver
<1>7. CASE rx.done
  <2>1. /\ call' = [buf |-> rx.current, n |-> dma[rx.current].n]
        /\ reported' = Append(reported, Link!Report(rx.current))
    BY <1>7 DEF Link!SERDES_IRQHandler, Link!Callback
  <2>2. Waiting
    BY <1>1, <1>3, <1>7 DEF Waiting, LinkInv, SerdesInStep
  <2>3. NothingForgotten'
    BY <1>3, <1>4, <2>1, <2>2 DEF NothingForgotten, LinkInv
  <2>4. LinkTypeOK'
    BY <1>1, <1>2, <1>3, <1>6, <2>1 DEF LinkInv, LinkTypeOK
  <2>5. SerdesInStep' /\ BufferStable'
    BY <1>1, <1>3, <1>6, <1>7, <2>1 DEF SerdesInStep, BufferStable, LinkInv
  <2> QED
    BY <1>3, <1>4, <2>3, <2>4, <2>5 DEF LinkInv
<1>8. CASE ~rx.done
  <2>1. UNCHANGED <<call, reported>>
    BY <1>8 DEF Link!SERDES_IRQHandler
  <2>2. ~Waiting
    BY <1>8 DEF Waiting
  <2>3. NothingForgotten'
    BY <1>3, <1>4, <2>1, <2>2 DEF NothingForgotten, LinkInv
  <2>4. LinkTypeOK'
    BY <1>3, <1>6, <2>1 DEF LinkInv, LinkTypeOK
  <2>5. SerdesInStep' /\ BufferStable'
    BY <1>1, <1>3, <1>6, <1>8, <2>1 DEF SerdesInStep, BufferStable, LinkInv
  <2> QED
    BY <1>3, <1>4, <2>3, <2>4, <2>5 DEF LinkInv
<1> QED
  BY <1>7, <1>8

LEMMA SerdesReturnKeepsLinkInv == ASSUME LinkInv, Link!SerdesReturns PROVE LinkInv'
<1>1. rx \in Receiver /\ rx.current \in Link!Slots /\ ~Link!Hspi /\ rx.pc \in {"callback", "error"}
  BY DEF LinkInv, LinkTypeOK, Receiver, Link!SerdesReturns
<1>2. /\ rx' \in Receiver /\ rx'.done = FALSE /\ rx'.err = FALSE /\ rx'.hw = rx.hw
      /\ rx'.current = (IF rx.pc = "callback" THEN 1 - rx.current ELSE rx.current)
      /\ rx'.pc = "idle"
  <2>1. rx' = [rx EXCEPT !.current = IF rx.pc = "callback" THEN 1 - @ ELSE @,
                         !.done = FALSE, !.err = FALSE, !.pc = "idle"]
    BY DEF Link!SerdesReturns
  <2>2. CASE rx.pc = "callback"
    BY <1>1, <2>1, <2>2, ToggleIsSlot DEF Receiver
  <2>3. CASE rx.pc # "callback"
    BY <1>1, <2>1, <2>3 DEF Receiver
  <2> QED
    BY <2>2, <2>3
<1>3. ~Link!Hspi' /\ UNCHANGED <<driver, tx, dma, call, waiting, link_sent, good, reported>>
  BY DEF Link!SerdesReturns, Link!Hspi
<1>4. LinkTypeOK' /\ SenderInStep' /\ BufferStable'
  BY <1>2, <1>3, SenderRests DEF LinkInv, LinkTypeOK, BufferStable
<1>5. waiting = 0 /\ (rx.done <=> rx.pc = "callback")
  BY <1>1 DEF LinkInv, SerdesInStep
<1>6. NothingForgotten'
  BY <1>3, <1>5 DEF LinkInv, NothingForgotten, Waiting
<1>7. SerdesInStep'
  BY <1>1, <1>2, <1>3, <1>5 DEF LinkInv, SerdesInStep, Link!Slots
<1> QED
  BY <1>3, <1>4, <1>6, <1>7 DEF LinkInv

LEMMA LinkNextInv ==
  ASSUME LinkConstants, CallbackIsShort, LinkInv, [Link!Next]_Link!vars
  PROVE  LinkInv'
<1>1. CASE UNCHANGED Link!vars
  BY <1>1 DEF Link!vars, LinkInv, LinkTypeOK, SenderInStep, NothingForgotten, HspiInStep, SerdesInStep,
              BufferStable, Waiting, Link!Hspi, Link!Report, Decoded, Link!SizeOf, Link!CustomOf
<1>2. CASE Link!Next
  BY <1>2, SendKeepsLinkInv, SentKeepsLinkInv, TransmitKeepsLinkInv, HspiIrqKeepsLinkInv, HspiReturnKeepsLinkInv,
     SerdesIrqKeepsLinkInv, SerdesReturnKeepsLinkInv DEF Link!Next
<1> QED
  BY <1>1, <1>2

(* The invariant holds in every state that the two drivers can reach.      *)
THEOREM LinkInvariance ==
  ASSUME LinkConstants, CallbackIsShort PROVE Link!Spec => []LinkInv
<1>1. LinkInv /\ [Link!Next]_Link!vars => LinkInv'
  BY LinkNextInv
<1> QED
  BY <1>1, LinkInitInv, PTL DEF Link!Spec

(* hspi.c and serdes.c give each undamaged packet to the callback once, in *)
(* order, with the size and custom_register it was sent with.              *)
THEOREM PacketsReported ==
  ASSUME LinkConstants, CallbackIsShort PROVE Link!Spec => []EachPacketReported
<1>1. LinkInv => EachPacketReported
  <2> SUFFICES ASSUME LinkInv PROVE EachPacketReported
    OBVIOUS
  <2>1. reported \in Seq(LinkPacket) /\ good \in Seq(LinkPacket)
    BY DEF LinkInv, LinkTypeOK
  <2>2. CASE Waiting
    <3>1. good = Append(reported, Link!Report(rx.current))
      BY <2>2 DEF LinkInv, NothingForgotten
    <3>2. reported = SubSeq(good, 1, Len(reported))
      BY <2>1, <3>1
    <3> QED
      BY <2>2, <3>2 DEF EachPacketReported, Waiting
  <2>3. CASE ~Waiting
    BY <2>1, <2>3 DEF LinkInv, NothingForgotten, EachPacketReported
  <2> QED
    BY <2>2, <2>3
<1> QED
  BY <1>1, LinkInvariance, PTL

(* The DMA does not touch the buffer a callback works on.                  *)
THEOREM BuffersStable ==
  ASSUME LinkConstants, CallbackIsShort PROVE Link!Spec => []BufferStable
<1>1. LinkInv => BufferStable
  BY DEF LinkInv
<1> QED
  BY <1>1, LinkInvariance, PTL
=============================================================================
