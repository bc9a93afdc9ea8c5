-------------------------------- MODULE Fifo --------------------------------
(***************************************************************************)
(* The ring buffer of memory/fifo.h on a single core: user code ("main")   *)
(* and an interrupt handler ("isr") call the same hydra_fifo_t.  The       *)
(* handler preempts user code between any two steps and runs to its end    *)
(* before user code resumes; HYDRA_FIFO_ENTER_CRITICAL keeps it out for    *)
(* the length of a call when Protected is TRUE.                            *)
(*                                                                         *)
(* A call loads rd_idx and wr_idx into locals, copies element by element   *)
(* (memcpy), and then moves its index.  Loading both indices is one step:  *)
(* with one reader and one writer one of the two indices is the caller's   *)
(* own and does not move between the loads.  fifo_count, which no critical *)
(* section protects, loads them in two steps, in either order.             *)
(***************************************************************************)
EXTENDS Integers, Sequences

CONSTANTS
  Value,      \* the elements stored
  Zero,       \* the content of a slot after memset(buffer, 0)
  Capacity,   \* _size of HYDRA_FIFO_DEF
  TypeSize,   \* type_size: the bytes of an element
  MaxN,       \* bound on the elements of one call
  Setups      \* the ways a program builds and uses the ring

Context == {"main", "isr"}

Size == Capacity + 1
Slot == 0..(Size - 1)

(* uint16_t size holds _size + 1.                                          *)
ASSUME CapacityAssumption == Capacity \in Nat /\ 1 <= Capacity /\ Capacity < 65535
(* _fifo_read_n and _fifo_write_n keep the bytes they copy in a uint16_t,  *)
(* which no macro or check ensures: the memcpys below copy whole elements  *)
(* because the elements of a full ring have fewer than 2^16 bytes.         *)
ASSUME BytesAssumption == TypeSize \in Nat /\ TypeSize >= 1 /\ Capacity * TypeSize < 65536

ASSUME BoundAssumption == MaxN \in Nat /\ Zero \notin Value

(* protected: HYDRA_FIFO_ENTER/EXIT_CRITICAL disable interrupts; readers:  *)
(* the contexts that read or peek; writers: those that write.  The         *)
(* limitation stated at the head of fifo.h: without the critical sections  *)
(* each context keeps to one role.                                         *)
ASSUME RoleAssumption ==
  \A s \in Setups :
    /\ s.protected \in BOOLEAN /\ s.readers \subseteq Context /\ s.writers \subseteq Context
    /\ ~s.protected => \E r, w \in Context : r # w /\ s.readers = {r} /\ s.writers = {w}

VARIABLES
  setup,                   \* the way this program does, for good
  rd_idx, wr_idx, buffer,  \* hydra_fifo_t
  call,                    \* call[c]: the call context c is inside, with its locals
  ret,                     \* ret[c]: c's last read, peek or write and its result, until c calls again
  counted                  \* counted[c]: what fifo_count told c, -1 once c calls again

vars == <<setup, rd_idx, wr_idx, buffer, call, ret, counted>>

Protected == setup.protected
Readers == setup.readers
Writers == setup.writers

Min2(x, y) == IF x < y THEN x ELSE y

fifo_get_count(rd, wr) == IF wr >= rd THEN wr - rd ELSE Size - rd + wr

(* Mutant: no slot is kept free, so a full ring looks empty.               *)
FreeSpaceUpToRd(rd, wr) == IF rd > wr THEN rd - wr ELSE Size - wr + rd

fifo_get_free_space(rd, wr) ==
  IF rd > wr THEN rd - wr - 1 ELSE Size - wr + rd - 1

-----------------------------------------------------------------------------
(* _fifo_read_n: the n elements after rd_idx, in one or two memcpys.       *)
ReadLinear(n, rd, wr) ==
  IF wr > rd THEN Min2(n, wr - rd) ELSE Min2(n, Size - 1 - rd)

ReadWrap(n, rd, wr) ==
  IF wr > rd THEN 0 ELSE Min2(wr + 1, n - ReadLinear(n, rd, wr))

fifo_read_n_count(n, rd, wr) ==
  IF rd = wr \/ n > fifo_get_count(rd, wr)
  THEN 0
  ELSE ReadLinear(n, rd, wr) + ReadWrap(n, rd, wr)

ReadSlot(n, rd, wr, k) ==
  LET linear == ReadLinear(n, rd, wr)
  IN  IF k <= linear THEN rd + k ELSE k - linear - 1

(* _fifo_write_n: the n elements go after wr_idx, in one or two memcpys.   *)
WriteLinear(n, rd, wr) ==
  IF rd > wr THEN Min2(fifo_get_free_space(rd, wr), n) ELSE Min2(Size - 1 - wr, n)

WriteWrap(n, rd, wr) ==
  IF rd > wr THEN 0 ELSE Min2(rd, n - WriteLinear(n, rd, wr))

(* Mutant: a write that does not fit is not refused.                       *)
WriteWhatFits(n, rd, wr) == WriteLinear(n, rd, wr) + WriteWrap(n, rd, wr)

fifo_write_n_count(n, rd, wr) ==
  IF fifo_get_free_space(rd, wr) < n
  THEN 0
  ELSE WriteLinear(n, rd, wr) + WriteWrap(n, rd, wr)

WriteSlot(n, rd, wr, k) ==
  LET linear == WriteLinear(n, rd, wr)
  IN  IF k <= linear THEN wr + k ELSE k - linear - 1

(* Mutant: the index is not wrapped.                                       *)
AdvanceWithoutWrap(idx, offset) == idx + offset

fifo_advance(idx, offset) == (idx + offset) % Size

-----------------------------------------------------------------------------
Nothing == [op |-> "none", asked |-> 0, n |-> -1, data |-> <<>>]
Idle == [op |-> "none", asked |-> 0, n |-> 0, rd |-> 0, wr |-> 0, data |-> <<>>, k |-> 0]

InCritical(c) == Protected /\ call[c].op \in {"read", "peek", "write"}

(* Single core: the handler runs to completion, and cannot start while     *)
(* user code has interrupts disabled.                                      *)
MayStep(c) == c = "main" => call["isr"].op = "none"

MayCall(c) == /\ call[c].op = "none"
              /\ MayStep(c)
              /\ c = "isr" => ~InCritical("main")

Init ==
  /\ setup \in Setups
  /\ rd_idx = 0 /\ wr_idx = 0
  /\ buffer = [i \in Slot |-> Zero]
  /\ call = [c \in Context |-> Idle]
  /\ ret = [c \in Context |-> Nothing]
  /\ counted = [c \in Context |-> -1]

Returns(c, op, asked, n, data) ==
  /\ ret' = [ret EXCEPT ![c] = [op |-> op, asked |-> asked, n |-> n, data |-> data]]
  /\ call' = [call EXCEPT ![c] = Idle]

(* The head of a call: load the indices; when the call can do nothing it   *)
(* returns 0, otherwise the copy starts.                                   *)
BeginCall(c, op, n, data, count) ==
  /\ MayCall(c)
  /\ counted' = [counted EXCEPT ![c] = -1]
  /\ \/ /\ count = 0
        /\ Returns(c, op, n, 0, <<>>)
     \/ /\ count # 0
        /\ call' = [call EXCEPT ![c] = [op |-> op, asked |-> n, n |-> count, rd |-> rd_idx,
                                        wr |-> wr_idx, data |-> data, k |-> 0]]
        /\ ret' = [ret EXCEPT ![c] = Nothing]
  /\ UNCHANGED <<rd_idx, wr_idx, buffer>>

fifo_read_n(c, n) ==
  /\ c \in Readers
  /\ BeginCall(c, "read", n, <<>>, fifo_read_n_count(n, rd_idx, wr_idx))

fifo_read(c) == fifo_read_n(c, fifo_get_count(rd_idx, wr_idx))

fifo_peek_n(c, n) ==
  /\ c \in Readers
  /\ BeginCall(c, "peek", n, <<>>, fifo_read_n_count(n, rd_idx, wr_idx))

fifo_write(c, s) ==
  /\ c \in Writers
  /\ BeginCall(c, "write", Len(s), s, fifo_write_n_count(Len(s), rd_idx, wr_idx))

(* memcpy, one element of the linear_bytes, then of the wrap_bytes.        *)
CopyOut(c) ==
  LET l == call[c] IN
  /\ MayStep(c)
  /\ l.op \in {"read", "peek"} /\ l.k < l.n
  /\ call' = [call EXCEPT ![c].data = Append(@, buffer[ReadSlot(l.n, l.rd, l.wr, l.k + 1)]),
                          ![c].k = l.k + 1]
  /\ UNCHANGED <<rd_idx, wr_idx, buffer, ret, counted>>

CopyIn(c) ==
  LET l == call[c] IN
  /\ MayStep(c)
  /\ l.op = "write" /\ l.k < l.n
  /\ buffer' = [buffer EXCEPT ![WriteSlot(l.n, l.rd, l.wr, l.k + 1)] = l.data[l.k + 1]]
  /\ call' = [call EXCEPT ![c].k = l.k + 1]
  /\ UNCHANGED <<rd_idx, wr_idx, ret, counted>>

(* _fifo_advance_read, then the end of the critical section.               *)
FinishRead(c) ==
  /\ MayStep(c)
  /\ call[c].op = "read" /\ call[c].k = call[c].n
  /\ rd_idx' = fifo_advance(rd_idx, call[c].n)
  /\ Returns(c, "read", call[c].asked, call[c].n, call[c].data)
  /\ UNCHANGED <<wr_idx, buffer, counted>>

FinishPeek(c) ==
  /\ MayStep(c)
  /\ call[c].op = "peek" /\ call[c].k = call[c].n
  /\ Returns(c, "peek", call[c].asked, call[c].n, call[c].data)
  /\ UNCHANGED <<rd_idx, wr_idx, buffer, counted>>

(* _fifo_advance_write, then the end of the critical section.              *)
FinishWrite(c) ==
  /\ MayStep(c)
  /\ call[c].op = "write" /\ call[c].k = call[c].n
  /\ wr_idx' = fifo_advance(wr_idx, call[c].n)
  /\ Returns(c, "write", call[c].asked, call[c].n, <<>>)
  /\ UNCHANGED <<rd_idx, buffer, counted>>

(* fifo_clean writes both indices and every slot in one critical section;  *)
(* it belongs to neither role, so it needs that section.                   *)
fifo_clean(c) ==
  /\ Protected
  /\ MayCall(c)
  /\ rd_idx' = 0 /\ wr_idx' = 0
  /\ buffer' = [i \in Slot |-> Zero]
  /\ ret' = [ret EXCEPT ![c] = Nothing]
  /\ counted' = [counted EXCEPT ![c] = -1]
  /\ UNCHANGED call

(* fifo_count: two volatile loads, unsequenced, outside a critical section *)
fifo_count(c) ==
  /\ MayCall(c)
  /\ \/ call' = [call EXCEPT ![c] = [Idle EXCEPT !.op = "count_rd", !.rd = rd_idx]]
     \/ call' = [call EXCEPT ![c] = [Idle EXCEPT !.op = "count_wr", !.wr = wr_idx]]
  /\ ret' = [ret EXCEPT ![c] = Nothing]
  /\ counted' = [counted EXCEPT ![c] = -1]
  /\ UNCHANGED <<rd_idx, wr_idx, buffer>>

(* Mutant: the arguments of _fifo_get_count are swapped.                   *)
FinishCountSwapped(c) ==
  LET l == call[c] IN
  /\ MayStep(c)
  /\ \/ /\ l.op = "count_rd"
        /\ counted' = [counted EXCEPT ![c] = fifo_get_count(wr_idx, l.rd)]
     \/ /\ l.op = "count_wr"
        /\ counted' = [counted EXCEPT ![c] = fifo_get_count(l.wr, rd_idx)]
  /\ call' = [call EXCEPT ![c] = Idle]
  /\ UNCHANGED <<rd_idx, wr_idx, buffer, ret>>

FinishCount(c) ==
  LET l == call[c] IN
  /\ MayStep(c)
  /\ \/ /\ l.op = "count_rd"
        /\ counted' = [counted EXCEPT ![c] = fifo_get_count(l.rd, wr_idx)]
     \/ /\ l.op = "count_wr"
        /\ counted' = [counted EXCEPT ![c] = fifo_get_count(rd_idx, l.wr)]
  /\ call' = [call EXCEPT ![c] = Idle]
  /\ UNCHANGED <<rd_idx, wr_idx, buffer, ret>>

Next ==
  /\ UNCHANGED setup
  /\ \E c \in Context :
       \/ fifo_read(c)
       \/ \E n \in 0..MaxN : fifo_read_n(c, n) \/ fifo_peek_n(c, n)
       \/ \E n \in 0..MaxN : \E s \in [1..n -> Value] : fifo_write(c, s)
       \/ CopyOut(c) \/ CopyIn(c)
       \/ FinishRead(c) \/ FinishPeek(c) \/ FinishWrite(c)
       \/ fifo_clean(c)
       \/ fifo_count(c) \/ FinishCount(c)

Spec == Init /\ [][Next]_vars

-----------------------------------------------------------------------------
Count == fifo_get_count(rd_idx, wr_idx)

(* The slot i after index idx, around the ring: the i-th stored element    *)
(* sits at Ring(rd_idx, i), the i-th free slot is Ring(wr_idx, i).         *)
Ring(idx, i) == IF idx + i < Size THEN idx + i ELSE idx + i - Size

Contents == [i \in 1..Count |-> buffer[Ring(rd_idx, i)]]

Cell == Value \cup {Zero}
Calls == [op : {"none", "read", "peek", "write", "count_rd", "count_wr"},
          asked : Nat, n : 0..Capacity, rd : Slot, wr : Slot, data : Seq(Cell), k : 0..Capacity]
Results == [op : {"none", "read", "peek", "write"}, asked : Nat, n : -1..Capacity, data : Seq(Cell)]

(* hydra_fifo_t holds indices of slots, and a call its own locals.         *)
TypeOK ==
  /\ setup \in Setups
  /\ rd_idx \in Slot /\ wr_idx \in Slot
  /\ buffer \in [Slot -> Cell]
  /\ call \in [Context -> Calls]
  /\ ret \in [Context -> Results]
  /\ counted \in [Context -> -1..Capacity]

(* No reader ever sees a slot that nobody wrote: every slot between the    *)
(* heads holds an element, whatever memcpys are under way (the "no         *)
(* overwrite : no overflow" of fifo.h).                                    *)
StoredAreWritten == \A i \in 1..Count : buffer[Ring(rd_idx, i)] \in Value

(* The call l is a read whose elements are still the oldest of the ring    *)
(* (rd, wr, buf), and its copy so far agrees with them.                    *)
ReadUndisturbed(l, rd, wr, buf) ==
  /\ l.rd = rd /\ l.asked = l.n
  /\ l.n >= 1 /\ l.n <= fifo_get_count(rd, wr) /\ l.n <= fifo_get_count(l.rd, l.wr)
  /\ l.k <= l.n /\ l.k = Len(l.data)
  /\ \A i \in 1..l.k : l.data[i] = buf[Ring(rd, i)]

(* The call l is a write whose slots are still free in the ring, and hold  *)
(* what it copied so far.                                                  *)
WriteUndisturbed(l, rd, wr, buf) ==
  /\ l.wr = wr /\ l.asked = l.n
  /\ l.n >= 1 /\ l.n <= fifo_get_free_space(rd, wr) /\ l.n <= fifo_get_free_space(l.rd, l.wr)
  /\ l.k <= l.n /\ l.n = Len(l.data) /\ l.data \in Seq(Value)
  /\ \A i \in 1..l.k : buf[Ring(wr, i)] = l.data[i]

(* A preempted call still works on good locals: a reader's elements are    *)
(* still the oldest ones and its copy agrees with them, a writer's slots   *)
(* are still free and hold what it copied, whatever the other context did  *)
(* in between (the reentrancy required at the head of fifo.h).             *)
CallsUndisturbed ==
  \A c \in Context :
    /\ call[c].op \in {"read", "peek"} =>
         c \in Readers /\ ReadUndisturbed(call[c], rd_idx, wr_idx, buffer)
    /\ call[c].op = "write" =>
         c \in Writers /\ WriteUndisturbed(call[c], rd_idx, wr_idx, buffer)

(* ... and critical sections keep the contexts apart.                      *)
Undisturbed == CallsUndisturbed /\ ~(InCritical("main") /\ InCritical("isr"))

(* What fifo_count reports stays usable although no critical section       *)
(* protects it: the only reader may read that many elements, the only      *)
(* writer may write into what it leaves free, even if the other context    *)
(* preempted it between its two loads or has run since.                    *)
CountIsSafe ==
  \A c \in Context : counted[c] # -1 =>
    /\ (Readers = {c} /\ ~Protected) => counted[c] <= Count
    /\ (Writers = {c} /\ ~Protected) => counted[c] >= Count

Queue == INSTANCE BoundedQueue WITH queue <- Contents

(* The ring buffer implements the bounded queue: calls are all-or-nothing, *)
(* in order, lose and duplicate nothing, and a call is refused only when   *)
(* it does not fit, under every preemption.                                *)
ImplementsQueue == Queue!Spec
=============================================================================
