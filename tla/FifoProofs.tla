----------------------------- MODULE FifoProofs -----------------------------
(***************************************************************************)
(* Fifo proved for every capacity, every set of elements and every         *)
(* setup that RoleAssumption admits.                                       *)
(***************************************************************************)
EXTENDS Fifo, SequenceTheorems, TLAPS

(* The inductive invariant: between the heads there are only elements, and *)
(* the locals of every call under way are still good.                      *)
IInv == TypeOK /\ StoredAreWritten /\ Undisturbed

-----------------------------------------------------------------------------
(* The arithmetic of the indices.                                          *)

(* Moving an index by at most Capacity slots wraps at most once.           *)
LEMMA AdvanceWraps ==
  ASSUME NEW i \in Slot, NEW n \in 0..Capacity
  PROVE  fifo_advance(i, n) = Ring(i, n) /\ Ring(i, n) \in Slot
<1> DEFINE x == i + n
<1>1. x \in Nat /\ Size \in Nat /\ Size > 0 /\ x < 2 * Size
  BY CapacityAssumption DEF Slot, Size
<1>2. Ring(i, n) \in Slot
  BY CapacityAssumption DEF Slot, Size, Ring
<1>3. x % Size = IF x < Size THEN x ELSE x - Size
  <2> HIDE DEF x
  <2>1. CASE x < Size
    BY <1>1, <2>1, Z3
  <2>2. CASE x >= Size
    BY <1>1, <2>2, Z3
  <2> QED BY <1>1, <2>1, <2>2
<1>4. fifo_advance(i, n) = Ring(i, n)
  BY <1>1, <1>3, CapacityAssumption DEF fifo_advance, Ring, Slot
<1> QED BY <1>2, <1>4

(* Stored and free elements add up to the capacity.                        *)
LEMMA CountAndFree ==
  ASSUME NEW rd \in Slot, NEW wr \in Slot
  PROVE  /\ fifo_get_count(rd, wr) \in 0..Capacity
         /\ fifo_get_free_space(rd, wr) = Capacity - fifo_get_count(rd, wr)
BY CapacityAssumption DEF fifo_get_count, fifo_get_free_space, Slot, Size

(* _fifo_read_n copies n elements or none ("either n or 0").               *)
LEMMA ReadAllOrNothing ==
  ASSUME NEW rd \in Slot, NEW wr \in Slot, NEW n \in Nat
  PROVE  fifo_read_n_count(n, rd, wr)
           = IF n <= fifo_get_count(rd, wr) THEN n ELSE 0
BY CapacityAssumption
   DEF fifo_read_n_count, fifo_get_count, ReadLinear, ReadWrap, Min2, Slot, Size

(* _fifo_write_n copies n elements or none.                                *)
LEMMA WriteAllOrNothing ==
  ASSUME NEW rd \in Slot, NEW wr \in Slot, NEW n \in Nat
  PROVE  fifo_write_n_count(n, rd, wr)
           = IF n <= fifo_get_free_space(rd, wr) THEN n ELSE 0
BY CapacityAssumption
   DEF fifo_write_n_count, fifo_get_free_space, WriteLinear, WriteWrap, Min2, Slot, Size

(* The one or two memcpys of a read touch the slots that follow rd_idx     *)
(* around the ring, in order.                                              *)
LEMMA ReadSlots ==
  ASSUME NEW rd \in Slot, NEW wr \in Slot,
         NEW n \in Nat, n <= fifo_get_count(rd, wr), NEW i \in Nat, 1 <= i, i <= n
  PROVE  ReadSlot(n, rd, wr, i) = Ring(rd, i)
BY CapacityAssumption
   DEF ReadSlot, ReadLinear, fifo_get_count, Min2, Ring, Slot, Size

(* The one or two memcpys of a write touch the slots that follow wr_idx.   *)
LEMMA WriteSlots ==
  ASSUME NEW rd \in Slot, NEW wr \in Slot,
         NEW n \in Nat, n <= fifo_get_free_space(rd, wr), NEW i \in Nat, 1 <= i, i <= n
  PROVE  WriteSlot(n, rd, wr, i) = Ring(wr, i)
BY CapacityAssumption
   DEF WriteSlot, WriteLinear, fifo_get_free_space, Min2, Ring, Slot, Size

(* Slots at different distances from an index are different.               *)
LEMMA RingInjective ==
  ASSUME NEW idx \in Slot, NEW i \in 0..Capacity, NEW j \in 0..Capacity,
         Ring(idx, i) = Ring(idx, j)
  PROVE  i = j
BY CapacityAssumption DEF Ring, Slot, Size

(* Advancing the read head by n drops the n oldest elements.               *)
LEMMA ReadAdvance ==
  ASSUME NEW rd \in Slot, NEW wr \in Slot, NEW n \in Nat, n <= fifo_get_count(rd, wr)
  PROVE  /\ fifo_get_count(Ring(rd, n), wr) = fifo_get_count(rd, wr) - n
         /\ \A i \in 0..(Capacity - n) : Ring(Ring(rd, n), i) = Ring(rd, n + i)
<1> USE CapacityAssumption DEF Slot, Size
<1>1. fifo_get_count(Ring(rd, n), wr) = fifo_get_count(rd, wr) - n
  <2>1. CASE wr >= rd
    BY <2>1 DEF Ring, fifo_get_count
  <2>2. CASE ~(wr >= rd) /\ rd + n < Size
    BY <2>2 DEF Ring, fifo_get_count
  <2>3. CASE ~(wr >= rd) /\ ~(rd + n < Size)
    BY <2>3 DEF Ring, fifo_get_count
  <2> QED BY <2>1, <2>2, <2>3
<1>2. n \in 0..Capacity
  BY CountAndFree
<1>3. ASSUME NEW i \in 0..(Capacity - n)
      PROVE  Ring(Ring(rd, n), i) = Ring(rd, n + i)
  BY <1>2 DEF Ring
<1> QED BY <1>1, <1>3

(* The free slots are the ones that follow the stored elements, and        *)
(* advancing the write head by n makes n of them stored.                   *)
LEMMA WriteAdvance ==
  ASSUME NEW rd \in Slot, NEW wr \in Slot, NEW n \in Nat, n <= fifo_get_free_space(rd, wr)
  PROVE  /\ fifo_get_count(rd, Ring(wr, n)) = fifo_get_count(rd, wr) + n
         /\ Ring(wr, n) = Ring(rd, fifo_get_count(rd, wr) + n)
<1> USE CapacityAssumption DEF Slot, Size, Ring, fifo_get_count, fifo_get_free_space
<1>1. CASE rd > wr
  BY <1>1
<1>2. CASE ~(rd > wr) /\ wr + n < Size
  BY <1>2
<1>3. CASE ~(rd > wr) /\ ~(wr + n < Size)
  BY <1>3
<1> QED BY <1>1, <1>2, <1>3

-----------------------------------------------------------------------------
(* Who may be inside a call together with whom.                            *)

(* The contexts keep to what the setup gives them.                         *)
LEMMA Roles ==
  ASSUME TypeOK
  PROVE  /\ Readers \subseteq Context /\ Writers \subseteq Context
         /\ ~Protected => \E r, w \in Context : r # w /\ Readers = {r} /\ Writers = {w}
BY RoleAssumption DEF TypeOK, Protected, Readers, Writers

LEMMA RolesStay ==
  ASSUME UNCHANGED setup
  PROVE  Protected' = Protected /\ Readers' = Readers /\ Writers' = Writers
BY DEF Protected, Readers, Writers

(* At most one context is inside a read or a peek.                         *)
LEMMA OneReader ==
  ASSUME TypeOK, Undisturbed, NEW c \in Context, NEW d \in Context,
         call[c].op \in {"read", "peek"}, call[d].op \in {"read", "peek"}
  PROVE  c = d
<1>1. c \in Readers /\ d \in Readers
  BY DEF Undisturbed, CallsUndisturbed, ReadUndisturbed
<1>2. CASE Protected
  BY <1>2 DEF Undisturbed, CallsUndisturbed, InCritical, Context
<1>3. CASE ~Protected
  BY <1>1, <1>3, Roles
<1> QED BY <1>2, <1>3

(* At most one context is inside a write.                                  *)
LEMMA OneWriter ==
  ASSUME TypeOK, Undisturbed, NEW c \in Context, NEW d \in Context,
         call[c].op = "write", call[d].op = "write"
  PROVE  c = d
<1>1. c \in Writers /\ d \in Writers
  BY DEF Undisturbed, CallsUndisturbed, WriteUndisturbed
<1>2. CASE Protected
  BY <1>2 DEF Undisturbed, CallsUndisturbed, InCritical, Context
<1>3. CASE ~Protected
  BY <1>1, <1>3, Roles
<1> QED BY <1>2, <1>3

(* A context about to call under the critical sections finds nobody        *)
(* inside one.                                                             *)
LEMMA NobodyInside ==
  ASSUME Protected, NEW c \in Context, MayCall(c), NEW d \in Context
  PROVE  call[d].op \notin {"read", "peek", "write"}
BY DEF MayCall, MayStep, InCritical, Context

-----------------------------------------------------------------------------
(* The values a context has outside a call, and a refusal, are well typed. *)
LEMMA IdleType ==
  /\ Idle \in Calls /\ Idle.op = "none"
  /\ Nothing \in Results
  /\ \A op \in {"read", "peek", "write"}, m \in Nat :
       [op |-> op, asked |-> m, n |-> 0, data |-> <<>>] \in Results
<1>1. <<>> \in Seq(Cell)
  BY EmptySeq
<1>2. 0 \in Slot /\ 0 \in 0..Capacity /\ -1 \in -1..Capacity /\ 0 \in -1..Capacity
  BY CapacityAssumption DEF Slot, Size
<1> QED BY <1>1, <1>2 DEF Idle, Nothing, Calls, Results

(* hydra_fifo_t starts empty, with nobody inside a call.                   *)
LEMMA InitIInv == Init => IInv
<1> SUFFICES ASSUME Init PROVE IInv
  OBVIOUS
<1>1. TypeOK
  <2>1. Idle \in Calls /\ Nothing \in Results
    BY IdleType
  <2>2. Zero \in Cell /\ 0 \in Slot /\ -1 \in -1..Capacity
    BY CapacityAssumption DEF Cell, Slot, Size
  <2> QED BY <2>1, <2>2 DEF Init, TypeOK
<1>2. StoredAreWritten
  BY CapacityAssumption DEF Init, StoredAreWritten, Count, fifo_get_count
<1>3. \A c \in Context : call[c].op = "none"
  BY DEF Init, Idle
<1>4. ~InCritical("main")
  BY <1>3 DEF InCritical, Context
<1>5. Undisturbed
  BY <1>3, <1>4 DEF Undisturbed, CallsUndisturbed
<1> QED BY <1>1, <1>2, <1>5 DEF IInv

(* Any step that leaves the ring alone and gives context c a fresh call    *)
(* (or none) keeps everything, provided the fresh call is sound.           *)
LEMMA NewCall ==
  ASSUME IInv, UNCHANGED setup, NEW c \in Context, NEW l, MayCall(c) \/ l.op = "none",
         call' = [call EXCEPT ![c] = l],
         UNCHANGED <<rd_idx, wr_idx, buffer>>,
         l \in Calls,
         ret' \in [Context -> Results],
         counted' \in [Context -> -1..Capacity],
         l.op \in {"read", "peek"} => c \in Readers /\ ReadUndisturbed(l, rd_idx, wr_idx, buffer),
         l.op = "write" => c \in Writers /\ WriteUndisturbed(l, rd_idx, wr_idx, buffer)
  PROVE  IInv'
<1> USE DEF IInv
<1>1. TypeOK'
  BY DEF TypeOK
<1>2. StoredAreWritten'
  BY DEF StoredAreWritten, Count
<1>3. call'[c] = l /\ \A d \in Context : d # c => call'[d] = call[d]
  BY DEF TypeOK
<1>4. \A d \in Context :
        /\ call'[d].op \in {"read", "peek"} =>
             d \in Readers /\ ReadUndisturbed(call'[d], rd_idx', wr_idx', buffer')
        /\ call'[d].op = "write" =>
             d \in Writers /\ WriteUndisturbed(call'[d], rd_idx', wr_idx', buffer')
  BY <1>3 DEF Undisturbed, CallsUndisturbed
<1>5. ~(InCritical("main")' /\ InCritical("isr")')
  BY <1>3, RolesStay DEF InCritical, MayCall, MayStep, Undisturbed, CallsUndisturbed, Context
<1>6. Undisturbed'
  BY <1>4, <1>5, RolesStay DEF Undisturbed, CallsUndisturbed
<1> QED BY <1>1, <1>2, <1>6

(* A context whose call is over or refused.                                *)
LEMMA EndCall ==
  ASSUME IInv, UNCHANGED setup, NEW c \in Context,
         call' = [call EXCEPT ![c] = Idle],
         UNCHANGED <<rd_idx, wr_idx, buffer>>,
         ret' \in [Context -> Results],
         counted' \in [Context -> -1..Capacity]
  PROVE  IInv'
<1> QED BY IdleType, NewCall

(* The type of the results a call leaves behind.                           *)
LEMMA ResultType ==
  ASSUME TypeOK, NEW c \in Context, NEW r \in Results, NEW m \in -1..Capacity
  PROVE  /\ [ret EXCEPT ![c] = r] \in [Context -> Results]
         /\ [counted EXCEPT ![c] = m] \in [Context -> -1..Capacity]
BY DEF TypeOK

(* What the head of a call leaves in ret and counted is well typed.        *)
LEMMA BeginResults ==
  ASSUME TypeOK, NEW c \in Context, NEW op \in {"read", "peek", "write"}, NEW n \in Nat,
         NEW data, NEW m, BeginCall(c, op, n, data, m)
  PROVE  ret' \in [Context -> Results] /\ counted' \in [Context -> -1..Capacity]
<1>1. -1 \in -1..Capacity
  BY CapacityAssumption
<1>2. counted' = [counted EXCEPT ![c] = -1]
  BY DEF BeginCall
<1>3. \/ ret' = [ret EXCEPT ![c] = [op |-> op, asked |-> n, n |-> 0, data |-> <<>>]]
      \/ ret' = [ret EXCEPT ![c] = Nothing]
  BY DEF BeginCall, Returns
<1> QED BY <1>1, <1>2, <1>3, IdleType, ResultType

(* A read or a peek that starts finds its elements stored.                 *)
LEMMA BeginReadStep ==
  ASSUME IInv, UNCHANGED setup, NEW c \in Readers, NEW n \in Nat, NEW op \in {"read", "peek"},
         BeginCall(c, op, n, <<>>, fifo_read_n_count(n, rd_idx, wr_idx))
  PROVE  IInv'
<1> DEFINE m == fifo_read_n_count(n, rd_idx, wr_idx)
           l == [op |-> op, asked |-> n, n |-> m, rd |-> rd_idx, wr |-> wr_idx, data |-> <<>>, k |-> 0]
<1>1. c \in Context /\ rd_idx \in Slot /\ wr_idx \in Slot
  BY Roles DEF IInv, TypeOK
<1>2. /\ fifo_get_count(rd_idx, wr_idx) \in 0..Capacity
      /\ m = IF n <= fifo_get_count(rd_idx, wr_idx) THEN n ELSE 0
  BY <1>1, CountAndFree, ReadAllOrNothing
<1> HIDE DEF m
<1>3. m \in 0..Capacity /\ (m # 0 => m = n /\ m >= 1 /\ m <= fifo_get_count(rd_idx, wr_idx))
  BY <1>2, CapacityAssumption
<1>4. <<>> \in Seq(Cell) /\ Len(<<>>) = 0 /\ 0 \in 0..Capacity
  BY EmptySeq, CapacityAssumption
<1>5. ret' \in [Context -> Results] /\ counted' \in [Context -> -1..Capacity]
  BY <1>1, BeginResults DEF IInv
<1>6. CASE m = 0
  BY <1>1, <1>5, <1>6, EndCall DEF BeginCall, Returns, m
<1>7. CASE m # 0
  <2>1. call' = [call EXCEPT ![c] = l] /\ MayCall(c) /\ UNCHANGED <<rd_idx, wr_idx, buffer>>
    BY <1>7 DEF BeginCall, m
  <2>2. l \in Calls
    BY <1>1, <1>3, <1>4 DEF Calls
  <2>3. ReadUndisturbed(l, rd_idx, wr_idx, buffer) /\ l.op # "write"
    BY <1>3, <1>4, <1>7 DEF ReadUndisturbed
  <2> HIDE DEF l
  <2> QED BY <1>1, <1>5, <2>1, <2>2, <2>3, NewCall
<1> QED BY <1>6, <1>7

(* A write that starts finds its slots free.                               *)
LEMMA BeginWriteStep ==
  ASSUME IInv, UNCHANGED setup, NEW c \in Context, NEW s \in Seq(Value), fifo_write(c, s)
  PROVE  IInv'
<1> DEFINE m == fifo_write_n_count(Len(s), rd_idx, wr_idx)
           l == [op |-> "write", asked |-> Len(s), n |-> m, rd |-> rd_idx, wr |-> wr_idx, data |-> s, k |-> 0]
<1>1. c \in Writers /\ rd_idx \in Slot /\ wr_idx \in Slot /\ Len(s) \in Nat
  BY DEF IInv, TypeOK, fifo_write
<1>2. /\ fifo_get_free_space(rd_idx, wr_idx) \in 0..Capacity
      /\ m = IF Len(s) <= fifo_get_free_space(rd_idx, wr_idx) THEN Len(s) ELSE 0
  BY <1>1, CountAndFree, WriteAllOrNothing, CapacityAssumption
<1>0. BeginCall(c, "write", Len(s), s, m)
  BY DEF fifo_write
<1> HIDE DEF m
<1>3. m \in 0..Capacity /\ (m # 0 => m >= 1 /\ m <= fifo_get_free_space(rd_idx, wr_idx) /\ m = Len(s))
  BY <1>1, <1>2, CapacityAssumption
<1>4. s \in Seq(Cell) /\ 0 \in 0..Capacity
  BY SeqMonotonic, CapacityAssumption DEF Cell
<1>5. ret' \in [Context -> Results] /\ counted' \in [Context -> -1..Capacity]
  BY <1>0, <1>1, BeginResults DEF IInv
<1>6. CASE m = 0
  BY <1>0, <1>1, <1>5, <1>6, EndCall DEF BeginCall, Returns
<1>7. CASE m # 0
  <2>1. call' = [call EXCEPT ![c] = l] /\ MayCall(c) /\ UNCHANGED <<rd_idx, wr_idx, buffer>>
    BY <1>0, <1>7 DEF BeginCall
  <2>2. l \in Calls
    BY <1>1, <1>3, <1>4 DEF Calls
  <2>3. WriteUndisturbed(l, rd_idx, wr_idx, buffer) /\ l.op = "write"
    BY <1>1, <1>3, <1>4, <1>7 DEF WriteUndisturbed
  <2> HIDE DEF l
  <2> QED BY <1>1, <1>5, <2>1, <2>2, <2>3, NewCall
<1> QED BY <1>6, <1>7

(* What the invariant says of a read, a peek or a write under way.         *)
LEMMA ReadFacts ==
  ASSUME TypeOK, Undisturbed, NEW c \in Context, call[c].op \in {"read", "peek"}
  PROVE  /\ call[c] \in Calls /\ c \in Readers
         /\ rd_idx \in Slot /\ wr_idx \in Slot /\ buffer \in [Slot -> Cell]
         /\ call[c].rd = rd_idx /\ call[c].wr \in Slot
         /\ call[c].n \in Nat /\ 1 <= call[c].n /\ call[c].n <= Capacity
         /\ call[c].asked = call[c].n
         /\ call[c].n <= fifo_get_count(rd_idx, wr_idx)
         /\ call[c].n <= fifo_get_count(rd_idx, call[c].wr)
         /\ call[c].k \in Nat /\ call[c].k <= call[c].n
         /\ call[c].data \in Seq(Cell) /\ Len(call[c].data) = call[c].k
         /\ \A i \in 1..call[c].k : call[c].data[i] = buffer[Ring(rd_idx, i)]
<1> DEFINE l == call[c]
<1>1. c \in Readers /\ ReadUndisturbed(l, rd_idx, wr_idx, buffer)
  BY DEF Undisturbed, CallsUndisturbed
<1>2. l \in Calls /\ rd_idx \in Slot /\ wr_idx \in Slot /\ buffer \in [Slot -> Cell]
  BY DEF TypeOK
<1> HIDE DEF l
<1>3. /\ l.n \in 0..Capacity /\ l.rd \in Slot /\ l.wr \in Slot /\ l.k \in 0..Capacity
      /\ l.data \in Seq(Cell)
  BY <1>2 DEF Calls
<1>4. /\ c \in Readers /\ l.rd = rd_idx /\ l.asked = l.n /\ l.n >= 1 /\ l.n <= fifo_get_count(rd_idx, wr_idx)
      /\ l.n <= fifo_get_count(rd_idx, l.wr) /\ l.k <= l.n /\ Len(l.data) = l.k
  BY <1>1 DEF ReadUndisturbed
<1>5. \A i \in 1..l.k : l.data[i] = buffer[Ring(rd_idx, i)]
  BY <1>1 DEF ReadUndisturbed
<1>6. l.n \in Nat /\ l.k \in Nat /\ 1 <= l.n /\ l.n <= Capacity
  BY <1>3, <1>4, CapacityAssumption
<1> QED BY <1>2, <1>3, <1>4, <1>5, <1>6 DEF l

(* The same for a write under way.                                         *)
LEMMA WriteFacts ==
  ASSUME TypeOK, Undisturbed, NEW c \in Context, call[c].op = "write"
  PROVE  /\ call[c] \in Calls /\ c \in Writers
         /\ rd_idx \in Slot /\ wr_idx \in Slot /\ buffer \in [Slot -> Cell]
         /\ call[c].wr = wr_idx /\ call[c].rd \in Slot
         /\ call[c].n \in Nat /\ 1 <= call[c].n /\ call[c].n <= Capacity
         /\ call[c].asked = call[c].n
         /\ call[c].n <= fifo_get_free_space(rd_idx, wr_idx)
         /\ call[c].n <= fifo_get_free_space(call[c].rd, wr_idx)
         /\ call[c].k \in Nat /\ call[c].k <= call[c].n
         /\ call[c].data \in Seq(Value) /\ Len(call[c].data) = call[c].n
         /\ \A i \in 1..call[c].k : buffer[Ring(wr_idx, i)] = call[c].data[i]
<1> DEFINE l == call[c]
<1>1. c \in Writers /\ WriteUndisturbed(l, rd_idx, wr_idx, buffer)
  BY DEF Undisturbed, CallsUndisturbed
<1>2. l \in Calls /\ rd_idx \in Slot /\ wr_idx \in Slot /\ buffer \in [Slot -> Cell]
  BY DEF TypeOK
<1> HIDE DEF l
<1>3. l.n \in 0..Capacity /\ l.rd \in Slot /\ l.wr \in Slot /\ l.k \in 0..Capacity
  BY <1>2 DEF Calls
<1>4. /\ c \in Writers /\ l.wr = wr_idx /\ l.asked = l.n /\ l.n >= 1
      /\ l.n <= fifo_get_free_space(rd_idx, wr_idx)
      /\ l.n <= fifo_get_free_space(l.rd, wr_idx) /\ l.k <= l.n
      /\ Len(l.data) = l.n /\ l.data \in Seq(Value)
  BY <1>1 DEF WriteUndisturbed
<1>5. \A i \in 1..l.k : buffer[Ring(wr_idx, i)] = l.data[i]
  BY <1>1 DEF WriteUndisturbed
<1>6. l.n \in Nat /\ l.k \in Nat /\ 1 <= l.n /\ l.n <= Capacity
  BY <1>3, <1>4, CapacityAssumption
<1> QED BY <1>2, <1>3, <1>4, <1>5, <1>6 DEF l

(* A step by which one call goes on, in the same operation, and the ring   *)
(* changes only outside the stored elements.                               *)
LEMMA OnwardCall ==
  ASSUME IInv, UNCHANGED setup, NEW c \in Context, NEW m \in Calls, m.op = call[c].op,
         call' = [call EXCEPT ![c] = m],
         UNCHANGED <<rd_idx, wr_idx, ret, counted>>,
         buffer' \in [Slot -> Cell],
         \A i \in 1..fifo_get_count(rd_idx, wr_idx) :
           buffer'[Ring(rd_idx, i)] = buffer[Ring(rd_idx, i)],
         buffer' = buffer \/ m.op = "write",
         m.op \in {"read", "peek"} => c \in Readers /\ ReadUndisturbed(m, rd_idx, wr_idx, buffer'),
         m.op = "write" => c \in Writers /\ WriteUndisturbed(m, rd_idx, wr_idx, buffer')
  PROVE  IInv'
<1>1. call'[c] = m /\ \A d \in Context : d # c => call'[d] = call[d]
  BY DEF IInv, TypeOK
<1>2. TypeOK'
  BY DEF IInv, TypeOK
<1>3. StoredAreWritten'
  BY DEF IInv, StoredAreWritten, Count
<1>4. ASSUME NEW d \in Context, call'[d].op \in {"read", "peek"}
      PROVE  d \in Readers /\ ReadUndisturbed(call'[d], rd_idx, wr_idx, buffer')
  <2>1. CASE d = c
    BY <1>1, <1>4, <2>1
  <2>2. CASE d # c
    <3>1. call'[d] = call[d]
      BY <1>1, <2>2
    <3>2. d \in Readers /\ ReadUndisturbed(call[d], rd_idx, wr_idx, buffer)
      BY <1>4, <3>1 DEF IInv, Undisturbed, CallsUndisturbed
    <3>3. /\ call[d].n \in Nat /\ call[d].k \in Nat /\ call[d].k <= call[d].n
          /\ call[d].n <= fifo_get_count(rd_idx, wr_idx)
          /\ fifo_get_count(rd_idx, wr_idx) \in Int
      BY <1>4, <3>1, ReadFacts, CountAndFree DEF IInv
    <3>4. \A i \in 1..call[d].k : i \in 1..fifo_get_count(rd_idx, wr_idx)
      BY <3>3
    <3> QED BY <3>1, <3>2, <3>4 DEF ReadUndisturbed
  <2> QED BY <2>1, <2>2
<1>5. ASSUME NEW d \in Context, call'[d].op = "write"
      PROVE  d \in Writers /\ WriteUndisturbed(call'[d], rd_idx, wr_idx, buffer')
  <2>1. CASE d = c
    BY <1>1, <1>5, <2>1
  <2>2. CASE d # c /\ buffer' = buffer
    BY <1>1, <1>5, <2>2 DEF IInv, Undisturbed, CallsUndisturbed
  <2>3. CASE d # c /\ m.op = "write"
    BY <1>1, <1>5, <2>3, OneWriter DEF IInv
  <2> QED BY <2>1, <2>2, <2>3
<1>6. ~(InCritical("main")' /\ InCritical("isr")')
  <2>1. \A d \in Context : call'[d].op = call[d].op
    BY <1>1
  <2> QED BY <2>1, RolesStay DEF IInv, Undisturbed, CallsUndisturbed, InCritical, Context
<1>7. Undisturbed'
  BY <1>4, <1>5, <1>6, RolesStay DEF Undisturbed, CallsUndisturbed
<1> QED BY <1>2, <1>3, <1>7 DEF IInv

(* One element copied to the caller is the next one of the ring.           *)
LEMMA CopyOutStep ==
  ASSUME IInv, UNCHANGED setup, NEW c \in Context, CopyOut(c)
  PROVE  IInv'
<1> DEFINE l == call[c]
           e == buffer[ReadSlot(l.n, l.rd, l.wr, l.k + 1)]
           m == [l EXCEPT !.data = Append(l.data, e), !.k = l.k + 1]
<1>1. l.op \in {"read", "peek"} /\ l.k < l.n
  BY DEF CopyOut
<1>2. /\ l \in Calls /\ c \in Readers
      /\ rd_idx \in Slot /\ wr_idx \in Slot /\ buffer \in [Slot -> Cell]
      /\ l.rd = rd_idx /\ l.wr \in Slot
      /\ l.n \in Nat /\ 1 <= l.n /\ l.n <= Capacity /\ l.asked = l.n
      /\ l.n <= fifo_get_count(rd_idx, wr_idx)
      /\ l.n <= fifo_get_count(rd_idx, l.wr)
      /\ l.k \in Nat /\ l.k <= l.n
      /\ l.data \in Seq(Cell) /\ Len(l.data) = l.k
      /\ \A i \in 1..l.k : l.data[i] = buffer[Ring(rd_idx, i)]
  BY <1>1, ReadFacts DEF IInv
<1>3. /\ l.k + 1 \in Nat /\ 1 <= l.k + 1 /\ l.k + 1 <= l.n
      /\ l.k + 1 \in 0..Capacity
  BY <1>1, <1>2, CapacityAssumption
<1>4. e = buffer[Ring(rd_idx, l.k + 1)]
  BY <1>2, <1>3, ReadSlots
<1>5. e \in Cell
  BY <1>2, <1>3, <1>4, AdvanceWraps
<1>6. /\ call' = [call EXCEPT ![c] = m]
      /\ UNCHANGED <<rd_idx, wr_idx, buffer, ret, counted>>
  BY <1>2 DEF CopyOut, IInv, TypeOK, Calls
<1>7. /\ m.rd = l.rd /\ m.wr = l.wr /\ m.n = l.n /\ m.asked = l.asked /\ m.k = l.k + 1
      /\ m.data = Append(l.data, e) /\ m.op = l.op
  BY <1>2 DEF Calls
<1>8. m \in Calls
  <2> HIDE DEF e
  <2>1. Append(l.data, e) \in Seq(Cell)
    BY <1>2, <1>5
  <2> QED BY <1>2, <1>3, <2>1 DEF Calls
<1> HIDE DEF m, e
<1>9. ReadUndisturbed(m, rd_idx, wr_idx, buffer)
  <2>1. Len(m.data) = l.k + 1
    BY <1>2, <1>7
  <2>2. ASSUME NEW i \in 1..m.k PROVE m.data[i] = buffer[Ring(rd_idx, i)]
    BY <1>2, <1>4, <1>7
  <2> QED BY <1>2, <1>3, <1>7, <2>1, <2>2 DEF ReadUndisturbed
<1>10. m.op # "write"
  BY <1>1, <1>7
<1> QED BY <1>2, <1>6, <1>7, <1>8, <1>9, <1>10, OnwardCall

(* One element copied into the ring lands in a free slot.                  *)
LEMMA CopyInStep ==
  ASSUME IInv, UNCHANGED setup, NEW c \in Context, CopyIn(c)
  PROVE  IInv'
<1> DEFINE l == call[c]
           m == [l EXCEPT !.k = l.k + 1]
           f == Ring(wr_idx, l.k + 1)
           e == l.data[l.k + 1]
           stored == fifo_get_count(rd_idx, wr_idx)
<1>1. l.op = "write" /\ l.k < l.n
  BY DEF CopyIn
<1>2. /\ l \in Calls /\ c \in Writers
      /\ rd_idx \in Slot /\ wr_idx \in Slot /\ buffer \in [Slot -> Cell]
      /\ l.wr = wr_idx /\ l.rd \in Slot
      /\ l.n \in Nat /\ 1 <= l.n /\ l.n <= Capacity /\ l.asked = l.n
      /\ l.n <= fifo_get_free_space(rd_idx, wr_idx)
      /\ l.n <= fifo_get_free_space(l.rd, wr_idx)
      /\ l.k \in Nat /\ l.k <= l.n
      /\ l.data \in Seq(Value) /\ Len(l.data) = l.n
      /\ \A i \in 1..l.k : buffer[Ring(wr_idx, i)] = l.data[i]
  BY <1>1, WriteFacts DEF IInv
<1>3. /\ l.k + 1 \in Nat /\ 1 <= l.k + 1 /\ l.k + 1 <= l.n
      /\ l.k + 1 \in 0..Capacity
  BY <1>1, <1>2, CapacityAssumption
<1>4. /\ stored \in 0..Capacity
      /\ fifo_get_free_space(rd_idx, wr_idx) = Capacity - stored
  BY <1>2, CountAndFree
<1>14. /\ l.k + 1 <= fifo_get_free_space(rd_idx, wr_idx)
       /\ stored + (l.k + 1) \in 0..Capacity
  <2> HIDE DEF stored, l
  <2> QED BY <1>2, <1>3, <1>4, CapacityAssumption
<1>5. e \in Value /\ e \in Cell /\ f \in Slot
  BY <1>2, <1>3, ElementOfSeq, AdvanceWraps DEF Cell
<1>6. WriteSlot(l.n, l.rd, l.wr, l.k + 1) = f
  BY <1>2, <1>3, WriteSlots
<1>7. /\ buffer' = [buffer EXCEPT ![f] = e]
      /\ call' = [call EXCEPT ![c] = m] /\ UNCHANGED <<rd_idx, wr_idx, ret, counted>>
  BY <1>2, <1>6 DEF CopyIn, IInv, TypeOK, Calls
<1>8. /\ m.rd = l.rd /\ m.wr = l.wr /\ m.n = l.n /\ m.asked = l.asked /\ m.k = l.k + 1 /\ m.data = l.data
      /\ m.op = l.op /\ m \in Calls
  BY <1>2, <1>3 DEF Calls
<1> HIDE DEF m, e
(* The slot written is none of the stored ones, nor one written before.    *)
<1>9. ASSUME NEW i \in 1..stored
      PROVE  buffer'[Ring(rd_idx, i)] = buffer[Ring(rd_idx, i)]
  <2>1. f = Ring(rd_idx, stored + (l.k + 1))
    BY <1>2, <1>3, <1>14, WriteAdvance
  <2> HIDE DEF stored, f, l
  <2>2. i \in 0..Capacity /\ i # stored + (l.k + 1)
    BY <1>3, <1>4, CapacityAssumption
  <2>3. Ring(rd_idx, i) # f
    BY <1>2, <1>14, <2>1, <2>2, RingInjective
  <2> QED BY <1>7, <2>3, <1>2, <2>2, AdvanceWraps
<1>10. ASSUME NEW i \in 1..m.k PROVE buffer'[Ring(wr_idx, i)] = m.data[i]
  <2> HIDE DEF l
  <2>1. i \in Nat /\ 1 <= i /\ i <= l.k + 1 /\ i \in 0..Capacity
    BY <1>2, <1>3, <1>8, CapacityAssumption
  <2>2. CASE i = l.k + 1
    BY <1>2, <1>5, <1>7, <1>8, <2>2 DEF e
  <2>3. CASE i # l.k + 1
    <3>1. Ring(wr_idx, i) \in Slot
      BY <1>2, <2>1, AdvanceWraps
    <3>2. Ring(wr_idx, i) # f
      BY <1>2, <1>3, <2>1, <2>3, RingInjective
    <3>3. i \in 1..l.k
      BY <1>2, <2>1, <2>3
    <3>4. buffer[Ring(wr_idx, i)] = l.data[i]
      BY <1>2, <3>3
    <3> QED BY <1>2, <1>7, <1>8, <3>1, <3>2, <3>4
  <2> QED BY <2>2, <2>3
<1>11. c \in Writers /\ WriteUndisturbed(m, rd_idx, wr_idx, buffer')
  BY <1>2, <1>3, <1>8, <1>10 DEF WriteUndisturbed
<1>12. buffer' \in [Slot -> Cell]
  BY <1>2, <1>5, <1>7
<1>13. m.op = "write"
  BY <1>1, <1>8
<1> QED BY <1>7, <1>8, <1>9, <1>11, <1>12, <1>13, OnwardCall

(* A peek leaves the ring alone.                                           *)
LEMMA FinishPeekStep ==
  ASSUME IInv, UNCHANGED setup, NEW c \in Context, FinishPeek(c)
  PROVE  IInv'
<1>1. call[c] \in Calls
  BY DEF IInv, TypeOK
<1>2. [op |-> "peek", asked |-> call[c].asked, n |-> call[c].n, data |-> call[c].data] \in Results
  BY <1>1, CapacityAssumption DEF Calls, Results
<1>3. ret' \in [Context -> Results] /\ counted' \in [Context -> -1..Capacity]
  BY <1>2 DEF IInv, TypeOK, FinishPeek, Returns
<1> QED BY <1>3, EndCall DEF FinishPeek, Returns

(* The read head moves past the elements that were copied out.             *)
LEMMA FinishReadStep ==
  ASSUME IInv, UNCHANGED setup, NEW c \in Context, FinishRead(c)
  PROVE  IInv'
<1> DEFINE n == call[c].n
           stored == fifo_get_count(rd_idx, wr_idx)
<1>1. /\ call[c] \in Calls /\ n \in Nat /\ 1 <= n /\ n <= stored /\ n <= Capacity
      /\ rd_idx \in Slot /\ wr_idx \in Slot
  BY ReadFacts DEF IInv, FinishRead
<1>2. /\ stored \in 0..Capacity /\ n \in 0..Capacity
      /\ fifo_get_free_space(rd_idx, wr_idx) = Capacity - stored
  BY <1>1, CountAndFree, CapacityAssumption
<1>3. rd_idx' = Ring(rd_idx, n) /\ rd_idx' \in Slot /\ UNCHANGED <<wr_idx, buffer, counted>>
  BY <1>1, <1>2, AdvanceWraps DEF FinishRead
<1>4. fifo_get_count(rd_idx', wr_idx) = stored - n
  BY <1>1, <1>3, ReadAdvance
<1>5. /\ call'[c] = Idle /\ \A d \in Context : d # c => call'[d] = call[d]
  BY DEF FinishRead, Returns, IInv, TypeOK
<1>6. TypeOK'
  <2>1. [op |-> "read", asked |-> call[c].asked, n |-> n, data |-> call[c].data] \in Results
    BY <1>1, <1>2, CapacityAssumption DEF Calls, Results
  <2> QED BY <1>3, <2>1, IdleType DEF FinishRead, Returns, IInv, TypeOK
<1>7. StoredAreWritten'
  <2> SUFFICES ASSUME NEW i \in 1..(stored - n)
               PROVE  buffer[Ring(rd_idx', i)] \in Value
    BY <1>3, <1>4 DEF StoredAreWritten, Count
  <2> HIDE DEF stored, n
  <2>1. i \in 0..(Capacity - n) /\ n + i \in 1..stored
    BY <1>1, <1>2, CapacityAssumption
  <2>2. Ring(rd_idx', i) = Ring(rd_idx, n + i)
    BY <1>1, <1>3, <2>1, ReadAdvance DEF stored
  <2> QED BY <2>1, <2>2 DEF IInv, StoredAreWritten, Count, stored
<1>8. ASSUME NEW d \in Context
      PROVE  call'[d].op \notin {"read", "peek"}
  <2>1. CASE d = c
    BY <1>5, <2>1, IdleType
  <2>2. CASE d # c
    BY <1>5, <2>2, OneReader DEF IInv, FinishRead
  <2> QED BY <2>1, <2>2
<1>9. ASSUME NEW d \in Context, call'[d].op = "write"
      PROVE  d \in Writers /\ WriteUndisturbed(call'[d], rd_idx', wr_idx', buffer')
  <2>1. d # c /\ call'[d] = call[d]
    BY <1>5, <1>9, IdleType
  <2>2. d \in Writers /\ WriteUndisturbed(call[d], rd_idx, wr_idx, buffer)
    BY <1>9, <2>1 DEF IInv, Undisturbed, CallsUndisturbed
  <2>3. call[d].n \in Nat /\ call[d].n <= fifo_get_free_space(rd_idx, wr_idx)
    BY <1>9, <2>1, WriteFacts DEF IInv
  <2>4. call[d].n <= fifo_get_free_space(rd_idx', wr_idx)
    <3>1. fifo_get_free_space(rd_idx', wr_idx) = Capacity - (stored - n)
      BY <1>1, <1>3, <1>4, CountAndFree
    <3> HIDE DEF stored, n
    <3> QED BY <1>1, <1>2, <2>3, <3>1, CapacityAssumption
  <2> QED BY <1>3, <2>1, <2>2, <2>4 DEF WriteUndisturbed
<1>10. ~(InCritical("main")' /\ InCritical("isr")')
  BY <1>5, IdleType DEF InCritical, Context, IInv, Undisturbed, CallsUndisturbed
<1>11. Undisturbed'
  BY <1>8, <1>9, <1>10, RolesStay DEF Undisturbed, CallsUndisturbed
<1> QED BY <1>6, <1>7, <1>11 DEF IInv

(* The write head moves past the elements that were copied in.             *)
LEMMA FinishWriteStep ==
  ASSUME IInv, UNCHANGED setup, NEW c \in Context, FinishWrite(c)
  PROVE  IInv'
<1> DEFINE n == call[c].n
           stored == fifo_get_count(rd_idx, wr_idx)
           free == fifo_get_free_space(rd_idx, wr_idx)
<1>1. /\ call[c] \in Calls /\ n \in Nat /\ 1 <= n /\ n <= free /\ n <= Capacity
      /\ rd_idx \in Slot /\ wr_idx \in Slot
      /\ call[c].data \in Seq(Value) /\ Len(call[c].data) = n
      /\ \A i \in 1..n : buffer[Ring(wr_idx, i)] = call[c].data[i]
  BY WriteFacts DEF IInv, FinishWrite
<1>2. stored \in 0..Capacity /\ n \in 0..Capacity /\ free = Capacity - stored
  BY <1>1, CountAndFree, CapacityAssumption
<1>3. wr_idx' = Ring(wr_idx, n) /\ wr_idx' \in Slot /\ UNCHANGED <<rd_idx, buffer, counted>>
  BY <1>1, <1>2, AdvanceWraps DEF FinishWrite
<1>4. fifo_get_count(rd_idx, wr_idx') = stored + n
  BY <1>1, <1>3, WriteAdvance
<1>5. /\ call'[c] = Idle /\ \A d \in Context : d # c => call'[d] = call[d]
  BY DEF FinishWrite, Returns, IInv, TypeOK
<1>6. TypeOK'
  <2>1. [op |-> "write", asked |-> call[c].asked, n |-> n, data |-> <<>>] \in Results
    BY <1>1, <1>2, EmptySeq, CapacityAssumption DEF Calls, Results
  <2> QED BY <1>3, <2>1, IdleType DEF FinishWrite, Returns, IInv, TypeOK
<1>7. StoredAreWritten'
  <2> SUFFICES ASSUME NEW i \in 1..(stored + n)
               PROVE  buffer[Ring(rd_idx, i)] \in Value
    BY <1>3, <1>4 DEF StoredAreWritten, Count
  <2>1. CASE i <= stored
    BY <1>2, <2>1 DEF IInv, StoredAreWritten, Count
  <2>2. CASE i > stored
    <3> DEFINE j == i - stored
    <3>1. j \in 1..n /\ j \in Nat /\ j <= free /\ stored + j = i
      <4> HIDE DEF stored, n, free
      <4> QED BY <1>1, <1>2, <2>2, CapacityAssumption
    <3> HIDE DEF j
    <3>2. Ring(wr_idx, j) = Ring(rd_idx, i)
      BY <1>1, <3>1, WriteAdvance
    <3> QED BY <1>1, <3>1, <3>2, ElementOfSeq
  <2> HIDE DEF stored, n
  <2> QED BY <1>2, <2>1, <2>2
<1>8. ASSUME NEW d \in Context
      PROVE  call'[d].op # "write"
  <2>1. CASE d = c
    BY <1>5, <2>1, IdleType
  <2>2. CASE d # c
    BY <1>5, <2>2, OneWriter DEF IInv, FinishWrite
  <2> QED BY <2>1, <2>2
<1>9. ASSUME NEW d \in Context, call'[d].op \in {"read", "peek"}
      PROVE  d \in Readers /\ ReadUndisturbed(call'[d], rd_idx', wr_idx', buffer')
  <2>1. d # c /\ call'[d] = call[d]
    BY <1>5, <1>9, IdleType
  <2>2. d \in Readers /\ ReadUndisturbed(call[d], rd_idx, wr_idx, buffer)
    BY <1>9, <2>1 DEF IInv, Undisturbed, CallsUndisturbed
  <2>3. call[d].n \in Nat /\ call[d].n <= stored
    BY <1>9, <2>1, ReadFacts DEF IInv
  <2>4. call[d].n <= fifo_get_count(rd_idx, wr_idx')
    <3> HIDE DEF stored, n
    <3> QED BY <1>1, <1>2, <1>4, <2>3, CapacityAssumption
  <2> QED BY <1>3, <2>1, <2>2, <2>4 DEF ReadUndisturbed
<1>10. ~(InCritical("main")' /\ InCritical("isr")')
  BY <1>5, IdleType DEF InCritical, Context, IInv, Undisturbed, CallsUndisturbed
<1>11. Undisturbed'
  BY <1>8, <1>9, <1>10, RolesStay DEF Undisturbed, CallsUndisturbed
<1> QED BY <1>6, <1>7, <1>11 DEF IInv

(* fifo_clean meets nobody inside a call.                                  *)
LEMMA CleanStep ==
  ASSUME IInv, UNCHANGED setup, NEW c \in Context, fifo_clean(c)
  PROVE  IInv'
<1>1. \A d \in Context : call[d].op \notin {"read", "peek", "write"}
  BY NobodyInside DEF fifo_clean
<1>2. TypeOK'
  <2>1. 0 \in Slot /\ Zero \in Cell /\ -1 \in -1..Capacity
    BY CapacityAssumption DEF Slot, Size, Cell
  <2> QED BY <2>1, IdleType DEF fifo_clean, IInv, TypeOK
<1>3. StoredAreWritten'
  BY DEF fifo_clean, StoredAreWritten, Count, fifo_get_count
<1>4. call' = call
  BY DEF fifo_clean
<1>5. ~(InCritical("main")' /\ InCritical("isr")')
  BY <1>1, <1>4 DEF InCritical, Context
<1>6. Undisturbed'
  BY <1>1, <1>4, <1>5 DEF Undisturbed, CallsUndisturbed
<1> QED BY <1>2, <1>3, <1>6 DEF IInv

(* fifo_count changes nothing but what its caller knows.                   *)
LEMMA CountStep ==
  ASSUME IInv, UNCHANGED setup, NEW c \in Context, fifo_count(c) \/ FinishCount(c)
  PROVE  IInv'
<1>1. CASE fifo_count(c)
  <2>1. rd_idx \in Slot /\ wr_idx \in Slot
    BY DEF IInv, TypeOK
  <2>2. PICK l : /\ call' = [call EXCEPT ![c] = l]
                 /\ \/ l = [Idle EXCEPT !.op = "count_rd", !.rd = rd_idx]
                    \/ l = [Idle EXCEPT !.op = "count_wr", !.wr = wr_idx]
    BY <1>1 DEF fifo_count
  <2>3. l \in Calls /\ l.op \in {"count_rd", "count_wr"}
    BY <2>1, <2>2, IdleType DEF Calls, Idle
  <2>4. ret' \in [Context -> Results] /\ counted' \in [Context -> -1..Capacity]
    <3>1. -1 \in -1..Capacity
      BY CapacityAssumption
    <3> QED BY <1>1, <3>1, IdleType DEF fifo_count, IInv, TypeOK
  <2> QED BY <1>1, <2>2, <2>3, <2>4, NewCall DEF fifo_count
<1>2. CASE FinishCount(c)
  <2>1. /\ rd_idx \in Slot /\ wr_idx \in Slot
        /\ call[c].rd \in Slot /\ call[c].wr \in Slot
    BY DEF IInv, TypeOK, Calls
  <2>2. /\ fifo_get_count(call[c].rd, wr_idx) \in 0..Capacity
        /\ fifo_get_count(rd_idx, call[c].wr) \in 0..Capacity
    BY <2>1, CountAndFree
  <2>3. /\ fifo_get_count(call[c].rd, wr_idx) \in -1..Capacity
        /\ fifo_get_count(rd_idx, call[c].wr) \in -1..Capacity
    BY <2>2, CapacityAssumption
  <2>4. counted' \in [Context -> -1..Capacity] /\ ret' \in [Context -> Results]
    BY <1>2, <2>3 DEF FinishCount, IInv, TypeOK
  <2> QED BY <1>2, <2>4, EndCall DEF FinishCount
<1> QED BY <1>1, <1>2

-----------------------------------------------------------------------------
(* Every step of every context keeps the inductive invariant.              *)
LEMMA NextIInv == IInv /\ [Next]_vars => IInv'
<1> SUFFICES ASSUME IInv, [Next]_vars PROVE IInv'
  OBVIOUS
<1>1. CASE UNCHANGED vars
  BY <1>1, RolesStay DEF vars, IInv, TypeOK, StoredAreWritten, Count, Undisturbed, CallsUndisturbed, InCritical
<1>2. ASSUME NEW c \in Context, UNCHANGED setup, fifo_read(c) PROVE IInv'
  <2>1. fifo_get_count(rd_idx, wr_idx) \in Nat
    BY CountAndFree, CapacityAssumption DEF IInv, TypeOK
  <2> QED BY <1>2, <2>1, BeginReadStep DEF fifo_read, fifo_read_n
<1>3. ASSUME NEW c \in Context, UNCHANGED setup, NEW n \in 0..MaxN,
             fifo_read_n(c, n) \/ fifo_peek_n(c, n)
      PROVE  IInv'
  <2>1. n \in Nat
    BY BoundAssumption
  <2> QED BY <1>3, <2>1, BeginReadStep DEF fifo_read_n, fifo_peek_n
<1>4. ASSUME NEW c \in Context, UNCHANGED setup, NEW n \in 0..MaxN,
             NEW s \in [1..n -> Value], fifo_write(c, s)
      PROVE  IInv'
  <2>1. s \in Seq(Value)
    BY BoundAssumption, SeqDef
  <2> QED BY <1>4, <2>1, BeginWriteStep
<1>5. CASE Next
  BY <1>2, <1>3, <1>4, <1>5, CopyOutStep, CopyInStep, FinishReadStep, FinishPeekStep,
     FinishWriteStep, CleanStep, CountStep DEF Next
<1> QED BY <1>1, <1>5

(* The inductive invariant holds in every reachable state of fifo.h.       *)
THEOREM Invariance == Spec => []IInv
<1> QED BY InitIInv, NextIInv, PTL DEF Spec

(* The indices stay inside the ring and the locals of the calls inside     *)
(* their ranges, for every capacity.                                       *)
THEOREM TypeCorrect == Spec => []TypeOK
<1>1. IInv => TypeOK
  BY DEF IInv
<1> QED BY <1>1, Invariance, PTL

(* No call ever returns a slot nobody wrote.                               *)
THEOREM OnlyWrittenAreStored == Spec => []StoredAreWritten
<1>1. IInv => StoredAreWritten
  BY DEF IInv
<1> QED BY <1>1, Invariance, PTL

(* A preempted call resumes on locals that are still good: what fifo.h     *)
(* requires of the critical sections, or of keeping to one role.           *)
THEOREM Reentrant == Spec => []CallsUndisturbed
<1>1. IInv => CallsUndisturbed
  BY DEF IInv, Undisturbed
<1> QED BY <1>1, Invariance, PTL

-----------------------------------------------------------------------------
(* fifo_count without critical sections.                                   *)

(* What the only reader or the only writer knows of the ring while it      *)
(* counts and afterwards: its own index has not moved, and the other one   *)
(* only in its favour.                                                     *)
KnowsReader(c) ==
  /\ counted[c] # -1 => counted[c] <= Count
  /\ call[c].op = "count_rd" => call[c].rd = rd_idx
  /\ call[c].op = "count_wr" => fifo_get_count(rd_idx, call[c].wr) <= Count

KnowsWriter(c) ==
  /\ counted[c] # -1 => counted[c] >= Count
  /\ call[c].op = "count_wr" => call[c].wr = wr_idx
  /\ call[c].op = "count_rd" => fifo_get_count(call[c].rd, wr_idx) >= Count

CountInv ==
  \A c \in Context :
    /\ call[c].op # "none" => counted[c] = -1
    /\ Readers = {c} /\ ~Protected => KnowsReader(c)
    /\ Writers = {c} /\ ~Protected => KnowsWriter(c)

(* A step that leaves the indices alone keeps what the contexts know, if   *)
(* it keeps what context c knows and does not touch the other.             *)
LEMMA OneKnows ==
  ASSUME CountInv, UNCHANGED setup, NEW c \in Context, UNCHANGED <<rd_idx, wr_idx>>,
         \A d \in Context \ {c} : call'[d] = call[d] /\ counted'[d] = counted[d],
         call'[c].op # "none" => counted'[c] = -1,
         Readers = {c} /\ ~Protected => KnowsReader(c)',
         Writers = {c} /\ ~Protected => KnowsWriter(c)'
  PROVE  CountInv'
<1> SUFFICES ASSUME NEW d \in Context
             PROVE  /\ call'[d].op # "none" => counted'[d] = -1
                    /\ Readers = {d} /\ ~Protected => KnowsReader(d)'
                    /\ Writers = {d} /\ ~Protected => KnowsWriter(d)'
  BY RolesStay DEF CountInv
<1>1. CASE d = c
  BY <1>1
<1>2. CASE d # c
  BY <1>2 DEF CountInv, KnowsReader, KnowsWriter, Count
<1> QED BY <1>1, <1>2

(* A context that is in a call, or has nothing counted, knows nothing.     *)
LEMMA NothingKnown ==
  ASSUME NEW c \in Context, counted'[c] = -1, call'[c].op \notin {"count_rd", "count_wr"}
  PROVE  KnowsReader(c)' /\ KnowsWriter(c)'
BY DEF KnowsReader, KnowsWriter

LEMMA CountInit == Init => CountInv
BY DEF Init, CountInv, KnowsReader, KnowsWriter, Idle

(* The head of a read, a peek or a write.                                  *)
LEMMA CountBegin ==
  ASSUME IInv, CountInv, UNCHANGED setup, NEW c \in Context, NEW op \in {"read", "peek", "write"},
         NEW n, NEW data, NEW m, BeginCall(c, op, n, data, m)
  PROVE  CountInv'
<1>1. UNCHANGED <<rd_idx, wr_idx>> /\ counted' = [counted EXCEPT ![c] = -1]
  BY DEF BeginCall
<1>2. counted'[c] = -1 /\ \A d \in Context \ {c} : counted'[d] = counted[d]
  BY <1>1 DEF IInv, TypeOK
<1>3. call'[c].op \in {"none", op} /\ \A d \in Context \ {c} : call'[d] = call[d]
  BY DEF BeginCall, Returns, Idle, IInv, TypeOK
<1>4. call'[c].op \notin {"count_rd", "count_wr"}
  BY <1>3
<1> QED BY <1>1, <1>2, <1>3, <1>4, NothingKnown, OneKnows

(* A copy goes on, or ends without moving an index.                        *)
LEMMA CountCopy ==
  ASSUME IInv, CountInv, UNCHANGED setup, NEW c \in Context, CopyOut(c) \/ CopyIn(c) \/ FinishPeek(c)
  PROVE  CountInv'
<1>1. UNCHANGED <<rd_idx, wr_idx, counted>> /\ call[c].op \in {"read", "peek", "write"}
  BY DEF CopyOut, CopyIn, FinishPeek
<1>2. counted'[c] = -1
  BY <1>1 DEF CountInv
<1>3. call'[c].op \in {"none", call[c].op} /\ \A d \in Context \ {c} : call'[d] = call[d]
  <2>1. call[c] \in Calls /\ call \in [Context -> Calls]
    BY DEF IInv, TypeOK
  <2>2. CASE CopyOut(c)
    BY <2>1, <2>2 DEF CopyOut, Calls
  <2>3. CASE CopyIn(c)
    BY <2>1, <2>3 DEF CopyIn, Calls
  <2>4. CASE FinishPeek(c)
    BY <2>1, <2>4 DEF FinishPeek, Returns, Idle
  <2> QED BY <2>2, <2>3, <2>4
<1>4. call'[c].op \notin {"count_rd", "count_wr"}
  BY <1>1, <1>3
<1> QED BY <1>1, <1>2, <1>3, <1>4, NothingKnown, OneKnows

(* The reader moves its index: there is more room for the writer than it   *)
(* counted.                                                                *)
LEMMA CountRead ==
  ASSUME IInv, CountInv, UNCHANGED setup, NEW c \in Context, FinishRead(c)
  PROVE  CountInv'
<1> DEFINE n == call[c].n
           stored == fifo_get_count(rd_idx, wr_idx)
<1>1. /\ call[c].op = "read" /\ UNCHANGED <<wr_idx, counted>> /\ counted[c] = -1 /\ c \in Readers
      /\ call'[c].op = "none" /\ \A d \in Context \ {c} : call'[d] = call[d]
  BY DEF FinishRead, Returns, Idle, CountInv, IInv, TypeOK, Undisturbed, CallsUndisturbed, ReadUndisturbed
<1>2. n \in Nat /\ 1 <= n /\ n <= stored /\ n <= Capacity /\ rd_idx \in Slot /\ wr_idx \in Slot
  BY ReadFacts DEF IInv, FinishRead
<1>3. stored \in 0..Capacity /\ n \in 0..Capacity
  BY <1>2, CountAndFree, CapacityAssumption
<1>4. rd_idx' = Ring(rd_idx, n)
  BY <1>2, <1>3, AdvanceWraps DEF FinishRead
<1>5. Count' = stored - n /\ Count = stored
  BY <1>1, <1>2, <1>4, ReadAdvance DEF Count
<1> HIDE DEF n, stored
<1>6. Count \in Nat /\ Count' \in Nat /\ Count' <= Count
  BY <1>2, <1>3, <1>5, CapacityAssumption
<1>7. ASSUME NEW d \in Context
      PROVE  /\ call'[d].op # "none" => counted'[d] = -1
             /\ Readers = {d} /\ ~Protected => KnowsReader(d)'
             /\ Writers = {d} /\ ~Protected => KnowsWriter(d)'
  <2>1. CASE d = c
    BY <1>1, <2>1, NothingKnown
  <2>2. CASE d # c
    <3>1. call'[d].op # "none" => counted'[d] = -1
      BY <1>1, <2>2 DEF CountInv
    <3>2. Readers # {d}
      BY <1>1, <2>2
    <3>3. ASSUME Writers = {d}, ~Protected PROVE KnowsWriter(d)'
      <4>1. KnowsWriter(d) /\ call'[d] = call[d] /\ counted'[d] = counted[d]
        BY <1>1, <2>2, <3>3 DEF CountInv
      <4>2. call[d].rd \in Slot /\ counted[d] \in Int
        BY DEF IInv, TypeOK, Calls
      <4>3. fifo_get_count(call[d].rd, wr_idx) \in Int
        BY <1>2, <4>2, CountAndFree
      <4>4. counted'[d] # -1 => counted'[d] >= Count'
        BY <1>6, <4>1, <4>2 DEF KnowsWriter
      <4>5. call'[d].op = "count_rd" => fifo_get_count(call'[d].rd, wr_idx') >= Count'
        BY <1>1, <1>6, <4>1, <4>3 DEF KnowsWriter
      <4>6. call'[d].op = "count_wr" => call'[d].wr = wr_idx'
        BY <1>1, <4>1 DEF KnowsWriter
      <4> QED BY <4>4, <4>5, <4>6 DEF KnowsWriter
    <3> QED BY <3>1, <3>2, <3>3
  <2> QED BY <2>1, <2>2
<1> QED BY <1>7, RolesStay DEF CountInv

(* The writer moves its index: there is more to read than the reader       *)
(* counted.                                                                *)
LEMMA CountWrite ==
  ASSUME IInv, CountInv, UNCHANGED setup, NEW c \in Context, FinishWrite(c)
  PROVE  CountInv'
<1> DEFINE n == call[c].n
           stored == fifo_get_count(rd_idx, wr_idx)
<1>1. /\ call[c].op = "write" /\ UNCHANGED <<rd_idx, counted>> /\ counted[c] = -1 /\ c \in Writers
      /\ call'[c].op = "none" /\ \A d \in Context \ {c} : call'[d] = call[d]
  BY DEF FinishWrite, Returns, Idle, CountInv, IInv, TypeOK, Undisturbed, CallsUndisturbed, WriteUndisturbed
<1>2. /\ n \in Nat /\ n <= fifo_get_free_space(rd_idx, wr_idx) /\ n <= Capacity
      /\ rd_idx \in Slot /\ wr_idx \in Slot
  BY WriteFacts DEF IInv, FinishWrite
<1>3. stored \in 0..Capacity /\ n \in 0..Capacity
  BY <1>2, CountAndFree, CapacityAssumption
<1>4. wr_idx' = Ring(wr_idx, n)
  BY <1>2, <1>3, AdvanceWraps DEF FinishWrite
<1>5. Count' = stored + n /\ Count = stored
  BY <1>1, <1>2, <1>4, WriteAdvance DEF Count
<1> HIDE DEF n, stored
<1>6. Count \in Nat /\ Count' \in Nat /\ Count <= Count'
  BY <1>2, <1>3, <1>5, CapacityAssumption
<1>7. ASSUME NEW d \in Context
      PROVE  /\ call'[d].op # "none" => counted'[d] = -1
             /\ Readers = {d} /\ ~Protected => KnowsReader(d)'
             /\ Writers = {d} /\ ~Protected => KnowsWriter(d)'
  <2>1. CASE d = c
    BY <1>1, <2>1, NothingKnown
  <2>2. CASE d # c
    <3>1. call'[d].op # "none" => counted'[d] = -1
      BY <1>1, <2>2 DEF CountInv
    <3>2. Writers # {d}
      BY <1>1, <2>2
    <3>3. ASSUME Readers = {d}, ~Protected PROVE KnowsReader(d)'
      <4>1. KnowsReader(d) /\ call'[d] = call[d] /\ counted'[d] = counted[d]
        BY <1>1, <2>2, <3>3 DEF CountInv
      <4>2. call[d].wr \in Slot /\ counted[d] \in Int
        BY DEF IInv, TypeOK, Calls
      <4>3. fifo_get_count(rd_idx, call[d].wr) \in Int
        BY <1>2, <4>2, CountAndFree
      <4>4. counted'[d] # -1 => counted'[d] <= Count'
        BY <1>6, <4>1, <4>2 DEF KnowsReader
      <4>5. call'[d].op = "count_wr" => fifo_get_count(rd_idx', call'[d].wr) <= Count'
        BY <1>1, <1>6, <4>1, <4>3 DEF KnowsReader
      <4>6. call'[d].op = "count_rd" => call'[d].rd = rd_idx'
        BY <1>1, <4>1 DEF KnowsReader
      <4> QED BY <4>4, <4>5, <4>6 DEF KnowsReader
    <3> QED BY <3>1, <3>2, <3>3
  <2> QED BY <2>1, <2>2
<1> QED BY <1>7, RolesStay DEF CountInv

(* The two loads of fifo_count.                                            *)
LEMMA CountCounts ==
  ASSUME IInv, CountInv, UNCHANGED setup, NEW c \in Context, fifo_count(c) \/ FinishCount(c)
  PROVE  CountInv'
<1>1. rd_idx \in Slot /\ wr_idx \in Slot /\ call[c] \in Calls
  BY DEF IInv, TypeOK
<1>2. Count \in Int
  BY <1>1, CountAndFree DEF Count
<1>3. UNCHANGED <<rd_idx, wr_idx>> /\ Count' = Count
  BY DEF fifo_count, FinishCount, Count
<1>4. \A d \in Context \ {c} : call'[d] = call[d] /\ counted'[d] = counted[d]
  BY DEF fifo_count, FinishCount, IInv, TypeOK
<1>5. CASE fifo_count(c)
  <2>1. counted'[c] = -1
    BY <1>5 DEF fifo_count, IInv, TypeOK
  <2>2. \/ call'[c].op = "count_rd" /\ call'[c].rd = rd_idx
        \/ call'[c].op = "count_wr" /\ call'[c].wr = wr_idx
    BY <1>5 DEF fifo_count, Idle, IInv, TypeOK
  <2>3. KnowsReader(c)' /\ KnowsWriter(c)'
    BY <1>2, <1>3, <2>1, <2>2 DEF KnowsReader, KnowsWriter, Count
  <2> QED BY <1>3, <1>4, <2>1, <2>3, OneKnows
<1>6. CASE FinishCount(c)
  <2>1. call'[c].op = "none"
    BY <1>6 DEF FinishCount, Idle, IInv, TypeOK
  <2>2. \/ call[c].op = "count_rd" /\ counted'[c] = fifo_get_count(call[c].rd, wr_idx)
        \/ call[c].op = "count_wr" /\ counted'[c] = fifo_get_count(rd_idx, call[c].wr)
    BY <1>6 DEF FinishCount, IInv, TypeOK
  <2>3. ASSUME Readers = {c} /\ ~Protected PROVE KnowsReader(c)'
    <3>1. KnowsReader(c)
      BY <2>3 DEF CountInv
    <3>2. counted'[c] <= Count
      BY <1>2, <2>2, <3>1 DEF KnowsReader, Count
    <3> QED BY <1>3, <2>1, <3>2 DEF KnowsReader
  <2>4. ASSUME Writers = {c} /\ ~Protected PROVE KnowsWriter(c)'
    <3>1. KnowsWriter(c)
      BY <2>4 DEF CountInv
    <3>2. counted'[c] >= Count
      BY <1>2, <2>2, <3>1 DEF KnowsWriter, Count
    <3> QED BY <1>3, <2>1, <3>2 DEF KnowsWriter
  <2> QED BY <1>3, <1>4, <2>1, <2>3, <2>4, OneKnows
<1> QED BY <1>5, <1>6

LEMMA CountNext ==
  ASSUME IInv, CountInv, [Next]_vars
  PROVE  CountInv'
<1>1. CASE UNCHANGED vars
  BY <1>1, RolesStay DEF vars, CountInv, KnowsReader, KnowsWriter, Count
<1>2. ASSUME NEW c \in Context, UNCHANGED setup, fifo_read(c) PROVE CountInv'
  BY <1>2, CountBegin DEF fifo_read, fifo_read_n
<1>3. ASSUME NEW c \in Context, UNCHANGED setup, NEW n \in 0..MaxN,
             fifo_read_n(c, n) \/ fifo_peek_n(c, n)
      PROVE  CountInv'
  BY <1>3, CountBegin DEF fifo_read_n, fifo_peek_n
<1>4. ASSUME NEW c \in Context, UNCHANGED setup, NEW n \in 0..MaxN,
             NEW s \in [1..n -> Value], fifo_write(c, s)
      PROVE  CountInv'
  BY <1>4, CountBegin DEF fifo_write
<1>5. ASSUME NEW c \in Context, UNCHANGED setup, CopyOut(c) \/ CopyIn(c) \/ FinishPeek(c) PROVE CountInv'
  BY <1>5, CountCopy
<1>6. ASSUME NEW c \in Context, UNCHANGED setup, FinishRead(c) \/ FinishWrite(c) PROVE CountInv'
  BY <1>6, CountRead, CountWrite
<1>7. ASSUME NEW c \in Context, UNCHANGED setup, fifo_clean(c) PROVE CountInv'
  <2>1. Protected /\ call' = call /\ counted' = [counted EXCEPT ![c] = -1]
    BY <1>7 DEF fifo_clean
  <2>2. \A d \in Context : counted'[d] = -1 \/ counted'[d] = counted[d]
    BY <2>1 DEF IInv, TypeOK
  <2> QED BY <1>7, <2>1, <2>2, RolesStay DEF CountInv
<1>8. ASSUME NEW c \in Context, UNCHANGED setup, fifo_count(c) \/ FinishCount(c) PROVE CountInv'
  BY <1>8, CountCounts
<1>9. CASE Next
  BY <1>2, <1>3, <1>4, <1>5, <1>6, <1>7, <1>8, <1>9 DEF Next
<1> QED BY <1>1, <1>9

(* fifo_count errs on the safe side, without a critical section and        *)
(* whichever index it loads first: the only reader finds at least as many  *)
(* elements, the only writer at least as much room as it was told, for as  *)
(* long as it has made no other call.                                      *)
THEOREM CountSafe == Spec => []CountIsSafe
<1>1. CountInv => CountIsSafe
  BY DEF CountInv, KnowsReader, KnowsWriter, CountIsSafe
<1>2. Init => CountInv
  BY CountInit
<1>3. IInv /\ CountInv /\ [Next]_vars => CountInv'
  BY CountNext
<1> QED BY <1>1, <1>2, <1>3, Invariance, PTL DEF Spec

-----------------------------------------------------------------------------
(* The ring buffer implements the bounded queue.                           *)

(* The elements between the heads form a sequence of at most Capacity.     *)
LEMMA ContentsIsSeq ==
  ASSUME IInv
  PROVE  /\ Contents \in Seq(Value) /\ Len(Contents) = Count
         /\ Count \in 0..Capacity
         /\ \A i \in 1..Count : Contents[i] = buffer[Ring(rd_idx, i)]
<1>1. Count \in 0..Capacity /\ Count \in Nat
  BY CountAndFree, CapacityAssumption DEF IInv, TypeOK, Count
<1>2. \A i \in 1..Count : Contents[i] = buffer[Ring(rd_idx, i)]
  BY DEF Contents
<1>3. Contents \in [1..Count -> Value]
  BY DEF IInv, StoredAreWritten, Contents
<1>4. Contents \in Seq(Value)
  BY <1>1, <1>3, SeqDef
<1>5. Len(Contents) = Count
  BY <1>1, <1>3, <1>4, LenProperties
<1> QED BY <1>1, <1>2, <1>4, <1>5

(* The stored elements depend on the ring alone.                           *)
LEMMA SameContents ==
  ASSUME UNCHANGED <<rd_idx, wr_idx, buffer>>
  PROVE  Contents' = Contents
BY DEF Contents, Count

(* A call that starts is refused or goes inside.                           *)
LEMMA BeginReadMaps ==
  ASSUME IInv, NEW c \in Context, NEW op \in {"read", "peek"},
         NEW n \in Nat, n <= MaxN \/ n = Count,
         BeginCall(c, op, n, <<>>, fifo_read_n_count(n, rd_idx, wr_idx))
  PROVE  Queue!Next
<1> DEFINE m == fifo_read_n_count(n, rd_idx, wr_idx)
<1>1. m = IF n <= Count THEN n ELSE 0
  BY ReadAllOrNothing DEF IInv, TypeOK, Count
<1>2. Contents' = Contents
  BY SameContents DEF BeginCall
<1>3. CASE m = 0
  <2>1. ret' = [ret EXCEPT ![c] = [op |-> op, asked |-> n, n |-> 0, data |-> <<>>]]
    BY <1>3 DEF BeginCall, Returns
  <2>2. n \in 0..MaxN /\ (n = 0 \/ n > Len(Contents))
    BY <1>1, <1>3, ContentsIsSeq, CapacityAssumption, BoundAssumption
  <2>3. Queue!GetRefused(c, op, n)
    BY <1>2, <2>1, <2>2 DEF Queue!GetRefused, Queue!Returns
  <2> QED BY <2>2, <2>3 DEF Queue!Next
<1>4. CASE m # 0
  <2>1. ret' = [ret EXCEPT ![c] = Queue!Nothing]
    BY <1>4 DEF BeginCall, Nothing, Queue!Nothing
  <2> QED BY <1>2, <2>1 DEF Queue!Next, Queue!Call
<1> QED BY <1>3, <1>4

(* The same for a write.                                                   *)
LEMMA BeginWriteMaps ==
  ASSUME IInv, NEW c \in Context, NEW s \in Seq(Value), Len(s) <= MaxN, fifo_write(c, s)
  PROVE  Queue!Next
<1> DEFINE m == fifo_write_n_count(Len(s), rd_idx, wr_idx)
<1>0. Len(s) \in Nat
  OBVIOUS
<1>1. m = IF Len(s) <= Capacity - Count THEN Len(s) ELSE 0
  BY <1>0, WriteAllOrNothing, CountAndFree DEF IInv, TypeOK, Count
<1>2. Contents' = Contents
  BY SameContents DEF fifo_write, BeginCall
<1>3. CASE m = 0
  <2>1. ret' = [ret EXCEPT ![c] = [op |-> "write", asked |-> Len(s), n |-> 0, data |-> <<>>]]
    BY <1>3 DEF fifo_write, BeginCall, Returns
  <2>2. Len(s) \in 0..MaxN /\ (Len(s) = 0 \/ Len(Contents) + Len(s) > Capacity)
    BY <1>0, <1>1, <1>3, ContentsIsSeq, CapacityAssumption, BoundAssumption
  <2>3. Queue!PutRefused(c, Len(s))
    BY <1>2, <2>1, <2>2 DEF Queue!PutRefused, Queue!Returns
  <2> QED BY <2>2, <2>3 DEF Queue!Next
<1>4. CASE m # 0
  <2>1. ret' = [ret EXCEPT ![c] = Queue!Nothing]
    BY <1>4 DEF fifo_write, BeginCall, Nothing, Queue!Nothing
  <2> QED BY <1>2, <2>1 DEF Queue!Next, Queue!Call
<1> QED BY <1>3, <1>4

(* Copying does not change what is stored.                                 *)
LEMMA CopyMaps ==
  ASSUME IInv, NEW c \in Context, CopyOut(c) \/ CopyIn(c)
  PROVE  UNCHANGED <<Contents, ret>>
<1>1. CASE CopyOut(c)
  BY <1>1, SameContents DEF CopyOut
<1>2. CASE CopyIn(c)
  <2> DEFINE l == call[c]
             stored == fifo_get_count(rd_idx, wr_idx)
  <2>1. /\ rd_idx \in Slot /\ wr_idx \in Slot /\ buffer \in [Slot -> Cell]
        /\ l.wr = wr_idx /\ l.rd \in Slot /\ l.n \in Nat /\ l.n <= Capacity
        /\ l.n <= fifo_get_free_space(rd_idx, wr_idx)
        /\ l.n <= fifo_get_free_space(l.rd, wr_idx) /\ l.k \in Nat /\ l.k < l.n
    BY <1>2, WriteFacts DEF IInv, CopyIn
  <2>2. /\ stored \in 0..Capacity
        /\ fifo_get_free_space(rd_idx, wr_idx) = Capacity - stored
    BY <2>1, CountAndFree
  <2>3. /\ l.k + 1 \in Nat /\ 1 <= l.k + 1 /\ l.k + 1 <= l.n
        /\ l.k + 1 <= fifo_get_free_space(rd_idx, wr_idx)
        /\ stored + (l.k + 1) \in 0..Capacity
    <3> HIDE DEF l, stored
    <3> QED BY <2>1, <2>2, CapacityAssumption
  <2>4. WriteSlot(l.n, l.rd, l.wr, l.k + 1) = Ring(wr_idx, l.k + 1)
    BY <2>1, <2>3, WriteSlots
  <2>5. Ring(wr_idx, l.k + 1) = Ring(rd_idx, stored + (l.k + 1))
    BY <2>1, <2>3, WriteAdvance
  <2>6. /\ buffer' = [buffer EXCEPT ![Ring(rd_idx, stored + (l.k + 1))] = l.data[l.k + 1]]
        /\ UNCHANGED <<rd_idx, wr_idx, ret>>
    BY <1>2, <2>4, <2>5 DEF CopyIn
  <2> HIDE DEF l, stored
  <2>7. ASSUME NEW i \in 1..stored
        PROVE  buffer'[Ring(rd_idx, i)] = buffer[Ring(rd_idx, i)]
    <3>1. i \in 0..Capacity /\ i # stored + (l.k + 1)
      BY <2>1, <2>2, CapacityAssumption
    <3>2. Ring(rd_idx, i) # Ring(rd_idx, stored + (l.k + 1))
      BY <2>1, <2>3, <3>1, RingInjective
    <3>3. Ring(rd_idx, i) \in Slot
      BY <2>1, <3>1, AdvanceWraps
    <3> QED BY <2>1, <2>6, <3>2, <3>3
  <2>8. Contents' = Contents
    BY <2>6, <2>7 DEF Contents, Count, stored
  <2> QED BY <2>6, <2>8
<1> QED BY <1>1, <1>2

(* What a finished read or peek hands over are the oldest elements.        *)
LEMMA CopiedIsPrefix ==
  ASSUME IInv, NEW c \in Context, call[c].op \in {"read", "peek"}, call[c].k = call[c].n
  PROVE  /\ call[c].n \in 1..Len(Contents)
         /\ call[c].data = SubSeq(Contents, 1, call[c].n)
<1> DEFINE l == call[c]
<1>1. /\ l.n \in Nat /\ 1 <= l.n /\ l.n <= Count
      /\ l.data \in Seq(Cell) /\ Len(l.data) = l.n
      /\ \A i \in 1..l.n : l.data[i] = buffer[Ring(rd_idx, i)]
  BY ReadFacts DEF IInv, Count
<1>2. /\ Contents \in Seq(Value) /\ Len(Contents) = Count /\ Count \in Nat
      /\ \A i \in 1..Count : Contents[i] = buffer[Ring(rd_idx, i)]
  BY ContentsIsSeq, CapacityAssumption
<1> HIDE DEF l
<1>3. l.n \in 1..Len(Contents)
  BY <1>1, <1>2
<1>4. \A i \in 1..l.n : Contents[i] = l.data[i] /\ Contents[i] \in Cell
  BY <1>1, <1>2, ElementOfSeq DEF Cell
<1>5. /\ SubSeq(Contents, 1, l.n) \in Seq(Cell)
      /\ Len(SubSeq(Contents, 1, l.n)) = l.n
      /\ \A i \in 1..l.n : SubSeq(Contents, 1, l.n)[i] = Contents[i]
  <2>1. 1 \in Int /\ l.n \in Int /\ l.n - 1 + 1 = l.n /\ (\A i \in 1..l.n : 1 + i - 1 = i)
    BY <1>1
  <2> QED BY <1>1, <1>4, <2>1, SubSeqProperties
<1>6. l.data = SubSeq(Contents, 1, l.n)
  BY <1>1, <1>4, <1>5, SeqEqual
<1> QED BY <1>3, <1>6 DEF l

(* A finished read takes the oldest elements off the queue.                *)
LEMMA FinishReadMaps ==
  ASSUME IInv, NEW c \in Context, FinishRead(c)
  PROVE  Queue!Next
<1> DEFINE n == call[c].n
           stored == fifo_get_count(rd_idx, wr_idx)
           rest == SubSeq(Contents, n + 1, Len(Contents))
<1>1. n \in 1..Len(Contents) /\ call[c].data = SubSeq(Contents, 1, n)
  BY CopiedIsPrefix DEF FinishRead
<1>2. /\ Contents \in Seq(Value) /\ Len(Contents) = stored
      /\ stored \in 0..Capacity /\ stored \in Nat
      /\ \A i \in 1..stored : Contents[i] = buffer[Ring(rd_idx, i)]
  BY ContentsIsSeq, CapacityAssumption DEF Count
<1>3. n \in Nat /\ 1 <= n /\ n <= stored /\ n \in 0..Capacity
  <2> HIDE DEF n, stored
  <2> QED BY <1>1, <1>2, CapacityAssumption
<1>4. rd_idx' = Ring(rd_idx, n) /\ UNCHANGED <<wr_idx, buffer>>
  BY <1>3, AdvanceWraps DEF FinishRead, IInv, TypeOK
<1>5. /\ fifo_get_count(rd_idx', wr_idx') = stored - n
      /\ \A i \in 0..(Capacity - n) : Ring(rd_idx', i) = Ring(rd_idx, n + i)
  BY <1>3, <1>4, ReadAdvance DEF IInv, TypeOK
<1>6. Contents' = [i \in 1..(stored - n) |-> buffer[Ring(rd_idx', i)]]
  BY <1>4, <1>5 DEF Contents, Count
<1> HIDE DEF n, stored
<1>7. ASSUME NEW i \in 1..(stored - n)
      PROVE  Contents'[i] = Contents[n + i] /\ Contents[n + i] \in Value
  <2>1. i \in 0..(Capacity - n) /\ n + i \in 1..stored
    BY <1>2, <1>3, CapacityAssumption
  <2> QED BY <1>2, <1>5, <1>6, <2>1, ElementOfSeq
<1>8. Contents' \in Seq(Value) /\ Len(Contents') = stored - n
  <2>1. stored - n \in Nat
    BY <1>2, <1>3
  <2>2. Contents' \in [1..(stored - n) -> Value]
    BY <1>6, <1>7
  <2>3. Contents' \in Seq(Value)
    BY <2>1, <2>2, SeqDef
  <2> QED BY <2>1, <2>2, <2>3, LenProperties
<1>9. /\ rest \in Seq(Value) /\ Len(rest) = stored - n
      /\ \A i \in 1..(stored - n) : rest[i] = Contents[n + i]
  <2>1. \A i \in (n + 1)..stored : Contents[i] \in Value
    BY <1>2, <1>3, ElementOfSeq
  <2>2. /\ n + 1 \in Int /\ stored \in Int /\ stored - (n + 1) + 1 = stored - n
        /\ \A i \in 1..(stored - n) : (n + 1) + i - 1 = n + i
    BY <1>2, <1>3
  <2>3. /\ rest \in Seq(Value)
        /\ Len(rest) = IF n + 1 <= stored THEN stored - (n + 1) + 1 ELSE 0
        /\ \A i \in 1..(stored - (n + 1) + 1) : rest[i] = Contents[(n + 1) + i - 1]
    BY <1>2, <2>1, <2>2, SubSeqProperties
  <2>4. Len(rest) = stored - n
    BY <1>2, <1>3, <2>3
  <2>5. ASSUME NEW i \in 1..(stored - n) PROVE rest[i] = Contents[n + i]
    BY <2>2, <2>3
  <2> QED BY <2>3, <2>4, <2>5
<1>10. Contents' = rest
  <2> HIDE DEF rest
  <2> QED BY <1>7, <1>8, <1>9, SeqEqual
<1>11. ret' = [ret EXCEPT ![c] = [op |-> "read", asked |-> n, n |-> n,
                                  data |-> SubSeq(Contents, 1, n)]]
  BY <1>1, ReadFacts DEF FinishRead, Returns, n, IInv
<1>12. Queue!Get(c, n)
  BY <1>1, <1>10, <1>11 DEF Queue!Get, Queue!Returns
<1> QED BY <1>3, <1>12 DEF Queue!Next

(* A finished peek leaves the queue as it is.                              *)
LEMMA FinishPeekMaps ==
  ASSUME IInv, NEW c \in Context, FinishPeek(c)
  PROVE  Queue!Next
<1> DEFINE n == call[c].n
<1>1. n \in 1..Len(Contents) /\ call[c].data = SubSeq(Contents, 1, n)
  BY CopiedIsPrefix DEF FinishPeek
<1>2. n \in 0..Capacity
  BY <1>1, ContentsIsSeq, CapacityAssumption
<1>3. Contents' = Contents
  BY SameContents DEF FinishPeek
<1>4. ret' = [ret EXCEPT ![c] = [op |-> "peek", asked |-> n, n |-> n,
                                 data |-> SubSeq(Contents, 1, n)]]
  BY <1>1, ReadFacts DEF FinishPeek, Returns, IInv
<1>5. Queue!Peek(c, n)
  BY <1>1, <1>3, <1>4 DEF Queue!Peek, Queue!Returns
<1> QED BY <1>2, <1>5 DEF Queue!Next

(* A finished write appends its elements to the queue.                     *)
LEMMA FinishWriteMaps ==
  ASSUME IInv, NEW c \in Context, FinishWrite(c)
  PROVE  Queue!Next
<1> DEFINE n == call[c].n
           s == call[c].data
           stored == fifo_get_count(rd_idx, wr_idx)
           free == fifo_get_free_space(rd_idx, wr_idx)
<1>1. /\ n \in Nat /\ 1 <= n /\ n <= free /\ n <= Capacity
      /\ rd_idx \in Slot /\ wr_idx \in Slot
      /\ s \in Seq(Value) /\ Len(s) = n
      /\ \A i \in 1..n : buffer[Ring(wr_idx, i)] = s[i]
  BY WriteFacts DEF IInv, FinishWrite
<1>2. /\ Contents \in Seq(Value) /\ Len(Contents) = stored
      /\ stored \in 0..Capacity /\ stored \in Nat
      /\ \A i \in 1..stored : Contents[i] = buffer[Ring(rd_idx, i)]
  BY ContentsIsSeq, CapacityAssumption DEF Count
<1>3. free = Capacity - stored
  BY <1>1, CountAndFree
<1>4. n \in 0..Capacity /\ stored + n <= Capacity /\ stored + n \in Nat
  <2> HIDE DEF n, stored, free
  <2> QED BY <1>1, <1>2, <1>3, CapacityAssumption
<1>5. wr_idx' = Ring(wr_idx, n) /\ UNCHANGED <<rd_idx, buffer>>
  BY <1>1, <1>4, AdvanceWraps DEF FinishWrite
<1>6. fifo_get_count(rd_idx', wr_idx') = stored + n
  BY <1>1, <1>5, WriteAdvance
<1>7. Contents' = [i \in 1..(stored + n) |-> buffer[Ring(rd_idx, i)]]
  BY <1>5, <1>6 DEF Contents, Count
<1>8. \A j \in Nat : j <= free => Ring(wr_idx, j) = Ring(rd_idx, stored + j)
  BY <1>1, WriteAdvance
<1>9. /\ Contents \o s \in Seq(Value) /\ Len(Contents \o s) = stored + n
      /\ \A i \in 1..(stored + n) :
           (Contents \o s)[i] = IF i <= stored THEN Contents[i] ELSE s[i - stored]
  <2> HIDE DEF n, stored, free, s
  <2>1. Contents \in Seq(Value) /\ s \in Seq(Value) /\ Len(Contents) = stored /\ Len(s) = n
    BY <1>1, <1>2
  <2>2. /\ Contents \o s \in Seq(Value) /\ Len(Contents \o s) = Len(Contents) + Len(s)
        /\ \A i \in 1..(Len(Contents) + Len(s)) :
             (Contents \o s)[i] = IF i <= Len(Contents) THEN Contents[i] ELSE s[i - Len(Contents)]
    BY <2>1, ConcatProperties
  <2> QED BY <2>1, <2>2
<1>14. FinishWrite(c) => ret' = [ret EXCEPT ![c] = [op |-> "write", asked |-> Len(s),
                                                    n |-> Len(s), data |-> <<>>]]
  BY <1>1, WriteFacts DEF FinishWrite, Returns, IInv
<1> HIDE DEF n, stored, free, s
<1>10. ASSUME NEW i \in 1..(stored + n)
       PROVE  Contents'[i] = (Contents \o s)[i]
  <2>1. CASE i <= stored
    BY <1>2, <1>7, <1>9, <2>1
  <2>2. CASE i > stored
    <3> DEFINE j == i - stored
    <3>1. j \in 1..n /\ j \in Nat /\ j <= free /\ stored + j = i
      <4>1. n \in Nat /\ stored \in Nat /\ n <= free /\ free = Capacity - stored
        BY <1>1, <1>2, <1>3
      <4> QED BY <2>2, <4>1, CapacityAssumption
    <3> HIDE DEF j
    <3>2. buffer[Ring(rd_idx, i)] = s[j]
      BY <1>1, <1>8, <3>1
    <3>3. (Contents \o s)[i] = s[j]
      BY <1>2, <1>9, <2>2 DEF j
    <3> QED BY <1>7, <3>2, <3>3
  <2>3. i <= stored \/ i > stored
    <3>1. i \in Int /\ stored \in Int
      BY <1>1, <1>2
    <3> QED BY <3>1
  <2> QED BY <2>1, <2>2, <2>3
<1>11. Contents' = Contents \o s
  <2> DEFINE t == Contents \o s
  <2>1. t \in Seq(Value) /\ Len(t) = stored + n
    BY <1>9
  <2>2. \A i \in 1..(stored + n) : Contents'[i] = t[i]
    BY <1>10
  <2> HIDE DEF t
  <2>3. Contents' \in [1..(stored + n) -> Value]
    BY <1>7, <2>1, <2>2, ElementOfSeq
  <2>4. Contents' \in Seq(Value) /\ Len(Contents') = stored + n
    BY <1>4, <2>3, SeqDef, LenProperties
  <2>5. Contents' = t
    BY <2>1, <2>2, <2>4, SeqEqual
  <2> QED BY <2>5 DEF t
<1>12. s # <<>> /\ s \in [1..n -> Value]
  BY <1>1, EmptySeq, LenProperties
<1>13. Queue!Put(c, s)
  BY <1>1, <1>2, <1>4, <1>11, <1>12, <1>14 DEF Queue!Put, Queue!Returns
<1> QED BY <1>4, <1>12, <1>13 DEF Queue!Next

(* fifo_clean empties the queue.                                           *)
LEMMA CleanMaps ==
  ASSUME IInv, NEW c \in Context, fifo_clean(c)
  PROVE  Queue!Next
<1>1. Count' = 0
  BY DEF fifo_clean, Count, fifo_get_count
<1>2. Contents' \in Seq(Value) /\ Len(Contents') = 0
  <2>1. Contents' \in [1..0 -> Value]
    BY <1>1 DEF Contents
  <2> QED BY <2>1, SeqDef, LenProperties
<1>3. Contents' = <<>>
  BY <1>2, EmptySeq
<1>4. ret' = [ret EXCEPT ![c] = Queue!Nothing]
  BY DEF fifo_clean, Nothing, Queue!Nothing
<1> QED BY <1>3, <1>4 DEF Queue!Next, Queue!Clean

(* An initialised ring is an empty queue.                                  *)
LEMMA InitMaps == Init => Queue!Init
<1> SUFFICES ASSUME Init PROVE Queue!Init
  OBVIOUS
<1>1. Count = 0
  BY DEF Init, Count, fifo_get_count
<1>2. Contents \in [1..0 -> Value]
  BY <1>1 DEF Contents
<1>3. Contents \in Seq(Value) /\ Len(Contents) = 0
  BY <1>2, SeqDef, LenProperties
<1>4. Contents = <<>>
  BY <1>3, EmptySeq
<1> QED BY <1>4 DEF Init, Nothing, Queue!Init, Queue!Nothing

(* Every step is a step of the bounded queue, or none.                     *)
LEMMA NextMaps == IInv /\ [Next]_vars => [Queue!Next]_(Queue!vars)
<1> SUFFICES ASSUME IInv, [Next]_vars PROVE Queue!Next \/ UNCHANGED <<Contents, ret>>
  BY DEF Queue!vars
<1>1. CASE UNCHANGED vars
  BY <1>1, SameContents DEF vars
<1>2. ASSUME NEW c \in Context, fifo_read(c) PROVE Queue!Next
  <2>1. Count \in Nat
    BY CountAndFree, CapacityAssumption DEF IInv, TypeOK, Count
  <2>2. BeginCall(c, "read", Count, <<>>, fifo_read_n_count(Count, rd_idx, wr_idx))
    BY <1>2 DEF fifo_read, fifo_read_n, Count
  <2> QED BY <2>1, <2>2, BeginReadMaps
<1>3. ASSUME NEW c \in Context, NEW n \in 0..MaxN, fifo_read_n(c, n) \/ fifo_peek_n(c, n)
      PROVE  Queue!Next
  <2>1. n \in Nat /\ n <= MaxN
    BY BoundAssumption
  <2> QED BY <1>3, <2>1, BeginReadMaps DEF fifo_read_n, fifo_peek_n
<1>4. ASSUME NEW c \in Context, NEW n \in 0..MaxN, NEW s \in [1..n -> Value], fifo_write(c, s)
      PROVE  Queue!Next
  <2>1. s \in Seq(Value) /\ Len(s) <= MaxN
    BY BoundAssumption, SeqDef, LenProperties
  <2> QED BY <1>4, <2>1, BeginWriteMaps
<1>5. ASSUME NEW c \in Context, fifo_count(c) PROVE Queue!Next
  <2>1. ret' = [ret EXCEPT ![c] = Queue!Nothing]
    BY <1>5 DEF fifo_count, Nothing, Queue!Nothing
  <2>2. Contents' = Contents
    BY <1>5, SameContents DEF fifo_count
  <2> QED BY <2>1, <2>2 DEF Queue!Next, Queue!Call
<1>6. ASSUME NEW c \in Context, FinishCount(c) PROVE UNCHANGED <<Contents, ret>>
  BY <1>6, SameContents DEF FinishCount
<1>7. CASE Next
  BY <1>2, <1>3, <1>4, <1>5, <1>6, <1>7, CopyMaps, FinishReadMaps, FinishPeekMaps,
     FinishWriteMaps, CleanMaps DEF Next
<1> QED BY <1>1, <1>7

(* fifo.h implements the bounded queue for every capacity: with critical   *)
(* sections for any mix of callers, without them for one reader and one    *)
(* writer.                                                                 *)
THEOREM Refinement == Spec => ImplementsQueue
<1> QED BY Invariance, InitMaps, NextMaps, PTL DEF Spec, ImplementsQueue, Queue!Spec
=============================================================================
