------------------------------ MODULE RamxPool ------------------------------
(***************************************************************************)
(* The reference-counted block pool of memory/ramx_alloc.h.  Every         *)
(* function there runs inside one critical section, so each is one step,   *)
(* whichever of user code and interrupt handlers calls it.  ramx_pool_init *)
(* alone (ramx_alloc.c) has no critical section: it is one step because    *)
(* its caller is assumed to keep the handlers that use the pool out.       *)
(*                                                                         *)
(* A pointer is modelled by the index of the block it points to, NULL by   *)
(* -1.  Clients keep to the contract: they share and free only buffers     *)
(* they own, through the pointer the allocation returned.                  *)
(***************************************************************************)
EXTENDS Integers, FiniteSets

CONSTANTS
  BlockNum,   \* POOL_BLOCK_NUM
  BlockSize,  \* POOL_BLOCK_SIZE, in bytes
  U8,         \* 2^8: how far a uint8_t counts
  MaxOwners,  \* bound on the owners of one buffer
  MaxBytes    \* bound on the bytes of one request

(* ramx_alloc.h:31 asks for "no more than 256" blocks.  The reference      *)
(* counters are uint8_t: the callers stay below 256 owners of a buffer.    *)
ASSUME PoolAssumption ==
  /\ BlockNum \in Nat /\ BlockNum >= 1 /\ BlockNum <= U8
  /\ BlockSize \in Nat /\ BlockSize >= 1
  /\ U8 \in Nat /\ U8 >= 2
  /\ MaxOwners \in Nat /\ MaxOwners >= 1 /\ MaxOwners < U8
  /\ MaxBytes \in Nat

VARIABLES
  blocks, blocks_reference_counter, blocks_used,  \* pool_t
  owners,  \* owners[i]: the ownerships the clients hold of the buffer at block i
  size,    \* size[i]: the blocks the client of that buffer asked for
  asked,   \* the blocks the last allocation was for
  got      \* what it returned

pool == <<blocks, blocks_reference_counter, blocks_used>>
vars == <<blocks, blocks_reference_counter, blocks_used, owners, size, asked, got>>

NULL == -1
Block == 0..(BlockNum - 1)
Run(i, n) == i..(i + n - 1)

DIV_ROUND_UP(n, d) == (n + d - 1) \div d

(* Mutant: the scan stops one block early.                                 *)
FreeRunShort(bs, n) ==
  {i \in Block : i + n < BlockNum /\ \A j \in Run(i, n) : bs[j] = 0}

(* The starts the scan of ramx_pool_alloc_blocks accepts, blocks being bs. *)
FreeRun(bs, n) ==
  {i \in Block : i + n <= BlockNum /\ \A j \in Run(i, n) : bs[j] = 0}

Init ==
  /\ blocks = [i \in Block |-> 0]
  /\ blocks_reference_counter = [i \in Block |-> 0]
  /\ blocks_used = 0
  /\ owners = [i \in Block |-> 0]
  /\ size = [i \in Block |-> 0]
  /\ asked = 0 /\ got = NULL

(* Also in the middle of a program: what the clients had is gone.          *)
ramx_pool_init ==
  /\ blocks' = [i \in Block |-> 0]
  /\ blocks_reference_counter' = [i \in Block |-> 0]
  /\ blocks_used' = 0
  /\ owners' = [i \in Block |-> 0]
  /\ size' = [i \in Block |-> 0]
  /\ asked' = 0 /\ got' = NULL

Refused(need) == asked' = need /\ got' = NULL /\ UNCHANGED <<pool, owners, size>>

(* Mutant: the marks count bytes.                                          *)
TakeMarksBytes(i, n, need) ==
  /\ blocks' = [j \in Block |-> IF j \in Run(i, n) THEN n * BlockSize ELSE blocks[j]]
  /\ blocks_reference_counter' =
       [j \in Block |-> IF j \in Run(i, n) THEN 1 ELSE blocks_reference_counter[j]]
  /\ blocks_used' = (blocks_used + n) % U8
  /\ owners' = [owners EXCEPT ![i] = 1]
  /\ size' = [size EXCEPT ![i] = need]
  /\ asked' = need /\ got' = i

(* The first run of n free blocks is marked; need is what the client asked *)
(* for.                                                                    *)
Take(i, n, need) ==
  /\ blocks' = [j \in Block |-> IF j \in Run(i, n) THEN n ELSE blocks[j]]
  /\ blocks_reference_counter' =
       [j \in Block |-> IF j \in Run(i, n) THEN 1 ELSE blocks_reference_counter[j]]
  /\ blocks_used' = (blocks_used + n) % U8
  /\ owners' = [owners EXCEPT ![i] = 1]
  /\ size' = [size EXCEPT ![i] = need]
  /\ asked' = need /\ got' = i

Allocate(n, need) ==
  \/ /\ n = 0 \/ n > BlockNum
     /\ Refused(need)
  \/ /\ n \in 1..BlockNum
     /\ FreeRun(blocks, n) = {}
     /\ Refused(need)
  \/ /\ n \in 1..BlockNum
     /\ \E i \in FreeRun(blocks, n) :
          /\ \A k \in FreeRun(blocks, n) : i <= k
          /\ Take(i, n, need)

ramx_pool_alloc_blocks(n) == Allocate(n, n)

(* blocks_needed is a uint8_t.                                             *)
ramx_pool_alloc_bytes(num_bytes) ==
  LET needed == DIV_ROUND_UP(num_bytes, BlockSize) IN Allocate(needed % U8, needed)

(* Mutant: only the first block of the buffer counts its owners.           *)
TakeOwnershipFirst(i) ==
  /\ owners[i] \in 1..(MaxOwners - 1)
  /\ blocks_reference_counter' = [blocks_reference_counter EXCEPT ![i] = (@ + 1) % U8]
  /\ owners' = [owners EXCEPT ![i] = @ + 1]
  /\ UNCHANGED <<blocks, blocks_used, size, asked, got>>

(* The code counts on without looking: that a buffer has fewer than        *)
(* MaxOwners owners is the clients' care.                                  *)
ramx_take_ownership(i) ==
  /\ owners[i] \in 1..(MaxOwners - 1)
  /\ blocks_reference_counter' =
       [j \in Block |-> IF j \in Run(i, blocks[i]) THEN (blocks_reference_counter[j] + 1) % U8
                                                   ELSE blocks_reference_counter[j]]
  /\ owners' = [owners EXCEPT ![i] = @ + 1]
  /\ UNCHANGED <<blocks, blocks_used, size, asked, got>>

(* Mutant: the last owner of a buffer leaves blocks_used as it is.         *)
FreeUncounted(i) ==
  LET freed == {j \in Run(i, blocks[i]) : blocks_reference_counter[j] <= 1} IN
  /\ owners[i] > 0
  /\ blocks' = [j \in Block |-> IF j \in freed THEN 0 ELSE blocks[j]]
  /\ blocks_reference_counter' =
       [j \in Block |-> IF j \in Run(i, blocks[i]) \ freed
                        THEN blocks_reference_counter[j] - 1
                        ELSE blocks_reference_counter[j]]
  /\ owners' = [owners EXCEPT ![i] = @ - 1]
  /\ UNCHANGED <<blocks_used, size, asked, got>>

(* The blocks that had one owner left become free, the others lose one.    *)
ramx_pool_free(i) ==
  LET freed == {j \in Run(i, blocks[i]) : blocks_reference_counter[j] <= 1} IN
  /\ owners[i] > 0
  /\ blocks' = [j \in Block |-> IF j \in freed THEN 0 ELSE blocks[j]]
  /\ blocks_reference_counter' =
       [j \in Block |-> IF j \in Run(i, blocks[i]) \ freed
                        THEN blocks_reference_counter[j] - 1
                        ELSE blocks_reference_counter[j]]
  /\ blocks_used' = (blocks_used - Cardinality(freed)) % U8
  /\ owners' = [owners EXCEPT ![i] = @ - 1]
  /\ UNCHANGED <<size, asked, got>>

Next ==
  \/ ramx_pool_init
  \/ \E n \in 0..(U8 - 1) : ramx_pool_alloc_blocks(n)
  \/ \E b \in 0..MaxBytes : ramx_pool_alloc_bytes(b)
  \/ \E i \in Block : ramx_take_ownership(i) \/ ramx_pool_free(i)

Spec == Init /\ [][Next]_vars

-----------------------------------------------------------------------------
(* pool_size and blocks_used are uint8_t.                                  *)
ramx_pool_stats_free == ((BlockNum % U8) - blocks_used) % U8

Used == {j \in Block : blocks[j] # 0}

(* The bytes of the pool are uint8_t, its blocks in range.                 *)
TypeOK ==
  /\ blocks \in [Block -> 0..BlockNum]
  /\ blocks_reference_counter \in [Block -> 0..(U8 - 1)]
  /\ blocks_used \in 0..(U8 - 1)
  /\ owners \in [Block -> 0..MaxOwners]
  /\ size \in [Block -> Nat]
  /\ asked \in Nat /\ got \in -1..(BlockNum - 1)

(* The buffer at i, if it has owners, covers exactly the blocks it needs:  *)
(* each is marked with the length and counts the owners.                   *)
BufferMarked(i, bs, refs, own, len) ==
  own[i] > 0 =>
    /\ len[i] >= 1 /\ i + len[i] <= BlockNum
    /\ \A j \in Run(i, len[i]) : bs[j] = len[i] /\ refs[j] = own[i]

Disjoint(own, len) ==
  \A i, k \in Block : own[i] > 0 /\ own[k] > 0 /\ i < k => i + len[i] <= k

Covered(bs, own, len) ==
  \A j \in Block : bs[j] # 0 => \E i \in Block : own[i] > 0 /\ j \in Run(i, len[i])

(* The marks tell the truth about every buffer the clients own: each block *)
(* of it carries its length and its number of owners, the buffers do not   *)
(* overlap, and every other block is free, so the last ramx_pool_free      *)
(* gives back the whole buffer and nothing but it.                         *)
BuffersMarked ==
  /\ \A i \in Block :
       BufferMarked(i, blocks, blocks_reference_counter, owners, size)
  /\ Disjoint(owners, size)
  /\ Covered(blocks, owners, size)

(* ramx_pool_stats_free tells how many blocks are free, however buffers    *)
(* were shared and freed.                                                  *)
StatsExact == ramx_pool_stats_free = BlockNum - Cardinality(Used)

Pool == INSTANCE BufferPool WITH MaxRequest <- U8 - 1

(* The pool implements shared, disjoint buffers: an allocation succeeds    *)
(* exactly when a run of free blocks is long enough, and a buffer lives    *)
(* until its last owner frees it.                                          *)
ImplementsPool == Pool!Spec
=============================================================================
