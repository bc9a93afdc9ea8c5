------------------------------- MODULE RamPool ------------------------------
(***************************************************************************)
(* The block pool of memory/alloc.c: the pool of ramx_alloc.h without      *)
(* owners to count.  A block is marked with the length of its buffer, and  *)
(* that mark is all pool_free knows of the buffer.  Every function that    *)
(* changes the pool runs inside one critical section, so each is one step. *)
(*                                                                         *)
(* A pointer is the index of the block it points to, NULL is -1.  Clients  *)
(* free what they were given, once, or NULL, which an allocation that was  *)
(* refused returned.                                                       *)
(***************************************************************************)
EXTENDS Integers, FiniteSets

CONSTANTS
  BlockNum,   \* POOL_BLOCK_NUM, "lower than 256" (alloc.c:33)
  BlockSize,  \* POOL_BLOCK_SIZE, in bytes
  U8,         \* 2^8: how far a uint8_t counts
  MaxBytes    \* bound on the bytes of one request

VARIABLES
  blocks, blocks_used,  \* pool_t
  owners,  \* owners[i] = 1: a client has the buffer at block i
  size,    \* size[i]: the blocks that client asked for
  asked,   \* the blocks the last allocation was for
  got      \* what it returned

vars == <<blocks, blocks_used, owners, size, asked, got>>

NULL == -1
Block == 0..(BlockNum - 1)
Run(i, n) == i..(i + n - 1)

Init ==
  /\ blocks = [i \in Block |-> 0] /\ blocks_used = 0
  /\ owners = [i \in Block |-> 0] /\ size = [i \in Block |-> 0]
  /\ asked = 0 /\ got = NULL

pool_init ==
  /\ blocks' = [i \in Block |-> 0] /\ blocks_used' = 0
  /\ owners' = [i \in Block |-> 0] /\ size' = [i \in Block |-> 0]
  /\ asked' = 0 /\ got' = NULL

(* Mutant: the scan stops one block early, the last one is never given.    *)
SpaceButLast(n) ==
  {i \in Block : i + n < BlockNum /\ \A j \in Run(i, n) : blocks[j] = 0}

(* Where the scan finds n free blocks.  space_found is set anew by every   *)
(* block looked at after the first, so what an earlier start left in it    *)
(* does not matter.                                                        *)
space_found(n) ==
  {i \in Block : i + n <= BlockNum /\ \A j \in Run(i, n) : blocks[j] = 0}

Refused(need) ==
  asked' = need /\ got' = NULL /\ UNCHANGED <<blocks, blocks_used, owners, size>>

Mark(i, n) == [j \in Block |-> IF j \in Run(i, n) THEN n ELSE blocks[j]]

Allocate(n, need) ==
  \/ (n = 0 \/ n > BlockNum \/ space_found(n) = {}) /\ Refused(need)
  \/ /\ n \in 1..BlockNum
     /\ \E i \in space_found(n) :
          /\ \A k \in space_found(n) : i <= k
          /\ blocks' = Mark(i, n)
          /\ owners' = [owners EXCEPT ![i] = 1]
          /\ size' = [size EXCEPT ![i] = need]
          /\ asked' = need /\ got' = i
     /\ blocks_used' = (blocks_used + n) % U8

pool_alloc_blocks(num_blocks) == Allocate(num_blocks, num_blocks)

DIV_ROUND_UP(n, d) == (n + d - 1) \div d

(* blocks_needed is a uint32_t, the parameter it is passed to a uint8_t.   *)
pool_alloc_bytes(num_bytes) ==
  LET needed == DIV_ROUND_UP(num_bytes, BlockSize) IN Allocate(needed % U8, needed)

pool_free(ptr) ==
  /\ owners[ptr] = 1
  /\ blocks' = [j \in Block |-> IF j \in Run(ptr, blocks[ptr]) THEN 0 ELSE blocks[j]]
  /\ blocks_used' = (blocks_used - blocks[ptr]) % U8
  /\ owners' = [owners EXCEPT ![ptr] = 0]
  /\ UNCHANGED <<size, asked, got>>

Next ==
  \/ pool_init
  \/ \E n \in 0..(U8 - 1) : pool_alloc_blocks(n)
  \/ \E b \in 0..MaxBytes : pool_alloc_bytes(b)
  \/ \E ptr \in Block : pool_free(ptr)

Spec == Init /\ [][Next]_vars

-----------------------------------------------------------------------------
(* pool_size and blocks_used are uint8_t.                                  *)
pool_stats_free == (BlockNum - blocks_used) % U8

(* However buffers of different lengths came and went, what pool_stats_free *)
(* tells is the blocks that belong to no client: a buffer that is freed     *)
(* takes with it exactly the blocks it was made of.                         *)
StatsTrue ==
  pool_stats_free =
    Cardinality({j \in Block :
      \A i \in Block : owners[i] = 1 => j \notin Run(i, size[i])})

Pool == INSTANCE BufferPool WITH MaxOwners <- 1, MaxRequest <- U8 - 1

(* The pool hands out disjoint buffers, to one owner each: an allocation   *)
(* succeeds exactly when a run of free blocks is long enough.              *)
ImplementsPool == Pool!Spec
=============================================================================
