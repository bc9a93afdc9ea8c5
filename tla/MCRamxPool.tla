----------------------------- MODULE MCRamxPool -----------------------------
(* The two block pools, of the same size: a behaviour uses the one of      *)
(* ramx_alloc.h or the one of alloc.c.                                     *)
EXTENDS RamxPool

VARIABLES
  ram,  \* the behaviour uses the pool of alloc.c
  ram_blocks, ram_used, ram_owners, ram_size, ram_asked, ram_got

ram_vars == <<ram_blocks, ram_used, ram_owners, ram_size, ram_asked, ram_got>>

Ram == INSTANCE RamPool
         WITH blocks <- ram_blocks, blocks_used <- ram_used, owners <- ram_owners,
              size <- ram_size, asked <- ram_asked, got <- ram_got

MCInit == ram \in BOOLEAN /\ Init /\ Ram!Init

MCNext == /\ \/ ~ram /\ Next /\ UNCHANGED ram_vars
             \/ ram /\ Ram!Next /\ UNCHANGED vars
          /\ UNCHANGED ram

MCSpec == MCInit /\ [][MCNext]_<<vars, ram_vars, ram>>

(* Buffers of alloc.c (pool_alloc_blocks, pool_free) are disjoint, an     *)
(* allocation is refused only when no run of free blocks is long enough    *)
(* (ImplementsPool of RamPool), and pool_stats_free counts the blocks that *)
(* no client has, also after buffers of any sizes were freed (StatsTrue).  *)
RamImplementsPool == Ram!ImplementsPool /\ []Ram!StatsTrue
=============================================================================
