----------------------------- MODULE BufferPool -----------------------------
(***************************************************************************)
(* What a pool of contiguous blocks promises its clients                   *)
(* (memory/ramx_alloc.h, memory/alloc.c): buffers that never overlap,      *)
(* shared by a number of owners, and given back with the last of them.     *)
(*                                                                         *)
(* A buffer is named by its first block.  owners[i] is how many owners     *)
(* buffer i has (0: there is no such buffer), size[i] how many blocks the  *)
(* client needs, asked how many blocks the last allocation was for, got    *)
(* what it returned (-1 for NULL).                                         *)
(***************************************************************************)
EXTENDS Integers

CONSTANTS BlockNum, MaxOwners, MaxRequest

VARIABLES owners, size, asked, got

vars == <<owners, size, asked, got>>

Block == 0..(BlockNum - 1)

Extent(i) == i..(i + size[i] - 1)

(* n blocks from i on belong to no buffer.                                 *)
Fits(i, n) == /\ i + n <= BlockNum
              /\ \A k \in Block : owners[k] > 0 => Extent(k) \cap (i..(i + n - 1)) = {}

Init == /\ owners = [i \in Block |-> 0]
        /\ size = [i \in Block |-> 0]
        /\ asked = 0 /\ got = -1

(* Where a buffer goes is left open.                                       *)
Alloc(i, n) == /\ n >= 1
               /\ Fits(i, n)
               /\ owners' = [owners EXCEPT ![i] = 1]
               /\ size' = [size EXCEPT ![i] = n]
               /\ asked' = n /\ got' = i

(* NULL only when nothing was asked for, or when no run of n blocks is free *)
Refuse(n) == /\ n = 0 \/ \A i \in Block : ~Fits(i, n)
             /\ asked' = n /\ got' = -1
             /\ UNCHANGED <<owners, size>>

Own(i) == /\ owners[i] \in 1..(MaxOwners - 1)
          /\ owners' = [owners EXCEPT ![i] = @ + 1]
          /\ UNCHANGED <<size, asked, got>>

Release(i) == /\ owners[i] > 0
              /\ owners' = [owners EXCEPT ![i] = @ - 1]
              /\ UNCHANGED <<size, asked, got>>

Reset == /\ owners' = [i \in Block |-> 0]
         /\ size' = [i \in Block |-> 0]
         /\ asked' = 0 /\ got' = -1

Next == \/ \E n \in 0..MaxRequest : Refuse(n)
        \/ \E i \in Block : \/ \E n \in 1..BlockNum : Alloc(i, n)
                            \/ Own(i) \/ Release(i)
        \/ Reset

Spec == Init /\ [][Next]_vars
=============================================================================
