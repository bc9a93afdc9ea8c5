---------------------------- MODULE BoundedQueue ----------------------------
(***************************************************************************)
(* What a hydra_fifo_t promises its callers (memory/fifo.h): a queue of    *)
(* at most Capacity elements on which a read or a write of n elements      *)
(* takes effect at one instant, entirely or not at all.                    *)
(*                                                                         *)
(* queue is the sequence of stored elements, ret[c] the last call of       *)
(* execution context c: the operation, how many elements it asked for,     *)
(* the count it returned, and for a read or a peek the elements copied to  *)
(* the caller's buffer; op is "none" while there is no result (c never     *)
(* called, or is inside a call).                                           *)
(***************************************************************************)
EXTENDS Integers, Sequences

CONSTANTS Value, Capacity, Context,
  MaxN        \* bound on the elements of one call

VARIABLES queue, ret

vars == <<queue, ret>>

Nothing == [op |-> "none", asked |-> 0, n |-> -1, data |-> <<>>]

Returns(c, op, asked, n, data) ==
  ret' = [ret EXCEPT ![c] = [op |-> op, asked |-> asked, n |-> n, data |-> data]]

Init == /\ queue = <<>>
        /\ ret = [c \in Context |-> Nothing]

(* n elements leave the head of the queue, in order.                       *)
Get(c, n) == /\ n \in 1..Len(queue)
             /\ queue' = SubSeq(queue, n + 1, Len(queue))
             /\ Returns(c, "read", n, n, SubSeq(queue, 1, n))

(* The first n elements are copied and stay.                               *)
Peek(c, n) == /\ n \in 1..Len(queue)
              /\ Returns(c, "peek", n, n, SubSeq(queue, 1, n))
              /\ UNCHANGED queue

(* A read or peek of more elements than are stored (or of none) gets none. *)
GetRefused(c, op, n) == /\ n = 0 \/ n > Len(queue)
                        /\ Returns(c, op, n, 0, <<>>)
                        /\ UNCHANGED queue

Put(c, s) == /\ s # <<>>
             /\ Len(queue) + Len(s) <= Capacity
             /\ queue' = queue \o s
             /\ Returns(c, "write", Len(s), Len(s), <<>>)

(* A write that does not fit entirely stores nothing.                      *)
PutRefused(c, n) == /\ n = 0 \/ Len(queue) + n > Capacity
                    /\ Returns(c, "write", n, 0, <<>>)
                    /\ UNCHANGED queue

Clean(c) == /\ queue' = <<>>
            /\ ret' = [ret EXCEPT ![c] = Nothing]

(* A context that calls again is done with its last result.                *)
Call(c) == /\ ret' = [ret EXCEPT ![c] = Nothing]
           /\ UNCHANGED queue

Next ==
  \E c \in Context :
    \/ Clean(c) \/ Call(c)
    \/ \E n \in 0..Capacity :
         \/ Get(c, n) \/ Peek(c, n)
         \/ \E s \in [1..n -> Value] : Put(c, s)
    \/ \E n \in 0..MaxN :
         \/ GetRefused(c, "read", n) \/ GetRefused(c, "peek", n)
         \/ PutRefused(c, n)

Spec == Init /\ [][Next]_vars
=============================================================================
