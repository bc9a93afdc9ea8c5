------------------------------- MODULE MCFifo -------------------------------
(* The instances of Fifo that TLC checks: the ring with critical sections, *)
(* where both contexts do everything, and the bare ring, where user code   *)
(* reads and the handler writes, or the other way round.  Elements are     *)
(* interchangeable.                                                        *)
EXTENDS Fifo, TLC

MCSetups ==
  {[protected |-> TRUE, readers |-> Context, writers |-> Context],
   [protected |-> FALSE, readers |-> {"main"}, writers |-> {"isr"}],
   [protected |-> FALSE, readers |-> {"isr"}, writers |-> {"main"}]}

ValueSymmetry == Permutations(Value)
=============================================================================
