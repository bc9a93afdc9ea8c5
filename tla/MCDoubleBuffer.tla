--------------------------- MODULE MCDoubleBuffer ---------------------------
(* The instances of DoubleBuffer that TLC checks.                            *)
EXTENDS DoubleBuffer
=============================================================================
