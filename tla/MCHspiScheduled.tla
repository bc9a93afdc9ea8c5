--------------------------- MODULE MCHspiScheduled ---------------------------
(* The instances of HspiScheduled that TLC checks.                         *)
EXTENDS HspiScheduled
=============================================================================
