------------------------------ MODULE MCUsb3Link ------------------------------
(* The instance of Usb3Link that TLC checks: endpoints that share a bank,    *)
(* with a mode bit of their own or as one buffer, and one whose packets are  *)
(* too large among others; two flags of the link pending together.           *)
EXTENDS Usb3Link

TX(n) == [n |-> n, dir |-> "TX"]
RX(n) == [n |-> n, dir |-> "RX"]

MCMasks == {{TX(8), TX(12)}, {TX(15), RX(8)}, {TX(3), RX(3), RX(10)}}

(* Nothing is claimed of a crossed system, which stays so: it is not       *)
(* followed further.                                                       *)
NotCrossed == ~crossed

MCOversize == {RX(3)}
===============================================================================
