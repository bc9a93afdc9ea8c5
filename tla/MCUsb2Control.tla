---------------------------- MODULE MCUsb2Control ----------------------------
(* The instances of Usb2Control that TLC checks.  With packets of 2 bytes  *)
(* the answers are shorter than, as long as, and longer than a packet, and *)
(* one is a whole number of packets.                                       *)
EXTENDS Usb2Control

Sizes == [device |-> 3, config_descr |-> 4, string |-> 2, user_in |-> 1]
=============================================================================
