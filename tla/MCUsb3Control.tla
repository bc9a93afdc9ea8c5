---------------------------- MODULE MCUsb3Control ----------------------------
(* The instance of Usb3Control that TLC checks.  With packets of 2 bytes   *)
(* the answers take one, two and three packets.  With the wLengths of the  *)
(* run they end inside a packet, with one, and exactly at wLength, and the *)
(* answer of the user is shorter and longer than what the host asked for.  *)
EXTENDS Usb3Control

Sizes == [device |-> 3, config_descr |-> 5, bos |-> 3, string |-> 4, user_in |-> 3,
          get_status |-> 2, get_config |-> 1, get_interface |-> 1]
==============================================================================
