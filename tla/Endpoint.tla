------------------------------ MODULE Endpoint ------------------------------
(***************************************************************************)
(* What the data endpoints of usb20.c and usb30.c have in common: the      *)
(* bounds, what the user gives to and gets from an endpoint through        *)
(* usb_device.h, and what the host has of it.                              *)
(***************************************************************************)
EXTENDS Integers, Sequences, SequencesExt

CONSTANTS
  Mps,         \* max_packet_size
  MaxPacketSizeWithBurst,  \* max_packet_size_with_burst of the transmit direction
  TxSizes,     \* the sizes of the buffers the user sends
  MaxOut,      \* bound on the OUT packets of the host
  MaxTx,       \* bound on the buffers the user sends
  MaxReset     \* bound on the resets and SET_CONFIGURATION requests

VARIABLES
  rx, tx,     \* the driver's and the controller's state of both directions
  user,       \* what user code is doing with the endpoint
  given,      \* given[b]: the size of the b-th buffer the user sent
  completed,  \* the buffers tx_complete was called for since the last reset
  delivered,  \* what rx_callback got, call by call
  host        \* the host's side of both pipes

Min2(a, b) == IF a < b THEN a ELSE b

(* endp_tx_set_new_buffer refuses a longer buffer and changes nothing.     *)
Accepted == {size \in TxSizes : size <= MaxPacketSizeWithBurst}

(* The bytes of the b-th buffer.                                           *)
Buffer(b) == [i \in 1..given[b] |-> [buf |-> b, off |-> i - 1]]
=============================================================================
