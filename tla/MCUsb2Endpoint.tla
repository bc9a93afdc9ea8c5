--------------------------- MODULE MCUsb2Endpoint ---------------------------
(* The instances of Usb2Endpoint that TLC checks.                          *)
EXTENDS Usb2Endpoint
=============================================================================
