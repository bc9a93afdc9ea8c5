--------------------------- MODULE MCUsb3Endpoint ---------------------------
(* The instances of Usb3Endpoint that TLC checks.                          *)
EXTENDS Usb3Endpoint, Bitwise

FieldOr(a, b) == a | b
=============================================================================
