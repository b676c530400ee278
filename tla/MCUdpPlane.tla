------------------------------ MODULE MCUdpPlane ------------------------------
(* Small instances of UdpPlane for TLC. *)
EXTENDS UdpPlane

CONSTANTS p1, p2, p3, a1, a2, f1
=============================================================================
