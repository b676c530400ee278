------------------------------ MODULE MCRoomAudio ------------------------------
(* Small instances of RoomAudio for TLC. *)
EXTENDS RoomAudio

CONSTANTS p1, p2
=============================================================================
