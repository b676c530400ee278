---------------------------- MODULE MCRoomRegistry ----------------------------
(* A small instance of RoomRegistry for TLC: two sessions, one at a time   *)
(* in a room, and two rooms, of which the second may be created with a     *)
(* password.                                                               *)
EXTENDS RoomRegistry

CONSTANTS p1, p2, r1, r2

\* Two spellings of one name and a second name.
MCLower == [s \in Spellings |-> IF s = "Trio" THEN "trio" ELSE "jam"]
=============================================================================
