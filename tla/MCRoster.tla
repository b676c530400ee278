------------------------------- MODULE MCRoster -------------------------------
(* Roster for TLC.                                                         *)
EXTENDS Roster, TLC

CONSTANTS p1, p2
=============================================================================
