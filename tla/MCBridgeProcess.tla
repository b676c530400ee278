---------------------------- MODULE MCBridgeProcess ----------------------------
(* BridgeProcess for TLC.                                                       *)
EXTENDS BridgeProcess, TLC
=============================================================================
