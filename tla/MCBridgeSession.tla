---------------------------- MODULE MCBridgeSession ----------------------------
(* Small instances of BridgeSession for TLC. *)
EXTENDS BridgeSession

CONSTANTS l1, l2, l3
=============================================================================
