------------------------------ MODULE MCConnQueue ------------------------------
(* Small instances of ConnQueue for TLC. *)
EXTENDS ConnQueue, TLC

CONSTANTS s1, s2, f1

\* Everything has been sent, written or given up.
Finished ==
  /\ \A s \in Senders : sent[s] = BoundOf(s) /\ pc[s] = "idle"
  /\ done /\ loop = "gone"
  /\ UNCHANGED vars

MCNext == Next \/ Finished
MCSpec == Init /\ [][MCNext]_vars
MCFairSpec == MCSpec /\ Fairness
=============================================================================
