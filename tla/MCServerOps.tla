----------------------------- MODULE MCServerOps -----------------------------
(* ServerOps for TLC: one script of each kind, again and again.  One commit   *)
(* does not start, and one of the configurations suits one commit only.       *)
EXTENDS ServerOps, TLC

CONSTANTS v1, v2, v3, f1, f2

MCCommits == {v1, v2, v3}
MCConfigs == {f1, f2}
MCSound == {<<v1, f1>>, <<v1, f2>>, <<v2, f1>>}
=============================================================================
