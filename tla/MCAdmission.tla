----------------------------- MODULE MCAdmission -----------------------------
(* Admission for TLC: three requests for two connections. *)
EXTENDS Admission

CONSTANTS s1, s2, s3

MCSessions == {s1, s2, s3}
=============================================================================
