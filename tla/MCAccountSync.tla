--------------------------- MODULE MCAccountSync ---------------------------
(* Small instances of AccountSync. *)
EXTENDS AccountSync, TLC

CONSTANTS t1, t2, A, B, s1, s2, s3
=============================================================================
