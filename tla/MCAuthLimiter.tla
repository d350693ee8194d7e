--------------------------- MODULE MCAuthLimiter ---------------------------
(* Small instances of AuthLimiter. *)
EXTENDS AuthLimiter, TLC

CONSTANTS r1, r2, r3, i1, i2, e1, e2

LimiterSymmetry == Permutations({r1, r2, r3}) \cup Permutations({i1, i2}) \cup Permutations({e1, e2})
=============================================================================
