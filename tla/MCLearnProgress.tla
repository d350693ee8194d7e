--------------------------- MODULE MCLearnProgress ---------------------------
(* Small instances of LearnProgress. *)
EXTENDS LearnProgress, TLC

CONSTANTS d1, d2

\* One write each; the clocks may show them in either order.
TwoClocks == (d1 :> {2}) @@ (d2 :> {1})
\* The second device kept its progress in localStorage.
OldPass == (d1 :> NoLegacy) @@ (d2 :> [passed |-> {2}, skips |-> 0])
\* One device, which writes three times.
OneClock == d1 :> {1, 2, 3}
NewApp   == d1 :> NoLegacy
=============================================================================
