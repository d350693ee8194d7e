--------------------------- MODULE PracticeMedia ---------------------------
(***************************************************************************)
(* What the lesson page promises of its media, whatever they are: one at a *)
(* time.  A medium that the page starts finds the others stopped; one that *)
(* the learner starts with the controls of its own player may overlap      *)
(* another until its play event is handled, which stops the rest.          *)
(***************************************************************************)
VARIABLES
  on,      \* the media that play, record, listen or wait for the microphone
  pending  \* those whose play event is still to be handled

vars == <<on, pending>>

Init == on = {} /\ pending = {}

\* A play event is dropped only with its medium.
Kept == pending \cap on' \subseteq pending'

\* x starts: nothing else stays on but what still has its play event to come.
Start(x) ==
  /\ x \in on' /\ on' \ {x} \subseteq on \cap pending
  /\ Kept /\ pending' \subseteq pending \cup {x}

\* x starts by its own player, beside what is on.
SelfStart(x) ==
  /\ x \in on' /\ on' \ {x} \subseteq on
  /\ x \in pending' /\ Kept /\ pending' \subseteq pending \cup {x}

\* The play event of x stops the others.
Handle(x) ==
  /\ x \in pending
  /\ on' = on \cap {x} /\ pending' = pending \ {x}

Stop == on' \subseteq on /\ Kept /\ pending' \subseteq pending

Next ==
  \/ Stop
  \/ \E x \in on' : Start(x) \/ SelfStart(x)
  \/ \E x \in pending : Handle(x)

Spec == Init /\ [][Next]_vars

\* "One practice medium at a time": of the media whose play events have all
\* been handled, at most one is on (usePracticeMedia).
OneMedium == \A x, y \in on \ pending : x = y
=============================================================================
