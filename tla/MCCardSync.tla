----------------------------- MODULE MCCardSync -----------------------------
(* Small instances of CardSync. *)
EXTENDS CardSync, TLC

CONSTANTS d1, d2, t1, t2, c1, c2

\* One tab on each of two devices.
TwoDevices == (t1 :> d1) @@ (t2 :> d2)
\* Two tabs of one device.
TwoTabs == (t1 :> d1) @@ (t2 :> d1)

\* One card each, never reviewed.
OldBackups ==
  {[c \in Cards |-> IF c # old THEN NoCard ELSE
      [at |-> 1, del |-> FALSE, body |-> "text", fsrs |-> [last |-> 0, due |-> "due"]]] : old \in Cards}

\* The two devices are interchangeable, each with its tab, and so are the cards.
Roles == {d1, d2, t1, t2, c1, c2}
Same  == [x \in Roles |-> x]
DeviceSymmetry ==
  {devices @@ cards @@ Same :
     devices \in {<<>>, (d1 :> d2) @@ (d2 :> d1) @@ (t1 :> t2) @@ (t2 :> t1)},
     cards \in {<<>>, (c1 :> c2) @@ (c2 :> c1)}}
=============================================================================
