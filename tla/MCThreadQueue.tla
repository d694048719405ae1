--------------------------- MODULE MCThreadQueue ---------------------------
(* Instances of ThreadQueue for TLC. *)
EXTENDS ThreadQueue, TLC

CONSTANTS s1, s2, r1, r2, r3, child, parent, plain

MCParent == (child :> parent) @@ (parent :> None) @@ (plain :> None)
MCListens == (r1 :> parent) @@ (r2 :> plain) @@ (r3 :> plain)
MCSendTo == (s1 :> {child, plain}) @@ (s2 :> {plain})
MCMaxSends == (s1 :> 2) @@ (s2 :> 1)
MCHow == (child :> {"poll"}) @@ (parent :> {"wait", "poll"}) @@ (plain :> {"fd"})

\* Receivers of one queue that wait and receivers that poll.
MCHowMixed == (child :> {"poll"}) @@ (parent :> {"wait"}) @@ (plain :> {"wait", "poll"})
=============================================================================
