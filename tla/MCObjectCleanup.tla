-------------------------- MODULE MCObjectCleanup --------------------------
(* Model values and bounds for ObjectCleanup.                              *)
EXTENDS ObjectCleanup
CONSTANTS s1, l1, a1, a2
OneSession == {s1}
OneLocation == {l1}
OneActor == {a1}
TwoActors == {a1, a2}
=============================================================================
