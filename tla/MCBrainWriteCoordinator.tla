---------------------- MODULE MCBrainWriteCoordinator ----------------------
(* One call for the first brain, one for both, and one for the second or for *)
(* both: up to three calls queue on a brain, and two queue on both brains.   *)
EXTENDS BrainWriteCoordinator, TLC

CONSTANTS w1, w2, w3

MCWriters == {w1, w2, w3}
MCScopes == (w1 :> {{1}}) @@ (w2 :> {{1, 2}}) @@ (w3 :> {{2}, {1, 2}})
=============================================================================
