--------------------------- MODULE MCLiveSensory ---------------------------
(* A small instance of LiveSensory: one reply, before which, in which and   *)
(* after which requests of a capture arrive.                                *)
EXTENDS LiveSensory, TLC

MCTurn == 1 .. 1
=============================================================================
