------------------------ MODULE MCInstanceLifecycle ------------------------
(* Bounded instances of InstanceLifecycle for TLC. *)
EXTENDS InstanceLifecycle

Symmetric == Permutations(ChatTurns)
=============================================================================
