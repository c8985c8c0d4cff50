------------------------ MODULE MCExecutionCheckpoint ------------------------
(***************************************************************************)
(* Model checking of ExecutionCheckpoint.                                  *)
(***************************************************************************)
EXTENDS ExecutionCheckpoint, TLC

\* Turns, observations and identifiers are interchangeable.
Symmetric == Permutations(Turns) \cup Permutations(Observations) \cup Permutations(Identifiers)
==============================================================================
