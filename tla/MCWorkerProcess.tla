-------------------------- MODULE MCWorkerProcess --------------------------
(* Small instances of WorkerProcess: two generations are a worker and its   *)
(* replacement; the configurations that look for a disagreement have three, *)
(* for the next candidate after a failed replacement.                       *)
EXTENDS WorkerProcess
=============================================================================
