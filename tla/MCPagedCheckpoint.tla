-------------------------- MODULE MCPagedCheckpoint --------------------------
(* Three rows of one kind in one bucket, which parts of two rows cannot hold; *)
(* an assembly, where there is one, has a bucket of its own.                 *)
EXTENDS PagedCheckpoint
MCBucket == [r \in Records |-> IF r \in Neurons THEN 0 ELSE 1]

MCWritten == {1, None}
=============================================================================
