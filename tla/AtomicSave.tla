------------------------------ MODULE AtomicSave ------------------------------
(***************************************************************************)
(* What the save of a brain promises to everything above it: what is on    *)
(* disk is always one whole earlier state of the memory, a save replaces   *)
(* it by a later one in a single step, and a process that starts again     *)
(* holds exactly what is on disk (src/engine/omni_core/                    *)
(* paged_substrate_writer.py and paged_dirty_journal.py, whose comments    *)
(* call brain.json the authority and everything else a derived cache).     *)
(***************************************************************************)
EXTENDS Integers

CONSTANTS Records,   \* identifiers of the rows a brain may hold
          Neurons,   \* those that decay
          Values,    \* the strengths a row may hold
          None       \* no such row, and no snapshot

VARIABLES memory,    \* the rows of the running worker
          disk,      \* the rows the next worker will load
          snapshot   \* the rows a save has written and not committed, or None

avars == <<memory, disk, snapshot>>

AInit == /\ memory \in [Records -> Values \cup {None}]
         /\ disk = memory
         /\ snapshot = None

Change(r, c) == memory' = [memory EXCEPT ![r] = c] /\ UNCHANGED <<disk, snapshot>>

Decayed(m) == [r \in Records |-> IF r \in Neurons /\ m[r] \notin {None, 0} THEN m[r] - 1 ELSE m[r]]
Decay == memory' = Decayed(memory) /\ UNCHANGED <<disk, snapshot>>

(* The snapshot is the memory at one moment, whatever is learned around it. *)
Take == snapshot' = memory /\ UNCHANGED <<memory, disk>>

GiveUp == snapshot' = None /\ UNCHANGED <<memory, disk>>

Commit == snapshot # None /\ disk' = snapshot /\ snapshot' = None /\ UNCHANGED memory

Restart == memory' = disk /\ snapshot' = None /\ UNCHANGED disk

ANext == \/ \E r \in Records, c \in Values \cup {None} : Change(r, c)
         \/ Decay \/ Take \/ GiveUp \/ Commit \/ Restart

ASpec == AInit /\ [][ANext]_avars
=============================================================================
