\* The bounds of ExecutionCheckpoint.cfg.  TLC stops at the first of the three that is violated;
\* leave out its line to see the others.  A second suspension of a turn that fails after
\* brain.json was replaced leaves the first frontier unusable; the worker dies between the
\* completion receipt of a resumed turn and the end of its checkpoint; a stopped turn that is
\* sent again is executed, since only receipts are consulted.
CONSTANTS
    Turns = {t1, t2}
    Observations = {o1, o2}
    Identifiers = {i1, i2, i3}
    NoTurn = none
    MaxSaves = 4
    MaxFaults = 2
SPECIFICATION Spec
SYMMETRY Symmetric
INVARIANT SavedTurnStaysExecutable
INVARIANT CommittedTurnCanBeReconciled
INVARIANT StoppedTurnStaysStopped
CHECK_DEADLOCK FALSE
