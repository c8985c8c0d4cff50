\* Two turns, two tool results, four saves of brain.json and two faults: a turn is
\* suspended, resumed, suspended again and answered, or stopped, sent again,
\* suspended under another identity and answered, with a fault at any step.
CONSTANTS
    Turns = {t1, t2}
    Observations = {o1, o2}
    Identifiers = {i1, i2, i3}
    NoTurn = none
    MaxSaves = 4
    MaxFaults = 2
SPECIFICATION Spec
SYMMETRY Symmetric
INVARIANTS PointerIntact AnsweredOnce ObservationsCountOnce TombstoneIsFinal
CHECK_DEADLOCK FALSE
