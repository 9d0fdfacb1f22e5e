\* Two threads start processes at once, and two socket pairs fill the table.
SPECIFICATION Spec
CONSTANTS
    Spawners = {t1, t2}
    Limit = 7
    IntBits = 8
    None = none
INVARIANT
    OnlyOwnSocket
CHECK_DEADLOCK FALSE
