\* Four days of four instants; events up to three days old.
SPECIFICATION Spec
CONSTANTS
    Event = {e1}
    InstantsPerDay = 4
    LastRun = 2
    MaxTime = 15
INVARIANTS
    TypeOK
    NoSilentLateData
\* The clock stops at MaxTime.
CHECK_DEADLOCK FALSE
PROPERTY LateIsFinal
