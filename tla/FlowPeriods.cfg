SPECIFICATION Spec
CONSTANTS
    MaxTime = 3
    MaxInterval = 1
    MaxWire = 2
    MaxResets = 3
    MaxOvertakes = 1
    MaxFaults = 2
INVARIANTS
    EverySecondOnce
PROPERTIES
    ClosedIsRecorded
CHECK_DEADLOCK FALSE
