SPECIFICATION PairSpec
CONSTANTS
    MaxRows = 4
    MaxPending = 1
    BatchSize = 1
    BacklogWarn = 0
    MaxFailures = 2
    MaxBusLosses = 1
    Channels = {a}
    Keys = {low, ok}
    None = None
    MaxRecords = 2
    MaxChanges = 4
    MaxBlips = 2
INVARIANTS
    NothingUncounted
    NewestRowIsTrue
PROPERTIES
    BacklogIsWritten
CHECK_DEADLOCK FALSE
