CONSTANTS
    x1 = x1
    x2 = x2
    x3 = x3
    Parts = {"projection"}
    Nobody = Nobody
    Records = {x1, x2, x3}
    Pipelines = {1, 2}
    MaxSeq = 3
    Arrivals <- MCArrivals
    Executors = {x1, x2, x3}
    NoJob = NoJob
    MaxVersion = 3
    MaxAttempts = 2
    Settings <- MCMixed
    Authors = {x1}
    Publishers = {x2, x3}
    Undeclared = Undeclared
    Histories <- MCHistories
    Workers = {x2, x3}
    None = None
    Changes <- MCChanges
    Hooks = {x2, x3}
    Times = {0, 2}
    RetryFor = 1
    Remembered = 1
    Sessions <- MCSessions
SPECIFICATION StoresSpec
INVARIANT NoUnattendedDrift
SYMMETRY StoresSymmetry
CHECK_DEADLOCK FALSE
