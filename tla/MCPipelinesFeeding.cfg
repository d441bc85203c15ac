CONSTANTS
    e1 = e1
    e2 = e2
    Executors = {e1, e2}
    Nobody = Nobody
    MaxSeq = 2
    MaxAttempts = 2
    MaxRuns = 2
    MaxRecords = 2
    Settings <- MCTriggered
    p1 = p1
    p2 = p2
    Pipes = {p1, p2}
    MaxDepth = 2
    MaxLog = 6
    Designs <- MCFeeding
    Parts = {"cascade"}
SPECIFICATION PipelinesSpec
INVARIANTS NoSelfFeeding
CHECK_DEADLOCK FALSE
