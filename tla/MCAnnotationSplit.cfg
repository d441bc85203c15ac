CONSTANTS
    w1 = w1
    w2 = w2
    Parts = {"sweeps"}
    Workers = {w1, w2}
    Executors = {w1, w2}
    Nobody = Nobody
    NoRun = NoRun
    Records = {1, 2, 3}
    Batch = 1
    Values = {"a", "b"}
    Settings <- MCSplit
    MaxSeq = 2
    MaxHandles = 2
    MaxAttempts = 2
    Replies = {"a", "b"}
    Unowned = Unowned
    Targets <- MCTargets
SPECIFICATION AnnotationSpec
INVARIANTS GroupAllOrNone
CHECK_DEADLOCK FALSE
