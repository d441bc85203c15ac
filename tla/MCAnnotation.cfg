CONSTANTS
    w1 = w1
    w2 = w2
    Parts = {"sweeps", "backfill"}
    Workers = {w1, w2}
    Executors = {w1, w2}
    Nobody = Nobody
    NoRun = NoRun
    Records = {1, 2, 3}
    Batch = 1
    Values = {"a", "b"}
    Settings <- MCSettings
    MaxSeq = 2
    MaxHandles = 2
    MaxAttempts = 2
    Replies = {"a", "b"}
    Unowned = Unowned
    Targets <- MCTargets
SPECIFICATION FairAnnotationSpec
INVARIANTS ReadyOnce DoneMeansDone
PROPERTIES WriteOnce EveryRowEnriched EveryBackfillEnds
CHECK_DEADLOCK FALSE
