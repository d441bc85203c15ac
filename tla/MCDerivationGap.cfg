CONSTANTS
    e1 = e1
    e2 = e2
    Executors = {e1, e2}
    Nobody = Nobody
    MaxSeq = 3
    MaxAttempts = 2
    MaxRuns = 2
    MaxRecords = 2
    Settings <- MCUnkeyed
SPECIFICATION Spec
INVARIANTS NoForgottenRecord
SYMMETRY MCSymmetry
CHECK_DEADLOCK FALSE
