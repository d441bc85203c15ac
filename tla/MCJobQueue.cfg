CONSTANTS
    j1 = j1
    j2 = j2
    j3 = j3
    p1 = p1
    e1 = e1
    e2 = e2
    Jobs = {j1, j2, j3}
    Partitions = {p1}
    Executors = {e1, e2}
    Tokens = {1, 2, 3, 4, 5}
    PartitionOf <- MCPartitionOf
    Lane <- MCLane
    MaxAttempts = 2
    NoPartition = NoPartition
    NoToken = NoToken
    NoJob = NoJob
SPECIFICATION Spec
INVARIANTS SoleOwner
PROPERTIES ImplementsJobLease
SYMMETRY MCSymmetry
CHECK_DEADLOCK FALSE
