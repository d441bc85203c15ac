CONSTANTS
    e1 = e1
    e2 = e2
    Executors = {e1, e2}
    Nobody = Nobody
    MaxAttempts = 2
    MaxTurns = 1
    MaxRevivals = 1
    Deployments <- MCDeployments
    Pipelines = {e1, e2}
    Reviews <- MCReviews
    MaxTime = 4
    Paces <- MCPaces
    Parts = {"executions"}
    Clients = {e1, e2}
    RecordDepth = 1
    MaxStored = 5
    Preserved <- MCPreserved
    Worlds <- MCWorlds
    MaxRuns = 3
    Traffics <- MCTraffics
    LastHour = 4
    Schedules <- MCSchedules
    Rows = {1, 2, 3, 4}
    Undertakings <- MCForgetful
    MaxTries = 2
    MaxErased = 1
SPECIFICATION ServicesSpec
INVARIANTS RunsRememberReads
CHECK_DEADLOCK FALSE
