CONSTANTS
    e1 = e1
    e2 = e2
    Executors = {e1, e2}
    Nobody = Nobody
    MaxSeq = 3
    MaxAttempts = 2
    MaxRuns = 2
    MaxRecords = 2
    Settings <- MCSettings
    Deployed <- MCLimits
    Sources <- MCSources
    Deployments <- MCDeployments
    Shelves <- MCShelves
    Specs <- MCSpecs
    MaxRows = 4
    MaxChanges = 2
    AtOnce = 1
    Places = {1, 2, 3, 4}
    MaxPages = 3
    MaxLinks = 5
    Atlases <- MCAtlases
    Ceiling <- MCCeiling
SPECIFICATION ReadersSpec
INVARIANTS ConsumedOnce NeverSkips ManualReflected NothingDangles HitsHold NothingIsMissed OrphansAreIsolated
SYMMETRY MCSymmetry
CHECK_DEADLOCK FALSE
