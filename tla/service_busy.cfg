\* A station that is running is not found while the updater writes.
SPECIFICATION ServiceSpec
CONSTANTS
    server = server
    Process = {server, updater}
    Station <- MCStation
    Unkeyed = {}
    Unlocated = {}
    Unstorable = {}
    Batch <- Regions
    MaxFaults = 0
    Call = {c1}
    Id <- MCId
    All = All
    Blank = Blank
    MaxTime = 1
INVARIANT NotFoundMeansNone
CHECK_DEADLOCK FALSE
