\* A list query that fails is answered OK.
SPECIFICATION ServiceSpec
CONSTANTS
    server = server
    Process = {server}
    Station <- MCStation
    Unkeyed = {}
    Unlocated = {}
    Unstorable = {}
    Batch <- OneRegion
    MaxFaults = 1
    Call = {c1}
    Id <- MCId
    All = All
    Blank = Blank
    MaxTime = 1
INVARIANT FailureReported
CHECK_DEADLOCK FALSE
