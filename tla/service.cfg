\* The server and an updater, two handlers reading on one connection, one fault.
SPECIFICATION ServiceSpec
CONSTANTS
    server = server
    Process = {server, updater}
    Station <- MCStation
    Unkeyed = {}
    Unlocated = {}
    Unstorable = {}
    Batch <- Regions
    MaxFaults = 1
    Call = {c1, c2}
    Id <- MCId
    All = All
    Blank = Blank
    MaxTime = 1
SYMMETRY CallSymmetry
INVARIANTS ServiceInv ServingPrepared ServesItsBatch SnapshotList StationReply
