\* A client, the server and an updater on one file, with one fault.
SPECIFICATION FairEndToEndSpec
CONSTANTS
    server = server
    Process = {server, updater}
    Station <- MCStation
    Unkeyed = {}
    Unlocated = {}
    Unstorable = {}
    Batch <- Regions
    MaxFaults = 1
    Thread = {t1}
    Call = {t1}
    Id <- MCId
    All = All
    Blank = Blank
    MaxTime = 1
    List <- MCList
    Malformed = Malformed
    Failed = Failed
    Unset = Unset
    Exception = Exception
INVARIANTS EndToEndInv FrameSafe StatusSeen NoLostWakeup
PROPERTIES QueryKept ClientReturns CallEnds LoadEnds
