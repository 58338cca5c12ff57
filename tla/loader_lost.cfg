\* Two loaders, no faults: a run reports success without its stations.
SPECIFICATION Spec
CONSTANTS
    updater = updater
    server = server
    Process = {updater, server}
    Station <- MCStation
    Unkeyed = {}
    Unlocated = {}
    Unstorable <- MCUnstorable
    Batch <- TwoReleases
    MaxFaults = 0
INVARIANT SuccessMeansStored

CHECK_DEADLOCK FALSE
