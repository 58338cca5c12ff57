\* One loader, no faults: an epoch is skipped because a later one is stored.
SPECIFICATION Spec
CONSTANTS
    updater = updater
    server = server
    Process = {updater}
    Station <- MCStation
    Unkeyed = {}
    Unlocated = {}
    Unstorable <- MCUnstorable
    Batch <- NewestFirst
    MaxFaults = 0

INVARIANT SkippedMeansOverlap
CHECK_DEADLOCK FALSE
