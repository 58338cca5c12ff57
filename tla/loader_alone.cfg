\* One loader and its restarts: deaths and failing calls at any point, hot journals, a
\* station with two epochs and one the table refuses.
SPECIFICATION RestartSpec
CONSTANTS
    updater = updater
    server = server
    Process = {updater}
    Station <- MCStation
    Unkeyed = {}
    Unlocated = {}
    Unstorable <- MCUnstorable
    Batch <- MixedBatch
    MaxFaults = 3
INVARIANTS TypeOK AloneInv SuccessMeansStored
PROPERTIES InsertIfSeenAbsent ReadyThenLoaded
CHECK_DEADLOCK FALSE
