\* One loader, launched again after one death: the file never becomes usable.
SPECIFICATION RestartSpec
CONSTANTS
    updater = updater
    server = server
    Process = {updater}
    Station <- MCStation
    Unkeyed = {}
    Unlocated = {}
    Unstorable <- MCUnstorable
    Batch <- MixedBatch
    MaxFaults = 1

PROPERTY EventuallyLoaded
CHECK_DEADLOCK FALSE
