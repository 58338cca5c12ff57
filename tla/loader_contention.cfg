\* Two loaders of the same region start together on a file that does not exist,
\* one of them may die or fail at any point, and each meets a half-filled station.
SPECIFICATION FairSpec
CONSTANTS
    updater = updater
    server = server
    Process = {updater, server}
    Station <- MCStation
    Unkeyed <- NoKeySet
    Unlocated <- NoPosition
    Unstorable <- MCUnstorable
    Batch <- TwoCareless
    MaxFaults = 1
INVARIANTS IInv StoreConsistent CheckedAtCommit SettledOrWarned
    HalfFilledNeverStored
PROPERTIES StoreRefined RunEnds
CHECK_DEADLOCK FALSE
