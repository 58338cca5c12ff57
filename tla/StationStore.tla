---------------------------- MODULE StationStore ----------------------------
(***************************************************************************)
(* What the database promises the programs that fill it: a store that is   *)
(* created once, becomes ready once, and then takes a station only if no   *)
(* row covers it yet, in one atomic step; what is in it stays as it was    *)
(* inserted.  MetadataLoader, with its locks, journals, stale schemas,     *)
(* deaths and the gap between Database::exists and the INSERT, is shown to *)
(* implement it for batches in which a station has one epoch.              *)
(***************************************************************************)
EXTENDS StationTable

VARIABLES stage,  \* "absent", "empty" (no station table) or "ready"
          rows    \* the stations stored

storeVars == <<stage, rows>>

StoreInit == stage = "absent" /\ rows = {}

CreateFile == stage = "absent" /\ stage' = "empty" /\ UNCHANGED rows

CreateStationTable == stage = "empty" /\ stage' = "ready" /\ UNCHANGED rows

InsertStation(s) ==
    /\ stage = "ready"
    /\ s \notin Unstorable /\ ~Exists(rows, s)
    /\ rows' = rows \cup {s}
    /\ UNCHANGED stage

StoreNext ==
    CreateFile \/ CreateStationTable \/ \E s \in Station : InsertStation(s)

StoreSpec == StoreInit /\ [][StoreNext]_storeVars
=============================================================================
