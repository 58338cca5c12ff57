---------------------------- MODULE StationTable ----------------------------
(***************************************************************************)
(* The rows of the table "station" and the questions the SQL of            *)
(* src/src/database.cpp asks of them.  A station is one epoch of a seismic *)
(* station: `id` stands for the normalised (network, name) pair, `start`   *)
(* and `end` for the epoch in seconds, `info` for the data a property only *)
(* compares (position, elevation, description, last_modified).             *)
(***************************************************************************)
EXTENDS Integers

CONSTANTS Station,     \* the Station objects a program may hold
          Unkeyed,     \* those without a network, a name or an epoch
          Unlocated,   \* those without a latitude, longitude or elevation
          Unstorable   \* those with a NaN coordinate: SQLite binds NaN as NULL

(***************************************************************************)
(* Station::setStartAndEndTime throws unless the start precedes the end.   *)
(***************************************************************************)
ASSUME StationAssumption ==
    /\ \A s \in Station : s.start \in Int /\ s.end \in Int /\ s.start < s.end
    /\ Unkeyed \cup Unlocated \cup Unstorable \subseteq Station

(***************************************************************************)
(* UNIQUE(network, name, start_time).                                      *)
(***************************************************************************)
SameKey(r, s) == r.id = s.id /\ r.start = s.start

(* Mutant: the table is created without its UNIQUE clause. *)
NoKey(rows, s) == FALSE

KeyTaken(rows, s) == \E r \in rows : SameKey(r, s)

(***************************************************************************)
(* The WHERE clause of Database::exists, as the SQL writes it.             *)
(***************************************************************************)
Covers(r, s) ==
    \/ r.start >= s.start /\ s.start <= r.end
    \/ r.start >= s.end /\ s.end <= r.end

Exists(rows, s) == \E r \in rows : r.id = s.id /\ Covers(r, s)

(***************************************************************************)
(* What that clause comes to for rows with start < end (a theorem of       *)
(* StationTable_proofs): some row of the station starts at or after s.     *)
(***************************************************************************)
StartsAtOrAfter(rows, s) == \E r \in rows : r.id = s.id /\ r.start >= s.start

(***************************************************************************)
(* The constraints of CREATE TABLE station an INSERT must meet.            *)
(***************************************************************************)
Insertable(rows, s) == s \notin Unstorable /\ ~KeyTaken(rows, s)

(* Mutant: the end of the epoch is exclusive. *)
ActiveUntil(rows, t) == {r \in rows : r.start <= t /\ t < r.end}

(***************************************************************************)
(* The rows of the two "active station" queries at time t: both bounds of  *)
(* the epoch are inclusive.                                                *)
(***************************************************************************)
Active(rows, t) == {r \in rows : r.start <= t /\ t <= r.end}

(***************************************************************************)
(* No two rows share a key, and every row is one the constraints admit.    *)
(***************************************************************************)
WellKeyed(rows) ==
    /\ rows \subseteq Station \ Unstorable
    /\ \A r, s \in rows : SameKey(r, s) => r = s
=============================================================================
