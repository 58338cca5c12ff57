----------------------------- MODULE MCEndToEnd -----------------------------
(***************************************************************************)
(* An instance of EndToEnd with the stations of MCService.                 *)
(***************************************************************************)
EXTENDS EndToEnd

Epoch(id, start, end) == [id |-> id, start |-> start, end |-> end]

A == Epoch("A", 0, 1)
B == Epoch("B", 1, 9)

MCStation == {A, B}
MCList == SUBSET MCStation
MCId == {"A", "B"}

(* The server's region has A, the updater brings B. *)
Regions == [p \in Process |-> IF p = server THEN <<A>> ELSE <<B>>]
=============================================================================
