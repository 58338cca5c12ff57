----------------------------- MODULE MCService ------------------------------
(***************************************************************************)
(* Instances of StationService: stations A and B, A until time 1 and B from *)
(* time 1 on.  The server's region has A, the updater brings B.            *)
(***************************************************************************)
EXTENDS StationService, TLC

Epoch(id, start, end) == [id |-> id, start |-> start, end |-> end]

A == Epoch("A", 0, 1)
B == Epoch("B", 1, 9)

MCStation == {A, B}
MCId == {"A", "B"}

Regions == [p \in Process |-> IF p = server THEN <<A>> ELSE <<B>>]

(* The server alone, with both. *)
OneRegion == [p \in Process |-> <<A, B>>]

(* Handlers are interchangeable. *)
CallSymmetry == Permutations(Call)
=============================================================================
