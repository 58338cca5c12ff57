------------------------------ MODULE MCLoader ------------------------------
(***************************************************************************)
(* Instances of MetadataLoader: two stations A and B; A has an early epoch *)
(* and a later one, and a revision of the early one with the same key; C   *)
(* and D are half-filled.                                                  *)
(***************************************************************************)
EXTENDS MetadataLoader

CONSTANTS updater, server

Epoch(id, start, end, info) == [id |-> id, start |-> start, end |-> end, info |-> info]

A1 == Epoch("A", 1, 3, "first")
A1b == Epoch("A", 1, 4, "revised")
A4 == Epoch("A", 4, 6, "first")
B2 == Epoch("B", 2, 5, "first")
BNaN == Epoch("B", 2, 5, "nan")
C1 == Epoch("C", 0, 1, "no key")
D1 == Epoch("D", 0, 1, "no position")

MCStation == {A1, A1b, A4, B2, BNaN, C1, D1}
MCUnstorable == {BNaN}

(* One process, several epochs of one station, a row SQLite refuses. *)
MixedBatch == [p \in Process |-> <<A4, BNaN, A1b, B2>>]

(* Two programs with the same region, one built from a later release of the *)
(* data that revises A.                                                    *)
TwoReleases == [p \in Process |-> IF p = updater THEN <<A1b, B2>> ELSE <<A1, B2>>]

(* The same two, one with a half-filled station in the middle of its batch, *)
(* the other at the end.                                                    *)
TwoCareless == [p \in Process |-> IF p = updater THEN <<A1b, C1, B2>> ELSE <<A1, B2, D1>>]
NoKeySet == {C1}
NoPosition == {D1}

(* The epochs of a station listed with the newest first. *)
NewestFirst == [p \in Process |-> <<A4, A1, B2>>]
=============================================================================
