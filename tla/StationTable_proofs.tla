------------------------- MODULE StationTable_proofs -------------------------
(***************************************************************************)
(* What the WHERE clause of Database::exists comes to.                     *)
(***************************************************************************)
EXTENDS StationTable, TLAPS

(***************************************************************************)
(* "Already exists" does not mean "overlaps": a station is covered exactly *)
(* when some row of it starts at or after its own start, whatever the two  *)
(* ends are.  The second disjunct of the SQL never decides.                *)
(***************************************************************************)
THEOREM ExistsMeansStartsAtOrAfter ==
    ASSUME NEW rows \in SUBSET Station, NEW s \in Station
    PROVE  Exists(rows, s) <=> StartsAtOrAfter(rows, s)
<1>1. ASSUME NEW r \in rows
      PROVE  Covers(r, s) <=> r.start >= s.start
  <2>1. /\ r.start \in Int /\ r.end \in Int /\ r.start < r.end
        /\ s.start \in Int /\ s.end \in Int /\ s.start < s.end
    BY StationAssumption
  <2>2. QED
    BY <2>1 DEF Covers
<1>2. QED
  BY <1>1 DEF Exists, StartsAtOrAfter

(***************************************************************************)
(* A row with the key of s covers s.                                       *)
(***************************************************************************)
THEOREM KeyTakenExists ==
    ASSUME NEW rows \in SUBSET Station, NEW s \in Station, KeyTaken(rows, s)
    PROVE  Exists(rows, s)
<1>1. PICK r \in rows : SameKey(r, s)
  BY DEF KeyTaken
<1>2. r.id = s.id /\ r.start >= s.start
  BY <1>1, StationAssumption DEF SameKey
<1>3. QED
  BY <1>2, ExistsMeansStartsAtOrAfter DEF StartsAtOrAfter

(***************************************************************************)
(* Rows are only added, so what is covered stays covered, and a row that   *)
(* is inserted covers itself.                                              *)
(***************************************************************************)
LEMMA ExistsGrows ==
    ASSUME NEW S, NEW T, NEW s, S \subseteq T, Exists(S, s)
    PROVE  Exists(T, s)
BY DEF Exists

(***************************************************************************)
(* The station just inserted exists: its own row covers it.                *)
(***************************************************************************)
LEMMA InsertedExists ==
    ASSUME NEW S \in SUBSET Station, NEW s \in Station
    PROVE  Exists(S \cup {s}, s)
<1>1. s.start \in Int /\ s.end \in Int /\ s.start < s.end
  BY StationAssumption
<1>2. s \in S \cup {s} /\ s.id = s.id /\ Covers(s, s)
  BY <1>1 DEF Covers
<1>3. QED
  BY <1>2 DEF Exists

(***************************************************************************)
(* An INSERT the constraints admit keeps the table well keyed.             *)
(***************************************************************************)
LEMMA InsertKeepsKeys ==
    ASSUME NEW rows \in SUBSET Station, NEW s \in Station,
           WellKeyed(rows), Insertable(rows, s)
    PROVE  WellKeyed(rows \cup {s})
BY DEF WellKeyed, Insertable, KeyTaken, SameKey
=============================================================================
