------------------------ MODULE MetadataObject_proofs ------------------------
(***************************************************************************)
(* Theorems of MetadataObject, for any strings, numbers, times and         *)
(* messages: the documented ranges, and that a message sent on arrives as  *)
(* it is.                                                                  *)
(***************************************************************************)
EXTENDS MetadataObject, TLAPS

(***************************************************************************)
(* Whole turns bring any longitude into the half-open range.               *)
(***************************************************************************)
LEMMA LonTo180Range ==
    ASSUME NEW x \in Int
    PROVE  LonTo180(x) \in -HalfTurn..(HalfTurn - 1)
<1>1. HalfTurn \in Nat \ {0} /\ x # NaN
    BY ObjectAssumption
<1> DEFINE r == (x + HalfTurn) % (2 * HalfTurn)
<1>2. r \in 0..(2 * HalfTurn - 1)
    BY <1>1, SMTT(30)
<1>3. LonTo180(x) = r - HalfTurn
    BY <1>1 DEF LonTo180
<1> QED  BY <1>1, <1>2, <1>3

(***************************************************************************)
(* A longitude in the range stays as it is.                                *)
(***************************************************************************)
LEMMA LonTo180Fixes ==
    ASSUME NEW x \in -HalfTurn..(HalfTurn - 1)
    PROVE  LonTo180(x) = x
<1>1. HalfTurn \in Nat \ {0} /\ x \in Int /\ x # NaN
    BY ObjectAssumption
<1>2. x + HalfTurn \in 0..(2 * HalfTurn - 1)
    BY <1>1
<1>3. (x + HalfTurn) % (2 * HalfTurn) = x + HalfTurn
    BY <1>1, <1>2, SMTT(30)
<1> QED  BY <1>1, <1>3 DEF LonTo180

(***************************************************************************)
(* Rounding gives whole seconds, at most half a second away.               *)
(***************************************************************************)
LEMMA RoundNear ==
    ASSUME NEW m \in Int
    PROVE  /\ RoundToSeconds(m) \in Int
           /\ RoundToSeconds(m) % Second = 0
           /\ 2 * (RoundToSeconds(m) - m) \in -Second..Second
<1>1. Second \in Nat \ {0}
    BY ObjectAssumption
<1> DEFINE nearest(n) == ((2 * n + Second) \div (2 * Second)) * Second
<1>2. ASSUME NEW n \in Nat
      PROVE  /\ nearest(n) \in Int
             /\ nearest(n) % Second = 0
             /\ (-nearest(n)) % Second = 0
             /\ 2 * (nearest(n) - n) \in -Second..Second
    <2> DEFINE k == (2 * n + Second) \div (2 * Second)
               r == (2 * n + Second) % (2 * Second)
    <2>1. k \in Int /\ r \in 0..(2 * Second - 1)
        BY <1>1, SMTT(30)
    <2>2. 2 * n + Second = (2 * Second) * k + r
        BY <1>1, SMTT(30)
    <2>3. nearest(n) = k * Second /\ k * Second \in Int
        BY <1>1, <2>1
    <2>4. 2 * (k * Second - n) = Second - r
        BY <1>1, <2>1, <2>2, SMTT(30)
    <2>5. (k * Second) % Second = 0 /\ (-(k * Second)) % Second = 0
        BY <1>1, <2>1, SMTT(30)
    <2> QED  BY <1>1, <2>1, <2>3, <2>4, <2>5
<1>3. CASE m >= 0
    BY <1>1, <1>2, <1>3 DEF RoundToSeconds
<1>4. CASE m < 0
    <2>1. -m \in Nat /\ ~(m >= 0)
        BY <1>4
    <2>2. RoundToSeconds(m) = -nearest(-m)
        BY <2>1 DEF RoundToSeconds
    <2>3. /\ nearest(-m) \in Int
          /\ (-nearest(-m)) % Second = 0
          /\ 2 * (nearest(-m) - (-m)) \in -Second..Second
        BY <1>2, <2>1
    <2> HIDE DEF nearest
    <2>4. 2 * (-nearest(-m) - m) \in -Second..Second
        BY <1>1, <2>3
    <2> QED  BY <2>2, <2>3, <2>4
<1> QED  BY <1>3, <1>4

(***************************************************************************)
(* Whole seconds stay as they are.                                         *)
(***************************************************************************)
LEMMA RoundFixes ==
    ASSUME NEW m \in Int, m % Second = 0
    PROVE  RoundToSeconds(m) = m
<1>1. Second \in Nat \ {0}
    BY ObjectAssumption
<1> DEFINE nearest(n) == ((2 * n + Second) \div (2 * Second)) * Second
<1>2. ASSUME NEW p \in Nat
      PROVE  nearest(p * Second) = p * Second
    <2>1. 2 * (p * Second) + Second = p * (2 * Second) + Second
        BY <1>1, SMT
    <2>2. (p * (2 * Second) + Second) \div (2 * Second) = p
        BY <1>1, <1>2, SMTT(60)
    <2> QED  BY <2>1, <2>2
<1>3. PICK q \in Int : m = q * Second
    BY <1>1, SMTT(30)
<1>4. CASE m >= 0
    <2>1. q \in Nat
        BY <1>1, <1>3, <1>4, SMTT(30)
    <2>2. RoundToSeconds(m) = nearest(m)
        BY <1>4 DEF RoundToSeconds
    <2> HIDE DEF nearest
    <2> QED  BY <1>2, <1>3, <2>1, <2>2
<1>5. CASE m < 0
    <2>1. -q \in Nat /\ -m = (-q) * Second
        BY <1>1, <1>3, <1>5, SMTT(30)
    <2>2. RoundToSeconds(m) = -nearest(-m)
        BY <1>5 DEF RoundToSeconds
    <2> HIDE DEF nearest
    <2> QED  BY <1>2, <2>1, <2>2
<1> QED  BY <1>4, <1>5

(* Messages, whatever numbers they carry. *)
Deliverable ==
    [name : Text, code : Text, latitude : Int \cup {NaN}, longitude : Int \cup {NaN},
     epoch : Time \X Time, description : Text \cup {Unset}, lastModified : Int]

(***************************************************************************)
(* What the constructors from protobuf make of a message they accept.      *)
(***************************************************************************)
LEMMA ParsedIsTyped ==
    ASSUME NEW k \in {"station", "channel"}, NEW m \in Deliverable, Accepted(m),
           kind' = k, origin' \in {"table", "message"}, object' = Parsed(k, m)
    PROVE  IInv'
<1> DEFINE Spelled == {t \in Text \ {Blank} : Transform[t] = t}
           o == Parsed(k, m)
<1>1. Transform[m.name] \in Spelled
    BY ObjectAssumption DEF Deliverable, Accepted
<1>2. LonTo180(m.longitude) \in (-HalfTurn..(HalfTurn - 1)) \cup {NaN}
    <2>1. CASE m.longitude = NaN
        BY <2>1 DEF LonTo180
    <2>2. CASE m.longitude \in Int
        BY <2>2, LonTo180Range
    <2> QED  BY <2>1, <2>2 DEF Deliverable
<1>3. m.latitude \in (-MaxLatitude..MaxLatitude) \cup {NaN}
    BY DEF Deliverable, Accepted, InLatitude
<1>4. m.epoch \in {e \in Time \X Time : Precedes(e)}
    BY DEF Deliverable, Accepted
<1>5. RoundToSeconds(m.lastModified) \in Int /\ RoundToSeconds(m.lastModified) % Second = 0
    BY RoundNear DEF Deliverable
<1>6. Transform[m.code] \in Text /\ (Transform[m.code] # Blank => Transform[m.code] \in Spelled)
    BY ObjectAssumption DEF Deliverable
<1>7. /\ o \in [name : Spelled \cup {Unset}, code : Spelled \cup {Unset},
                latitude : (-MaxLatitude..MaxLatitude) \cup {NaN, Unset},
                longitude : (-HalfTurn..(HalfTurn - 1)) \cup {NaN, Unset},
                epoch : {e \in Time \X Time : Precedes(e)} \cup {Unset},
                description : Text \cup {Unset}, lastModified : Int]
      /\ IF k = "station" THEN o.code = Unset ELSE o.description = Unset
      /\ o.lastModified % Second = 0
    <2>1. CASE k = "station"
        BY <2>1, <1>1, <1>2, <1>3, <1>4, <1>5 DEF Parsed, Deliverable
    <2>2. CASE k = "channel"
        BY <2>2, <1>1, <1>2, <1>3, <1>4, <1>5, <1>6 DEF Parsed, Coded, Deliverable
    <2> QED  BY <2>1, <2>2
<1> QED  BY <1>7 DEF IInv, TypeOK

(***************************************************************************)
(* Every setter of Station and Channel keeps the documented ranges, in any *)
(* order, and so does what other programs send.                            *)
(***************************************************************************)
THEOREM InvariantHolds == Spec => []IInv
<1>1. Init => IInv
    <2> SUFFICES ASSUME kind \in {"station", "channel"}, origin = "setters",
                        NEW now \in Moment, object = Fresh(now)
                 PROVE  IInv
        BY DEF Init
    <2>1. now \in Int
        BY ObjectAssumption
    <2> QED  BY <2>1 DEF Fresh, IInv, TypeOK
<1>2. IInv /\ [Next]_vars => IInv'
    <2> SUFFICES ASSUME IInv, [Next]_vars
                 PROVE  IInv'
        OBVIOUS
    <2> DEFINE Spelled == {t \in Text \ {Blank} : Transform[t] = t}
    <2>1. ASSUME NEW t \in Text, SetName(t)
          PROVE  IInv'
        <3>1. Transform[t] \in Spelled
            BY <2>1, ObjectAssumption DEF SetName
        <3> QED  BY <2>1, <3>1 DEF SetName, SetField, IInv, TypeOK
    <2>2. ASSUME NEW t \in Text, SetLocationCode(t)
          PROVE  IInv'
        <3>1. Transform[t] = Blank \/ Transform[t] \in Spelled
            BY ObjectAssumption
        <3> QED  BY <2>2, <3>1 DEF SetLocationCode, Coded, IInv, TypeOK
    <2>3. ASSUME NEW t \in Text, SetDescription(t)
          PROVE  IInv'
        BY <2>3 DEF SetDescription, SetField, IInv, TypeOK
    <2>4. ASSUME NEW x \in Degree \cup {NaN}, SetLatitude(x)
          PROVE  IInv'
        BY <2>4 DEF SetLatitude, InLatitude, SetField, IInv, TypeOK
    <2>5. ASSUME NEW x \in Degree \cup {NaN}, SetLongitude(x)
          PROVE  IInv'
        <3>1. LonTo180(x) \in (-HalfTurn..(HalfTurn - 1)) \cup {NaN}
            <4>1. CASE x = NaN
                BY <4>1 DEF LonTo180
            <4>2. CASE x \in Degree
                BY <4>2, LonTo180Range, ObjectAssumption
            <4> QED  BY <4>1, <4>2
        <3> QED  BY <2>5, <3>1 DEF SetLongitude, SetField, IInv, TypeOK
    <2>6. ASSUME NEW e \in Time \X Time, SetStartAndEndTime(e)
          PROVE  IInv'
        BY <2>6 DEF SetStartAndEndTime, SetField, IInv, TypeOK
    <2>7. ASSUME NEW m \in Moment, SetLastModified(m)
          PROVE  IInv'
        BY <2>7, ObjectAssumption DEF SetLastModified, SetField, IInv, TypeOK
    <2>8. ASSUME NEW m \in Inbox, Receive(m)
          PROVE  IInv'
        <3>1. m \in Deliverable
            BY ObjectAssumption DEF Deliverable
        <3>2. kind \in {"station", "channel"} /\ kind' = kind
            BY <2>8 DEF Receive, IInv, TypeOK
        <3> QED  BY <2>8, <3>1, <3>2, ParsedIsTyped DEF Receive
    <2>9. ASSUME NEW r \in Table, FromTable(r)
          PROVE  IInv'
        <3>1. r \in Deliverable /\ r.lastModified \in Int /\ r.lastModified % Second = 0
            BY ObjectAssumption DEF Deliverable
        <3>2. kind \in {"station", "channel"} /\ kind' = kind
            BY <2>9 DEF FromTable, IInv, TypeOK
        <3>3. Built(kind, r) = Parsed(kind, r)
            BY <3>1, RoundFixes DEF Built, Parsed, Deliverable
        <3> QED  BY <2>9, <3>1, <3>2, <3>3, ParsedIsTyped DEF FromTable
    <2>10. CASE UNCHANGED vars
        BY <2>10 DEF vars, IInv, TypeOK
    <2> QED  BY <2>1, <2>2, <2>3, <2>4, <2>5, <2>6, <2>7, <2>8, <2>9, <2>10 DEF Next
<1> QED  BY <1>1, <1>2, PTL DEF Spec

(***************************************************************************)
(* The documented ranges hold of every object.                             *)
(***************************************************************************)
THEOREM TypesHold == Spec => []TypeOK
<1>1. IInv => TypeOK
    BY DEF IInv
<1> QED  BY <1>1, InvariantHolds, PTL

(***************************************************************************)
(* The fields of a complete object are values the setters accept and leave *)
(* as they are.                                                            *)
(***************************************************************************)
LEMMA CompleteIsCanonical ==
    ASSUME IInv, Complete(kind, object)
    PROVE  /\ object.name \in Text /\ Transform[object.name] = object.name
           /\ object.name # Blank
           /\ InLatitude(object.latitude) /\ Precedes(object.epoch)
           /\ LonTo180(object.longitude) = object.longitude
           /\ object.lastModified \in Int
<1>1. \A f \in {"name", "latitude", "longitude", "epoch"} : object[f] # Unset
    BY DEF Complete, Required
<1>2. object.longitude \in (-HalfTurn..(HalfTurn - 1)) \cup {NaN}
    BY <1>1 DEF IInv, TypeOK
<1>3. LonTo180(object.longitude) = object.longitude
    <2>1. CASE object.longitude = NaN
        BY <2>1 DEF LonTo180
    <2>2. CASE object.longitude \in -HalfTurn..(HalfTurn - 1)
        BY <2>2, LonTo180Fixes
    <2> QED  BY <1>2, <2>1, <2>2
<1> QED  BY <1>1, <1>3 DEF IInv, TypeOK, InLatitude

(***************************************************************************)
(* An object made from a table or a message, sent on, arrives as it is.    *)
(***************************************************************************)
THEOREM ResendIsStable == Spec => []ResendStable
<1>1. IInv => ResendStable
    <2> SUFFICES ASSUME IInv, origin # "setters", Complete(kind, object)
                 PROVE  /\ Accepted(Message(kind, object))
                        /\ Parsed(kind, Message(kind, object)) = object
        BY DEF ResendStable
    <2>1. RoundToSeconds(object.lastModified) = object.lastModified
        BY CompleteIsCanonical, RoundFixes DEF IInv
    <2>2. CASE kind = "station"
        <3>1. object.code = Unset
            BY <2>2 DEF IInv
        <3> QED  BY <2>1, <2>2, <3>1, CompleteIsCanonical
                 DEF Message, Parsed, Accepted, IInv, TypeOK
    <2>3. CASE kind = "channel"
        <3>1. object.description = Unset
            BY <2>3 DEF IInv
        <3>2. object.code # Unset
            BY <2>3 DEF Complete, Required
        <3>3. Transform[object.code] = object.code /\ object.code # Blank
            BY <3>2 DEF IInv, TypeOK
        <3> QED  BY <2>1, <2>3, <3>1, <3>3, CompleteIsCanonical
                 DEF Message, Parsed, Coded, Accepted, IInv, TypeOK
    <2> QED  BY <2>2, <2>3 DEF IInv, TypeOK
<1> QED  BY <1>1, InvariantHolds, PTL

(***************************************************************************)
(* unpackStationRow changes nothing of a row but its time stamp.           *)
(***************************************************************************)
LEMMA UnpackedIsObject ==
    ASSUME IInv, Storable(object), NEW r \in Unpacked(object)
    PROVE  /\ r = [object EXCEPT !.lastModified = r.lastModified]
           /\ r.lastModified \in {object.lastModified - 1, object.lastModified}
<1>1. PICK m \in TimeRead(object.lastModified) :
          r = [object EXCEPT !.name = Transform[@], !.longitude = LonTo180(@),
                             !.lastModified = m]
    BY DEF Unpacked
<1>2. r = [object EXCEPT !.lastModified = m] /\ r.lastModified = m
    BY <1>1, CompleteIsCanonical DEF Storable, IInv, TypeOK
<1>3. m \in {object.lastModified - 1, object.lastModified}
    BY <1>1 DEF TimeRead
<1> QED  BY <1>2, <1>3

(***************************************************************************)
(* What insertStation stores, the queries read back, every time.           *)
(***************************************************************************)
THEOREM StoredIsReadBack == Spec => []ReadBack
<1>1. IInv => ReadBack
    <2> SUFFICES ASSUME IInv, Storable(object)
                 PROVE  /\ Unpacked(object) # {}
                        /\ \A r \in Unpacked(object) :
                              /\ SameBut(r, object)
                              /\ r.lastModified \in {object.lastModified - 1, object.lastModified}
        BY DEF ReadBack
    <2>1. Unpacked(object) # {}
        <3>1. Transform[object.name] # Blank /\ InLatitude(object.latitude)
              /\ Precedes(object.epoch)
            BY CompleteIsCanonical DEF Storable
        <3>2. object.lastModified \in TimeRead(object.lastModified)
            BY DEF TimeRead
        <3> QED  BY <3>1, <3>2 DEF Unpacked
    <2>2. ASSUME NEW r \in Unpacked(object)
          PROVE  /\ SameBut(r, object)
                 /\ r.lastModified \in {object.lastModified - 1, object.lastModified}
        BY UnpackedIsObject DEF SameBut, IInv, TypeOK
    <2> QED  BY <2>1, <2>2
<1> QED  BY <1>1, InvariantHolds, PTL

(***************************************************************************)
(* What a client gets of a stored station: the same, with last_modified    *)
(* within half a second and a microsecond.                                 *)
(***************************************************************************)
THEOREM StoredIsDelivered == Spec => []Delivered
<1>1. IInv => Delivered
    <2> SUFFICES ASSUME IInv, Storable(object), NEW r \in Unpacked(object)
                 PROVE  LET s == Parsed(kind, Message(kind, r))
                        IN  /\ Complete(kind, r) /\ Accepted(Message(kind, r))
                            /\ SameBut(s, object)
                            /\ s.lastModified % Second = 0
                            /\ 2 * (s.lastModified - object.lastModified) \in -(Second + 2)..Second
        BY DEF Delivered
    <2> DEFINE s == Parsed(kind, Message(kind, r))
               t == r.lastModified
    <2>1. r = [object EXCEPT !.lastModified = t] /\ t \in {object.lastModified - 1, object.lastModified}
        BY UnpackedIsObject
    <2>2. kind = "station" /\ object.code = Unset /\ Complete(kind, object)
        BY DEF Storable, IInv
    <2>3. Complete(kind, r) /\ Accepted(Message(kind, r))
        BY <2>1, <2>2, CompleteIsCanonical DEF Complete, Required, Accepted, Message, IInv, TypeOK
    <2>4. t \in Int /\ object.lastModified \in Int /\ Second \in Nat \ {0}
        BY <2>1, ObjectAssumption DEF IInv, TypeOK
    <2>5. s = [object EXCEPT !.lastModified = RoundToSeconds(t)]
        BY <2>1, <2>2, CompleteIsCanonical DEF Parsed, Message, IInv, TypeOK
    <2>6. SameBut(s, object) /\ s.lastModified = RoundToSeconds(t)
        BY <2>5 DEF SameBut, IInv, TypeOK
    <2>7. /\ RoundToSeconds(t) \in Int /\ RoundToSeconds(t) % Second = 0
          /\ 2 * (RoundToSeconds(t) - t) \in -Second..Second
        BY <2>4, RoundNear
    <2> HIDE DEF s, t
    <2>8. 2 * (RoundToSeconds(t) - object.lastModified) \in -(Second + 2)..Second
        BY <2>1, <2>4, <2>7
    <2> QED  BY <2>3, <2>6, <2>7, <2>8 DEF s
<1> QED  BY <1>1, InvariantHolds, PTL
=============================================================================
