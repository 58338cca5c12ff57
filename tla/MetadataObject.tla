--------------------------- MODULE MetadataObject ---------------------------
(***************************************************************************)
(* The value classes Station and Channel (src/src/station.cpp and          *)
(* channel.cpp): an object whose setters may be called in any order and    *)
(* any number of times, its way into a row of the table and out of it, and *)
(* its way over the wire as a protobuf message.                            *)
(*                                                                         *)
(* Fields that are treated alike are one: `name` stands for the network,   *)
(* the station and the name, `latitude` for every number with a range      *)
(* (elevation, and a channel's sampling rate, azimuth and dip; but a       *)
(* sampling rate of NaN reads as unset).  `code` is a channel's location   *)
(* code, `description` belongs to a station.  A setter that throws leaves  *)
(* the object alone and is no step.  The build is the one without asserts: *)
(* with them lonTo180 aborts on a NaN.                                     *)
(***************************************************************************)
EXTENDS Integers

CONSTANTS Text, Blank,     \* strings, and the one that is empty
          Transform,       \* transformString: white space away, upper case
          Dashes,          \* the location code "--"
          Degree,          \* numbers offered as coordinates
          MaxLatitude, HalfTurn,
          NaN, Unset,
          Time,            \* seconds offered as bounds of an epoch
          Moment, Second,  \* microseconds offered, and how many make a second
          Inbox,           \* messages other programs send
          Table            \* rows of the tables compiled into the programs

ASSUME ObjectAssumption ==
    /\ Blank \in Text /\ Dashes \in Text
    /\ Transform \in [Text -> Text]
    /\ Transform[Dashes] = Dashes
    /\ \A t \in Text : Transform[Transform[t]] = Transform[t]
    /\ Degree \subseteq Int /\ Time \subseteq Int /\ Moment \subseteq Int
    /\ HalfTurn \in Nat \ {0} /\ MaxLatitude \in Nat /\ Second \in Nat \ {0}
    /\ NaN \notin Int /\ Unset \notin Int \cup Text /\ NaN # Unset
    /\ \A e \in Time \X Time : Unset # e
    /\ Inbox \cup Table \subseteq
          [name : Text, code : Text, latitude : Degree \cup {NaN},
           longitude : Degree \cup {NaN}, epoch : Time \X Time,
           description : Text \cup {Unset}, lastModified : Moment]
    /\ \A r \in Table : r.lastModified % Second = 0

VARIABLES kind,    \* "station" or "channel"
          object,  \* its fields, Unset or a value
          origin   \* how it was made: "setters", "table" or "message"

vars == <<kind, object, origin>>

(***************************************************************************)
(* lonTo180 adds or subtracts whole turns until the longitude is within    *)
(* [-180,180); comparisons with a NaN fail, so it stays as it is.          *)
(***************************************************************************)
(* Mutant: the upper bound is inclusive. *)
LonTo180Closed(x) ==
    IF x = NaN \/ x \in -HalfTurn..HalfTurn THEN x
    ELSE ((x + HalfTurn) % (2 * HalfTurn)) - HalfTurn

(* Mutant: a single turn is added or subtracted. *)
LonTo180Once(x) ==
    CASE x = NaN                    -> x
      [] x # NaN /\ x < -HalfTurn   -> x + 2 * HalfTurn
      [] x # NaN /\ x >= HalfTurn   -> x - 2 * HalfTurn
      [] OTHER                      -> x

LonTo180(x) ==
    IF x = NaN THEN NaN ELSE ((x + HalfTurn) % (2 * HalfTurn)) - HalfTurn

InLatitude(x) == x = NaN \/ x \in -MaxLatitude..MaxLatitude

Precedes(epoch) == epoch[1] < epoch[2]

Fresh(now) ==
    [name |-> Unset, code |-> Unset, latitude |-> Unset, longitude |-> Unset,
     epoch |-> Unset, description |-> Unset, lastModified |-> now]

Init ==
    /\ kind \in {"station", "channel"}
    /\ \E now \in Moment : object = Fresh(now)
    /\ origin = "setters"

SetField(f, value) ==
    /\ object' = [object EXCEPT ![f] = value]
    /\ origin' = "setters"
    /\ UNCHANGED kind

SetName(t) == Transform[t] # Blank /\ SetField("name", Transform[t])

(***************************************************************************)
(* A blank location code is replaced by "--" in a local variable only.     *)
(***************************************************************************)
Coded(o, t) ==
    IF Transform[t] = Blank THEN o ELSE [o EXCEPT !.code = Transform[t]]

SetLocationCode(t) ==
    /\ kind = "channel"
    /\ object' = Coded(object, t)
    /\ origin' = "setters"
    /\ UNCHANGED kind

SetLatitude(x) == InLatitude(x) /\ SetField("latitude", x)

SetLongitude(x) == SetField("longitude", LonTo180(x))

SetStartAndEndTime(epoch) == Precedes(epoch) /\ SetField("epoch", epoch)

SetDescription(t) == kind = "station" /\ SetField("description", t)

SetLastModified(m) == SetField("lastModified", m)

-----------------------------------------------------------------------------

Required(k) ==
    {"name", "latitude", "longitude", "epoch"} \cup (IF k = "channel" THEN {"code"} ELSE {})

(***************************************************************************)
(* The getters toProtobuf and insertStation call all throw on a field that *)
(* is not set.                                                             *)
(***************************************************************************)
Complete(k, o) == \A f \in Required(k) : o[f] # Unset

(***************************************************************************)
(* toProtobuf of a complete object: a protobuf string that is not set      *)
(* reads as empty, the time stamp is exact.                                *)
(***************************************************************************)
Message(k, o) == [o EXCEPT !.code = IF k = "station" THEN Blank ELSE @]

(* Mutant: the time stamp is cut to seconds instead of rounded. *)
CutToSeconds(m) == (m \div Second) * Second

(***************************************************************************)
(* The constructors from protobuf round the time stamp to whole seconds,   *)
(* halves away from zero.                                                  *)
(***************************************************************************)
RoundToSeconds(m) ==
    LET nearest(n) == ((2 * n + Second) \div (2 * Second)) * Second
    IN  IF m >= 0 THEN nearest(m) ELSE -nearest(-m)

(***************************************************************************)
(* Whether the setters these constructors call all accept the message, and *)
(* what they make of it.                                                   *)
(***************************************************************************)
Accepted(m) ==
    Transform[m.name] # Blank /\ InLatitude(m.latitude) /\ Precedes(m.epoch)

(***************************************************************************)
(* toStation and toChannel call the same setters on the columns of a row.  *)
(***************************************************************************)
Built(k, m) ==
    LET plain == [m EXCEPT !.name = Transform[@], !.code = Unset,
                           !.longitude = LonTo180(@)]
    IN  IF k = "station" THEN plain
                         ELSE Coded([plain EXCEPT !.description = Unset], m.code)

Parsed(k, m) ==
    LET plain == [m EXCEPT !.name = Transform[@], !.code = Unset,
                           !.longitude = LonTo180(@),
                           !.lastModified = RoundToSeconds(@)]
    IN  IF k = "station" THEN plain
                         ELSE Coded([plain EXCEPT !.description = Unset], m.code)

(***************************************************************************)
(* createStationsUtah and its like; one row the setters refuse ends the    *)
(* whole table with an exception.                                          *)
(***************************************************************************)
FromTable(r) ==
    /\ Accepted(r)
    /\ object' = Built(kind, r)
    /\ origin' = "table"
    /\ UNCHANGED kind

(***************************************************************************)
(* A message that is refused leaves no object: the caller keeps the one it *)
(* has.                                                                    *)
(***************************************************************************)
Receive(m) ==
    /\ Accepted(m)
    /\ object' = Parsed(kind, m)
    /\ origin' = "message"
    /\ UNCHANGED kind

Next ==
    \/ \E t \in Text : SetName(t) \/ SetLocationCode(t) \/ SetDescription(t)
    \/ \E x \in Degree \cup {NaN} : SetLatitude(x) \/ SetLongitude(x)
    \/ \E epoch \in Time \X Time : SetStartAndEndTime(epoch)
    \/ \E m \in Moment : SetLastModified(m)
    \/ \E m \in Inbox : Receive(m)
    \/ \E r \in Table : FromTable(r)

Spec == Init /\ [][Next]_vars

-----------------------------------------------------------------------------

(***************************************************************************)
(* insertStation's row: SQLite stores a NaN as NULL and refuses it.        *)
(***************************************************************************)
Storable(o) ==
    kind = "station" /\ Complete(kind, o) /\ o.latitude # NaN /\ o.longitude # NaN

(* Mutant: the column is read as a number of seconds. *)
TimeReadWhole(m) == {(m \div Second) * Second}

(***************************************************************************)
(* last_modified is a double of seconds, read by floor(1e6 * value): whole *)
(* and half seconds survive, other values may lose a microsecond.          *)
(***************************************************************************)
TimeRead(m) == IF (2 * m) % Second = 0 THEN {m} ELSE {m - 1, m}

(***************************************************************************)
(* unpackStationRow calls the setters on the columns.                      *)
(***************************************************************************)
Unpacked(o) ==
    IF Transform[o.name] # Blank /\ InLatitude(o.latitude) /\ Precedes(o.epoch)
    THEN {[o EXCEPT !.name = Transform[@], !.longitude = LonTo180(@), !.lastModified = m] :
             m \in TimeRead(o.lastModified)}
    ELSE {}

SameBut(o, q) == [o EXCEPT !.lastModified = q.lastModified] = q

-----------------------------------------------------------------------------

(***************************************************************************)
(* The ranges station.proto and channel.proto document, for every object   *)
(* any sequence of calls can make, but for NaN.                            *)
(***************************************************************************)
TypeOK ==
    LET Spelled == {t \in Text \ {Blank} : Transform[t] = t}
    IN  /\ kind \in {"station", "channel"}
        /\ origin \in {"setters", "table", "message"}
        /\ object \in
             [name : Spelled \cup {Unset}, code : Spelled \cup {Unset},
              latitude : (-MaxLatitude..MaxLatitude) \cup {NaN, Unset},
              longitude : (-HalfTurn..(HalfTurn - 1)) \cup {NaN, Unset},
              epoch : {e \in Time \X Time : Precedes(e)} \cup {Unset},
              description : Text \cup {Unset},
              lastModified : Int]

(***************************************************************************)
(* The inductive invariant: the types, the fields that belong to the other *)
(* class stay unset, and the time stamp of a table or a message is a whole *)
(* second.                                                                 *)
(***************************************************************************)
IInv ==
    /\ TypeOK
    /\ IF kind = "station" THEN object.code = Unset ELSE object.description = Unset
    /\ origin # "setters" => object.lastModified % Second = 0

(***************************************************************************)
(* What insertStation stores, the queries read back: no row they would     *)
(* have to leave out, and no field changed but for a microsecond.          *)
(***************************************************************************)
ReadBack ==
    Storable(object) =>
        /\ Unpacked(object) # {}
        /\ \A r \in Unpacked(object) :
              /\ SameBut(r, object)
              /\ r.lastModified \in {object.lastModified - 1, object.lastModified}

(***************************************************************************)
(* What a client gets of a stored station: the same, with last_modified to *)
(* the nearest second, give or take the microsecond lost on the way.       *)
(***************************************************************************)
Delivered ==
    Storable(object) =>
        \A r \in Unpacked(object) :
            /\ Complete(kind, r) /\ Accepted(Message(kind, r))
            /\ LET s == Parsed(kind, Message(kind, r))
               IN  /\ SameBut(s, object)
                   /\ s.lastModified % Second = 0
                   /\ 2 * (s.lastModified - object.lastModified) \in -(Second + 2)..Second

(***************************************************************************)
(* An object made from a table or a message, sent on, arrives as it is:    *)
(* one trip brings every field to its canonical form.                      *)
(***************************************************************************)
ResendStable ==
    origin # "setters" /\ Complete(kind, object) =>
        /\ Accepted(Message(kind, object))
        /\ Parsed(kind, Message(kind, object)) = object

=============================================================================
