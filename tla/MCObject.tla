------------------------------ MODULE MCObject ------------------------------
(***************************************************************************)
(* An instance of MetadataObject: a turn of six degrees, a second of ten   *)
(* microseconds, a string that comes in two spellings.                     *)
(***************************************************************************)
EXTENDS MetadataObject

CONSTANTS empty, spaces, upper, lower, dashes

MCText == {empty, spaces, upper, lower, dashes}

MCTransform ==
    [t \in MCText |-> CASE t = spaces -> empty [] t = lower -> upper [] OTHER -> t]

MCDegree == {-8, -4, -3, -1, 2, 3, 4, 9}

MCMoment == {-20, -15, -4, 4, 5, 9, 15, 20}

Foreign(name, code, latitude, longitude, epoch, description, lastModified) ==
    [name |-> name, code |-> code, latitude |-> latitude, longitude |-> longitude,
     epoch |-> epoch, description |-> description, lastModified |-> lastModified]

(* A message as the tests build them, one without a code, and refused ones. *)
MCInbox ==
    {Foreign(lower, lower, 2, 9, <<0, 1>>, spaces, 15),
     Foreign(upper, spaces, -1, -4, <<0, 2>>, Unset, -15),
     Foreign(spaces, upper, -1, -4, <<0, 2>>, Unset, 9),
     Foreign(upper, upper, 4, -4, <<0, 2>>, Unset, 9),
     Foreign(upper, upper, 2, -4, <<1, 1>>, Unset, 9)}

(* A station of the tables, and a channel whose location code is two spaces. *)
MCTable ==
    {Foreign(upper, upper, 2, -1, <<1, 2>>, lower, -20),
     Foreign(upper, spaces, -1, 2, <<0, 1>>, spaces, 20)}
=============================================================================
