---------------------------- MODULE Launch_proofs ----------------------------
(***************************************************************************)
(* The mains of src/src/server.cpp and src/src/updater.cpp, for any number *)
(* of programs, any files, faults and changes of the file system.          *)
(***************************************************************************)
EXTENDS Launch, TLAPS

(***************************************************************************)
(* Before any program is started, the invariant holds.                     *)
(***************************************************************************)
LEMMA InitInvariant == LaunchInit => LaunchInv
<1> SUFFICES ASSUME LaunchInit PROVE LaunchInv
  OBVIOUS
<1> USE LaunchAssumption DEF LaunchInit
<1>1. LaunchTypeOK
  BY DEF LaunchTypeOK, Defaults, NoConnection, NoPem, Label, Ended, Options, Connections, Pems
<1>2. ASSUME NEW p \in Program PROVE InOrder(p)
  BY DEF InOrder, Defaults, NoConnection, Parsing, Opening, Writing, Serving
<1>3. QED
  BY <1>1, <1>2 DEF LaunchInv

(***************************************************************************)
(* A step of program p leaves the others alone.                            *)
(***************************************************************************)
LEMMA OnlyOne ==
    ASSUME LaunchInv, NEW p \in Program, LaunchTypeOK', InOrder(p)',
           UNCHANGED says,
           \A q \in Program \ {p} :
               /\ pc'[q] = pc[q] /\ told'[q] = told[q]
               /\ options'[q] = options[q] /\ conn'[q] = conn[q]
    PROVE  LaunchInv'
<1>1. ASSUME NEW q \in Program \ {p} PROVE InOrder(q)'
  BY <1>1 DEF LaunchInv, InOrder
<1>2. QED
  BY <1>1 DEF LaunchInv

(***************************************************************************)
(* What an .ini file says, it says of files.                               *)
(***************************************************************************)
LEMMA Said ==
    ASSUME LaunchTypeOK, NEW p \in Program
    PROVE  says[p] \in [valid : BOOLEAN, database : File, key : File \cup {Nowhere},
                        certificate : File \cup {Nowhere}]
BY LaunchAssumption DEF LaunchTypeOK

(***************************************************************************)
(* A program is started: its options are the defaults, it has no connection.*)
(***************************************************************************)
LEMMA CommandInvariant ==
    ASSUME LaunchInv, NEW p \in Program, NEW ini \in {Nowhere, Ini[p]},
           NEW to \in {"parse", "exited", "failed"}, CommandLine(p, ini, to)
    PROVE  LaunchInv'
<1>1. Defaults(p) \in Options /\ NoPem \in Pems /\ NoConnection \in Connections
  BY LaunchAssumption DEF Defaults, Options, NoPem, Pems, NoConnection, Connections
<1>2. pc' \in [Program -> Label]
  BY DEF CommandLine, LaunchInv, LaunchTypeOK, Label, Parsing, Ended
<1>3. LaunchTypeOK'
  BY <1>1, <1>2, LaunchAssumption DEF CommandLine, diskVars, LaunchInv, LaunchTypeOK
<1>4. /\ pc'[p] = to /\ told'[p] = ini
      /\ options'[p] = Defaults(p) /\ conn'[p] = NoConnection
  BY DEF CommandLine, LaunchInv, LaunchTypeOK
<1>5. /\ options'[p].key = Nowhere /\ options'[p].certificate = Nowhere
      /\ conn'[p].handle # "open"
  BY <1>4 DEF Defaults, NoConnection
<1>6. InOrder(p)'
  BY <1>4, <1>5 DEF InOrder, Parsing, Opening, Writing, Serving
<1>7. QED
  BY <1>3, <1>6, OnlyOne DEF CommandLine, diskVars, LaunchInv, LaunchTypeOK

(***************************************************************************)
(* A connection is opened, for writing or by a server for reading.         *)
(***************************************************************************)
LEMMA OpenInvariant ==
    ASSUME LaunchInv, NEW p \in Program, NEW from, NEW flag, NEW next,
           <<from, flag, next>> \in {<<"open", "write", "load">>, <<"create", "write", "load">>,
                                     <<"readonly", "read", "table">>},
           Opens(p, from, flag, next), present' \subseteq File
    PROVE  LaunchInv'
<1>1. Connected(flag) \in Connections /\ next \in {"load", "table"}
  BY DEF Connected, Connections
<1>2. pc' \in [Program -> Label]
  BY <1>1 DEF Opens, Goes, LaunchInv, LaunchTypeOK, Label, Writing, Serving
<1>3. LaunchTypeOK'
  BY <1>1, <1>2 DEF Opens, LaunchInv, LaunchTypeOK
<1>4. /\ pc[p] = from /\ pc'[p] = next /\ conn'[p] = Connected(flag)
      /\ UNCHANGED <<told, options, says>>
  BY DEF Opens, Goes, LaunchInv, LaunchTypeOK
<1>5. InOrder(p)'
  BY <1>4 DEF LaunchInv, LaunchTypeOK, InOrder, Parsing, Opening, Writing, Serving, Ended
<1>6. QED
  BY <1>3, <1>5, OnlyOne DEF Opens, Goes, LaunchInv, LaunchTypeOK

(***************************************************************************)
(* Closing a connection that is open, or closed already, leaves it closed. *)
(***************************************************************************)
LEMMA CloseInvariant ==
    ASSUME LaunchInv, NEW p \in Program,
           NEW from \in Writing \cup {"leave"} \cup Serving,
           NEW to \in {"leave", "readonly", "exited", "failed"},
           to = "readonly" => p \in Server,
           Closes(p, from, to), UNCHANGED <<present, says, changes>>, faults' \in Nat
    PROVE  LaunchInv'
<1>1. pc[p] = from /\ conn[p] \in {Connected("read"), Connected("write"), Disconnected}
  BY DEF Closes, Goes, LaunchInv, InOrder
<1>2. /\ Closed(Connected("read")) = Disconnected
      /\ Closed(Connected("write")) = Disconnected
      /\ Closed(Disconnected) = Disconnected
      /\ Disconnected \in Connections /\ Disconnected.handle # "open"
  BY DEF Closed, Connected, Disconnected, Connections
<1>3. pc' \in [Program -> Label]
  BY DEF Closes, Goes, LaunchInv, LaunchTypeOK, Label, Ended
<1>4. conn' \in [Program -> Connections] /\ conn'[p] = Disconnected
  BY <1>1, <1>2 DEF Closes, LaunchInv, LaunchTypeOK
<1>5. LaunchTypeOK'
  BY <1>3, <1>4 DEF Closes, LaunchInv, LaunchTypeOK
<1>6. pc'[p] = to /\ UNCHANGED <<told, options, says>>
  BY DEF Closes, Goes, LaunchInv, LaunchTypeOK
<1>7. InOrder(p)'
  BY <1>2, <1>4, <1>6 DEF LaunchInv, LaunchTypeOK, InOrder, Parsing, Opening, Writing, Serving, Ended
<1>8. QED
  BY <1>5, <1>7, OnlyOne DEF Closes, Goes, LaunchInv, LaunchTypeOK

(***************************************************************************)
(* What fails before a connection is open: an option, an open, the making  *)
(* of a directory.                                                         *)
(***************************************************************************)
LEMMA FailInvariant ==
    ASSUME LaunchInv, NEW p \in Program,
           NEW from \in Parsing \cup Opening \cup {"readonly"},
           OpenFails(p, from), faults' \in Nat
    PROVE  LaunchInv'
<1>1. pc' \in [Program -> Label] /\ pc'[p] = "failed"
  BY DEF OpenFails, Goes, LaunchInv, LaunchTypeOK, Label, Ended
<1>2. LaunchTypeOK'
  BY <1>1 DEF OpenFails, progVars, LaunchInv, LaunchTypeOK
<1>3. conn'[p] = conn[p] /\ conn[p].handle # "open"
  <2>1. pc[p] = from /\ conn'[p] = conn[p]
    BY DEF OpenFails, Goes, progVars
  <2>2. conn[p] = NoConnection \/ conn[p] = Disconnected
    BY <2>1 DEF LaunchInv, InOrder
  <2>3. QED
    BY <2>1, <2>2 DEF NoConnection, Disconnected
<1>4. InOrder(p)'
  BY <1>1, <1>3 DEF OpenFails, progVars, LaunchInv, LaunchTypeOK, InOrder, Parsing, Opening, Writing, Serving, Ended
<1>5. QED
  BY <1>2, <1>4, OnlyOne DEF OpenFails, Goes, progVars, LaunchInv, LaunchTypeOK

(***************************************************************************)
(* Looking for a directory, and making it, a program has no connection.    *)
(***************************************************************************)
LEMMA DirectoryInvariant ==
    ASSUME LaunchInv, NEW p \in Program,
           NEW from \in {"parent", "make", "directory", "create directory"},
           NEW make \in {"make", "create directory"},
           NEW next \in {"database", "create"},
           LookForDirectory(p, from, make, next) \/ MakeDirectory(p, from, next)
    PROVE  LaunchInv'
<1>1. CASE LookForDirectory(p, from, make, next)
  <2>1. LaunchTypeOK'
    BY <1>1 DEF LookForDirectory, Goes, progVars, diskVars, LaunchInv, LaunchTypeOK, Label, Parsing, Opening
  <2>2. InOrder(p)'
    BY <1>1 DEF LookForDirectory, Goes, progVars, diskVars, LaunchInv, LaunchTypeOK, InOrder, Parsing, Opening, Writing, Serving
  <2>3. QED
    BY <1>1, <2>1, <2>2, OnlyOne DEF LookForDirectory, Goes, progVars, diskVars, LaunchInv, LaunchTypeOK
<1>2. CASE MakeDirectory(p, from, next)
  <2>1. present' \subseteq File
    <3>1. options[p].database \in File
      BY DEF LaunchInv, LaunchTypeOK, Options
    <3>2. Parent \in [File -> File \cup {Nowhere}]
      BY LaunchAssumption
    <3>3. Directory(p) \in File \cup {Nowhere}
      BY <3>1, <3>2 DEF Directory
    <3>4. QED
      BY <1>2, <3>3 DEF MakeDirectory, HasDirectory, LaunchInv, LaunchTypeOK
  <2>2. LaunchTypeOK'
    BY <1>2, <2>1 DEF MakeDirectory, Goes, progVars, LaunchInv, LaunchTypeOK, Label, Parsing, Opening, Ended
  <2>3. /\ pc[p] = from /\ pc'[p] \in {"failed", next}
        /\ UNCHANGED <<told, options, conn, says>>
    BY <1>2 DEF MakeDirectory, Goes, progVars, LaunchInv, LaunchTypeOK
  <2>4. conn[p] = NoConnection
    BY <2>3 DEF LaunchInv, InOrder, Parsing, Opening
  <2>5. InOrder(p)'
    <3>1. NoConnection.handle # "open"
      BY DEF NoConnection
    <3>2. QED
      BY <2>3, <2>4, <3>1 DEF LaunchInv, InOrder, Parsing, Opening, Writing, Serving
  <2>6. QED
    BY <1>2, <2>2, <2>5, OnlyOne DEF MakeDirectory, Goes, progVars, LaunchInv, LaunchTypeOK
<1>3. QED
  BY <1>1, <1>2

(***************************************************************************)
(* Loading a key or a certificate keeps the invariant; so does the throw   *)
(* that closes the service's connection.                                   *)
(***************************************************************************)
LEMMA LoadStringInvariant ==
    ASSUME LaunchInv, NEW p \in Program, NEW slot \in {"key", "certificate"},
           NEW open \in {"open key", "open certificate"},
           NEW next \in {"certificate", "build"},
           pc[p] \in Serving,
           LoadString(p, slot, open, next)
    PROVE  LaunchInv'
<1> DEFINE Filled(string) == pem' = [pem EXCEPT ![p][slot] = string]
<1>1. ASSUME NEW string \in {"empty", "contents"}, Filled(string)
      PROVE  pem' \in [Program -> Pems]
  BY <1>1 DEF LaunchInv, LaunchTypeOK, Pems
<1>2. CASE LoadNothing(p, slot, next)
  <2>1. LaunchTypeOK'
    BY <1>2, <1>1 DEF LoadNothing, Goes, diskVars, LaunchInv, LaunchTypeOK, Label, Serving
  <2>2. InOrder(p)'
    BY <1>2 DEF LoadNothing, Goes, diskVars, LaunchInv, LaunchTypeOK, InOrder, Parsing, Opening, Writing, Serving
  <2>3. QED
    BY <1>2, <2>1, <2>2, OnlyOne DEF LoadNothing, Goes, diskVars, LaunchInv, LaunchTypeOK
<1>3. CASE MissString(p, slot, open)
  <2>1. LaunchTypeOK'
    BY <1>3 DEF MissString, Goes, progVars, diskVars, LaunchInv, LaunchTypeOK, Label, Serving
  <2>2. InOrder(p)'
    BY <1>3 DEF MissString, Goes, progVars, diskVars, LaunchInv, LaunchTypeOK, InOrder, Parsing, Opening, Writing, Serving
  <2>3. QED
    BY <1>3, <2>1, <2>2, OnlyOne DEF MissString, Goes, progVars, diskVars, LaunchInv, LaunchTypeOK
<1>4. CASE ReadString(p, slot, open, next) /\ options[p][slot] \in present
  <2>1. LaunchTypeOK'
    BY <1>4, <1>1 DEF ReadString, Goes, diskVars, LaunchInv, LaunchTypeOK, Label, Serving
  <2>2. InOrder(p)'
    BY <1>4 DEF ReadString, Goes, diskVars, LaunchInv, LaunchTypeOK, InOrder, Parsing, Opening, Writing, Serving
  <2>3. QED
    BY <1>4, <2>1, <2>2, OnlyOne DEF ReadString, Goes, diskVars, LaunchInv, LaunchTypeOK
<1>5. CASE ReadString(p, slot, open, next) /\ options[p][slot] \notin present
  <2>1. Closes(p, open, "failed") /\ UNCHANGED diskVars
    BY <1>5 DEF ReadString
  <2>2. open \in Serving /\ faults' \in Nat /\ UNCHANGED <<present, says, changes>>
    BY <2>1 DEF Serving, diskVars, LaunchInv, LaunchTypeOK
  <2>3. QED
    BY <2>1, <2>2, CloseInvariant
<1>6. QED
  BY <1>2, <1>3, <1>4, <1>5 DEF LoadString

(***************************************************************************)
(* Parsing the command line and the .ini file keeps the invariant.         *)
(***************************************************************************)
LEMMA ParseInvariant ==
    ASSUME LaunchInv, NEW p \in Program,
           StartWithIni(p) \/ StartOtherwise(p) \/ LookForIni(p) \/ ReadIni(p)
           \/ LookForKey(p) \/ LookForCertificate(p)
    PROVE  LaunchInv'
<1>1. CASE LookForIni(p)
  <2>1. pc' \in [Program -> Label]
    BY <1>1 DEF LookForIni, Goes, progVars, diskVars, LaunchInv, LaunchTypeOK, Label, Parsing, Opening, Writing, Serving, Ended
  <2>2. LaunchTypeOK'
    BY <1>1, <2>1 DEF LookForIni, Goes, progVars, diskVars, LaunchInv, LaunchTypeOK
  <2>3. InOrder(p)'
    BY <1>1 DEF LookForIni, Goes, progVars, diskVars, LaunchInv, LaunchTypeOK, InOrder, Parsing, Opening, Writing, Serving, Ended
  <2>4. QED
    BY <1>1, <2>2, <2>3, OnlyOne DEF LookForIni, Goes, progVars, diskVars, LaunchInv, LaunchTypeOK
<1>2. CASE ReadIni(p)
  <2> DEFINE read == told[p] \in present /\ says[p].valid
  <2>1. CASE ~read
    BY <1>2, <2>1, FailInvariant DEF ReadIni, OpenFails, Parsing, Goes, progVars, diskVars, LaunchInv, LaunchTypeOK
  <2>2. CASE read
    <3>1. pc' \in [Program -> Label]
      BY <1>2, <2>2 DEF ReadIni, Goes, LaunchInv, LaunchTypeOK, Label, Parsing, Opening
    <3>2. options' \in [Program -> Options]
      <4>1. /\ options[p] \in Options /\ says[p].database \in File
            /\ options' = [options EXCEPT ![p].database = says[p].database]
            /\ options \in [Program -> Options]
        BY <1>2, <2>2, Said DEF ReadIni, LaunchInv, LaunchTypeOK
      <4>2. [options[p] EXCEPT !.database = says[p].database] \in Options
        BY <4>1 DEF Options
      <4>3. QED
        BY <4>1, <4>2
    <3>3. LaunchTypeOK'
      BY <1>2, <3>1, <3>2 DEF ReadIni, diskVars, LaunchInv, LaunchTypeOK
    <3>4. /\ pc[p] = "read" /\ pc'[p] \in {"parent", "key?", "database"}
          /\ pc'[p] = "key?" => NamesBoth(says[p])
          /\ options'[p].key = options[p].key
          /\ options'[p].certificate = options[p].certificate
          /\ UNCHANGED <<told, conn, says>>
      BY <1>2, <2>2 DEF ReadIni, Goes, diskVars, LaunchInv, LaunchTypeOK, Options
    <3>5. InOrder(p)'
      BY <3>4 DEF LaunchInv, InOrder, Parsing, Opening, Writing, Serving, NamesBoth
    <3>6. QED
      BY <1>2, <2>2, <3>3, <3>5, OnlyOne DEF ReadIni, Goes, diskVars, LaunchInv, LaunchTypeOK
  <2>3. QED
    BY <2>1, <2>2
<1>3. CASE LookForKey(p)
  <2>1. pc' \in [Program -> Label]
    BY <1>3 DEF LookForKey, Goes, progVars, diskVars, LaunchInv, LaunchTypeOK, Label, Parsing, Opening, Writing, Serving, Ended
  <2>2. LaunchTypeOK'
    BY <1>3, <2>1 DEF LookForKey, Goes, progVars, diskVars, LaunchInv, LaunchTypeOK
  <2>3. /\ pc[p] = "key?" /\ pc'[p] \in {"failed", "certificate?"}
        /\ UNCHANGED <<told, options, conn, says>>
    BY <1>3 DEF LookForKey, Goes, progVars, diskVars, LaunchInv, LaunchTypeOK
  <2>4. NamesBoth(says[p]) /\ conn[p] = NoConnection /\ conn[p].handle # "open"
    BY <2>3 DEF LaunchInv, InOrder, NoConnection, Parsing
  <2>5. InOrder(p)'
    BY <2>3, <2>4 DEF LaunchInv, InOrder, NamesBoth, Parsing, Opening, Writing, Serving
  <2>6. QED
    BY <1>3, <2>2, <2>5, OnlyOne DEF LookForKey, Goes, progVars, diskVars, LaunchInv, LaunchTypeOK
<1>4. CASE LookForCertificate(p)
  <2>1. CASE says[p].certificate \notin present
    <3>1. OpenFails(p, "certificate?") /\ faults' \in Nat
      BY <1>4, <2>1 DEF LookForCertificate, OpenFails, progVars, diskVars, LaunchInv, LaunchTypeOK
    <3>2. QED
      BY <3>1, FailInvariant DEF Parsing
  <2>2. CASE says[p].certificate \in present
    <3>1. pc' \in [Program -> Label]
      BY <1>4, <2>2 DEF LookForCertificate, Goes, LaunchInv, LaunchTypeOK, Label, Opening
    <3>2. options' \in [Program -> Options]
      BY <1>4, <2>2, Said DEF LookForCertificate, LaunchInv, LaunchTypeOK, Options
    <3>3. LaunchTypeOK'
      BY <1>4, <3>1, <3>2 DEF LookForCertificate, diskVars, LaunchInv, LaunchTypeOK
    <3>4. /\ pc[p] = "certificate?" /\ pc'[p] = "database"
          /\ options'[p].key = says[p].key
          /\ options'[p].certificate = says[p].certificate
          /\ UNCHANGED <<told, conn, says>>
      BY <1>4, <2>2 DEF LookForCertificate, Goes, diskVars, LaunchInv, LaunchTypeOK, Options
    <3>5. NamesBoth(says[p])
      BY <3>4 DEF LaunchInv, InOrder
    <3>6. InOrder(p)'
      BY <3>4, <3>5 DEF LaunchInv, InOrder, Parsing, Opening, Writing, Serving, NamesBoth
    <3>7. QED
      BY <1>4, <2>2, <3>3, <3>6, OnlyOne DEF LookForCertificate, Goes, diskVars, LaunchInv, LaunchTypeOK
  <2>3. QED
    BY <2>1, <2>2
<1>5. CASE StartWithIni(p) \/ StartOtherwise(p)
  BY <1>5, CommandInvariant DEF StartWithIni, StartOtherwise
<1>6. QED
  BY <1>1, <1>2, <1>3, <1>4, <1>5

(***************************************************************************)
(* Opening, filling and closing the database keeps the invariant.          *)
(***************************************************************************)
LEMMA FillInvariant ==
    ASSUME LaunchInv, NEW p \in Program,
           LookForDatabase(p) \/ OpenReadWrite(p) \/ OpenCreateReadWrite(p) \/ Load(p)
           \/ CloseDatabase(p) \/ LeaveDatabase(p)
    PROVE  LaunchInv'
<1>1. CASE LookForDatabase(p)
  <2>1. pc' \in [Program -> Label]
    BY <1>1 DEF LookForDatabase, Goes, progVars, diskVars, LaunchInv, LaunchTypeOK, Label, Parsing, Opening, Writing, Serving, Ended
  <2>2. LaunchTypeOK'
    BY <1>1, <2>1 DEF LookForDatabase, Goes, progVars, diskVars, LaunchInv, LaunchTypeOK
  <2>3. InOrder(p)'
    BY <1>1 DEF LookForDatabase, Goes, progVars, diskVars, LaunchInv, LaunchTypeOK, InOrder, Parsing, Opening, Writing, Serving, Ended
  <2>4. QED
    BY <1>1, <2>2, <2>3, OnlyOne DEF LookForDatabase, Goes, progVars, diskVars, LaunchInv, LaunchTypeOK
<1>2. CASE OpenReadWrite(p)
  <2>1. CASE options[p].database \in present
    BY <1>2, <2>1, OpenInvariant DEF OpenReadWrite, LaunchInv, LaunchTypeOK
  <2>2. CASE options[p].database \notin present
    <3>1. OpenFails(p, "open") /\ faults' \in Nat
      BY <1>2, <2>2 DEF OpenReadWrite, LaunchInv, LaunchTypeOK
    <3>2. QED
      BY <3>1, FailInvariant DEF Opening
  <2>3. QED
    BY <2>1, <2>2
<1>3. CASE OpenCreateReadWrite(p)
  <2>1. options[p].database \in File
    BY DEF LaunchInv, LaunchTypeOK, Options
  <2>2. CASE HasDirectory(p)
    BY <1>3, <2>1, <2>2, OpenInvariant DEF OpenCreateReadWrite, LaunchInv, LaunchTypeOK
  <2>3. CASE ~HasDirectory(p)
    <3>1. OpenFails(p, "create") /\ faults' \in Nat
      BY <1>3, <2>3 DEF OpenCreateReadWrite, LaunchInv, LaunchTypeOK
    <3>2. QED
      BY <3>1, FailInvariant DEF Opening
  <2>4. QED
    BY <2>2, <2>3
<1>4. CASE Load(p)
  <2>1. pc' \in [Program -> Label]
    BY <1>4 DEF Load, Goes, progVars, diskVars, LaunchInv, LaunchTypeOK, Label, Parsing, Opening, Writing, Serving, Ended
  <2>2. LaunchTypeOK'
    BY <1>4, <2>1 DEF Load, Goes, progVars, diskVars, LaunchInv, LaunchTypeOK
  <2>3. InOrder(p)'
    BY <1>4 DEF Load, Goes, progVars, diskVars, LaunchInv, LaunchTypeOK, InOrder, Parsing, Opening, Writing, Serving, Ended
  <2>4. QED
    BY <1>4, <2>2, <2>3, OnlyOne DEF Load, Goes, progVars, diskVars, LaunchInv, LaunchTypeOK
<1>5. CASE CloseDatabase(p)
  BY <1>5, CloseInvariant DEF CloseDatabase, Writing, diskVars, LaunchInv, LaunchTypeOK
<1>6. CASE LeaveDatabase(p)
  BY <1>6, CloseInvariant DEF LeaveDatabase, diskVars, LaunchInv, LaunchTypeOK
<1>7. QED
  BY <1>1, <1>2, <1>3, <1>4, <1>5, <1>6

(***************************************************************************)
(* What runServer does besides loading strings keeps the invariant.        *)
(***************************************************************************)
LEMMA ServeInvariant ==
    ASSUME LaunchInv, NEW p \in Program,
           OpenReadOnly(p) \/ FindTable(p) \/ ChooseCredentials(p) \/ BuildAndStart(p)
    PROVE  LaunchInv'
<1>1. CASE OpenReadOnly(p)
  BY <1>1, OpenInvariant, FailInvariant DEF OpenReadOnly, LaunchInv, LaunchTypeOK
<1>2. CASE FindTable(p)
  <2>1. pc' \in [Program -> Label]
    BY <1>2 DEF FindTable, Goes, progVars, diskVars, LaunchInv, LaunchTypeOK, Label, Parsing, Opening, Writing, Serving, Ended
  <2>2. LaunchTypeOK'
    BY <1>2, <2>1 DEF FindTable, Goes, progVars, diskVars, LaunchInv, LaunchTypeOK
  <2>3. InOrder(p)'
    BY <1>2 DEF FindTable, Goes, progVars, diskVars, LaunchInv, LaunchTypeOK, InOrder, Parsing, Opening, Writing, Serving, Ended
  <2>4. QED
    BY <1>2, <2>2, <2>3, OnlyOne DEF FindTable, Goes, progVars, diskVars, LaunchInv, LaunchTypeOK
<1>3. CASE ChooseCredentials(p)
  <2>1. pc' \in [Program -> Label]
    BY <1>3 DEF ChooseCredentials, Goes, progVars, diskVars, LaunchInv, LaunchTypeOK, Label, Parsing, Opening, Writing, Serving, Ended
  <2>2. LaunchTypeOK'
    BY <1>3, <2>1 DEF ChooseCredentials, Goes, progVars, diskVars, LaunchInv, LaunchTypeOK
  <2>3. InOrder(p)'
    BY <1>3 DEF ChooseCredentials, Goes, progVars, diskVars, LaunchInv, LaunchTypeOK, InOrder, Parsing, Opening, Writing, Serving, Ended
  <2>4. QED
    BY <1>3, <2>2, <2>3, OnlyOne DEF ChooseCredentials, Goes, progVars, diskVars, LaunchInv, LaunchTypeOK
<1>4. CASE BuildAndStart(p)
  <2>1. pc' \in [Program -> Label]
    BY <1>4 DEF BuildAndStart, Goes, progVars, diskVars, LaunchInv, LaunchTypeOK, Label, Parsing, Opening, Writing, Serving, Ended
  <2>2. LaunchTypeOK'
    BY <1>4, <2>1 DEF BuildAndStart, Goes, progVars, diskVars, LaunchInv, LaunchTypeOK
  <2>3. InOrder(p)'
    BY <1>4 DEF BuildAndStart, Goes, progVars, diskVars, LaunchInv, LaunchTypeOK, InOrder, Parsing, Opening, Writing, Serving, Ended
  <2>4. QED
    BY <1>4, <2>2, <2>3, OnlyOne DEF BuildAndStart, Goes, progVars, diskVars, LaunchInv, LaunchTypeOK
<1>5. QED
  BY <1>1, <1>2, <1>3, <1>4

(***************************************************************************)
(* A failure or a death at any point keeps the invariant.                  *)
(***************************************************************************)
LEMMA FaultInvariant ==
    ASSUME LaunchInv, NEW p \in Program,
           SystemFails(p) \/ LoadThrows(p) \/ TableMissing(p) \/ Die(p)
    PROVE  LaunchInv'
<1>1. CASE SystemFails(p)
  <2>1. Fault
    BY <1>1 DEF SystemFails
  <2>2. faults' \in Nat
    BY <2>1 DEF Fault, LaunchInv, LaunchTypeOK
  <2>3. QED
    BY <1>1, <2>2, FailInvariant DEF SystemFails, Parsing, Opening
<1>2. CASE LoadThrows(p) \/ TableMissing(p)
  <2>1. faults' \in Nat
    BY <1>2 DEF LoadThrows, TableMissing, Fault, LaunchInv, LaunchTypeOK
  <2>2. QED
    BY <1>2, <2>1, CloseInvariant DEF LoadThrows, TableMissing, Writing, Serving
<1>3. CASE Die(p)
  <2>1. pc' \in [Program -> Label] /\ pc'[p] = "dead" /\ faults' \in Nat
    BY <1>3 DEF Die, Fault, Goes, LaunchInv, LaunchTypeOK, Label, Ended
  <2>2. LaunchTypeOK'
    BY <1>3, <2>1 DEF Die, progVars, LaunchInv, LaunchTypeOK
  <2>3. InOrder(p)'
    BY <1>3, <2>1 DEF Die, progVars, LaunchInv, InOrder, Parsing, Opening, Writing, Serving
  <2>4. QED
    BY <1>3, <2>2, <2>3, OnlyOne DEF Die, Goes, progVars, LaunchInv, LaunchTypeOK
<1>4. QED
  BY <1>1, <1>2, <1>3

(***************************************************************************)
(* Every step of every program, and every change of the file system, keeps *)
(* the invariant.                                                          *)
(***************************************************************************)
LEMMA StepInvariant == LaunchInv /\ [LaunchNext]_launchVars => LaunchInv'
<1> SUFFICES ASSUME LaunchInv, [LaunchNext]_launchVars PROVE LaunchInv'
  OBVIOUS
<1>1. CASE UNCHANGED launchVars
  BY <1>1 DEF launchVars, progVars, diskVars, LaunchInv, LaunchTypeOK, InOrder
<1>2. CASE Change
  <2>1. LaunchTypeOK'
    BY <1>2, LaunchAssumption DEF Change, LaunchInv, LaunchTypeOK, progVars
  <2>2. QED
    BY <1>2, <2>1 DEF Change, LaunchInv, InOrder, progVars
<1>3. ASSUME NEW p \in Program, ParseOptions(p) PROVE LaunchInv'
  BY <1>3, ParseInvariant, DirectoryInvariant DEF ParseOptions
<1>4. ASSUME NEW p \in Program, FillDatabase(p) PROVE LaunchInv'
  BY <1>4, FillInvariant, DirectoryInvariant DEF FillDatabase
<1>5. ASSUME NEW p \in Program, RunServer(p) PROVE LaunchInv'
  <2>1. CASE LoadString(p, "key", "open key", "certificate")
    <3>1. pc[p] \in Serving
      BY <2>1 DEF LoadString, LoadNothing, MissString, ReadString, Closes, Goes, Serving
    <3>2. QED
      BY <2>1, <3>1, LoadStringInvariant
  <2>2. CASE LoadString(p, "certificate", "open certificate", "build")
    <3>1. pc[p] \in Serving
      BY <2>2 DEF LoadString, LoadNothing, MissString, ReadString, Closes, Goes, Serving
    <3>2. QED
      BY <2>2, <3>1, LoadStringInvariant
  <2>3. QED
    BY <1>5, <2>1, <2>2, ServeInvariant DEF RunServer
<1>6. QED
  BY <1>1, <1>2, <1>3, <1>4, <1>5, ParseInvariant, FaultInvariant DEF LaunchNext, Main

(***************************************************************************)
(* Every reachable state is in order: types, which connection a program has*)
(* where, and a key only with its certificate.                             *)
(***************************************************************************)
THEOREM InvariantHolds == LaunchSpec => []LaunchInv
BY InitInvariant, StepInvariant, PTL DEF LaunchSpec

(***************************************************************************)
(* No handle is closed twice, an ended program has closed its own, and a   *)
(* listening server reads on a connection that is open.                    *)
(***************************************************************************)
THEOREM HandlesAreClosedOnce == LaunchSpec => []ClosedOnce
<1>1. LaunchInv => ClosedOnce
  BY DEF LaunchInv, LaunchTypeOK, Connections, InOrder, ClosedOnce, Serving
<1>2. QED
  BY <1>1, InvariantHolds, PTL

(***************************************************************************)
(* Where no .ini file is taken away, a step that moves one program, and adds*)
(* files at most, leaves the others as they were told.                     *)
(***************************************************************************)
LEMMA OthersObey ==
    ASSUME \A q \in Program : Obeys(q), NEW p \in Program, Obeys(p)',
           present \subseteq present', UNCHANGED says,
           \A q \in Program \ {p} :
               /\ pc'[q] = pc[q] /\ told'[q] = told[q]
               /\ options'[q] = options[q] /\ pem'[q] = pem[q]
    PROVE  \A q \in Program : Obeys(q)'
<1>1. ASSUME NEW q \in Program \ {p} PROVE Obeys(q)'
  BY <1>1 DEF Obeys, Accepted
<1>2. QED
  BY <1>1

(***************************************************************************)
(* A program that goes on between two labels of the same kind, with the    *)
(* options it has, does as it was told.                                    *)
(***************************************************************************)
LEMMA StillObeys ==
    ASSUME LaunchInv, NEW p \in Program, Obeys(p), pc'[p] # "listening",
           UNCHANGED <<told, options, says>>,
           \/ pc'[p] \in Ended \cup {"make"} /\ (pc'[p] = "make" => pc[p] = "parent")
           \/ pc'[p] \in Configured /\ pc[p] \in Configured \cup {"parent", "make"}
    PROVE  Obeys(p)'
BY DEF Obeys, NamesBoth, Configured, Parsing, Opening, Writing, Serving, Ended

(***************************************************************************)
(* A program that ends owes nothing.                                       *)
(***************************************************************************)
LEMMA EndedObeys ==
    ASSUME NEW p \in Program, pc'[p] \in Ended
    PROVE  Obeys(p)'
BY DEF Obeys, Configured, Parsing, Opening, Writing, Serving, Ended

(***************************************************************************)
(* Every step keeps every program to its .ini file.                        *)
(***************************************************************************)
LEMMA StepObeys ==
    ASSUME \A p \in Program : Ini[p] \notin Loose,
           LaunchInv, \A p \in Program : Obeys(p), [LaunchNext]_launchVars
    PROVE  \A p \in Program : Obeys(p)'
<1> DEFINE Obeyed == \A q \in Program : Obeys(q)
<1>1. CASE UNCHANGED launchVars
  BY <1>1 DEF launchVars, progVars, diskVars, Obeys, NamesBoth, Accepted
<1>2. CASE Change
  <2>1. \A p \in Program : told[p] # Nowhere /\ told[p] \in present => told[p] \in present'
    BY <1>2 DEF Change, LaunchInv, InOrder
  <2>2. QED
    BY <1>2, <2>1 DEF Change, progVars, Obeys, NamesBoth, Accepted
<1>3. ASSUME NEW p \in Program, StartWithIni(p) \/ StartOtherwise(p) PROVE Obeyed'
  <2>1. /\ pc'[p] \in Ended \cup {"parse"}
        /\ pc'[p] = "parse" => told'[p] = Nowhere \/ told'[p] \in present'
    BY <1>3 DEF StartWithIni, StartOtherwise, CommandLine, diskVars, LaunchInv, LaunchTypeOK, Ended
  <2>2. Obeys(p)'
    BY <1>3, <2>1 DEF Obeys, Configured, Parsing, Opening, Writing, Serving, Ended
  <2>3. QED
    BY <1>3, <2>2, OthersObey DEF StartWithIni, StartOtherwise, CommandLine, diskVars, LaunchInv, LaunchTypeOK
<1>4. ASSUME NEW p \in Program, LookForIni(p) PROVE Obeyed'
  <2>1. /\ told[p] \in present => pc[p] = "parse" /\ pc'[p] = "read"
        /\ told[p] \notin present => pc[p] = "parse" /\ pc'[p] = "database"
        /\ UNCHANGED <<told, options, pem, says, present>>
    BY <1>4 DEF LookForIni, Goes, progVars, diskVars, LaunchInv, LaunchTypeOK
  <2>2. Obeys(p)'
    BY <1>4, <2>1 DEF Obeys, Configured, Parsing, Opening, Writing, Serving, Ended
  <2>3. QED
    BY <1>4, <2>2, OthersObey DEF LookForIni, Goes, progVars, diskVars, LaunchInv, LaunchTypeOK
<1>5. ASSUME NEW p \in Program, ReadIni(p) PROVE Obeyed'
  <2>1. /\ pc'[p] \in {"failed", "parent", "key?", "database"}
        /\ pc'[p] = "parent" => p \notin Server
        /\ pc'[p] = "database" => p \in Server /\ ~NamesBoth(says[p])
        /\ pc'[p] # "failed" => options'[p].database = says[p].database
        /\ UNCHANGED <<told, says>>
    BY <1>5 DEF ReadIni, Goes, diskVars, Options, LaunchInv, LaunchTypeOK
  <2>2. Obeys(p)'
    BY <1>5, <2>1 DEF Obeys, NamesBoth, Configured, Parsing, Opening, Writing, Serving, Ended
  <2>3. QED
    BY <1>5, <2>2, OthersObey DEF ReadIni, Goes, diskVars, Options, LaunchInv, LaunchTypeOK
<1>6. ASSUME NEW p \in Program, LookForKey(p) PROVE Obeyed'
  <2>1. /\ pc[p] = "key?" /\ pc'[p] \in {"failed", "certificate?"}
        /\ UNCHANGED <<told, options, says>>
    BY <1>6 DEF LookForKey, Goes, progVars, diskVars, LaunchInv, LaunchTypeOK
  <2>2. Obeys(p)'
    BY <1>6, <2>1 DEF Obeys, Configured, Parsing, Opening, Writing, Serving, Ended
  <2>3. QED
    BY <1>6, <2>2, OthersObey DEF LookForKey, Goes, progVars, diskVars, LaunchInv, LaunchTypeOK
<1>7. ASSUME NEW p \in Program, LookForCertificate(p) PROVE Obeyed'
  <2>1. /\ pc[p] = "certificate?" /\ pc'[p] \in {"failed", "database"}
        /\ pc'[p] = "database" => /\ options'[p].key = says[p].key
                                   /\ options'[p].certificate = says[p].certificate
                                   /\ options'[p].database = options[p].database
        /\ UNCHANGED <<told, says>>
    BY <1>7 DEF LookForCertificate, Goes, diskVars, Options, LaunchInv, LaunchTypeOK
  <2>2. Obeys(p)'
    BY <1>7, <2>1 DEF Obeys, NamesBoth, Configured, Parsing, Opening, Writing, Serving, Ended
  <2>3. QED
    BY <1>7, <2>2, OthersObey DEF LookForCertificate, Goes, diskVars, Options, LaunchInv, LaunchTypeOK
<1>8. ASSUME NEW p \in Program, NEW from, NEW to,
             from \in {"parent", "make"} \cup Configured,
             to \in Ended \cup {"make"} \cup Configured,
             to # "listening", to = "make" => from = "parent", Goes(p, from, to),
             UNCHANGED <<told, options, says>>, present \subseteq present',
             \A q \in Program \ {p} : pem'[q] = pem[q]
      PROVE  Obeyed'
  <2>1. pc[p] = from /\ pc'[p] = to
    BY <1>8 DEF Goes, LaunchInv, LaunchTypeOK
  <2>2. Obeys(p)'
    BY <1>8, <2>1, StillObeys
  <2>3. QED
    BY <1>8, <2>2, OthersObey DEF Goes, LaunchInv, LaunchTypeOK
<1>9. ASSUME NEW p \in Program, LookForDirectory(p, "parent", "make", "database") PROVE Obeyed'
  BY <1>9, <1>8 DEF LookForDirectory, progVars, diskVars, Configured, Parsing, Opening, Writing, Serving, Ended
<1>10. ASSUME NEW p \in Program, MakeDirectory(p, "make", "database") PROVE Obeyed'
  BY <1>10, <1>8 DEF MakeDirectory, progVars, Configured, Parsing, Opening, Writing, Serving, Ended
<1>11. ASSUME NEW p \in Program, LookForDirectory(p, "directory", "create directory", "create") PROVE Obeyed'
  BY <1>11, <1>8 DEF LookForDirectory, progVars, diskVars, Configured, Parsing, Opening, Writing, Serving, Ended
<1>12. ASSUME NEW p \in Program, MakeDirectory(p, "create directory", "create") PROVE Obeyed'
  BY <1>12, <1>8 DEF MakeDirectory, progVars, Configured, Parsing, Opening, Writing, Serving, Ended
<1>13. ASSUME NEW p \in Program, LookForDatabase(p) \/ Load(p) PROVE Obeyed'
  BY <1>13, <1>8 DEF LookForDatabase, Load, progVars, diskVars, Configured, Parsing, Opening, Writing, Serving, Ended
<1>14. ASSUME NEW p \in Program, OpenReadWrite(p) \/ OpenCreateReadWrite(p) \/ OpenReadOnly(p) PROVE Obeyed'
  BY <1>14, <1>8 DEF OpenReadWrite, OpenCreateReadWrite, OpenReadOnly, Opens, OpenFails, progVars, Configured, Parsing, Opening, Writing, Serving, Ended
<1>15. ASSUME NEW p \in Program, CloseDatabase(p) \/ LeaveDatabase(p) PROVE Obeyed'
  BY <1>15, <1>8 DEF CloseDatabase, LeaveDatabase, Closes, diskVars, Configured, Parsing, Opening, Writing, Serving, Ended
<1>16. ASSUME NEW p \in Program, FindTable(p) \/ ChooseCredentials(p) PROVE Obeyed'
  BY <1>16, <1>8 DEF FindTable, ChooseCredentials, progVars, diskVars, Configured, Parsing, Opening, Writing, Serving, Ended
<1>17. ASSUME NEW p \in Program, LoadString(p, "key", "open key", "certificate") PROVE Obeyed'
  BY <1>17, <1>8 DEF LoadString, LoadNothing, MissString, ReadString, Closes, progVars, diskVars, LaunchInv, LaunchTypeOK, Configured, Parsing, Opening, Writing, Serving, Ended
<1>18. ASSUME NEW p \in Program, LoadString(p, "certificate", "open certificate", "build") PROVE Obeyed'
  BY <1>18, <1>8 DEF LoadString, LoadNothing, MissString, ReadString, Closes, progVars, diskVars, LaunchInv, LaunchTypeOK, Configured, Parsing, Opening, Writing, Serving, Ended
<1>19. ASSUME NEW p \in Program, BuildAndStart(p) PROVE Obeyed'
  <2>1. /\ pc[p] = "build" /\ pc'[p] \in {"listening", "dead"}
        /\ pc'[p] = "listening" => Accepted(p)
        /\ UNCHANGED <<told, options, pem, says>>
    BY <1>19 DEF BuildAndStart, Goes, progVars, diskVars, LaunchInv, LaunchTypeOK
  <2>2. Obeys(p)'
    BY <2>1 DEF Obeys, Accepted, NamesBoth, Configured, Parsing, Opening, Writing, Serving, Ended
  <2>3. QED
    BY <1>19, <2>2, OthersObey DEF BuildAndStart, Goes, progVars, diskVars, LaunchInv, LaunchTypeOK
<1>20. ASSUME NEW p \in Program, SystemFails(p) \/ LoadThrows(p) \/ TableMissing(p) \/ Die(p)
      PROVE  Obeyed'
  <2>1. /\ pc' = [pc EXCEPT ![p] = "failed"] \/ pc' = [pc EXCEPT ![p] = "dead"]
        /\ UNCHANGED <<told, options, pem, present, says>>
    BY <1>20 DEF SystemFails, OpenFails, LoadThrows, TableMissing, Die, Closes, Goes, progVars
  <2>2. Obeys(p)'
    BY <2>1, EndedObeys DEF LaunchInv, LaunchTypeOK, Ended
  <2>3. QED
    BY <2>1, <2>2, OthersObey DEF LaunchInv, LaunchTypeOK
<1>21. QED
  BY <1>1, <1>2, <1>3, <1>4, <1>5, <1>6, <1>7, <1>8, <1>9, <1>10, <1>11, <1>12, <1>13, <1>14, <1>15, <1>16, <1>17, <1>18, <1>19, <1>20
     DEF LaunchNext, Main, ParseOptions, FillDatabase, RunServer

(***************************************************************************)
(* If no .ini file is taken away, every program works on the database its  *)
(* file names, and a server listens with the credentials the file asks for.*)
(***************************************************************************)
THEOREM DoneAsTold ==
    (\A p \in Program : Ini[p] \notin Loose) => (LaunchSpec => []AsTold)
<1> SUFFICES ASSUME \A p \in Program : Ini[p] \notin Loose
             PROVE  LaunchSpec => []AsTold
  OBVIOUS
<1> DEFINE Obeyed == \A p \in Program : Obeys(p)
<1>1. LaunchInit => Obeyed
  BY DEF LaunchInit, Obeys
<1>2. LaunchInv /\ Obeyed /\ [LaunchNext]_launchVars => Obeyed'
  BY StepObeys
<1>3. LaunchInv /\ Obeyed => AsTold
  <2> SUFFICES ASSUME LaunchInv, Obeyed, NEW p \in Program,
                      told[p] # Nowhere, pc[p] \in Writing \cup Serving
               PROVE  /\ options[p].database = says[p].database
                      /\ pc[p] = "listening" /\ NamesBoth(says[p]) =>
                            pem[p] = [key |-> "contents", certificate |-> "contents"]
    BY DEF AsTold
  <2>1. pc[p] \in Configured /\ (pc[p] = "listening" => p \in Server)
    BY DEF Configured, Serving, LaunchInv, InOrder
  <2>2. QED
    BY <2>1 DEF Obeys, Accepted
<1>4. QED
  BY <1>1, <1>2, <1>3, InvariantHolds, PTL DEF LaunchSpec
=============================================================================
