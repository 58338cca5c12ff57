------------------------------- MODULE Launch -------------------------------
(***************************************************************************)
(* The mains of uMetadataServer and uMetadataUpdater from their command    *)
(* line to the point where they serve or exit: which options they run      *)
(* with, which directories and files they make, which connections they     *)
(* open and close, which credentials they listen with.                     *)
(*                                                                         *)
(* Each program asks the file system first and acts later, and both of     *)
(* them, as well as whoever deploys them, change it in between.  What is   *)
(* in the database, and what one insert after another does to it, is in    *)
(* MetadataLoader: here a load phase succeeds or throws.                   *)
(***************************************************************************)
EXTENDS Naturals

CONSTANTS Program,
          Server,      \* the programs that go on to serve
          File,        \* the paths in play, directories included
          Nowhere,     \* the empty path
          Parent,      \* Parent[f]: the directory of f, or Nowhere
          Ini,         \* Ini[p]: the file named by --ini
          Default,     \* Default[p]: the database file of ProgramOptions
          Content,     \* Content[p]: what Ini[p] may say
          Initially,   \* the sets of paths that may exist at first
          Loose,       \* the paths others add and remove
          MaxFaults,   \* bound: deaths and failures of the system
          MaxChanges   \* bound: changes of the file system by others

ASSUME LaunchAssumption ==
    /\ Server \subseteq Program
    /\ Nowhere \notin File
    /\ Parent \in [File -> File \cup {Nowhere}]
    /\ Ini \in [Program -> File] /\ Default \in [Program -> File]
    /\ \A p \in Program :
          Content[p] \subseteq [valid : BOOLEAN, database : File, key : File \cup {Nowhere},
                                certificate : File \cup {Nowhere}]
    /\ Initially \subseteq SUBSET File
    /\ Loose \subseteq File
    /\ MaxFaults \in Nat /\ MaxChanges \in Nat

VARIABLES pc,       \* pc[p]: where p's main is
          told,     \* told[p]: the .ini named on its command line, or Nowhere
          options,  \* options[p]: its ProgramOptions
          conn,     \* conn[p]: the members of its DatabaseImpl
          pem,      \* pem[p]: the strings of its PemKeyCertPair
          present,  \* the paths that exist
          says,     \* says[p]: what Ini[p] says
          faults, changes

progVars == <<told, options, conn, pem>>
diskVars == <<present, says, faults, changes>>
launchVars == <<pc, progVars, diskVars>>

Defaults(p) == [database |-> Default[p], key |-> Nowhere, certificate |-> Nowhere]

(***************************************************************************)
(* mDatabaseHandle, and which of mHaveReadOnlyDatabase and                 *)
(* mHaveReadWriteDatabase is set.                                          *)
(***************************************************************************)
NoConnection == [handle |-> "null", flag |-> "none"]
Connected(flag) == [handle |-> "open", flag |-> flag]
Disconnected == [handle |-> "freed", flag |-> "none"]

NoPem == [key |-> "none", certificate |-> "none"]

Rooted(s) == \A f \in s : Parent[f] \in s \cup {Nowhere}

LaunchInit ==
    /\ pc = [p \in Program |-> "idle"]
    /\ told = [p \in Program |-> Nowhere]
    /\ options = [p \in Program |-> Defaults(p)]
    /\ conn = [p \in Program |-> NoConnection]
    /\ pem = [p \in Program |-> NoPem]
    /\ present \in {s \in Initially : Rooted(s)}
    /\ says \in {c \in [Program -> UNION {Content[p] : p \in Program}] :
                   \A p \in Program : c[p] \in Content[p]}
    /\ faults = 0
    /\ changes = 0

Goes(p, from, to) == pc[p] = from /\ pc' = [pc EXCEPT ![p] = to]

(* "failed": main has caught an exception; "dead": the process is gone. *)
Ended == {"idle", "failed", "dead", "exited"}

-----------------------------------------------------------------------------

(***************************************************************************)
(* The program is started and parses its command line: --help ends it, an  *)
(* unknown option or an .ini that does not exist is refused.               *)
(***************************************************************************)
CommandLine(p, ini, to) ==
    /\ pc[p] \in Ended
    /\ pc' = [pc EXCEPT ![p] = to]
    /\ told' = [told EXCEPT ![p] = ini]
    /\ options' = [options EXCEPT ![p] = Defaults(p)]
    /\ conn' = [conn EXCEPT ![p] = NoConnection]
    /\ pem' = [pem EXCEPT ![p] = NoPem]
    /\ UNCHANGED diskVars

StartWithIni(p) == CommandLine(p, Ini[p], IF Ini[p] \in present THEN "parse" ELSE "failed")

StartOtherwise(p) == \E to \in {"parse", "exited", "failed"} : CommandLine(p, Nowhere, to)

(***************************************************************************)
(* parseIniFile asks again whether the file exists, and takes the defaults *)
(* if it does not.                                                         *)
(***************************************************************************)
LookForIni(p) ==
    /\ Goes(p, "parse", IF told[p] \in present THEN "read" ELSE "database")
    /\ UNCHANGED <<progVars, diskVars>>

NamesBoth(c) == c.key # Nowhere /\ c.certificate # Nowhere

(* Mutant: a key or a certificate is stored as it is named. *)
ReadIniEach(p) ==
    /\ IF told[p] \in present /\ says[p].valid
       THEN /\ Goes(p, "read", IF p \notin Server THEN "parent"
                               ELSE IF NamesBoth(says[p]) THEN "key?" ELSE "database")
            /\ options' = [options EXCEPT ![p] =
                              [database |-> says[p].database, key |-> says[p].key,
                               certificate |-> says[p].certificate]]
       ELSE Goes(p, "read", "failed") /\ UNCHANGED options
    /\ UNCHANGED <<told, conn, pem, diskVars>>

(***************************************************************************)
(* read_ini throws if the file has gone or is malformed, an empty host is  *)
(* refused; a server that names a key and a certificate looks for them,    *)
(* the updater for the directory of its database.                          *)
(***************************************************************************)
ReadIni(p) ==
    /\ IF told[p] \in present /\ says[p].valid
       THEN /\ Goes(p, "read", IF p \notin Server THEN "parent"
                               ELSE IF NamesBoth(says[p]) THEN "key?" ELSE "database")
            /\ options' = [options EXCEPT ![p].database = says[p].database]
       ELSE Goes(p, "read", "failed") /\ UNCHANGED options
    /\ UNCHANGED <<told, conn, pem, diskVars>>

(* Mutant: a server without its key file goes on in clear text. *)
LookForKeyLeniently(p) ==
    /\ Goes(p, "key?", IF says[p].key \in present THEN "certificate?" ELSE "database")
    /\ UNCHANGED <<progVars, diskVars>>

LookForKey(p) ==
    /\ Goes(p, "key?", IF says[p].key \in present THEN "certificate?" ELSE "failed")
    /\ UNCHANGED <<progVars, diskVars>>

LookForCertificate(p) ==
    /\ IF says[p].certificate \in present
       THEN /\ Goes(p, "certificate?", "database")
            /\ options' = [options EXCEPT ![p].key = says[p].key,
                                          ![p].certificate = says[p].certificate]
       ELSE Goes(p, "certificate?", "failed") /\ UNCHANGED options
    /\ UNCHANGED <<told, conn, pem, diskVars>>

(***************************************************************************)
(* The directory of the database, looked for and made by the updater's     *)
(* parseIniFile and by openCreateReadWrite.  create_directories returns    *)
(* false when it has nothing to make, which both take for a failure.       *)
(***************************************************************************)
Directory(p) == Parent[options[p].database]

HasDirectory(p) == Directory(p) \in present \cup {Nowhere}

(* Mutant: the directory is made without a look. *)
LookForNoDirectory(p, from, make, next) ==
    /\ Goes(p, from, IF Directory(p) = Nowhere THEN next ELSE make)
    /\ UNCHANGED <<progVars, diskVars>>

LookForDirectory(p, from, make, next) ==
    /\ Goes(p, from, IF HasDirectory(p) THEN next ELSE make)
    /\ UNCHANGED <<progVars, diskVars>>

MakeDirectory(p, from, next) ==
    /\ IF HasDirectory(p)
       THEN Goes(p, from, "failed") /\ UNCHANGED present
       ELSE Goes(p, from, next) /\ present' = present \cup {Directory(p)}
    /\ UNCHANGED <<progVars, says, faults, changes>>

-----------------------------------------------------------------------------

(***************************************************************************)
(* DatabaseImpl: an open that fails closes the handle and throws.          *)
(***************************************************************************)
LookForDatabase(p) ==
    /\ Goes(p, "database", IF options[p].database \in present THEN "open" ELSE "directory")
    /\ UNCHANGED <<progVars, diskVars>>

Opens(p, from, flag, next) ==
    /\ Goes(p, from, next)
    /\ conn' = [conn EXCEPT ![p] = Connected(flag)]
    /\ UNCHANGED <<told, options, pem, says, faults, changes>>

OpenFails(p, from) ==
    /\ Goes(p, from, "failed")
    /\ UNCHANGED <<progVars, present, says, changes>>

OpenReadWrite(p) ==
    IF options[p].database \in present
    THEN Opens(p, "open", "write", "load") /\ UNCHANGED present
    ELSE OpenFails(p, "open") /\ UNCHANGED faults

OpenCreateReadWrite(p) ==
    IF HasDirectory(p)
    THEN Opens(p, "create", "write", "load") /\ present' = present \cup {options[p].database}
    ELSE OpenFails(p, "create") /\ UNCHANGED faults

(***************************************************************************)
(* close() looks at the flags, not at the handle, and the destructor calls *)
(* it again.                                                               *)
(***************************************************************************)
(* Mutant: the flag stays set. *)
ClosedFlagged(c) ==
    IF c.flag = "none" THEN c
    ELSE [handle |-> IF c.handle = "open" THEN "freed" ELSE "freed twice", flag |-> c.flag]

Closed(c) ==
    IF c.flag = "none" THEN c
    ELSE [handle |-> IF c.handle = "open" THEN "freed" ELSE "freed twice", flag |-> "none"]

Closes(p, from, to) ==
    /\ Goes(p, from, to)
    /\ conn' = [conn EXCEPT ![p] = Closed(@)]
    /\ UNCHANGED <<told, options, pem>>

Load(p) == Goes(p, "load", "close") /\ UNCHANGED <<progVars, diskVars>>

CloseDatabase(p) == Closes(p, "close", "leave") /\ UNCHANGED diskVars

LeaveDatabase(p) ==
    Closes(p, "leave", IF p \in Server THEN "readonly" ELSE "exited") /\ UNCHANGED diskVars

-----------------------------------------------------------------------------

(***************************************************************************)
(* runServer opens the file read-only and looks for the station table.     *)
(***************************************************************************)
OpenReadOnly(p) ==
    IF options[p].database \in present
    THEN Opens(p, "readonly", "read", "table") /\ UNCHANGED present
    ELSE OpenFails(p, "readonly") /\ UNCHANGED faults

FindTable(p) == Goes(p, "table", "secure?") /\ UNCHANGED <<progVars, diskVars>>

(***************************************************************************)
(* Clear text if there is no key or no certificate; otherwise both files   *)
(* are loaded, the key first.                                              *)
(***************************************************************************)
ChooseCredentials(p) ==
    /\ Goes(p, "secure?", IF NamesBoth(options[p]) THEN "key" ELSE "build")
    /\ UNCHANGED <<progVars, diskVars>>

(***************************************************************************)
(* loadStringFromFile returns an empty string for a file that exists.      *)
(***************************************************************************)
LoadNothing(p, slot, next) ==
    /\ options[p][slot] \in present
    /\ Goes(p, slot, next)
    /\ pem' = [pem EXCEPT ![p][slot] = "empty"]
    /\ UNCHANGED <<told, options, conn, diskVars>>

MissString(p, slot, open) ==
    /\ options[p][slot] \notin present
    /\ Goes(p, slot, open)
    /\ UNCHANGED <<progVars, diskVars>>

(***************************************************************************)
(* For one that did not exist it opens the file, and throws if it still    *)
(* does not; the service and its connection are destroyed on the way out.  *)
(***************************************************************************)
ReadString(p, slot, open, next) ==
    /\ IF options[p][slot] \in present
       THEN /\ Goes(p, open, next)
            /\ pem' = [pem EXCEPT ![p][slot] = "contents"]
            /\ UNCHANGED <<told, options, conn>>
       ELSE Closes(p, open, "failed")
    /\ UNCHANGED diskVars

LoadString(p, slot, open, next) ==
    LoadNothing(p, slot, next) \/ MissString(p, slot, open) \/ ReadString(p, slot, open, next)

(***************************************************************************)
(* The port is bound with credentials that gRPC accepts; if it is not,     *)
(* BuildAndStart's null pointer is dereferenced and the process dies.      *)
(***************************************************************************)
Accepted(p) ==
    ~NamesBoth(options[p]) \/ pem[p] = [key |-> "contents", certificate |-> "contents"]

BuildAndStart(p) ==
    /\ Goes(p, "build", IF Accepted(p) THEN "listening" ELSE "dead")
    /\ UNCHANGED <<progVars, diskVars>>

-----------------------------------------------------------------------------

(***************************************************************************)
(* What the system does to a program: create_directories, an open or the   *)
(* load phase fails; the station table is missing; the process is killed,  *)
(* or dies because the port is taken.  A throwing query for the table ends *)
(* like a death: its constructor throws, so no destructor closes anything. *)
(***************************************************************************)
Fault == faults < MaxFaults /\ faults' = faults + 1

SystemFails(p) ==
    /\ Fault
    /\ \E from \in {"make", "create directory", "open", "create", "readonly"} :
          OpenFails(p, from)

LoadThrows(p) == Fault /\ Closes(p, "load", "failed") /\ UNCHANGED <<present, says, changes>>

TableMissing(p) == Fault /\ Closes(p, "table", "failed") /\ UNCHANGED <<present, says, changes>>

Die(p) ==
    /\ Fault
    /\ pc[p] \notin Ended
    /\ pc' = [pc EXCEPT ![p] = "dead"]
    /\ UNCHANGED <<progVars, present, says, changes>>

(***************************************************************************)
(* Others add and remove files, several at a time (a secret is mounted     *)
(* anew, a volume is emptied).                                             *)
(***************************************************************************)
Change ==
    /\ changes < MaxChanges
    /\ changes' = changes + 1
    /\ \E s \in SUBSET Loose : present' = (present \ Loose) \cup s
    /\ Rooted(present')
    /\ UNCHANGED <<pc, progVars, says, faults>>

ParseOptions(p) ==
    \/ LookForIni(p) \/ ReadIni(p) \/ LookForKey(p) \/ LookForCertificate(p)
    \/ LookForDirectory(p, "parent", "make", "database")
    \/ MakeDirectory(p, "make", "database")

FillDatabase(p) ==
    \/ LookForDatabase(p)
    \/ LookForDirectory(p, "directory", "create directory", "create")
    \/ MakeDirectory(p, "create directory", "create")
    \/ OpenReadWrite(p) \/ OpenCreateReadWrite(p)
    \/ Load(p) \/ CloseDatabase(p) \/ LeaveDatabase(p)

RunServer(p) ==
    \/ OpenReadOnly(p) \/ FindTable(p) \/ ChooseCredentials(p)
    \/ LoadString(p, "key", "open key", "certificate")
    \/ LoadString(p, "certificate", "open certificate", "build")
    \/ BuildAndStart(p)

Main(p) == ParseOptions(p) \/ FillDatabase(p) \/ RunServer(p)

LaunchNext ==
    \/ \E p \in Program :
          \/ StartWithIni(p) \/ StartOtherwise(p) \/ Main(p)
          \/ SystemFails(p) \/ LoadThrows(p) \/ TableMissing(p) \/ Die(p)
    \/ Change

LaunchSpec == LaunchInit /\ [][LaunchNext]_launchVars

(***************************************************************************)
(* Processes are scheduled, and a program that has ended is started again  *)
(* with its .ini: an assumption on the deployment, nothing in the          *)
(* repository does it.                                                     *)
(***************************************************************************)
FairLaunchSpec ==
    /\ LaunchSpec
    /\ \A p \in Program : WF_launchVars(Main(p)) /\ WF_launchVars(StartWithIni(p))

-----------------------------------------------------------------------------

Parsing == {"parse", "read", "parent", "make", "key?", "certificate?"}
Opening == {"database", "directory", "create directory", "open", "create"}
Writing == {"load", "close"}
Serving == {"table", "secure?", "key", "open key", "certificate", "open certificate",
            "build", "listening"}

Label ==
    Ended \cup Parsing \cup Opening \cup Writing \cup {"leave", "readonly"} \cup Serving

Options ==
    [database : File, key : File \cup {Nowhere}, certificate : File \cup {Nowhere}]

Connections == [handle : {"null", "open", "freed"}, flag : {"none", "read", "write"}]

Pems == [key : {"none", "empty", "contents"}, certificate : {"none", "empty", "contents"}]

LaunchTypeOK ==
    /\ pc \in [Program -> Label]
    /\ told \in [Program -> File \cup {Nowhere}]
    /\ options \in [Program -> Options]
    /\ conn \in [Program -> Connections]
    /\ pem \in [Program -> Pems]
    /\ present \subseteq File
    /\ \A p \in Program : says[p] \in Content[p]
    /\ faults \in Nat /\ changes \in Nat

(***************************************************************************)
(* Which connection a program has where, and that it has a key only with a *)
(* certificate.                                                            *)
(***************************************************************************)
InOrder(p) ==
    /\ told[p] \in {Nowhere, Ini[p]}
    /\ options[p].key = Nowhere <=> options[p].certificate = Nowhere
    /\ pc[p] \in {"key?", "certificate?"} => NamesBoth(says[p])
    /\ pc[p] \in Parsing \cup Opening => conn[p] = NoConnection
    /\ pc[p] \in Writing => conn[p] = Connected("write")
    /\ pc[p] \in {"leave", "readonly"} => conn[p] = Disconnected
    /\ pc[p] \in Serving => conn[p] = Connected("read")
    /\ pc[p] \in {"readonly"} \cup Serving => p \in Server
    /\ pc[p] \in {"exited", "failed"} => conn[p].handle # "open"

(***************************************************************************)
(* The inductive invariant.                                                *)
(***************************************************************************)
LaunchInv == LaunchTypeOK /\ \A p \in Program : InOrder(p)

(***************************************************************************)
(* No handle is passed to sqlite3_close twice, although close() leaves it  *)
(* in place and runs again in the destructor; none is left open on the way *)
(* out of main, in order or by an exception, wherever it was thrown; and   *)
(* handlers run on one that is open.                                       *)
(***************************************************************************)
ClosedOnce ==
    \A p \in Program :
        /\ conn[p].handle # "freed twice"
        /\ pc[p] \in {"exited", "failed"} => conn[p].handle # "open"
        /\ pc[p] = "listening" => conn[p] = Connected("read")

(***************************************************************************)
(* A program that was given an .ini file works on the database it names,   *)
(* and a server whose .ini names a key and a certificate listens with      *)
(* their contents or not at all, whatever happens to the files meanwhile.  *)
(***************************************************************************)
AsTold ==
    \A p \in Program :
        told[p] # Nowhere /\ pc[p] \in Writing \cup Serving =>
            /\ options[p].database = says[p].database
            /\ pc[p] = "listening" /\ NamesBoth(says[p]) =>
                  pem[p] = [key |-> "contents", certificate |-> "contents"]

(***************************************************************************)
(* What makes AsTold inductive where no .ini file is taken away.           *)
(***************************************************************************)
Configured == Opening \cup Writing \cup {"leave", "readonly"} \cup Serving

Obeys(p) ==
    told[p] # Nowhere =>
        /\ pc[p] \in {"parse", "read"} => told[p] \in present
        /\ pc[p] \in {"parent", "make"} => p \notin Server
        /\ pc[p] \in {"parent", "make", "key?", "certificate?"} \cup Configured =>
              options[p].database = says[p].database
        /\ pc[p] \in Configured /\ p \in Server /\ NamesBoth(says[p]) => NamesBoth(options[p])
        /\ pc[p] = "listening" => Accepted(p)

(***************************************************************************)
(* A program whose .ini is in place, and asks for no credentials, comes to *)
(* fill its database, and a server to listen, however often the two        *)
(* programs stand in each other's way while the directory is made.         *)
(***************************************************************************)
Ready(p) ==
    Ini[p] \in present /\ says[p].valid /\ (p \in Server => ~NamesBoth(says[p]))

ComesUp ==
    \A p \in Program :
        <>[]Ready(p) => []<>(pc[p] = IF p \in Server THEN "listening" ELSE "leave")

(***************************************************************************)
(* A server that builds its credentials has loaded the files it names.     *)
(***************************************************************************)
CredentialsLoaded ==
    \A p \in Program :
        pc[p] = "build" /\ NamesBoth(options[p]) =>
            pem[p] = [key |-> "contents", certificate |-> "contents"]

=============================================================================
