--------------------------- MODULE MetadataLoader ---------------------------
(***************************************************************************)
(* The programs that fill the station table: uMetadataUpdater, and the     *)
(* first half of uMetadataServer's main, which both open the database      *)
(* read-write, create its tables when the file is new, insert the stations *)
(* of the region their .ini names, one by one, and close it.               *)
(*                                                                         *)
(* Every statement is its own transaction.  Between any two calls of one   *)
(* process the others may do anything to the file; a lock that is not free *)
(* fails the call at once, and any call may fail on an input/output error, *)
(* a full disk or a lack of memory.  A process may die between any two     *)
(* calls; whoever deploys it may start it again.                           *)
(***************************************************************************)
EXTENDS SqliteFile, Sequences

CONSTANTS Batch,     \* Batch[p]: the stations p's program inserts, in order
          MaxFaults  \* bound: how many deaths and failures of calls happen

ASSUME LoaderAssumption ==
    /\ Batch \in [Process -> Seq(Station)]
    /\ MaxFaults \in Nat

VARIABLES pc,      \* pc[p]: where p's thread is
          tab,     \* tab[p]: 1, 2: creating TableOrder[tab[p]]; 3: inserting
          at,      \* at[p]: position in Batch[p] of the station being inserted
          warned,  \* warned[p]: positions logged as "Failed to insert"
          erred,   \* erred[p]: positions whose SELECT or INSERT met an error of
                   \* the system; kept for the properties, no code reads it
          faults   \* faults so far

loaderVars == <<pc, tab, at, warned, erred, faults>>
vars == <<fileVars, loaderVars>>

TableOrder == <<"station", "channel">>

Creating(p) == tab[p] <= 2

Item(p) == Batch[p][at[p]]

Goto(p, label) == pc' = [pc EXCEPT ![p] = label]

Init ==
    /\ FileInit
    /\ pc = [p \in Process |-> "idle"]
    /\ tab = [p \in Process |-> 1]
    /\ at = [p \in Process |-> 1]
    /\ warned = [p \in Process |-> {}]
    /\ erred = [p \in Process |-> {}]
    /\ faults = 0

(***************************************************************************)
(* main has parsed its options and is about to construct the Database.     *)
(***************************************************************************)
Launch(p) ==
    /\ pc[p] = "idle"
    /\ Goto(p, "check")
    /\ tab' = [tab EXCEPT ![p] = 1]
    /\ at' = [at EXCEPT ![p] = 1]
    /\ warned' = [warned EXCEPT ![p] = {}]
    /\ erred' = [erred EXCEPT ![p] = {}]
    /\ UNCHANGED <<fileVars, faults>>

(***************************************************************************)
(* DatabaseImpl's constructor asks std::filesystem::exists; the answer may *)
(* be stale by the time the file is opened.                                *)
(***************************************************************************)
CheckFile(p) ==
    /\ pc[p] = "check"
    /\ Goto(p, IF file THEN "open" ELSE "create")
    /\ UNCHANGED <<fileVars, tab, at, warned, erred, faults>>

(***************************************************************************)
(* An existing file is opened and its tables are not looked at.            *)
(***************************************************************************)
OpenReadWrite(p) ==
    /\ pc[p] = "open"
    /\ tab' = [tab EXCEPT ![p] = 3]
    /\ Goto(p, "prepare")
    /\ UNCHANGED <<fileVars, at, warned, erred, faults>>

(***************************************************************************)
(* A new file is created, of zero pages; its tables come next.             *)
(***************************************************************************)
OpenCreateReadWrite(p) ==
    /\ pc[p] = "create"
    /\ file' = TRUE
    /\ Goto(p, "prepare")
    /\ UNCHANGED <<tables, rows, journal, lock, known, tab, at, warned, erred, faults>>

(***************************************************************************)
(* What is done to a program from outside is bounded.                      *)
(***************************************************************************)
Fault == faults < MaxFaults /\ faults' = faults + 1

(***************************************************************************)
(* The path cannot be asked for or made, or the file not opened: the       *)
(* constructor throws.                                                     *)
(***************************************************************************)
OpenFails(p) ==
    /\ pc[p] \in {"check", "open", "create"}
    /\ Fault
    /\ Goto(p, "failed")
    /\ UNCHANGED <<fileVars, tab, at, warned, erred>>

(* Mutant: the loop over the batch forgets to advance. *)
NextItemAgain(p) ==
    /\ IF Creating(p) THEN tab' = [tab EXCEPT ![p] = @ + 1] /\ UNCHANGED at
                      ELSE UNCHANGED <<tab, at>>
    /\ Goto(p, "prepare")

(***************************************************************************)
(* The next table to create, or the next station to insert.  Whether the   *)
(* last one succeeded makes no difference: createStationTable and          *)
(* createChannelTable swallow every exception, and insertStation only      *)
(* warns when the INSERT does not end in SQLITE_DONE.                      *)
(***************************************************************************)
NextItem(p) ==
    /\ IF Creating(p) THEN tab' = [tab EXCEPT ![p] = @ + 1] /\ UNCHANGED at
                      ELSE at' = [at EXCEPT ![p] = @ + 1] /\ UNCHANGED tab
    /\ Goto(p, "prepare")

(***************************************************************************)
(* tableExists prepares its SELECT on sqlite_master; when that throws, the *)
(* table is given up and the constructor goes on.                          *)
(***************************************************************************)
PrepareTableExists(p) ==
    /\ pc[p] = "prepare" /\ Creating(p)
    /\ \/ Prepare(p, FALSE, "sqlite_master") /\ Goto(p, "step") /\ UNCHANGED <<tab, at>>
       \/ PrepareFails(p, FALSE, "sqlite_master") /\ NextItem(p)
    /\ UNCHANGED <<file, tables, rows, lock, warned, erred, faults>>

(* Mutant: the loop over the batch runs one past its end. *)
PrepareExistsPastEnd(p) ==
    /\ pc[p] = "prepare" /\ ~Creating(p) /\ at[p] <= Len(Batch[p]) + 1
    /\ Prepare(p, FALSE, "station")
    /\ Goto(p, "step")
    /\ UNCHANGED <<file, tables, rows, lock, tab, at, warned, erred, faults>>

(***************************************************************************)
(* exists(station): the getters throw on a station without a key, then the *)
(* SELECT on station is prepared, and a failure to prepare is thrown       *)
(* through insert(vector) to main.                                         *)
(***************************************************************************)
PrepareExists(p) ==
    /\ pc[p] = "prepare" /\ ~Creating(p) /\ at[p] <= Len(Batch[p])
    /\ Item(p) \notin Unkeyed
    /\ \/ Prepare(p, FALSE, "station") /\ Goto(p, "step")
       \/ PrepareFails(p, FALSE, "station") /\ Goto(p, "failed")
    /\ UNCHANGED <<file, tables, rows, lock, tab, at, warned, erred, faults>>

UnkeyedThrows(p) ==
    /\ pc[p] = "prepare" /\ ~Creating(p) /\ at[p] <= Len(Batch[p])
    /\ Item(p) \in Unkeyed
    /\ Goto(p, "failed")
    /\ UNCHANGED <<fileVars, tab, at, warned, erred, faults>>

(* Mutant: the result starts out true, so that a busy file says "present". *)
StepCountBusyTrue(p, present) ==
    /\ pc[p] = "step"
    /\ \/ /\ Share(p, FALSE)
          /\ Goto(p, IF present THEN "present" ELSE "absent")
          /\ UNCHANGED <<tab, at>>
       \/ Blocked(p, FALSE) /\ NextItem(p) /\ UNCHANGED <<journal, lock, known>>
    /\ UNCHANGED <<file, tables, rows, warned, erred, faults>>

(***************************************************************************)
(* sqlite3_step of either counting SELECT: SQLITE_ROW holds a SHARED lock  *)
(* until the statement is finalized; any other code, SQLITE_BUSY among     *)
(* them, leaves the result false.                                          *)
(***************************************************************************)
StepCount(p, present) ==
    /\ pc[p] = "step"
    /\ \/ Share(p, FALSE) /\ Goto(p, IF present THEN "present" ELSE "absent")
       \/ Blocked(p, FALSE) /\ Goto(p, "absent") /\ UNCHANGED <<journal, lock, known>>
    /\ UNCHANGED <<file, tables, rows, tab, at, warned, erred, faults>>

StepTableExists(p) == Creating(p) /\ StepCount(p, TableOrder[tab[p]] \in tables)

(* Mutant: a row of another epoch of the station does not count. *)
StepExistsByKey(p) == ~Creating(p) /\ StepCount(p, KeyTaken(rows, Item(p)))

StepExists(p) == ~Creating(p) /\ StepCount(p, Exists(rows, Item(p)))

(* Mutant: a station that exists ends the whole batch. *)
SkipExistingAndRest(p) ==
    /\ pc[p] = "present"
    /\ Release(p)
    /\ IF Creating(p) THEN NextItem(p)
       ELSE /\ at' = [at EXCEPT ![p] = Len(Batch[p]) + 1]
            /\ Goto(p, "prepare") /\ UNCHANGED tab
    /\ UNCHANGED <<file, tables, rows, journal, known, warned, erred, faults>>

(***************************************************************************)
(* sqlite3_finalize, then "already exists; skipping" ...                   *)
(***************************************************************************)
SkipExisting(p) ==
    /\ pc[p] = "present"
    /\ Release(p)
    /\ NextItem(p)
    /\ UNCHANGED <<file, tables, rows, journal, known, warned, erred, faults>>

(* Mutant: the getters return their defaults instead of throwing. *)
PrepareWriteDefaults(p) ==
    /\ pc[p] = "absent"
    /\ Release(p)
    /\ Goto(p, "share")
    /\ UNCHANGED <<file, tables, rows, journal, known, tab, at, warned, erred, faults>>

(***************************************************************************)
(* ... or on to CREATE TABLE or INSERT; the remaining getters throw on a   *)
(* station without coordinates.                                            *)
(***************************************************************************)
PrepareWrite(p) ==
    /\ pc[p] = "absent"
    /\ Release(p)
    /\ Goto(p, IF ~Creating(p) /\ Item(p) \in Unlocated THEN "failed" ELSE "share")
    /\ UNCHANGED <<file, tables, rows, journal, known, tab, at, warned, erred, faults>>

(* Mutant: the failed INSERT is not logged. *)
GiveUpWriteSilently(p) ==
    /\ Release(p)
    /\ UNCHANGED warned
    /\ NextItem(p)

(***************************************************************************)
(* The write ends without effect: createTable throws into its caller's     *)
(* catch, insertStation warns.                                             *)
(***************************************************************************)
GiveUpWrite(p) ==
    /\ Release(p)
    /\ warned' = IF Creating(p) THEN warned
                 ELSE [warned EXCEPT ![p] = @ \cup {at[p]}]
    /\ NextItem(p)

(***************************************************************************)
(* A statement rolled back behind RESERVED takes the schema it changed     *)
(* with it: the connection has to read it again.                           *)
(***************************************************************************)
RollBack(p) ==
    known' = IF Creating(p) /\ lock[p] \in {"reserved", "exclusive"}
             THEN [known EXCEPT ![p] = {}] ELSE known

(***************************************************************************)
(* sqlite3_step of CREATE TABLE or INSERT gets SHARED, then RESERVED and   *)
(* checks the statement against the file, then EXCLUSIVE, then commits.    *)
(***************************************************************************)
WriteShare(p) ==
    /\ pc[p] = "share"
    /\ \/ Share(p, FALSE) /\ Goto(p, "reserve") /\ UNCHANGED <<tab, at, warned>>
       \/ Blocked(p, FALSE) /\ GiveUpWrite(p) /\ UNCHANGED <<journal, known>>
    /\ UNCHANGED <<file, tables, rows, erred, faults>>

Admissible(p) ==
    IF Creating(p) THEN TableOrder[tab[p]] \notin tables
                   ELSE Insertable(rows, Item(p))

(* Mutant: the file is opened on a file system without working locks. *)
WriteReserveUnlocked(p) ==
    /\ pc[p] = "reserve"
    /\ Admissible(p)
    /\ SetLock(p, "reserved")
    /\ journal' = FALSE
    /\ Goto(p, "promote")
    /\ UNCHANGED <<file, tables, rows, known, tab, at, warned, erred, faults>>

WriteReserve(p) ==
    /\ pc[p] = "reserve"
    /\ ~OtherHolds(p, {"reserved", "exclusive"}) /\ Admissible(p)
    /\ SetLock(p, "reserved")
    /\ journal' = FALSE   \* a dead writer's journal is overwritten
    /\ Goto(p, "promote")
    /\ UNCHANGED <<file, tables, rows, known, tab, at, warned, erred, faults>>

WriteRefused(p) ==
    /\ pc[p] = "reserve"
    /\ OtherHolds(p, {"reserved", "exclusive"}) \/ ~Admissible(p)
    /\ GiveUpWrite(p)
    /\ UNCHANGED <<file, tables, rows, journal, known, erred, faults>>

(* Mutant: a busy handler waits for the readers to leave. *)
WriteExclusiveWaits(p) ==
    /\ pc[p] = "promote"
    /\ ~OtherHolds(p, {"shared"}) /\ SetLock(p, "exclusive")
    /\ Goto(p, "commit")
    /\ UNCHANGED <<file, tables, rows, journal, known, tab, at, warned, erred, faults>>

WriteExclusive(p) ==
    /\ pc[p] = "promote"
    /\ \/ ~OtherHolds(p, {"shared"}) /\ SetLock(p, "exclusive")
          /\ Goto(p, "commit") /\ UNCHANGED <<known, tab, at, warned>>
       \/ OtherHolds(p, {"shared"}) /\ GiveUpWrite(p) /\ RollBack(p)
    /\ UNCHANGED <<file, tables, rows, journal, erred, faults>>

WriteCommit(p) ==
    /\ pc[p] = "commit"
    /\ IF Creating(p) THEN tables' = tables \cup {TableOrder[tab[p]]} /\ UNCHANGED rows
                      ELSE rows' = rows \cup {Item(p)} /\ UNCHANGED tables
    /\ Release(p)
    /\ known' = [known EXCEPT ![p] = tables' \cup {"sqlite_master"}]
    /\ NextItem(p)
    /\ UNCHANGED <<file, journal, warned, erred, faults>>

(* Mutant: the loop stops before the last station. *)
CloseEarly(p) ==
    /\ pc[p] = "prepare" /\ ~Creating(p) /\ at[p] >= Len(Batch[p])
    /\ Disconnect(p)
    /\ Goto(p, "done")
    /\ UNCHANGED <<file, tables, rows, journal, tab, at, warned, erred, faults>>

(***************************************************************************)
(* The batch is through: database.close().                                 *)
(***************************************************************************)
Close(p) ==
    /\ pc[p] = "prepare" /\ ~Creating(p) /\ at[p] > Len(Batch[p])
    /\ Disconnect(p)
    /\ Goto(p, "done")
    /\ UNCHANGED <<file, tables, rows, journal, tab, at, warned, erred, faults>>

(***************************************************************************)
(* The process ends, with EXIT_SUCCESS from "done" and EXIT_FAILURE from   *)
(* "failed", and may be launched again.                                    *)
(***************************************************************************)
Exit(p) ==
    /\ pc[p] \in {"done", "failed"}
    /\ Disconnect(p)
    /\ Goto(p, "idle")
    /\ UNCHANGED <<file, tables, rows, journal, tab, at, warned, erred, faults>>

(***************************************************************************)
(* A call fails on an input/output error, a full disk or a lack of memory. *)
(* Preparing or binding throws: a table is given up, a station ends the    *)
(* run.                                                                    *)
(***************************************************************************)
PrepareErrs(p) ==
    /\ \/ /\ pc[p] = "prepare"
          /\ ~Creating(p) => at[p] <= Len(Batch[p]) /\ Item(p) \notin Unkeyed
          /\ journal' \in JournalsAfterError(p, FALSE)
       \/ pc[p] = "absent" /\ UNCHANGED journal
    /\ Release(p)
    /\ IF Creating(p) THEN NextItem(p) ELSE Goto(p, "failed") /\ UNCHANGED <<tab, at>>
    /\ Fault
    /\ UNCHANGED <<file, tables, rows, known, warned, erred>>

NoteError(p) == erred' = [erred EXCEPT ![p] = IF Creating(p) THEN @ ELSE @ \cup {at[p]}]

(***************************************************************************)
(* A SELECT that does not step to SQLITE_ROW has found nothing.            *)
(***************************************************************************)
CountErrs(p) ==
    /\ pc[p] = "step"
    /\ journal' \in JournalsAfterError(p, FALSE)
    /\ Goto(p, "absent")
    /\ NoteError(p)
    /\ Fault
    /\ UNCHANGED <<file, tables, rows, lock, known, tab, at, warned>>

(***************************************************************************)
(* A CREATE TABLE or INSERT is given up at whatever stage it has reached.  *)
(***************************************************************************)
WriteErrs(p) ==
    /\ pc[p] \in {"share", "reserve", "promote", "commit"}
    /\ journal' \in JournalsAfterError(p, FALSE)
    /\ GiveUpWrite(p)
    /\ RollBack(p)
    /\ NoteError(p)
    /\ Fault
    /\ UNCHANGED <<file, tables, rows>>

CallErrs(p) == PrepareErrs(p) \/ CountErrs(p) \/ WriteErrs(p)

(***************************************************************************)
(* The process is killed.                                                  *)
(***************************************************************************)
Crash(p) ==
    /\ pc[p] \notin {"idle", "done", "failed"}
    /\ Fault
    /\ journal' \in JournalsLeft(p)
    /\ Disconnect(p)
    /\ Goto(p, "idle")
    /\ UNCHANGED <<file, tables, rows, tab, at, warned, erred>>

(***************************************************************************)
(* What p's own thread does once main has started it ...                   *)
(***************************************************************************)
Run(p) ==
    \/ CheckFile(p) \/ OpenReadWrite(p) \/ OpenCreateReadWrite(p)
    \/ PrepareTableExists(p) \/ StepTableExists(p)
    \/ PrepareExists(p) \/ UnkeyedThrows(p) \/ StepExists(p)
    \/ SkipExisting(p) \/ PrepareWrite(p)
    \/ WriteShare(p) \/ WriteReserve(p) \/ WriteRefused(p)
    \/ WriteExclusive(p) \/ WriteCommit(p)
    \/ Close(p)

(***************************************************************************)
(* ... and what is done to it.                                             *)
(***************************************************************************)
Next ==
    \E p \in Process :
        Run(p) \/ Launch(p) \/ Exit(p) \/ OpenFails(p) \/ CallErrs(p) \/ Crash(p)

Spec == Init /\ [][Next]_vars

(***************************************************************************)
(* No call of Database blocks, so a running thread always has a next step  *)
(* and the operating system schedules it.                                  *)
(***************************************************************************)
FairSpec == Spec /\ \A p \in Process : WF_vars(Run(p)) /\ WF_vars(Exit(p))

(***************************************************************************)
(* An assumption on the environment, nothing in the repository does it: a  *)
(* deployment that launches every program again whenever it has ended.     *)
(***************************************************************************)
RestartSpec == FairSpec /\ \A p \in Process : WF_vars(Launch(p))

-----------------------------------------------------------------------------

(* Labels of a thread between the prepare and the end of a statement. *)
Working == {"step", "present", "absent", "share", "reserve", "promote", "commit"}

(* ... and of one that writes. *)
Inserting == {"share", "reserve", "promote", "commit"}

Label == Working \cup {"idle", "check", "open", "create", "prepare", "done", "failed"}

(***************************************************************************)
(* A thread at work on a station is at a position of its batch.            *)
(***************************************************************************)
AtItem ==
    \A p \in Process :
        pc[p] \in Working /\ ~Creating(p) => at[p] \in 1..Len(Batch[p])

(***************************************************************************)
(* Every variable keeps its type, and no loop runs past its batch.         *)
(***************************************************************************)
TypeOK ==
    /\ FileTypeOK
    /\ pc \in [Process -> Label]
    /\ tab \in [Process -> 1..3]
    /\ at \in [Process -> Nat \ {0}]
    /\ warned \in [Process -> SUBSET Nat]
    /\ erred \in [Process -> SUBSET Nat]
    /\ faults \in 0..MaxFaults
    /\ AtItem

(***************************************************************************)
(* A lock is held only between the calls that take and release it; a       *)
(* process that is done loading may hold SHARED, for it may go on to serve *)
(* (module StationService).                                                *)
(***************************************************************************)
LockDiscipline ==
    \A p \in Process :
        /\ lock[p] = "reserved" <=> pc[p] = "promote"
        /\ lock[p] = "exclusive" <=> pc[p] = "commit"
        /\ lock[p] = "shared" => pc[p] \in {"present", "absent", "reserve", "done"}
        /\ pc[p] \in {"present", "reserve"} => lock[p] = "shared"

(***************************************************************************)
(* A thread past the opening of the file finds it there.                   *)
(***************************************************************************)
FileOpened ==
    \A p \in Process :
        pc[p] \notin {"idle", "check", "create", "done", "failed"} => file

(***************************************************************************)
(* What a connection believes of the schema is true of the file, and it    *)
(* knows the station table before it queries or inserts: the INSERT itself *)
(* can always be prepared.                                                 *)
(***************************************************************************)
SchemaKnown ==
    \A p \in Process :
        /\ known[p] \subseteq Schema
        /\ pc[p] \in Working /\ ~Creating(p) => "station" \in known[p]

(***************************************************************************)
(* The file is never without what it holds implies: no row without the     *)
(* station table, no table without the file; and rows meet the constraints *)
(* of CREATE TABLE station, one row a key, however INSERTs of several      *)
(* processes interleave.                                                   *)
(***************************************************************************)
StoreConsistent ==
    /\ rows # {} => "station" \in tables
    /\ tables # {} => file
    /\ WellKeyed(rows)

(***************************************************************************)
(* What the statement found when it took RESERVED still holds when it      *)
(* commits: the row has no rival, the table does not exist, and nothing    *)
(* another process did in between, dying included, has changed that.       *)
(***************************************************************************)
CheckedAtCommit ==
    \A p \in Process :
        pc[p] \in {"promote", "commit"} =>
            /\ file
            /\ Admissible(p)
            /\ ~Creating(p) => "station" \in tables

(***************************************************************************)
(* insertStation never drops a station in silence: each one p has gone     *)
(* past in this run is covered by the file or was logged as a failure,     *)
(* whatever the other processes did meanwhile.                             *)
(***************************************************************************)
SettledOrWarned ==
    \A p \in Process : \A i \in 1..Len(Batch[p]) :
        pc[p] # "idle" /\ i < at[p] => Exists(rows, Batch[p][i]) \/ i \in warned[p]

(***************************************************************************)
(* "Already exists" is said of a station a row covers.                     *)
(***************************************************************************)
PresentSettled ==
    \A p \in Process : pc[p] = "present" /\ ~Creating(p) => Exists(rows, Item(p))

(***************************************************************************)
(* A station that lacks its key or its coordinates never reaches the       *)
(* table: the getters throw before the INSERT.                             *)
(***************************************************************************)
HalfFilledNeverStored == rows \cap (Unkeyed \cup Unlocated) = {}

(***************************************************************************)
(* Why: a thread at work on a station has read its key, and from the       *)
(* INSERT on its coordinates.                                              *)
(***************************************************************************)
GettersPassed ==
    \A p \in Process :
        /\ pc[p] \in Working /\ ~Creating(p) => Item(p) \notin Unkeyed
        /\ pc[p] \in Inserting /\ ~Creating(p) => Item(p) \notin Unlocated

(***************************************************************************)
(* A program ends in order only behind the last station of its batch.      *)
(***************************************************************************)
DoneMeansThrough == \A p \in Process : pc[p] = "done" => at[p] > Len(Batch[p])

(***************************************************************************)
(* The inductive invariant of the loading, whatever a process that is done *)
(* loading does with the file as a reader ...                              *)
(***************************************************************************)
LoadInv ==
    /\ TypeOK
    /\ LockExclusion
    /\ JournalQuiet
    /\ LockDiscipline
    /\ FileOpened
    /\ SchemaKnown
    /\ StoreConsistent
    /\ CheckedAtCommit
    /\ SettledOrWarned
    /\ PresentSettled
    /\ GettersPassed
    /\ HalfFilledNeverStored
    /\ DoneMeansThrough

(***************************************************************************)
(* ... and of the loader by itself, which closes the file and is done.     *)
(***************************************************************************)
DoneReleased == \A p \in Process : pc[p] = "done" => lock[p] = "none"

IInv == LoadInv /\ DoneReleased

(***************************************************************************)
(* A run that ends with EXIT_SUCCESS has stored its whole batch, but for   *)
(* the stations the table's constraints refuse and those whose statements  *)
(* met an error of the system: insertStation logs a full disk and goes on. *)
(***************************************************************************)
SuccessMeansStored ==
    \A p \in Process : \A i \in 1..Len(Batch[p]) :
        pc[p] = "done" =>
            Exists(rows, Batch[p][i]) \/ Batch[p][i] \in Unstorable \/ i \in erred[p]

(***************************************************************************)
(* What makes it true of a process that has the file to itself: a thread   *)
(* writes only a station no row covers, unless the SELECT that should have *)
(* said so failed, and has gone past none that is neither covered, nor     *)
(* refused by the constraints, nor lost to an error.                       *)
(***************************************************************************)
Alone == \E p \in Process : Process = {p}

AloneInv ==
    \A p \in Process :
        /\ pc[p] \in Inserting \cup {"absent"} /\ ~Creating(p) =>
              at[p] \in erred[p] \/ ~Exists(rows, Item(p))
        /\ \A i \in 1..Len(Batch[p]) :
              pc[p] # "idle" /\ i < at[p] =>
                 Exists(rows, Batch[p][i]) \/ Batch[p][i] \in Unstorable \/ i \in erred[p]

(***************************************************************************)
(* A station enters the table only while no row covers it, although the    *)
(* query that said so and the INSERT are two transactions.                 *)
(***************************************************************************)
InsertIfAbsent == [][\A s \in rows' \ rows : ~Exists(rows, s)]_rows

(***************************************************************************)
(* The same but for stations whose SELECT failed: exists() then says that  *)
(* there is no row, and a row of another epoch does not stop the INSERT.   *)
(***************************************************************************)
InsertIfSeenAbsent ==
    [][\A s \in rows' \ rows :
         Exists(rows, s) =>
            \E p \in Process : pc[p] = "commit" /\ Item(p) = s /\ at[p] \in erred[p]]_rows

(***************************************************************************)
(* Under what assumption on the data InsertIfAbsent and StoreRefined hold  *)
(* however processes interleave and calls fail: no station has two epochs. *)
(***************************************************************************)
SingleEpoch == \A r, s \in Station : r.id = s.id => r.start = s.start

(***************************************************************************)
(* The loader implements the atomic store.                                 *)
(***************************************************************************)
Store == INSTANCE StationStore WITH
    stage <- IF "station" \in tables THEN "ready"
             ELSE IF file THEN "empty" ELSE "absent"

StoreRefined == Store!StoreSpec

(***************************************************************************)
(* A station is skipped as one that "already exists" only if a row of it   *)
(* has an epoch that overlaps its own.                                     *)
(***************************************************************************)
SkippedMeansOverlap ==
    \A p \in Process :
        pc[p] = "present" /\ ~Creating(p) =>
            \E r \in rows : /\ r.id = Item(p).id
                            /\ r.start <= Item(p).end /\ Item(p).start <= r.end

(***************************************************************************)
(* A program that was launched comes to its end: with no busy handler and  *)
(* no lock to wait for, no process can hang another.                       *)
(***************************************************************************)
RunEnds ==
    \A p \in Process : pc[p] = "check" ~> pc[p] \in {"done", "failed", "idle"}

(***************************************************************************)
(* Launched again after every death, a program completes its batch, once   *)
(* the station table has been created.                                     *)
(***************************************************************************)
ReadyThenLoaded ==
    \A p \in Process :
        "station" \in tables ~>
            [](\A i \in 1..Len(Batch[p]) :
                 Exists(rows, Batch[p][i]) \/ Batch[p][i] \in Unstorable)

(***************************************************************************)
(* The same with no condition: a deployment that keeps launching the       *)
(* program ends up with its stations in the file.                          *)
(***************************************************************************)
EventuallyLoaded ==
    \A p \in Process : \A i \in 1..Len(Batch[p]) :
        <>(Exists(rows, Batch[p][i]) \/ Batch[p][i] \in Unstorable)
=============================================================================
