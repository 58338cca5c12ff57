------------------------ MODULE StationService_proofs ------------------------
(***************************************************************************)
(* The service answers from one snapshot of the table, for any number of   *)
(* handlers on its connection and any loaders beside it: ServiceInv is     *)
(* inductive.                                                              *)
(***************************************************************************)
EXTENDS StationService, MetadataLoader_proofs

(***************************************************************************)
(* A free slot is a handler state the invariant allows.                    *)
(***************************************************************************)
LEMMA NoCallOK == NoCall \in HandlerState /\ HandlerOK(NoCall)
BY ServiceAssumption DEF NoCall, HandlerState, HandlerOK, Faithful

(***************************************************************************)
(* A fault is counted, and their number stays in bounds.                   *)
(***************************************************************************)
LEMMA FaultsBounded ==
    ASSUME faults \in 0..MaxFaults, Fault \/ UNCHANGED faults
    PROVE  faults' \in 0..MaxFaults
BY LoaderAssumption DEF Fault

(***************************************************************************)
(* Before the server has loaded its region nothing of it serves.           *)
(***************************************************************************)
LEMMA ServiceInitInvariant == ServiceInit => ServiceInv
<1> SUFFICES ASSUME ServiceInit PROVE ServiceInv
  OBVIOUS
<1>1. LoadInv /\ TypeOK
  BY InitInvariant DEF ServiceInit, IInv, LoadInv
<1>2. call \in [Call -> HandlerState]
  BY NoCallOK DEF ServiceInit
<1>3. ServiceTypeOK
  BY <1>1, <1>2, ServiceAssumption DEF ServiceInit, ServiceTypeOK
<1>4. ReaderReleases /\ StartUpOrder /\ ServingPrepared
  BY DEF ServiceInit, Init, ReaderReleases, StartUpOrder, ServingPrepared
<1>5. HandlersOK
  BY NoCallOK DEF ServiceInit, HandlersOK
<1>6. QED
  BY <1>1, <1>3, <1>4, <1>5 DEF ServiceInv

(***************************************************************************)
(* What a process that is done loading does as a reader keeps the          *)
(* invariant of the loading.                                               *)
(***************************************************************************)
LEMMA ReaderStep ==
    ASSUME LoadInv, NEW p \in Process, pc[p] = "done",
           UNCHANGED <<file, tables, rows, pc, tab, at, warned, erred>>,
           faults' \in 0..MaxFaults,
           journal' \in {journal, FALSE},
           NEW level \in {"none", "shared"}, lock' = [lock EXCEPT ![p] = level],
           level = "shared" => ~OtherHolds(p, {"exclusive"}),
           NEW schema \in SUBSET Schema, known' = [known EXCEPT ![p] = schema]
    PROVE  LoadInv'
<1>0. /\ TypeOK /\ FileTypeOK /\ lock \in [Process -> LockLevel]
      /\ known \in [Process -> SUBSET (Table \cup {"sqlite_master"})]
  BY DEF LoadInv, TypeOK, FileTypeOK
<1>1. TypeOK'
  <2>1. lock' \in [Process -> LockLevel]
    BY <1>0 DEF LockLevel
  <2>2. known' \in [Process -> SUBSET (Table \cup {"sqlite_master"})]
    BY <1>0 DEF Schema, FileTypeOK
  <2>3. FileTypeOK'
    BY <1>0, <2>1, <2>2 DEF FileTypeOK
  <2>4. QED
    BY <1>0, <2>3 DEF TypeOK, AtItem, Creating
<1>2. LockExclusion' /\ JournalQuiet' /\ LockDiscipline'
  <2>1. lock'[p] = level /\ \A q \in Process \ {p} : lock'[q] = lock[q]
    BY <1>0
  <2>2. LockExclusion'
    BY <2>1 DEF LoadInv, LockExclusion, OtherHolds
  <2>3. JournalQuiet'
    BY <2>1 DEF LoadInv, JournalQuiet
  <2>4. LockDiscipline'
    BY <2>1 DEF LoadInv, LockDiscipline
  <2>5. QED
    BY <2>2, <2>3, <2>4
<1>3. FileOpened' /\ StoreConsistent'
  BY DEF LoadInv, FileOpened, StoreConsistent, WellKeyed
<1>4. SchemaKnown'
  BY <1>0 DEF LoadInv, SchemaKnown, Schema, Creating, Working
<1>5. CheckedAtCommit'
  BY DEF LoadInv, CheckedAtCommit, Admissible, Creating, Item
<1>6. SettledOrWarned' /\ PresentSettled'
  BY DEF LoadInv, SettledOrWarned, PresentSettled, Creating, Item
<1>7. GettersPassed' /\ HalfFilledNeverStored' /\ DoneMeansThrough'
  BY DEF LoadInv, GettersPassed, HalfFilledNeverStored, DoneMeansThrough, Creating, Item
<1>8. QED
  BY <1>1, <1>2, <1>3, <1>4, <1>5, <1>6, <1>7 DEF LoadInv

(***************************************************************************)
(* A reader whose connection is left alone is the simplest case.           *)
(***************************************************************************)
LEMMA ReaderIdle ==
    ASSUME LoadInv, UNCHANGED <<fileVars, pc, tab, at, warned, erred>>, faults' \in 0..MaxFaults
    PROVE  LoadInv'
<1>1. TypeOK'
  BY DEF LoadInv, TypeOK, fileVars, FileTypeOK, AtItem, Creating
<1>2. LockExclusion' /\ JournalQuiet' /\ LockDiscipline'
  BY DEF LoadInv, fileVars, LockExclusion, JournalQuiet, LockDiscipline
<1>3. FileOpened' /\ StoreConsistent' /\ SchemaKnown'
  BY DEF LoadInv, fileVars, FileOpened, StoreConsistent, WellKeyed, SchemaKnown, Schema, Creating
<1>4. CheckedAtCommit' /\ SettledOrWarned' /\ PresentSettled'
  BY DEF LoadInv, fileVars, CheckedAtCommit, Admissible, Creating, Item, SettledOrWarned, PresentSettled
<1>5. GettersPassed' /\ HalfFilledNeverStored' /\ DoneMeansThrough'
  BY DEF LoadInv, fileVars, GettersPassed, HalfFilledNeverStored, DoneMeansThrough, Creating, Item
<1>6. QED
  BY <1>1, <1>2, <1>3, <1>4, <1>5 DEF LoadInv

(***************************************************************************)
(* So does the end of the server.                                          *)
(***************************************************************************)
LEMMA GoneKeepsLoad ==
    ASSUME LoadInv, pc[server] = "done", Gone, faults' \in 0..MaxFaults
    PROVE  LoadInv'
<1>0. /\ TypeOK /\ FileTypeOK /\ lock \in [Process -> LockLevel] /\ server \in Process
      /\ known \in [Process -> SUBSET (Table \cup {"sqlite_master"})]
      /\ pc \in [Process -> Label]
  BY ServiceAssumption DEF LoadInv, TypeOK, FileTypeOK
<1>1. /\ UNCHANGED <<file, tables, rows, journal, tab, at, warned, erred>>
      /\ lock' = [lock EXCEPT ![server] = "none"] /\ known' = [known EXCEPT ![server] = {}]
      /\ pc' = [pc EXCEPT ![server] = "idle"]
  BY DEF Gone, Disconnect, Release, SetLock, Goto
<1>2. TypeOK'
  <2>1. FileTypeOK'
    BY <1>0, <1>1 DEF FileTypeOK, LockLevel
  <2>2. QED
    BY <1>0, <1>1, <2>1 DEF TypeOK, AtItem, Creating, Label, Working
<1>3. LockExclusion' /\ JournalQuiet' /\ LockDiscipline'
  BY <1>0, <1>1 DEF LoadInv, LockExclusion, JournalQuiet, LockDiscipline
<1>4. FileOpened' /\ StoreConsistent'
  BY <1>0, <1>1 DEF LoadInv, FileOpened, StoreConsistent, WellKeyed
<1>5. SchemaKnown'
  BY <1>0, <1>1 DEF LoadInv, SchemaKnown, Schema, Creating, Working
<1>6. CheckedAtCommit'
  BY <1>0, <1>1 DEF LoadInv, CheckedAtCommit, Admissible, Creating, Item
<1>7. SettledOrWarned' /\ PresentSettled'
  BY <1>0, <1>1 DEF LoadInv, SettledOrWarned, PresentSettled, Creating, Item
<1>8. GettersPassed' /\ HalfFilledNeverStored' /\ DoneMeansThrough'
  BY <1>0, <1>1 DEF LoadInv, GettersPassed, HalfFilledNeverStored, DoneMeansThrough,
     Creating, Item, Working, Inserting
<1>9. QED
  BY <1>2, <1>3, <1>4, <1>5, <1>6, <1>7, <1>8 DEF LoadInv

(***************************************************************************)
(* A program that is done loading does nothing more, but for its Exit.     *)
(***************************************************************************)
LEMMA DoneRests ==
    ASSUME NEW p \in Process, pc[p] = "done"
    PROVE  ~(Run(p) \/ Launch(p) \/ OpenFails(p) \/ CallErrs(p) \/ Crash(p))
BY DEF Run, Launch, OpenFails, CallErrs, PrepareErrs, CountErrs, WriteErrs, Crash, CheckFile, OpenReadWrite, OpenCreateReadWrite,
   PrepareTableExists, PrepareExists, UnkeyedThrows, StepTableExists, StepExists,
   StepCount, SkipExisting, PrepareWrite, WriteShare, WriteReserve, WriteRefused,
   WriteExclusive, WriteCommit, Close

(***************************************************************************)
(* Nobody commits while the server holds SHARED: its scans read a table    *)
(* that stands still.                                                      *)
(***************************************************************************)
LEMMA SharedStillsTable ==
    ASSUME LoadInv, NEW p \in Process, NEW q \in Process, p # q, lock[q] = "shared",
           Run(p) \/ Launch(p) \/ Exit(p) \/ OpenFails(p) \/ CallErrs(p) \/ Crash(p)
    PROVE  UNCHANGED rows
<1>1. CASE WriteCommit(p)
  <2>1. lock[p] = "exclusive"
    BY <1>1 DEF WriteCommit, LoadInv, LockDiscipline
  <2>2. QED
    BY <2>1 DEF LoadInv, LockExclusion
<1>2. CASE ~WriteCommit(p)
  BY <1>2, RowsStay
<1>3. QED
  BY <1>1, <1>2

(***************************************************************************)
(* A commit never takes a table away.                                      *)
(***************************************************************************)
LEMMA TablesStay ==
    ASSUME NEW p \in Process,
           Run(p) \/ Launch(p) \/ Exit(p) \/ OpenFails(p) \/ CallErrs(p) \/ Crash(p)
    PROVE  tables \subseteq tables'
<1>1. CASE WriteCommit(p)
  BY <1>1 DEF WriteCommit
<1>2. CASE ~WriteCommit(p)
  BY <1>2, RowsStay
<1>3. QED
  BY <1>1, <1>2

(***************************************************************************)
(* The loaders, the server's own load phase among them, keep the invariant *)
(* of the service.                                                         *)
(***************************************************************************)
LEMMA LoadKeepsService ==
    ASSUME ServiceInv, NEW p \in Process, Load(p)
    PROVE  ServiceInv'
<1>0. /\ LoadInv /\ TypeOK /\ ServiceTypeOK /\ server \in Process
      /\ Run(p) \/ Launch(p) \/ Exit(p) \/ OpenFails(p) \/ CallErrs(p) \/ Crash(p)
      /\ UNCHANGED serviceVars
  BY ServiceAssumption DEF ServiceInv, LoadInv, Load
<1>1. LoadInv'
  BY <1>0, LoadInvariant DEF Next
<1>2. phase # "load" => p # server
  <2>1. p = server /\ pc[server] = "done" => FALSE
    BY DoneRests DEF Load
  <2>2. QED
    BY <1>0, <2>1 DEF ServiceTypeOK
<1>3. phase # "load" => /\ pc'[server] = pc[server] /\ lock'[server] = lock[server]
                        /\ known'[server] = known[server]
  BY <1>0, <1>2, OthersStay, ConnectionsStay
<1>4. ServiceTypeOK'
  BY <1>0, <1>1, <1>3 DEF ServiceTypeOK, serviceVars, LoadInv
<1>5. ReaderReleases'
  <2> SUFFICES ASSUME NEW q \in Process, pc'[q] = "done", lock'[q] # "none"
               PROVE  q = server /\ phase' \in {"found", "missing", "serving"}
    BY DEF ReaderReleases
  <2>1. CASE q = p
    <3>1. Close(p)
      BY <1>0, <2>1, DoneByClose
    <3>2. lock'[q] = "none"
      BY <1>0, <2>1, <3>1 DEF Close, Disconnect, Release, SetLock, TypeOK, FileTypeOK
    <3>3. QED
      BY <3>2
  <2>2. CASE q # p
    BY <1>0, <2>2, OthersStay, ConnectionsStay DEF ServiceInv, ReaderReleases, serviceVars
  <2>3. QED
    BY <2>1, <2>2
<1>6. StartUpOrder' /\ ServingPrepared'
  BY <1>0, <1>3, TablesStay DEF ServiceInv, StartUpOrder, ServingPrepared, serviceVars
<1>7. HandlersOK'
  <2> SUFFICES ASSUME NEW c \in Call PROVE HandlerOK(call[c])'
    BY DEF HandlersOK
  <2>1. HandlerOK(call[c]) /\ UNCHANGED call
    BY <1>0 DEF ServiceInv, HandlersOK, serviceVars
  <2>2. CASE call[c].at = "scan"
    <3>1. phase = "serving"
      BY <2>2 DEF ServiceInv, StartUpOrder, NoCall
    <3>2. lock[server] = "shared" /\ p # server
      BY <1>0, <1>2, <2>2, <3>1 DEF ServiceTypeOK
    <3>3. UNCHANGED rows
      BY <1>0, <3>2, SharedStillsTable
    <3>4. QED
      BY <2>1, <3>3 DEF HandlerOK, Faithful, Wanted
  <2>3. CASE call[c].at # "scan"
    BY <2>1, <2>3 DEF HandlerOK, Faithful, Wanted
  <2>4. QED
    BY <2>2, <2>3
<1>8. QED
  BY <1>1, <1>4, <1>5, <1>6, <1>7 DEF ServiceInv

(***************************************************************************)
(* The server opens the file again and looks for its table.                *)
(***************************************************************************)
LEMMA StartUpKeepsService ==
    ASSUME ServiceInv, StartUp \/ StartUpErrs
    PROVE  ServiceInv'
<1>0. /\ LoadInv /\ TypeOK /\ FileTypeOK /\ ServiceTypeOK /\ server \in Process
      /\ lock \in [Process -> LockLevel] /\ phase # "serving" /\ pc[server] = "done"
      /\ known \in [Process -> SUBSET (Table \cup {"sqlite_master"})]
      /\ known[server] \in SUBSET Schema /\ faults \in 0..MaxFaults
  <2>1. phase # "serving" /\ pc[server] = "done"
    BY DEF StartUp, StartUpErrs, OpenReadOnly, PrepareStationTable, StepStationTable,
       StartServing, GiveUpServing, ServiceInv, ServiceTypeOK
  <2>2. QED
    BY <2>1, ServiceAssumption
    DEF ServiceInv, LoadInv, TypeOK, FileTypeOK, ServiceTypeOK, SchemaKnown
<1>1. \A c \in Call : call[c] = NoCall
  BY <1>0 DEF ServiceInv, StartUpOrder
<1>2. /\ UNCHANGED <<file, tables, rows, pc, tab, at, warned, erred, call, now>>
      /\ faults' \in 0..MaxFaults
  <2>1. /\ UNCHANGED <<file, tables, rows, pc, tab, at, warned, erred, call, now>>
        /\ Fault \/ UNCHANGED faults
    BY DEF StartUp, StartUpErrs, OpenReadOnly, PrepareStationTable, StepStationTable,
       StartServing, GiveUpServing, vars, fileVars, loaderVars
  <2>2. QED
    BY <1>0, <2>1, FaultsBounded
<1>3. /\ \E schema \in SUBSET Schema : known' = [known EXCEPT ![server] = schema]
      /\ journal' \in {journal, FALSE}
  <2>1. known = [known EXCEPT ![server] = known[server]] /\ Schema \in SUBSET Schema
    BY <1>0
  <2>2. QED
    BY <1>0, <2>1 DEF StartUp, StartUpErrs, OpenReadOnly, PrepareStationTable, StepStationTable, StartServing,
       GiveUpServing, Prepare, PrepareFails, Share, Refresh, Release, SetLock, Disconnect,
       vars, fileVars
<1>4. \E level \in {"none", "shared"} :
         /\ lock' = [lock EXCEPT ![server] = level]
         /\ level = "shared" => ~OtherHolds(server, {"exclusive"})
  <2>1. CASE UNCHANGED lock
    <3>1. lock[server] \in {"none", "shared"} /\ lock' = [lock EXCEPT ![server] = lock[server]]
      BY <1>0, <2>1 DEF LoadInv, LockDiscipline, LockLevel
    <3>2. lock[server] = "shared" => ~OtherHolds(server, {"exclusive"})
      BY <1>0 DEF LoadInv, LockExclusion, OtherHolds
    <3>3. QED
      BY <3>1, <3>2
  <2>2. CASE StepStationTable /\ Share(server, TRUE)
    <3>1. lock[server] \in {"none", "shared"}
      BY <1>0 DEF LoadInv, LockDiscipline, LockLevel
    <3>2. ~OtherHolds(server, {"exclusive"})
      BY <1>0, <2>2, <3>1 DEF Share, Blocked, LoadInv, LockExclusion, OtherHolds
    <3>3. QED
      BY <2>2, <3>2 DEF Share, SetLock
  <2>3. CASE StartServing \/ GiveUpServing
    BY <2>3 DEF StartServing, GiveUpServing, Disconnect, Release, SetLock
  <2>4. QED
    BY <2>1, <2>2, <2>3 DEF StartUp, StartUpErrs, OpenReadOnly, PrepareStationTable, StepStationTable,
       vars, fileVars
<1>5. LoadInv'
  BY <1>0, <1>2, <1>3, <1>4, ReaderStep DEF loaderVars
<1>6. /\ phase' \in {"prepare", "step", "found", "missing", "serving", "stopped"}
      /\ lock'[server] = "none" \/ phase' \in {"found", "missing"}
  BY <1>0 DEF StartUp, StartUpErrs, OpenReadOnly, PrepareStationTable, StepStationTable, StartServing,
     GiveUpServing, Enter, Share, Release, SetLock, Disconnect, ServiceInv, ReaderReleases,
     vars, fileVars
<1>7. ServiceTypeOK'
  BY <1>0, <1>1, <1>2, <1>5, <1>6 DEF ServiceTypeOK, LoadInv, loaderVars, NoCall
<1>8. ReaderReleases'
  BY <1>0, <1>2, <1>4, <1>6 DEF ServiceInv, ReaderReleases, loaderVars
<1>9. StartUpOrder' /\ ServingPrepared'
  <2>1. phase' = "found" => "station" \in known'[server] /\ "station" \in tables'
    BY <1>0 DEF StartUp, StartUpErrs, OpenReadOnly, PrepareStationTable, StepStationTable, StartServing,
       GiveUpServing, Enter, Share, Refresh, Schema
  <2>2. phase' = "serving" => "station" \in known'[server] /\ "station" \in tables'
    BY <1>0 DEF StartUp, StartUpErrs, OpenReadOnly, PrepareStationTable, StepStationTable, StartServing,
       GiveUpServing, Enter, ServiceInv, StartUpOrder
  <2>3. QED
    BY <1>1, <1>2, <2>1, <2>2 DEF StartUpOrder, ServingPrepared
<1>10. HandlersOK'
  BY <1>1, <1>2, NoCallOK DEF HandlersOK, HandlerOK, Faithful, Wanted, NoCall
<1>11. QED
  BY <1>5, <1>7, <1>8, <1>9, <1>10 DEF ServiceInv

(***************************************************************************)
(* The server ends and takes its handlers with it.                         *)
(***************************************************************************)
LEMMA GoneKeepsService ==
    ASSUME ServiceInv, Stop \/ ServerCrash
    PROVE  ServiceInv'
<1>0. /\ LoadInv /\ TypeOK /\ FileTypeOK /\ server \in Process /\ phase # "load" /\ Gone
      /\ lock \in [Process -> LockLevel] /\ pc \in [Process -> Label]
      /\ faults' \in 0..MaxFaults /\ now \in 0..MaxTime /\ pc[server] = "done"
  BY ServiceAssumption, FaultsBounded
  DEF ServiceInv, LoadInv, TypeOK, FileTypeOK, ServiceTypeOK, Stop, ServerCrash
<1>1. LoadInv'
  BY <1>0, GoneKeepsLoad
<1>2. /\ phase' = "load" /\ call' = [c \in Call |-> NoCall] /\ now' = now
      /\ lock' = [lock EXCEPT ![server] = "none"] /\ pc' = [pc EXCEPT ![server] = "idle"]
  BY <1>0 DEF Gone, Enter, Disconnect, Release, SetLock, Goto
<1>3. ServiceTypeOK'
  BY <1>0, <1>1, <1>2, NoCallOK DEF ServiceTypeOK, LoadInv
<1>4. ReaderReleases'
  BY <1>0, <1>2 DEF ServiceInv, ReaderReleases
<1>5. StartUpOrder' /\ ServingPrepared'
  BY <1>2 DEF StartUpOrder, ServingPrepared
<1>6. HandlersOK'
  BY <1>2 DEF HandlersOK, HandlerOK, Faithful, NoCall
<1>7. QED
  BY <1>1, <1>3, <1>4, <1>5, <1>6 DEF ServiceInv

(***************************************************************************)
(* One handler's step: what it becomes is allowed, and the connection has  *)
(* the lock its open statements need.                                      *)
(***************************************************************************)
LEMMA HandlerStep ==
    ASSUME ServiceInv, LoadInv', phase = "serving", NEW c \in Call, NEW h \in HandlerState,
           HandlerOK(h), Become(c, h),
           UNCHANGED <<tables, rows, pc, phase, now>>,
           \A q \in Process \ {server} : lock'[q] = lock[q],
           "station" \in known'[server],
           lock'[server] = "shared" <=>
              h.at = "scan" \/ \E d \in Call \ {c} : call[d].at = "scan"
    PROVE  ServiceInv'
<1>0. /\ ServiceTypeOK /\ server \in Process /\ call \in [Call -> HandlerState]
      /\ call'[c] = h /\ \A d \in Call \ {c} : call'[d] = call[d]
  BY ServiceAssumption DEF ServiceInv, ServiceTypeOK, Become
<1>1. ServiceTypeOK'
  <2>1. call' \in [Call -> HandlerState] /\ TypeOK'
    BY <1>0 DEF Become, LoadInv
  <2>2. (lock'[server] = "shared") <=> \E d \in Call : call'[d].at = "scan"
    BY <1>0
  <2>3. QED
    BY <1>0, <2>1, <2>2 DEF ServiceTypeOK
<1>2. ReaderReleases'
  BY <1>0 DEF ServiceInv, ReaderReleases
<1>3. StartUpOrder' /\ ServingPrepared'
  BY DEF ServiceInv, StartUpOrder, ServingPrepared
<1>4. HandlersOK'
  <2> SUFFICES ASSUME NEW d \in Call PROVE HandlerOK(call[d])'
    BY DEF HandlersOK
  <2>1. CASE d = c
    BY <1>0, <2>1 DEF HandlerOK, Faithful, Wanted
  <2>2. CASE d # c
    <3>1. HandlerOK(call[d]) /\ call'[d] = call[d]
      BY <1>0, <2>2 DEF ServiceInv, HandlersOK
    <3>2. QED
      BY <3>1 DEF HandlerOK, Faithful, Wanted
  <2>3. QED
    BY <2>1, <2>2
<1>5. QED
  BY <1>1, <1>2, <1>3, <1>4 DEF ServiceInv

(***************************************************************************)
(* Most steps of a handler leave the connection alone.                     *)
(***************************************************************************)
LEMMA QuietStep ==
    ASSUME ServiceInv, phase = "serving", NEW c \in Call, NEW h \in HandlerState,
           HandlerOK(h), Become(c, h), h.at = "scan" <=> call[c].at = "scan",
           UNCHANGED <<fileVars, pc, tab, at, warned, erred, phase, now>>, faults' \in 0..MaxFaults
    PROVE  ServiceInv'
<1>1. LoadInv'
  BY ReaderIdle DEF ServiceInv
<1>2. "station" \in known'[server] /\ UNCHANGED <<tables, rows, lock>>
  BY DEF ServiceInv, ServingPrepared, fileVars
<1>3. lock[server] = "shared" <=>
         h.at = "scan" \/ \E d \in Call \ {c} : call[d].at = "scan"
  BY DEF ServiceInv, ServiceTypeOK
<1>4. QED
  BY <1>1, <1>2, <1>3, HandlerStep

(***************************************************************************)
(* What the invariant says of the handler in slot c.                       *)
(***************************************************************************)
LEMMA HandlerFacts ==
    ASSUME ServiceInv, NEW c \in Call
    PROVE  /\ call[c] \in HandlerState /\ HandlerOK(call[c])
           /\ faults \in 0..MaxFaults /\ now \in 0..MaxTime /\ MaxFaults \in Nat
           /\ rows \in SUBSET Station /\ Running \in SUBSET Station
BY LoaderAssumption
DEF ServiceInv, ServiceTypeOK, LoadInv, TypeOK, FileTypeOK, HandlersOK, Running

(***************************************************************************)
(* The query asks for the rows that run now.                               *)
(***************************************************************************)
LEMMA ActiveIsRunning ==
    ASSUME NEW S \in SUBSET Station, NEW t \in Int
    PROVE  Active(S, t) = {r \in S : t \in r.start..r.end}
BY StationAssumption DEF Active

(***************************************************************************)
(* A request begins, is refused, finds the file busy or broken, or ends.   *)
(***************************************************************************)
LEMMA EdgeKeepsService ==
    ASSUME ServiceInv, NEW c \in Call,
           BeginCall(c) \/ RejectArguments(c) \/ ScanBusy(c) \/ QueryBreaks(c) \/ EndCall(c)
    PROVE  ServiceInv'
<1>0. call[c] \in HandlerState /\ HandlerOK(call[c])
  BY HandlerFacts
<1>1. UNCHANGED <<fileVars, pc, tab, at, warned, erred, phase, now>> /\ faults' \in 0..MaxFaults
  <2>1. /\ UNCHANGED <<fileVars, pc, tab, at, warned, erred, phase, now>>
        /\ Fault \/ UNCHANGED faults
    BY DEF BeginCall, RejectArguments, ScanBusy, QueryBreaks, EndCall, vars, loaderVars
  <2>2. QED
    BY <2>1, HandlerFacts, FaultsBounded
<1>2. CASE BeginCall(c)
  <2>1. PICK want \in Id \cup {All, Blank} :
           Become(c, [NoCall EXCEPT !.at = "query", !.want = want])
    BY <1>2 DEF BeginCall
  <2> DEFINE h == [NoCall EXCEPT !.at = "query", !.want = want]
  <2>2. h \in HandlerState /\ HandlerOK(h) /\ h.at # "scan"
    BY ServiceAssumption, NoCallOK DEF NoCall, HandlerState, HandlerOK, Faithful
  <2>3. QED
    BY <1>1, <1>2, <2>1, <2>2, QuietStep DEF BeginCall, Handler
<1>3. CASE RejectArguments(c)
  <2> DEFINE h == [call[c] EXCEPT !.at = "replied", !.status = "INVALID_ARGUMENT"]
  <2>1. h \in HandlerState /\ HandlerOK(h) /\ h.at # "scan"
    BY <1>0, <1>3, ServiceAssumption
    DEF RejectArguments, Handler, HandlerState, HandlerOK, Faithful
  <2>2. QED
    BY <1>1, <1>3, <2>1, QuietStep DEF RejectArguments, Handler
<1>4. CASE ScanBusy(c)
  <2> DEFINE h == [Asked(c) EXCEPT !.at = "finish", !.mishap = "busy"]
  <2>1. h \in HandlerState /\ HandlerOK(h) /\ h.at # "scan"
    BY <1>0, <1>4, HandlerFacts DEF ScanBusy, Handler, HandlerState, HandlerOK, Asked
  <2>2. QED
    BY <1>1, <1>4, <2>1, QuietStep DEF ScanBusy, Handler
<1>5. CASE EndCall(c)
  BY <1>1, <1>5, NoCallOK, QuietStep DEF EndCall, Handler, NoCall
<1>6. CASE QueryBreaks(c)
  <2> DEFINE h == [Asked(c) EXCEPT !.at = "finish", !.mishap = "broken"]
  <2>1. h \in HandlerState /\ HandlerOK(h) /\ h.at # "scan"
    BY <1>0, <1>6, HandlerFacts DEF QueryBreaks, Handler, HandlerState, HandlerOK, Asked
  <2>2. QED
    BY <1>1, <1>6, <2>1, QuietStep DEF QueryBreaks, Handler
<1>7. QED
  BY <1>2, <1>3, <1>4, <1>5, <1>6

(***************************************************************************)
(* A statement is opened: the handler has SHARED from here on, and what it *)
(* is to find is fixed.                                                    *)
(***************************************************************************)
LEMMA OpenScanKeepsService ==
    ASSUME ServiceInv, NEW c \in Call, OpenScan(c)
    PROVE  ServiceInv'
<1> DEFINE h == [Asked(c) EXCEPT !.at = "scan"]
<1>0. /\ LoadInv /\ server \in Process /\ pc[server] = "done" /\ phase = "serving"
      /\ lock \in [Process -> LockLevel]
      /\ known \in [Process -> SUBSET (Table \cup {"sqlite_master"})]
      /\ Become(c, h) /\ UNCHANGED <<file, tables, rows, loaderVars, phase, now>>
  BY ServiceAssumption
  DEF ServiceInv, ServiceTypeOK, LoadInv, TypeOK, FileTypeOK, OpenScan, Handler
<1>1. h \in HandlerState /\ HandlerOK(h) /\ h.at = "scan"
  BY HandlerFacts DEF OpenScan, Handler, HandlerState, HandlerOK, Faithful, Wanted, Asked, Running
<1>2. /\ lock' = [lock EXCEPT ![server] = "shared"]
      /\ journal' \in {journal, FALSE}
      /\ "station" \in known'[server]
      /\ \E schema \in SUBSET Schema : known' = [known EXCEPT ![server] = schema]
  <2>1. CASE lock[server] = "none"
    BY <1>0, <2>1
    DEF OpenScan, Share, SetLock, Refresh, ServiceInv, ServingPrepared, Schema
  <2>2. CASE lock[server] # "none"
    <3>1. lock[server] = "shared" /\ UNCHANGED <<journal, lock, known>>
      BY <1>0, <2>2 DEF OpenScan, LoadInv, LockDiscipline, LockLevel
    <3>2. known[server] \in SUBSET Schema /\ "station" \in known[server]
      BY <1>0 DEF LoadInv, SchemaKnown, ServiceInv, ServingPrepared
    <3>3. QED
      BY <1>0, <3>1, <3>2
  <2>3. QED
    BY <2>1, <2>2
<1>3. ~OtherHolds(server, {"exclusive"})
  <2>1. lock[server] \in {"none", "shared"}
    BY <1>0 DEF LoadInv, LockDiscipline, LockLevel
  <2>2. QED
    BY <1>0, <2>1 DEF OpenScan, Blocked, LoadInv, LockExclusion, OtherHolds
<1>4. LoadInv'
  BY <1>0, <1>2, <1>3, HandlerFacts, ReaderStep DEF loaderVars
<1>5. QED
  BY <1>0, <1>1, <1>2, <1>4, HandlerStep DEF loaderVars

(***************************************************************************)
(* A statement returns a row it was to find.                               *)
(***************************************************************************)
LEMMA ScanRowKeepsService ==
    ASSUME ServiceInv, NEW c \in Call, ScanRow(c)
    PROVE  ServiceInv'
<1>1. PICK r \in Remaining(c) : Become(c, [call[c] EXCEPT !.got = @ \cup {r}])
  BY DEF ScanRow
<1> DEFINE h == [call[c] EXCEPT !.got = @ \cup {r}]
<1>2. /\ call[c] \in HandlerState /\ HandlerOK(call[c]) /\ call[c].at = "scan"
      /\ rows \in SUBSET Station /\ call[c].t \in Int
  BY HandlerFacts DEF ScanRow, Handler, HandlerState
<1>3. r \in Wanted(call[c]) /\ r \in Station
  BY <1>2, ActiveIsRunning DEF Remaining, HandlerOK, Faithful, Wanted
<1>4. h \in HandlerState /\ HandlerOK(h) /\ h.at = "scan"
  BY <1>2, <1>3 DEF HandlerState, HandlerOK, Faithful, Wanted
<1>5. QED
  BY <1>1, <1>2, <1>4, QuietStep, HandlerFacts DEF ScanRow, Handler, vars, loaderVars

(***************************************************************************)
(* The end of a statement, in order or broken off, gives SHARED back when  *)
(* no other handler reads.                                                 *)
(***************************************************************************)
LEMMA FinalizeKeepsService ==
    ASSUME ServiceInv, phase = "serving", NEW c \in Call, call[c].at = "scan",
           NEW h \in HandlerState, HandlerOK(h), h.at # "scan", Become(c, h), Finalize(c),
           UNCHANGED <<file, tables, rows, journal, known, pc, tab, at, warned, erred, phase, now>>,
           faults' \in 0..MaxFaults
    PROVE  ServiceInv'
<1>0. /\ LoadInv /\ server \in Process /\ pc[server] = "done"
      /\ lock \in [Process -> LockLevel] /\ lock[server] = "shared"
      /\ known \in [Process -> SUBSET (Table \cup {"sqlite_master"})]
      /\ known[server] \in SUBSET Schema /\ "station" \in known[server]
  BY ServiceAssumption
  DEF ServiceInv, ServiceTypeOK, ServingPrepared, LoadInv, TypeOK, FileTypeOK, SchemaKnown
<1> DEFINE level == IF \E d \in Call \ {c} : call[d].at = "scan" THEN "shared" ELSE "none"
<1>1. level \in {"none", "shared"} /\ lock' = [lock EXCEPT ![server] = level]
  BY <1>0 DEF Finalize, Release, SetLock
<1>2. ~OtherHolds(server, {"exclusive"})
  BY <1>0 DEF LoadInv, LockExclusion, OtherHolds
<1>3. known' = [known EXCEPT ![server] = known[server]] /\ journal' \in {journal, FALSE}
  BY <1>0
<1> HIDE DEF level
<1>4. LoadInv'
  BY <1>0, <1>1, <1>2, <1>3, ReaderStep
<1>5. lock'[server] = "shared" <=> \E d \in Call \ {c} : call[d].at = "scan"
  BY <1>0, <1>1 DEF level
<1>6. QED
  BY <1>0, <1>1, <1>4, <1>5, HandlerStep

(***************************************************************************)
(* A scan that reaches its end has found all there was ...                 *)
(***************************************************************************)
LEMMA ScanEndKeepsService ==
    ASSUME ServiceInv, NEW c \in Call, ScanEnd(c)
    PROVE  ServiceInv'
<1> DEFINE h == [call[c] EXCEPT !.at = "finish"]
<1>1. /\ call[c] \in HandlerState /\ HandlerOK(call[c]) /\ call[c].at = "scan"
      /\ rows \in SUBSET Station /\ call[c].t \in Int /\ Remaining(c) = {}
      /\ phase = "serving" /\ faults \in 0..MaxFaults
  BY HandlerFacts DEF ScanEnd, Handler, HandlerState
<1>2. /\ call[c].got \subseteq Wanted(call[c])
      /\ call[c].want = All => call[c].got = Wanted(call[c])
      /\ call[c].got = {} => Wanted(call[c]) = {}
  BY <1>1, ActiveIsRunning DEF Remaining, HandlerOK, Faithful, Wanted
<1>3. h \in HandlerState /\ HandlerOK(h) /\ h.at # "scan"
  BY <1>1, <1>2 DEF HandlerState, HandlerOK, Faithful, Wanted
<1>4. QED
  BY <1>1, <1>3, FinalizeKeepsService DEF ScanEnd, loaderVars

(***************************************************************************)
(* ... and one that breaks off is marked as such.                          *)
(***************************************************************************)
LEMMA ScanBreaksKeepsService ==
    ASSUME ServiceInv, NEW c \in Call, ScanBreaks(c)
    PROVE  ServiceInv'
<1> DEFINE h == [call[c] EXCEPT !.at = "finish", !.mishap = "broken"]
<1>1. /\ call[c] \in HandlerState /\ HandlerOK(call[c]) /\ call[c].at = "scan"
      /\ phase = "serving" /\ faults' \in 0..MaxFaults
  BY HandlerFacts, FaultsBounded DEF ScanBreaks, Handler
<1>2. h \in HandlerState /\ HandlerOK(h) /\ h.at # "scan"
  BY <1>1 DEF HandlerState, HandlerOK
<1>3. QED
  BY <1>1, <1>2, FinalizeKeepsService DEF ScanBreaks

(***************************************************************************)
(* The reply, and the handler that throws.                                 *)
(***************************************************************************)
LEMMA ReplyKeepsService ==
    ASSUME ServiceInv, NEW c \in Call, Finish(c) \/ QueryThrows(c)
    PROVE  ServiceInv'
<1>0. /\ call[c] \in HandlerState /\ HandlerOK(call[c]) /\ phase = "serving"
      /\ call[c].at # "scan" /\ faults' \in 0..MaxFaults
      /\ UNCHANGED <<fileVars, pc, tab, at, warned, erred, phase, now>>
  <2>1. /\ UNCHANGED <<fileVars, pc, tab, at, warned, erred, phase, now>>
        /\ Fault \/ UNCHANGED faults
    BY DEF Finish, QueryThrows, vars, loaderVars
  <2>2. QED
    BY <2>1, HandlerFacts, FaultsBounded DEF Finish, QueryThrows, Handler
<1>1. CASE Finish(c)
  <2> DEFINE h == [call[c] EXCEPT
          !.at = "replied",
          !.status = IF @ = "none" /\ call[c].want # All /\ call[c].got = {}
                     THEN "NOT_FOUND" ELSE "OK"]
  <2>1. h \in HandlerState /\ h.at = "replied" /\ HandlerOK(h)
    BY <1>0, <1>1, ServiceAssumption
    DEF Finish, Handler, HandlerState, HandlerOK, Faithful, Wanted
  <2>2. QED
    BY <1>0, <1>1, <2>1, QuietStep DEF Finish
<1>2. CASE QueryThrows(c)
  <2>0. PICK part \in SUBSET call[c].got :
            Become(c, [call[c] EXCEPT
               !.at = IF call[c].want = All THEN "finish" ELSE "replied",
               !.status = "UNKNOWN", !.got = part, !.mishap = "threw"])
    BY <1>2 DEF QueryThrows
  <2> DEFINE h == [call[c] EXCEPT
          !.at = IF call[c].want = All THEN "finish" ELSE "replied",
          !.status = "UNKNOWN", !.got = part, !.mishap = "threw"]
  <2>1. h \in HandlerState /\ h.at # "scan" /\ HandlerOK(h)
    BY <1>0, <1>2, ServiceAssumption DEF QueryThrows, Handler, HandlerState, HandlerOK
  <2>2. QED
    BY <1>0, <2>0, <2>1, QuietStep
<1>3. QED
  BY <1>1, <1>2

(***************************************************************************)
(* The clock moves.                                                        *)
(***************************************************************************)
LEMMA TickKeepsService ==
    ASSUME ServiceInv, Tick
    PROVE  ServiceInv'
<1>0. UNCHANGED <<vars, phase, call>> /\ now' \in 0..MaxTime
  BY ServiceAssumption DEF Tick, ServiceInv, ServiceTypeOK
<1>1. LoadInv'
  BY <1>0, ReaderIdle
  DEF ServiceInv, LoadInv, TypeOK, vars, loaderVars
<1>2. ServiceTypeOK'
  BY <1>0, <1>1 DEF ServiceInv, ServiceTypeOK, LoadInv, vars, fileVars, loaderVars
<1>3. ReaderReleases' /\ StartUpOrder' /\ ServingPrepared'
  BY <1>0 DEF ServiceInv, ReaderReleases, StartUpOrder, ServingPrepared, vars, fileVars, loaderVars
<1>4. HandlersOK'
  BY <1>0 DEF ServiceInv, HandlersOK, HandlerOK, Faithful, Wanted, vars, fileVars
<1>5. QED
  BY <1>1, <1>2, <1>3, <1>4 DEF ServiceInv

(***************************************************************************)
(* Every step of the system at the file keeps the invariant.               *)
(***************************************************************************)
LEMMA ServiceInvariant == ServiceInv /\ [ServiceNext]_allVars => ServiceInv'
<1> SUFFICES ASSUME ServiceInv, [ServiceNext]_allVars PROVE ServiceInv'
  OBVIOUS
<1>1. CASE UNCHANGED allVars
  <2>1. UNCHANGED <<vars, phase, call, now>>
    BY <1>1 DEF allVars, serviceVars
  <2>2. LoadInv'
    BY <2>1, ReaderIdle DEF ServiceInv, LoadInv, TypeOK, vars, loaderVars
  <2>3. ServiceTypeOK' /\ ReaderReleases' /\ StartUpOrder' /\ ServingPrepared'
    BY <2>1, <2>2 DEF ServiceInv, LoadInv, ServiceTypeOK, ReaderReleases, StartUpOrder,
       ServingPrepared, vars, fileVars, loaderVars
  <2>4. HandlersOK'
    BY <2>1 DEF ServiceInv, HandlersOK, HandlerOK, Faithful, Wanted, vars, fileVars
  <2>5. QED
    BY <2>2, <2>3, <2>4 DEF ServiceInv
<1>2. ASSUME NEW c \in Call,
             BeginCall(c) \/ Answering(c) \/ HandlerErrs(c) \/ EndCall(c)
      PROVE  ServiceInv'
  BY <1>2, EdgeKeepsService, OpenScanKeepsService, ScanRowKeepsService, ScanEndKeepsService,
     ScanBreaksKeepsService, ReplyKeepsService DEF Answering, HandlerErrs
<1>3. QED
  BY <1>1, <1>2, LoadKeepsService, StartUpKeepsService, GoneKeepsService, TickKeepsService
  DEF ServiceNext

(***************************************************************************)
(* The invariant of the service holds of every reachable state ...         *)
(***************************************************************************)
THEOREM ServiceInvariantHolds == ServiceSpec => []ServiceInv
BY ServiceInitInvariant, ServiceInvariant, PTL DEF ServiceSpec

(***************************************************************************)
(* ... hence its types, and the lock of the connection ...                 *)
(***************************************************************************)
THEOREM ServiceTypesHold == ServiceSpec => []ServiceTypeOK
<1>1. ServiceInv => ServiceTypeOK
  BY DEF ServiceInv
<1>2. QED
  BY <1>1, ServiceInvariantHolds, PTL

(***************************************************************************)
(* ... and that a server that serves can prepare its queries.              *)
(***************************************************************************)
THEOREM PreparedWhileServing == ServiceSpec => []ServingPrepared
<1>1. ServiceInv => ServingPrepared
  BY DEF ServiceInv
<1>2. QED
  BY <1>1, ServiceInvariantHolds, PTL

(***************************************************************************)
(* A server serves only behind a load phase that went through its batch.   *)
(***************************************************************************)
THEOREM ServedBatchIsStored == ServiceSpec => []ServesItsBatch
<1>1. ServiceInv => ServesItsBatch
  <2> SUFFICES ASSUME ServiceInv, phase = "serving", NEW i \in 1..Len(Batch[server])
               PROVE  Exists(rows, Batch[server][i]) \/ i \in warned[server]
    BY DEF ServesItsBatch
  <2>1. server \in Process /\ pc[server] = "done"
    BY ServiceAssumption DEF ServiceInv, ServiceTypeOK
  <2>2. at[server] > Len(Batch[server]) /\ at[server] \in Nat /\ Len(Batch[server]) \in Nat
    BY <2>1, LoaderAssumption DEF ServiceInv, LoadInv, DoneMeansThrough, TypeOK
  <2>3. i < at[server]
    BY <2>2
  <2>4. QED
    BY <2>1, <2>3 DEF ServiceInv, LoadInv, SettledOrWarned
<1>2. QED
  BY <1>1, ServiceInvariantHolds, PTL

(***************************************************************************)
(* A list reply without a mishap is the table at one moment, whatever is   *)
(* committed, and whichever statements of the connection end, meanwhile.   *)
(***************************************************************************)
THEOREM ListIsSnapshot == ServiceSpec => []SnapshotList
<1>1. ServiceInv => SnapshotList
  <2> SUFFICES ASSUME ServiceInv, NEW c \in Call,
                      call[c].want = All, call[c].mishap = "none"
               PROVE  /\ call[c].got \subseteq call[c].seen
                      /\ call[c].at = "replied" => call[c].got = call[c].seen
    BY DEF SnapshotList
  <2>1. Faithful(call[c]) /\ All # Blank
    BY HandlerFacts, ServiceAssumption DEF HandlerOK
  <2>2. QED
    BY <2>1 DEF Faithful, Wanted
<1>2. QED
  BY <1>1, ServiceInvariantHolds, PTL

(***************************************************************************)
(* A station reply without a mishap is the station that was running when   *)
(* the statement began, and NOT_FOUND if there was none.                   *)
(***************************************************************************)
THEOREM ReplyIsTheStation == ServiceSpec => []StationReply
<1>1. ServiceInv => StationReply
  <2> SUFFICES ASSUME ServiceInv, NEW c \in Call, call[c].at = "replied",
                      call[c].want \in Id, call[c].mishap = "none"
               PROVE  LET running == {r \in call[c].seen : r.id = call[c].want}
                      IN  /\ call[c].status = "OK" =>
                                call[c].got # {} /\ call[c].got \subseteq running
                          /\ call[c].status = "NOT_FOUND" => running = {}
    BY DEF StationReply
  <2>1. Faithful(call[c]) /\ call[c].want # Blank /\ call[c].want # All
    BY HandlerFacts, ServiceAssumption DEF HandlerOK
  <2>2. QED
    BY <2>1 DEF Faithful, Wanted
<1>2. QED
  BY <1>1, ServiceInvariantHolds, PTL

(***************************************************************************)
(* What was proved of the loaders by themselves stays true beside a server *)
(* that reads the file: its SHARED locks make writers fail, nothing more.  *)
(***************************************************************************)
THEOREM LoadersSafeBesideService ==
    ServiceSpec => [](/\ StoreConsistent /\ CheckedAtCommit
                      /\ SettledOrWarned /\ HalfFilledNeverStored)
<1>1. ServiceInv => StoreConsistent /\ CheckedAtCommit /\ SettledOrWarned /\ HalfFilledNeverStored
  BY DEF ServiceInv, LoadInv
<1>2. QED
  BY <1>1, ServiceInvariantHolds, PTL

(***************************************************************************)
(* A step of the service that is no loader's changes neither the file nor  *)
(* its rows.                                                               *)
(***************************************************************************)
LEMMA ServiceOnlyReads ==
    ASSUME ServiceNext, ~\E p \in Process : Load(p)
    PROVE  UNCHANGED <<file, tables, rows>>
BY DEF ServiceNext, StartUp, OpenReadOnly, PrepareStationTable, StepStationTable,
   StartServing, GiveUpServing, Stop, ServerCrash, Gone, BeginCall, Answering,
   RejectArguments, OpenScan, ScanBusy, ScanRow, ScanEnd, Finish, EndCall,
   HandlerErrs, QueryBreaks, ScanBreaks, QueryThrows, StartUpErrs, Tick, vars, fileVars

(***************************************************************************)
(* The whole system at the file, loaders, deaths, restarts and service     *)
(* together, implements the atomic store when a station has one epoch.     *)
(***************************************************************************)
THEOREM ServiceImplementsStore ==
    ASSUME SingleEpoch
    PROVE  ServiceSpec => StoreRefined
<1>1. ServiceInit => Store!StoreInit
  BY DEF ServiceInit, Init, FileInit, Store!StoreInit
<1>2. ServiceInv /\ [ServiceNext]_allVars => [Store!StoreNext]_(Store!storeVars)
  <2> SUFFICES ASSUME ServiceInv, [ServiceNext]_allVars
               PROVE  [Store!StoreNext]_(Store!storeVars)
    OBVIOUS
  <2>1. ASSUME NEW p \in Process, Load(p)
        PROVE  [Store!StoreNext]_(Store!storeVars)
    <3>1. Next
      BY <2>1 DEF Load, Next
    <3>2. QED
      BY <3>1, LoadRefines DEF ServiceInv
  <2>2. CASE ServiceNext /\ ~\E p \in Process : Load(p)
    BY <2>2, ServiceOnlyReads DEF Store!storeVars
  <2>3. CASE UNCHANGED allVars
    BY <2>3 DEF allVars, vars, fileVars, Store!storeVars
  <2>4. QED
    BY <2>1, <2>2, <2>3
<1>3. QED
  BY <1>1, <1>2, ServiceInvariantHolds, PTL DEF ServiceSpec, StoreRefined, Store!StoreSpec
=============================================================================
