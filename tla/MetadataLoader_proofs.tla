------------------------ MODULE MetadataLoader_proofs ------------------------
(***************************************************************************)
(* The safety of the loader, for any processes, any batches and any number *)
(* of faults: IInv is inductive.                                           *)
(***************************************************************************)
EXTENDS MetadataLoader, StationTable_proofs, TLAPS

(***************************************************************************)
(* The item a thread works on is a station.                                *)
(***************************************************************************)
LEMMA ItemIsStation ==
    ASSUME NEW p \in Process, at[p] \in 1..Len(Batch[p])
    PROVE  Item(p) \in Station
BY LoaderAssumption DEF Item

(***************************************************************************)
(* Typing.                                                                 *)
(***************************************************************************)
LEMMA InitTyped == Init => TypeOK
<1> SUFFICES ASSUME Init PROVE TypeOK
  OBVIOUS
<1>1. FileTypeOK
  BY DEF Init, FileInit, FileTypeOK, LockLevel, Table
<1>2. /\ pc \in [Process -> Label] /\ tab \in [Process -> 1..3]
      /\ at \in [Process -> Nat \ {0}] /\ warned \in [Process -> SUBSET Nat]
      /\ erred \in [Process -> SUBSET Nat]
  BY DEF Init, Label
<1>3. faults \in 0..MaxFaults
  BY LoaderAssumption DEF Init
<1>4. AtItem
  BY DEF Init, AtItem, Working
<1>5. QED
  BY <1>1, <1>2, <1>3, <1>4 DEF TypeOK

(***************************************************************************)
(* Before any program is launched, the invariant of the loader holds.      *)
(***************************************************************************)
LEMMA InitInvariant == Init => IInv
<1> SUFFICES ASSUME Init PROVE IInv
  OBVIOUS
<1> USE DEF Init, FileInit
<1>1. TypeOK
  BY InitTyped
<1>2. LockExclusion /\ JournalQuiet /\ LockDiscipline /\ FileOpened
  BY DEF LockExclusion, JournalQuiet, LockDiscipline, FileOpened
<1>3. SchemaKnown /\ CheckedAtCommit
  BY DEF SchemaKnown, CheckedAtCommit, Working
<1>4. StoreConsistent
  BY DEF StoreConsistent, WellKeyed
<1>5. SettledOrWarned /\ PresentSettled /\ DoneMeansThrough /\ DoneReleased
  BY DEF SettledOrWarned, PresentSettled, DoneMeansThrough, DoneReleased
<1>6. GettersPassed /\ HalfFilledNeverStored
  BY DEF GettersPassed, HalfFilledNeverStored, Working, Inserting
<1>7. QED
  BY <1>1, <1>2, <1>3, <1>4, <1>5, <1>6 DEF IInv, LoadInv

(***************************************************************************)
(* Reading the file leaves a schema and a journal of the right type.       *)
(***************************************************************************)
LEMMA RefreshTyped ==
    ASSUME FileTypeOK, NEW p \in Process, Refresh(p)
    PROVE  /\ journal' \in BOOLEAN
           /\ known' \in [Process -> SUBSET (Table \cup {"sqlite_master"})]
<1>1. Schema \in SUBSET (Table \cup {"sqlite_master"})
  BY DEF FileTypeOK, Schema
<1>2. QED
  BY <1>1 DEF FileTypeOK, Refresh

(***************************************************************************)
(* Moving to the next table or station does too.                           *)
(***************************************************************************)
LEMMA NextItemTyped ==
    ASSUME TypeOK, NEW p \in Process, NextItem(p)
    PROVE  /\ pc' \in [Process -> Label] /\ tab' \in [Process -> 1..3]
           /\ at' \in [Process -> Nat \ {0}] /\ AtItem'
<1>1. pc' = [pc EXCEPT ![p] = "prepare"] /\ pc' \in [Process -> Label]
  BY DEF NextItem, Goto, TypeOK, Label
<1>2. /\ tab[p] \in 1..3 /\ at[p] \in Nat \ {0}
      /\ tab' \in [Process -> 1..3] /\ at' \in [Process -> Nat \ {0}]
  <2>1. CASE Creating(p)
    BY <2>1 DEF NextItem, TypeOK, Creating
  <2>2. CASE ~Creating(p)
    BY <2>2 DEF NextItem, TypeOK, Creating
  <2>3. QED
    BY <2>1, <2>2
<1>3. \A q \in Process \ {p} : tab'[q] = tab[q] /\ at'[q] = at[q] /\ pc'[q] = pc[q]
  BY <1>1, <1>2 DEF TypeOK, NextItem
<1>4. AtItem'
  BY <1>1, <1>3 DEF AtItem, TypeOK, Creating, Working, Label
<1>5. QED
  BY <1>1, <1>2, <1>4

(***************************************************************************)
(* Giving a write up leaves the lock and the log of the right type.        *)
(***************************************************************************)
LEMMA GiveUpWriteTyped ==
    ASSUME TypeOK, NEW p \in Process, GiveUpWrite(p)
    PROVE  /\ pc' \in [Process -> Label] /\ tab' \in [Process -> 1..3]
           /\ at' \in [Process -> Nat \ {0}] /\ AtItem'
           /\ lock' \in [Process -> LockLevel]
           /\ warned' \in [Process -> SUBSET Nat]
<1>1. lock' \in [Process -> LockLevel]
  BY DEF GiveUpWrite, Release, SetLock, TypeOK, FileTypeOK, LockLevel
<1>2. at[p] \in Nat /\ warned[p] \in SUBSET Nat
  BY DEF TypeOK
<1>3. warned' \in [Process -> SUBSET Nat]
  BY <1>2 DEF GiveUpWrite, TypeOK
<1>4. QED
  BY <1>1, <1>3, NextItemTyped DEF GiveUpWrite

(***************************************************************************)
(* A call that fails on an error of the system keeps the types.            *)
(***************************************************************************)
LEMMA ErrorTyped ==
    ASSUME TypeOK, NEW p \in Process, CallErrs(p)
    PROVE  TypeOK'
<1>0. /\ FileTypeOK /\ pc \in [Process -> Label] /\ AtItem /\ faults \in 0..MaxFaults
      /\ warned \in [Process -> SUBSET Nat] /\ erred \in [Process -> SUBSET Nat]
      /\ tab \in [Process -> 1..3] /\ at \in [Process -> Nat \ {0}]
  BY DEF TypeOK
<1>1. JournalsAfterError(p, FALSE) \subseteq BOOLEAN
  BY <1>0 DEF JournalsAfterError, JournalsLeft, Blocked, FileTypeOK
<1>2. Fault => faults' \in 0..MaxFaults
  BY <1>0, LoaderAssumption DEF Fault
<1>3. NoteError(p) => erred' \in [Process -> SUBSET Nat]
  BY <1>0 DEF NoteError
<1>4. RollBack(p) => known' \in [Process -> SUBSET (Table \cup {"sqlite_master"})]
  BY <1>0 DEF RollBack, FileTypeOK
<1>5. CASE PrepareErrs(p)
  <2>1. FileTypeOK'
    BY <1>0, <1>1, <1>5 DEF PrepareErrs, Release, SetLock, FileTypeOK, LockLevel
  <2>2. CASE Creating(p)
    BY <1>0, <1>2, <1>5, <2>1, <2>2, NextItemTyped DEF PrepareErrs, TypeOK
  <2>3. CASE ~Creating(p)
    BY <1>0, <1>2, <1>5, <2>1, <2>3 DEF PrepareErrs, Goto, TypeOK, Label, AtItem, Creating, Working
  <2>4. QED
    BY <2>2, <2>3
<1>6. CASE CountErrs(p)
  <2>1. FileTypeOK'
    BY <1>0, <1>1, <1>6 DEF CountErrs, FileTypeOK
  <2>2. QED
    BY <1>0, <1>2, <1>3, <1>6, <2>1
    DEF CountErrs, Goto, TypeOK, Label, Working, AtItem, Creating
<1>7. CASE WriteErrs(p)
  <2>1. FileTypeOK'
    BY <1>0, <1>1, <1>4, <1>7, GiveUpWriteTyped DEF WriteErrs, FileTypeOK
  <2>2. QED
    BY <1>0, <1>2, <1>3, <1>7, <2>1, GiveUpWriteTyped DEF WriteErrs, TypeOK
<1>8. QED
  BY <1>5, <1>6, <1>7 DEF CallErrs

(***************************************************************************)
(* A step of p leaves every other thread where it is.                      *)
(***************************************************************************)
LEMMA OthersStay ==
    ASSUME TypeOK, NEW p \in Process, NEW q \in Process, q # p,
           Run(p) \/ Launch(p) \/ Exit(p) \/ OpenFails(p) \/ CallErrs(p) \/ Crash(p)
    PROVE  pc'[q] = pc[q] /\ tab'[q] = tab[q] /\ at'[q] = at[q]
BY DEF TypeOK, Run, Launch, Exit, OpenFails, CallErrs, PrepareErrs, CountErrs, WriteErrs,
   Crash, CheckFile, OpenReadWrite,
   OpenCreateReadWrite, PrepareTableExists, PrepareExists, UnkeyedThrows,
   StepTableExists, StepExists, StepCount, SkipExisting, PrepareWrite, WriteShare,
   WriteReserve, WriteRefused, WriteExclusive, WriteCommit, Close, GiveUpWrite,
   NextItem, Goto

(***************************************************************************)
(* Only a commit changes the rows and the tables, and only the creation of *)
(* the file makes it exist.                                                *)
(***************************************************************************)
LEMMA RowsStay ==
    ASSUME NEW p \in Process, ~WriteCommit(p),
           Run(p) \/ Launch(p) \/ Exit(p) \/ OpenFails(p) \/ CallErrs(p) \/ Crash(p)
    PROVE  UNCHANGED <<rows, tables>> /\ (file' = file \/ OpenCreateReadWrite(p))
BY DEF Run, Launch, Exit, OpenFails, CallErrs, PrepareErrs, CountErrs, WriteErrs,
   Crash, CheckFile, OpenReadWrite,
   OpenCreateReadWrite, PrepareTableExists, PrepareExists, UnkeyedThrows,
   StepTableExists, StepExists, StepCount, SkipExisting, PrepareWrite, WriteShare,
   WriteReserve, WriteRefused, WriteExclusive, Close, fileVars

(***************************************************************************)
(* Only p takes and releases p's lock, and reads the schema for p.         *)
(***************************************************************************)
LEMMA ConnectionsStay ==
    ASSUME TypeOK, NEW p \in Process, NEW q \in Process, q # p,
           Run(p) \/ Launch(p) \/ Exit(p) \/ OpenFails(p) \/ CallErrs(p) \/ Crash(p)
    PROVE  lock'[q] = lock[q] /\ known'[q] = known[q]
BY DEF TypeOK, FileTypeOK, Run, Launch, Exit, OpenFails, CallErrs, PrepareErrs, CountErrs, WriteErrs,
   RollBack, Crash, CheckFile, OpenReadWrite,
   OpenCreateReadWrite, PrepareTableExists, PrepareExists, UnkeyedThrows,
   StepTableExists, StepExists, StepCount, SkipExisting, PrepareWrite, WriteShare,
   WriteReserve, WriteRefused, WriteExclusive, WriteCommit, Close, GiveUpWrite,
   Share, Release, SetLock, Disconnect, Prepare, PrepareFails, Refresh, fileVars

(***************************************************************************)
(* A thread is done only once it has closed the database.                  *)
(***************************************************************************)
LEMMA DoneByClose ==
    ASSUME TypeOK, NEW p \in Process, pc'[p] = "done",
           Run(p) \/ Launch(p) \/ Exit(p) \/ OpenFails(p) \/ CallErrs(p) \/ Crash(p)
    PROVE  Close(p)
BY DEF TypeOK, Run, Launch, Exit, OpenFails, CallErrs, PrepareErrs, CountErrs, WriteErrs,
   Crash, CheckFile, OpenReadWrite,
   OpenCreateReadWrite, PrepareTableExists, PrepareExists, UnkeyedThrows,
   StepTableExists, StepExists, StepCount, SkipExisting, PrepareWrite, WriteShare,
   WriteReserve, WriteRefused, WriteExclusive, WriteCommit, GiveUpWrite, NextItem, Goto

(***************************************************************************)
(* Every step of a loader, whatever the other does, keeps the types.       *)
(***************************************************************************)
LEMMA TypeInvariant == LoadInv /\ [Next]_vars => TypeOK'
<1> SUFFICES ASSUME LoadInv, [Next]_vars PROVE TypeOK'
  OBVIOUS
<1>0. TypeOK
  BY DEF LoadInv
<1> USE <1>0 DEF TypeOK
<1>1. CASE UNCHANGED vars
  BY <1>1 DEF vars, fileVars, loaderVars, FileTypeOK, AtItem, Creating
<1>2. ASSUME NEW p \in Process, Launch(p) PROVE TypeOK'
  BY <1>2 DEF Launch, AtItem, Working, Label, Creating, Goto, FileTypeOK, LockLevel, fileVars
<1>3. ASSUME NEW p \in Process, CheckFile(p) PROVE TypeOK'
  BY <1>3 DEF CheckFile, AtItem, Working, Label, Creating, Goto, FileTypeOK, LockLevel, fileVars
<1>4. ASSUME NEW p \in Process, OpenReadWrite(p) PROVE TypeOK'
  BY <1>4 DEF OpenReadWrite, AtItem, Working, Label, Creating, Goto, FileTypeOK, LockLevel, fileVars
<1>5. ASSUME NEW p \in Process, OpenCreateReadWrite(p) PROVE TypeOK'
  BY <1>5 DEF OpenCreateReadWrite, AtItem, Working, Label, Creating, Goto, FileTypeOK, LockLevel
<1>6. ASSUME NEW p \in Process, OpenFails(p) PROVE TypeOK'
  BY <1>6, LoaderAssumption DEF OpenFails, Fault, AtItem, Working, Label, Creating, Goto, FileTypeOK, LockLevel, fileVars
<1>7. ASSUME NEW p \in Process, PrepareTableExists(p) PROVE TypeOK'
  <2>1. FileTypeOK'
    BY <1>7, RefreshTyped DEF PrepareTableExists, Prepare, PrepareFails, FileTypeOK
  <2>2. CASE NextItem(p)
    BY <1>7, <2>1, <2>2, NextItemTyped DEF PrepareTableExists
  <2>3. CASE ~NextItem(p)
    BY <1>7, <2>1, <2>3 DEF PrepareTableExists, Goto, Label, Working, AtItem, Creating
  <2>4. QED
    BY <2>2, <2>3
<1>8. ASSUME NEW p \in Process, PrepareExists(p) PROVE TypeOK'
  <2>1. FileTypeOK'
    BY <1>8, RefreshTyped DEF PrepareExists, Prepare, PrepareFails, FileTypeOK
  <2>2. at[p] \in 1..Len(Batch[p]) /\ UNCHANGED <<tab, at>>
    BY <1>8, LoaderAssumption DEF PrepareExists
  <2>3. AtItem'
    BY <1>8, <2>2 DEF PrepareExists, Goto, AtItem, Creating, Working, Label
  <2>4. QED
    BY <1>8, <2>1, <2>3 DEF PrepareExists, Goto, Label, Working
<1>9. ASSUME NEW p \in Process, UnkeyedThrows(p) PROVE TypeOK'
  BY <1>9 DEF UnkeyedThrows, AtItem, Working, Label, Creating, Goto, FileTypeOK, LockLevel, fileVars
<1>10. ASSUME NEW p \in Process, StepTableExists(p) PROVE TypeOK'
  <2>1. FileTypeOK'
    BY <1>10, RefreshTyped DEF StepTableExists, StepCount, Share, SetLock, FileTypeOK, LockLevel
  <2>2. QED
    BY <1>10, <2>1 DEF StepTableExists, StepCount, Goto, Label, Working, AtItem, Creating
<1>11. ASSUME NEW p \in Process, StepExists(p) PROVE TypeOK'
  <2>1. FileTypeOK'
    BY <1>11, RefreshTyped DEF StepExists, StepCount, Share, SetLock, FileTypeOK, LockLevel
  <2>2. QED
    BY <1>11, <2>1 DEF StepExists, StepCount, Goto, Label, Working, AtItem, Creating
<1>12. ASSUME NEW p \in Process, SkipExisting(p) PROVE TypeOK'
  <2>1. FileTypeOK'
    BY <1>12 DEF SkipExisting, Release, SetLock, FileTypeOK, LockLevel
  <2>2. QED
    BY <1>12, <2>1, NextItemTyped DEF SkipExisting
<1>13. ASSUME NEW p \in Process, PrepareWrite(p) PROVE TypeOK'
  BY <1>13 DEF PrepareWrite, AtItem, Working, Label, Creating, Goto, FileTypeOK, LockLevel, Release, SetLock
<1>14. ASSUME NEW p \in Process, WriteShare(p) PROVE TypeOK'
  <2>1. CASE Share(p, FALSE) /\ Goto(p, "reserve") /\ UNCHANGED <<tab, at, warned>>
    <3>1. FileTypeOK'
      BY <1>14, <2>1, RefreshTyped DEF WriteShare, Share, SetLock, FileTypeOK, LockLevel
    <3>2. QED
      BY <1>14, <2>1, <3>1 DEF WriteShare, Goto, Label, Working, AtItem, Creating
  <2>2. CASE GiveUpWrite(p) /\ UNCHANGED <<journal, known>>
    BY <1>14, <2>2, GiveUpWriteTyped DEF WriteShare, FileTypeOK
  <2>3. QED
    BY <1>14, <2>1, <2>2 DEF WriteShare
<1>15. ASSUME NEW p \in Process, WriteReserve(p) PROVE TypeOK'
  BY <1>15 DEF WriteReserve, AtItem, Working, Label, Creating, Goto, FileTypeOK, LockLevel, SetLock
<1>16. ASSUME NEW p \in Process, WriteRefused(p) PROVE TypeOK'
  BY <1>16, GiveUpWriteTyped DEF WriteRefused, FileTypeOK
<1>17. ASSUME NEW p \in Process, WriteExclusive(p) PROVE TypeOK'
  <2>1. CASE GiveUpWrite(p)
    BY <1>17, <2>1, GiveUpWriteTyped DEF WriteExclusive, RollBack, FileTypeOK
  <2>2. CASE ~GiveUpWrite(p)
    BY <1>17, <2>2 DEF WriteExclusive, Goto, SetLock, Label, Working, AtItem, Creating, FileTypeOK, LockLevel
  <2>3. QED
    BY <2>1, <2>2
<1>18. ASSUME NEW p \in Process, WriteCommit(p) PROVE TypeOK'
  <2>1. CASE Creating(p)
    <3>1. TableOrder[tab[p]] \in Table
      BY <2>1 DEF Creating, Table, TableOrder
    <3>2. tables' \in SUBSET Table /\ rows' = rows
      BY <1>18, <2>1, <3>1 DEF WriteCommit, FileTypeOK
    <3>3. QED
      BY <1>18, <3>2, NextItemTyped
      DEF WriteCommit, Release, SetLock, FileTypeOK, LockLevel
  <2>2. CASE ~Creating(p)
    <3>1. Item(p) \in Station
      BY <1>18, <2>2, ItemIsStation DEF WriteCommit, AtItem, Working
    <3>2. QED
      BY <1>18, <2>2, <3>1, NextItemTyped
      DEF WriteCommit, Release, SetLock, FileTypeOK, LockLevel
  <2>3. QED
    BY <2>1, <2>2
<1>19. ASSUME NEW p \in Process, Close(p) PROVE TypeOK'
  BY <1>19 DEF Close, AtItem, Working, Label, Creating, Goto, FileTypeOK, LockLevel, Disconnect, Release, SetLock
<1>20. ASSUME NEW p \in Process, Exit(p) PROVE TypeOK'
  BY <1>20 DEF Exit, AtItem, Working, Label, Creating, Goto, FileTypeOK, LockLevel, Disconnect, Release, SetLock
<1>21. ASSUME NEW p \in Process, Crash(p) PROVE TypeOK'
  BY <1>21, LoaderAssumption DEF Crash, Fault, AtItem, Working, Label, Creating, Goto, FileTypeOK, LockLevel, Disconnect, Release, SetLock, JournalsLeft
<1>22. ASSUME NEW p \in Process, CallErrs(p) PROVE TypeOK'
  BY <1>22, ErrorTyped
<1>23. QED
  BY <1>1, <1>2, <1>3, <1>4, <1>5, <1>6, <1>7, <1>8, <1>9, <1>10, <1>11, <1>12,
     <1>13, <1>14, <1>15, <1>16, <1>17, <1>18, <1>19, <1>20, <1>21, <1>22 DEF Next, Run

(***************************************************************************)
(* The locks: SHARED, RESERVED and EXCLUSIVE are held where the code holds *)
(* them and exclude each other as SQLite promises.                         *)
(***************************************************************************)
LEMMA LockInvariant == LoadInv /\ [Next]_vars => (LockExclusion /\ JournalQuiet /\ LockDiscipline)'
<1> SUFFICES ASSUME LoadInv, [Next]_vars PROVE (LockExclusion /\ JournalQuiet /\ LockDiscipline)'
  OBVIOUS
<1>0. /\ LockExclusion /\ JournalQuiet /\ LockDiscipline
      /\ lock \in [Process -> LockLevel] /\ pc \in [Process -> Label]
  BY DEF LoadInv, TypeOK, FileTypeOK
<1> USE <1>0 DEF LockLevel
<1> USE DEF LockExclusion, JournalQuiet, LockDiscipline
<1>1. CASE UNCHANGED vars
  BY <1>1 DEF vars, fileVars, loaderVars
<1>2. ASSUME NEW p \in Process PROVE Launch(p) => (LockExclusion /\ JournalQuiet /\ LockDiscipline)'
  BY DEF Launch, Goto, fileVars
<1>3. ASSUME NEW p \in Process PROVE CheckFile(p) => (LockExclusion /\ JournalQuiet /\ LockDiscipline)'
  BY DEF CheckFile, Goto, fileVars
<1>4. ASSUME NEW p \in Process PROVE OpenReadWrite(p) => (LockExclusion /\ JournalQuiet /\ LockDiscipline)'
  BY DEF OpenReadWrite, Goto, fileVars
<1>5. ASSUME NEW p \in Process PROVE OpenCreateReadWrite(p) => (LockExclusion /\ JournalQuiet /\ LockDiscipline)'
  BY DEF OpenCreateReadWrite, Goto
<1>6. ASSUME NEW p \in Process PROVE OpenFails(p) => (LockExclusion /\ JournalQuiet /\ LockDiscipline)'
  BY DEF OpenFails, Goto, fileVars
<1>7. ASSUME NEW p \in Process PROVE PrepareTableExists(p) => (LockExclusion /\ JournalQuiet /\ LockDiscipline)'
  BY ZenonT(40) DEF PrepareTableExists, NextItem, Goto, Prepare, PrepareFails, Refresh
<1>8. ASSUME NEW p \in Process PROVE PrepareExists(p) => (LockExclusion /\ JournalQuiet /\ LockDiscipline)'
  BY ZenonT(40) DEF PrepareExists, Goto, Prepare, PrepareFails, Refresh
<1>9. ASSUME NEW p \in Process PROVE UnkeyedThrows(p) => (LockExclusion /\ JournalQuiet /\ LockDiscipline)'
  BY DEF UnkeyedThrows, Goto, fileVars
<1>10. ASSUME NEW p \in Process PROVE StepTableExists(p) => (LockExclusion /\ JournalQuiet /\ LockDiscipline)'
  BY DEF StepTableExists, StepCount, Goto, Share, SetLock, Refresh, Blocked, OtherHolds
<1>11. ASSUME NEW p \in Process PROVE StepExists(p) => (LockExclusion /\ JournalQuiet /\ LockDiscipline)'
  BY DEF StepExists, StepCount, Goto, Share, SetLock, Refresh, Blocked, OtherHolds
<1>12. ASSUME NEW p \in Process PROVE SkipExisting(p) => (LockExclusion /\ JournalQuiet /\ LockDiscipline)'
  BY DEF SkipExisting, NextItem, Goto, Release, SetLock
<1>13. ASSUME NEW p \in Process PROVE PrepareWrite(p) => (LockExclusion /\ JournalQuiet /\ LockDiscipline)'
  BY DEF PrepareWrite, Goto, Release, SetLock
<1>14. ASSUME NEW p \in Process PROVE WriteShare(p) => (LockExclusion /\ JournalQuiet /\ LockDiscipline)'
  BY DEF WriteShare, GiveUpWrite, NextItem, Goto, Share, SetLock, Release, Refresh, Blocked, OtherHolds
<1>15. ASSUME NEW p \in Process PROVE WriteReserve(p) => (LockExclusion /\ JournalQuiet /\ LockDiscipline)'
  BY DEF WriteReserve, Goto, SetLock, OtherHolds
<1>16. ASSUME NEW p \in Process PROVE WriteRefused(p) => (LockExclusion /\ JournalQuiet /\ LockDiscipline)'
  BY DEF WriteRefused, GiveUpWrite, NextItem, Goto, Release, SetLock
<1>17. ASSUME NEW p \in Process PROVE WriteExclusive(p) => (LockExclusion /\ JournalQuiet /\ LockDiscipline)'
  BY DEF WriteExclusive, GiveUpWrite, NextItem, Goto, Release, SetLock, OtherHolds
<1>18. ASSUME NEW p \in Process PROVE WriteCommit(p) => (LockExclusion /\ JournalQuiet /\ LockDiscipline)'
  BY DEF WriteCommit, NextItem, Goto, Release, SetLock
<1>19. ASSUME NEW p \in Process PROVE Close(p) => (LockExclusion /\ JournalQuiet /\ LockDiscipline)'
  BY DEF Close, Goto, Disconnect, Release, SetLock
<1>20. ASSUME NEW p \in Process PROVE Exit(p) => (LockExclusion /\ JournalQuiet /\ LockDiscipline)'
  BY DEF Exit, Goto, Disconnect, Release, SetLock
<1>21. ASSUME NEW p \in Process PROVE Crash(p) => (LockExclusion /\ JournalQuiet /\ LockDiscipline)'
  BY DEF Crash, Goto, Disconnect, Release, SetLock, JournalsLeft
<1>22. ASSUME NEW p \in Process PROVE PrepareErrs(p) => (LockExclusion /\ JournalQuiet /\ LockDiscipline)'
  <2> SUFFICES ASSUME PrepareErrs(p) PROVE (LockExclusion /\ JournalQuiet /\ LockDiscipline)'
    OBVIOUS
  <2>1. pc[p] \in {"prepare", "absent"} /\ lock[p] \in {"none", "shared"}
    BY DEF PrepareErrs
  <2>2. pc' = [pc EXCEPT ![p] = "prepare"] \/ pc' = [pc EXCEPT ![p] = "failed"]
    BY DEF PrepareErrs, NextItem, Goto
  <2>3. journal' => journal
    BY <2>1 DEF PrepareErrs, JournalsAfterError, JournalsLeft
  <2>4. lock' = [lock EXCEPT ![p] = "none"]
    BY DEF PrepareErrs, Release, SetLock
  <2>5. QED
    BY <2>1, <2>2, <2>3, <2>4
<1>23. ASSUME NEW p \in Process PROVE CountErrs(p) => (LockExclusion /\ JournalQuiet /\ LockDiscipline)'
  BY DEF CountErrs, Goto, JournalsAfterError, JournalsLeft
<1>24. ASSUME NEW p \in Process PROVE WriteErrs(p) => (LockExclusion /\ JournalQuiet /\ LockDiscipline)'
  <2> SUFFICES ASSUME WriteErrs(p) PROVE (LockExclusion /\ JournalQuiet /\ LockDiscipline)'
    OBVIOUS
  <2>1. /\ pc' = [pc EXCEPT ![p] = "prepare"]
        /\ lock' = [lock EXCEPT ![p] = "none"]
    BY DEF WriteErrs, GiveUpWrite, NextItem, Goto, Release, SetLock
  <2>2. lock[p] \in {"none", "shared"} => (journal' => journal)
    BY DEF WriteErrs, JournalsAfterError, JournalsLeft
  <2>3. \A q \in Process \ {p} : lock[p] \in {"reserved", "exclusive"} => lock[q] \in {"none", "shared"}
    OBVIOUS
  <2>4. QED
    BY <2>1, <2>2, <2>3
<1>25. QED
  BY <1>1, <1>2, <1>3, <1>4, <1>5, <1>6, <1>7, <1>8, <1>9, <1>10, <1>11, <1>12,
     <1>13, <1>14, <1>15, <1>16, <1>17, <1>18, <1>19, <1>20, <1>21, <1>22, <1>23, <1>24
  DEF Next, Run, CallErrs

(***************************************************************************)
(* The file stays open under a running thread: nothing ever removes it.    *)
(***************************************************************************)
LEMMA FileInvariant == LoadInv /\ [Next]_vars => FileOpened'
<1> SUFFICES ASSUME LoadInv, [Next]_vars PROVE FileOpened'
  OBVIOUS
<1>0. FileOpened /\ pc \in [Process -> Label]
  BY DEF LoadInv, TypeOK
<1> USE <1>0 DEF FileOpened
<1>1. CASE UNCHANGED vars
  BY <1>1 DEF vars, fileVars, loaderVars
<1>2. ASSUME NEW p \in Process, Launch(p) PROVE FileOpened'
  BY <1>2 DEF Launch, Goto, fileVars
<1>3. ASSUME NEW p \in Process, CheckFile(p) PROVE FileOpened'
  BY <1>3 DEF CheckFile, Goto, fileVars
<1>4. ASSUME NEW p \in Process, OpenReadWrite(p) PROVE FileOpened'
  BY <1>4 DEF OpenReadWrite, Goto, fileVars
<1>5. ASSUME NEW p \in Process, OpenCreateReadWrite(p) PROVE FileOpened'
  BY <1>5 DEF OpenCreateReadWrite, Goto
<1>6. ASSUME NEW p \in Process, OpenFails(p) PROVE FileOpened'
  BY <1>6 DEF OpenFails, Goto, fileVars
<1>7. ASSUME NEW p \in Process, PrepareTableExists(p) PROVE FileOpened'
  BY <1>7 DEF PrepareTableExists, NextItem, Goto
<1>8. ASSUME NEW p \in Process, PrepareExists(p) PROVE FileOpened'
  BY <1>8 DEF PrepareExists, Goto
<1>9. ASSUME NEW p \in Process, UnkeyedThrows(p) PROVE FileOpened'
  BY <1>9 DEF UnkeyedThrows, Goto, fileVars
<1>10. ASSUME NEW p \in Process, StepTableExists(p) PROVE FileOpened'
  BY <1>10 DEF StepTableExists, StepCount, Goto
<1>11. ASSUME NEW p \in Process, StepExists(p) PROVE FileOpened'
  BY <1>11 DEF StepExists, StepCount, Goto
<1>12. ASSUME NEW p \in Process, SkipExisting(p) PROVE FileOpened'
  BY <1>12 DEF SkipExisting, NextItem, Goto
<1>13. ASSUME NEW p \in Process, PrepareWrite(p) PROVE FileOpened'
  BY <1>13 DEF PrepareWrite, Goto
<1>14. ASSUME NEW p \in Process, WriteShare(p) PROVE FileOpened'
  BY <1>14 DEF WriteShare, GiveUpWrite, NextItem, Goto
<1>15. ASSUME NEW p \in Process, WriteReserve(p) PROVE FileOpened'
  BY <1>15 DEF WriteReserve, Goto
<1>16. ASSUME NEW p \in Process, WriteRefused(p) PROVE FileOpened'
  BY <1>16 DEF WriteRefused, GiveUpWrite, NextItem, Goto
<1>17. ASSUME NEW p \in Process, WriteExclusive(p) PROVE FileOpened'
  BY <1>17 DEF WriteExclusive, GiveUpWrite, NextItem, Goto
<1>18. ASSUME NEW p \in Process, WriteCommit(p) PROVE FileOpened'
  BY <1>18 DEF WriteCommit, NextItem, Goto
<1>19. ASSUME NEW p \in Process, Close(p) PROVE FileOpened'
  BY <1>19 DEF Close, Goto
<1>20. ASSUME NEW p \in Process, Exit(p) PROVE FileOpened'
  BY <1>20 DEF Exit, Goto
<1>21. ASSUME NEW p \in Process, Crash(p) PROVE FileOpened'
  BY <1>21 DEF Crash, Goto
<1>22. ASSUME NEW p \in Process, CallErrs(p) PROVE FileOpened'
  <2>1. UNCHANGED file /\ pc[p] \in {"prepare", "absent", "step", "share", "reserve", "promote", "commit"}
    BY <1>22 DEF CallErrs, PrepareErrs, CountErrs, WriteErrs
  <2>2. \E l \in {"prepare", "failed", "absent"} : pc' = [pc EXCEPT ![p] = l]
    BY <1>22 DEF CallErrs, PrepareErrs, CountErrs, WriteErrs, GiveUpWrite, NextItem, Goto
  <2>3. QED
    BY <2>1, <2>2
<1>23. QED
  BY <1>1, <1>2, <1>3, <1>4, <1>5, <1>6, <1>7, <1>8, <1>9, <1>10, <1>11, <1>12,
     <1>13, <1>14, <1>15, <1>16, <1>17, <1>18, <1>19, <1>20, <1>21, <1>22 DEF Next, Run

(***************************************************************************)
(* A connection's schema is never ahead of the file.                       *)
(***************************************************************************)
LEMMA SchemaInvariant == LoadInv /\ [Next]_vars => SchemaKnown'
<1> SUFFICES ASSUME LoadInv, [Next]_vars PROVE SchemaKnown'
  OBVIOUS
<1>0. /\ SchemaKnown /\ pc \in [Process -> Label] /\ tab \in [Process -> 1..3]
      /\ known \in [Process -> SUBSET (Table \cup {"sqlite_master"})]
  BY DEF LoadInv, TypeOK, FileTypeOK
<1> USE <1>0 DEF SchemaKnown
<1>1. CASE UNCHANGED vars
  BY <1>1 DEF vars, fileVars, loaderVars, Schema, Creating
<1>2. ASSUME NEW p \in Process, Launch(p) PROVE SchemaKnown'
  BY <1>2 DEF Launch, Goto, fileVars, Schema, Working, Creating
<1>3. ASSUME NEW p \in Process, CheckFile(p) PROVE SchemaKnown'
  BY <1>3 DEF CheckFile, Goto, fileVars, Schema, Working, Creating
<1>4. ASSUME NEW p \in Process, OpenReadWrite(p) PROVE SchemaKnown'
  BY <1>4 DEF OpenReadWrite, Goto, fileVars, Schema, Working, Creating
<1>5. ASSUME NEW p \in Process, OpenCreateReadWrite(p) PROVE SchemaKnown'
  BY <1>5 DEF OpenCreateReadWrite, Goto, Schema, Working, Creating
<1>6. ASSUME NEW p \in Process, OpenFails(p) PROVE SchemaKnown'
  BY <1>6 DEF OpenFails, Goto, fileVars, Schema, Working, Creating
<1>7. ASSUME NEW p \in Process, PrepareTableExists(p) PROVE SchemaKnown'
  BY <1>7 DEF PrepareTableExists, NextItem, Goto, Schema, Working, Prepare, PrepareFails, CanPrepare, Refresh, Creating
<1>8. ASSUME NEW p \in Process, PrepareExists(p) PROVE SchemaKnown'
  BY ZenonT(40), <1>8 DEF PrepareExists, Goto, Schema, Working, Prepare, PrepareFails, CanPrepare, Refresh, Creating
<1>9. ASSUME NEW p \in Process, UnkeyedThrows(p) PROVE SchemaKnown'
  BY <1>9 DEF UnkeyedThrows, Goto, fileVars, Schema, Working, Creating
<1>10. ASSUME NEW p \in Process, StepTableExists(p) PROVE SchemaKnown'
  BY <1>10 DEF StepTableExists, StepCount, Goto, Schema, Working, Share, Refresh, Creating
<1>11. ASSUME NEW p \in Process, StepExists(p) PROVE SchemaKnown'
  BY ZenonT(40), <1>11 DEF StepExists, StepCount, Goto, Schema, Working, Share, Refresh, Creating
<1>12. ASSUME NEW p \in Process, SkipExisting(p) PROVE SchemaKnown'
  BY <1>12 DEF SkipExisting, NextItem, Goto, Schema, Working, Creating
<1>13. ASSUME NEW p \in Process, PrepareWrite(p) PROVE SchemaKnown'
  BY <1>13 DEF PrepareWrite, Goto, Schema, Working, Creating
<1>14. ASSUME NEW p \in Process, WriteShare(p) PROVE SchemaKnown'
  BY ZenonT(40), <1>14 DEF WriteShare, GiveUpWrite, NextItem, Goto, Schema, Working, Share, Refresh, Creating
<1>15. ASSUME NEW p \in Process, WriteReserve(p) PROVE SchemaKnown'
  BY <1>15 DEF WriteReserve, Goto, Schema, Working, Creating
<1>16. ASSUME NEW p \in Process, WriteRefused(p) PROVE SchemaKnown'
  BY <1>16 DEF WriteRefused, GiveUpWrite, NextItem, Goto, Schema, Working, Creating
<1>17. ASSUME NEW p \in Process, WriteExclusive(p) PROVE SchemaKnown'
  BY <1>17 DEF WriteExclusive, RollBack, GiveUpWrite, NextItem, Goto, Schema, Working, Creating
<1>18. ASSUME NEW p \in Process, WriteCommit(p) PROVE SchemaKnown'
  BY <1>18 DEF WriteCommit, NextItem, Goto, Schema, Working, Creating
<1>19. ASSUME NEW p \in Process, Close(p) PROVE SchemaKnown'
  BY <1>19 DEF Close, Goto, Schema, Working, Disconnect, Creating
<1>20. ASSUME NEW p \in Process, Exit(p) PROVE SchemaKnown'
  BY <1>20 DEF Exit, Goto, Schema, Working, Disconnect, Creating
<1>21. ASSUME NEW p \in Process, Crash(p) PROVE SchemaKnown'
  BY <1>21 DEF Crash, Goto, Schema, Working, Disconnect, Creating
<1>22. ASSUME NEW p \in Process, PrepareErrs(p) PROVE SchemaKnown'
  BY <1>22 DEF PrepareErrs, NextItem, Goto, Schema, Working, Creating
<1>23. ASSUME NEW p \in Process, CountErrs(p) PROVE SchemaKnown'
  BY <1>23 DEF CountErrs, Goto, Schema, Working, Creating
<1>24. ASSUME NEW p \in Process, WriteErrs(p) PROVE SchemaKnown'
  BY <1>24 DEF WriteErrs, RollBack, GiveUpWrite, NextItem, Goto, Schema, Working, Creating
<1>25. QED
  BY <1>1, <1>2, <1>3, <1>4, <1>5, <1>6, <1>7, <1>8, <1>9, <1>10, <1>11, <1>12,
     <1>13, <1>14, <1>15, <1>16, <1>17, <1>18, <1>19, <1>20, <1>21, <1>22, <1>23, <1>24
  DEF Next, Run, CallErrs

(***************************************************************************)
(* The table's constraints hold: only a commit changes rows or tables, and *)
(* it commits what the file still admits.                                  *)
(***************************************************************************)
LEMMA StoreInvariant == LoadInv /\ [Next]_vars => StoreConsistent'
<1> SUFFICES ASSUME LoadInv, [Next]_vars PROVE StoreConsistent'
  OBVIOUS
<1>0. StoreConsistent /\ CheckedAtCommit /\ TypeOK
  BY DEF LoadInv
<1>1. CASE UNCHANGED <<rows, tables>> /\ file' \in {file, TRUE}
  BY <1>0, <1>1 DEF StoreConsistent, WellKeyed
<1>2. ASSUME NEW p \in Process, WriteCommit(p) PROVE StoreConsistent'
  <2>1. file /\ Admissible(p) /\ (~Creating(p) => "station" \in tables)
    BY <1>0, <1>2 DEF CheckedAtCommit, WriteCommit
  <2>2. CASE Creating(p)
    BY <1>0, <1>2, <2>1, <2>2 DEF WriteCommit, StoreConsistent, WellKeyed
  <2>3. CASE ~Creating(p)
    <3>1. Item(p) \in Station /\ rows \in SUBSET Station
      BY <1>0, <1>2, <2>3, ItemIsStation
      DEF WriteCommit, TypeOK, FileTypeOK, AtItem, Working
    <3>2. WellKeyed(rows \cup {Item(p)})
      BY <1>0, <2>1, <2>3, <3>1, InsertKeepsKeys DEF StoreConsistent, Admissible
    <3>3. rows' = rows \cup {Item(p)} /\ tables' = tables /\ file' = file
      BY <1>2, <2>3 DEF WriteCommit
    <3>4. QED
      BY <2>1, <2>3, <3>2, <3>3 DEF StoreConsistent
  <2>4. QED
    BY <2>2, <2>3
<1>3. ASSUME NEW p \in Process, OpenCreateReadWrite(p)
      PROVE  UNCHANGED <<rows, tables>> /\ file' \in {file, TRUE}
  BY <1>3 DEF OpenCreateReadWrite
<1>4. ASSUME NEW p \in Process, ~WriteCommit(p), ~OpenCreateReadWrite(p),
             Run(p) \/ Launch(p) \/ Exit(p) \/ OpenFails(p) \/ CallErrs(p) \/ Crash(p)
      PROVE  UNCHANGED <<file, rows, tables>>
  BY <1>4, RowsStay
<1>5. CASE UNCHANGED vars
  BY <1>1, <1>5 DEF vars, fileVars
<1>6. QED
  BY <1>1, <1>2, <1>3, <1>4, <1>5 DEF Next

(***************************************************************************)
(* What RESERVED was taken on still holds at the commit: no other process  *)
(* is past RESERVED, so nobody else commits meanwhile.                     *)
(***************************************************************************)
LEMMA CommitInvariant == LoadInv /\ [Next]_vars => CheckedAtCommit'
<1> SUFFICES ASSUME LoadInv, [Next]_vars,
                    NEW q \in Process, pc'[q] \in {"promote", "commit"}
             PROVE  /\ file'
                    /\ Admissible(q)'
                    /\ (~Creating(q) => "station" \in tables)'
  BY DEF CheckedAtCommit
<1> DEFINE Held == file /\ Admissible(q) /\ (~Creating(q) => "station" \in tables)
<1>0. /\ CheckedAtCommit /\ LockDiscipline /\ LockExclusion /\ SchemaKnown /\ FileOpened
      /\ TypeOK /\ pc \in [Process -> Label]
  BY DEF LoadInv, TypeOK
<1>1. ASSUME Held, UNCHANGED <<tables, rows>>, file' \in {file, TRUE},
             tab'[q] = tab[q], at'[q] = at[q]
      PROVE  Held'
  BY <1>1 DEF Admissible, Creating, Item
<1>2. CASE UNCHANGED vars
  BY <1>0, <1>1, <1>2 DEF vars, fileVars, loaderVars, CheckedAtCommit
<1>3. ASSUME NEW p \in Process, WriteReserve(p) PROVE Held'
  <2>1. CASE p = q
    <3>1. Held
      BY <1>0, <1>3, <2>1 DEF WriteReserve, FileOpened, SchemaKnown, Schema, Working
    <3>2. QED
      BY <1>1, <1>3, <3>1 DEF WriteReserve
  <2>2. CASE p # q
    BY <1>0, <1>1, <1>3, <2>2 DEF WriteReserve, Goto, CheckedAtCommit
  <2>3. QED
    BY <2>1, <2>2
<1>4. ASSUME NEW p \in Process, WriteCommit(p) PROVE Held'
  <2>1. pc[p] = "commit" /\ lock[p] = "exclusive" /\ pc' = [pc EXCEPT ![p] = "prepare"]
    BY <1>0, <1>4 DEF WriteCommit, NextItem, Goto, LockDiscipline
  <2>2. q # p /\ pc[q] \in {"promote", "commit"} /\ lock[q] \in {"reserved", "exclusive"}
    BY <1>0, <2>1 DEF LockDiscipline
  <2>3. QED
    BY <1>0, <2>1, <2>2 DEF LockExclusion
<1>5. ASSUME NEW p \in Process, ~WriteReserve(p), ~WriteCommit(p),
             Run(p) \/ Launch(p) \/ Exit(p) \/ OpenFails(p) \/ CallErrs(p) \/ Crash(p)
      PROVE  Held'
  <2>1. pc[q] \in {"promote", "commit"}
    BY <1>0, <1>5 DEF Run, Launch, Exit, OpenFails, CallErrs, PrepareErrs, CountErrs, WriteErrs,
       Crash, CheckFile, OpenReadWrite,
       OpenCreateReadWrite, PrepareTableExists, PrepareExists, UnkeyedThrows,
       StepTableExists, StepExists, StepCount, SkipExisting, PrepareWrite, WriteShare,
       WriteRefused, WriteExclusive, Close, GiveUpWrite, NextItem, Goto
  <2>2. UNCHANGED <<tables, rows>> /\ file' \in {file, TRUE}
    BY <1>5, RowsStay DEF OpenCreateReadWrite
  <2>3. tab'[q] = tab[q] /\ at'[q] = at[q]
    BY <1>0, <1>5, <2>1 DEF TypeOK, Run, Launch, Exit, OpenFails,
       CallErrs, PrepareErrs, CountErrs, WriteErrs, Crash, CheckFile,
       OpenReadWrite, OpenCreateReadWrite, PrepareTableExists, PrepareExists,
       UnkeyedThrows, StepTableExists, StepExists, StepCount, SkipExisting,
       PrepareWrite, WriteShare, WriteRefused, WriteExclusive, Close, GiveUpWrite,
       NextItem, Goto
  <2>4. QED
    BY <1>0, <1>1, <2>1, <2>2, <2>3 DEF CheckedAtCommit
<1>6. QED
  BY <1>2, <1>3, <1>4, <1>5 DEF Next

(***************************************************************************)
(* A station p has gone past stays settled, because rows are only added;   *)
(* and each way of going past one settles it or logs it.                   *)
(***************************************************************************)
LEMMA SettledInvariant == LoadInv /\ [Next]_vars => (SettledOrWarned /\ PresentSettled)'
<1> SUFFICES ASSUME LoadInv, [Next]_vars,
                    NEW q \in Process
             PROVE  /\ \A i \in 1..Len(Batch[q]) :
                          (pc[q] # "idle" /\ i < at[q]
                             => Exists(rows, Batch[q][i]) \/ i \in warned[q])'
                    /\ (pc[q] = "present" /\ ~Creating(q) => Exists(rows, Item(q)))'
  BY DEF SettledOrWarned, PresentSettled
<1> DEFINE Past == \A i \in 1..Len(Batch[q]) :
                      pc[q] # "idle" /\ i < at[q]
                        => Exists(rows, Batch[q][i]) \/ i \in warned[q]
           Here == pc[q] = "present" /\ ~Creating(q) => Exists(rows, Item(q))
<1>0. /\ Past /\ Here /\ TypeOK
      /\ pc \in [Process -> Label] /\ tab \in [Process -> 1..3]
      /\ at \in [Process -> Nat \ {0}] /\ warned \in [Process -> SUBSET Nat]
  BY DEF LoadInv, SettledOrWarned, PresentSettled, TypeOK
<1>1. ASSUME rows \subseteq rows', pc'[q] # "idle" => pc[q] # "idle",
             at'[q] = at[q], warned[q] \subseteq warned'[q]
      PROVE  Past'
  BY <1>0, <1>1, ExistsGrows
<1>2. ASSUME rows \subseteq rows', pc'[q] = pc[q], tab'[q] = tab[q], at'[q] = at[q]
      PROVE  Here'
  BY <1>0, <1>2, ExistsGrows DEF Creating, Item
<1>3. CASE UNCHANGED vars
  BY <1>1, <1>2, <1>3 DEF vars, fileVars, loaderVars
<1>4. ASSUME NEW p \in Process, Launch(p) PROVE Past' /\ Here'
  <2>1. CASE p = q
    BY <1>0, <1>4, <2>1 DEF Launch, Goto
  <2>2. CASE p # q
    BY <1>0, <1>1, <1>2, <1>4, <2>2 DEF Launch, Goto, fileVars
  <2>3. QED
    BY <2>1, <2>2
<1>5. ASSUME NEW p \in Process, StepTableExists(p) \/ StepExists(p) PROVE Past' /\ Here'
  <2>1. UNCHANGED <<rows, tab, at, warned>> /\ pc[p] = "step"
    BY <1>5 DEF StepTableExists, StepExists, StepCount
  <2>2. Past'
    BY <1>0, <1>1, <1>5, <2>1 DEF StepTableExists, StepExists, StepCount, Goto
  <2>3. CASE p = q
    BY <1>0, <1>5, <2>1, <2>3
    DEF StepTableExists, StepExists, StepCount, Goto, Creating, Item
  <2>4. CASE p # q
    BY <1>0, <1>2, <1>5, <2>1, <2>4 DEF StepTableExists, StepExists, StepCount, Goto
  <2>5. QED
    BY <2>2, <2>3, <2>4
<1>6. ASSUME NEW p \in Process, NextItem(p), rows \subseteq rows', pc[p] # "idle",
             \A r \in Process : warned[r] \subseteq warned'[r],
             ~Creating(p) => Exists(rows', Item(p)) \/ at[p] \in warned'[p]
      PROVE  Past' /\ Here'
  <2>1. CASE p # q
    <3>1. pc'[q] = pc[q] /\ tab'[q] = tab[q] /\ at'[q] = at[q]
      BY <1>0, <1>6, <2>1 DEF NextItem, Goto
    <3>2. QED
      BY <1>1, <1>2, <1>6, <3>1
  <2>2. CASE p = q /\ Creating(q)
    <3>1. pc'[q] = "prepare" /\ at'[q] = at[q]
      BY <1>0, <1>6, <2>2 DEF NextItem, Goto
    <3>2. QED
      BY <1>1, <1>6, <2>2, <3>1
  <2>3. CASE p = q /\ ~Creating(q)
    <3>1. pc'[q] = "prepare" /\ at'[q] = at[q] + 1
      BY <1>0, <1>6, <2>3 DEF NextItem, Goto
    <3>2. ASSUME NEW i \in 1..Len(Batch[q]), i < at[q] + 1
          PROVE  Exists(rows', Batch[q][i]) \/ i \in warned'[q]
      <4>1. CASE i = at[q]
        BY <1>6, <2>3, <4>1 DEF Item
      <4>2. CASE i < at[q]
        BY <1>0, <1>6, <2>3, <4>2, ExistsGrows
      <4>3. QED
        BY <1>0, <3>2, <4>1, <4>2
    <3>3. QED
      BY <3>1, <3>2
  <2>4. QED
    BY <2>1, <2>2, <2>3
<1>7. ASSUME NEW p \in Process, SkipExisting(p) PROVE Past' /\ Here'
  <2>1. ~Creating(p) => Exists(rows', Item(p))
    BY <1>7 DEF LoadInv, PresentSettled, SkipExisting
  <2>2. QED
    BY <1>6, <1>7, <2>1 DEF SkipExisting
<1>8. ASSUME NEW p \in Process, GiveUpWrite(p), UNCHANGED rows, pc[p] # "idle"
      PROVE  Past' /\ Here'
  <2>1. /\ \A r \in Process : warned[r] \subseteq warned'[r]
        /\ ~Creating(p) => at[p] \in warned'[p]
    BY <1>0, <1>8 DEF GiveUpWrite
  <2>2. QED
    BY <1>6, <1>8, <2>1 DEF GiveUpWrite
<1>9. ASSUME NEW p \in Process, WriteCommit(p) PROVE Past' /\ Here'
  <2>1. CASE Creating(p)
    BY <1>6, <1>9, <2>1 DEF WriteCommit
  <2>2. CASE ~Creating(p)
    <3>1. Item(p) \in Station /\ rows \in SUBSET Station
      BY <1>0, <1>9, <2>2, ItemIsStation DEF WriteCommit, TypeOK, FileTypeOK, AtItem, Working
    <3>2. rows' = rows \cup {Item(p)}
      BY <1>9, <2>2 DEF WriteCommit
    <3>3. Exists(rows', Item(p))
      BY <3>1, <3>2, InsertedExists
    <3>4. QED
      BY <1>6, <1>9, <2>2, <3>2, <3>3 DEF WriteCommit
  <2>3. QED
    BY <2>1, <2>2
<1>10. ASSUME NEW p \in Process, WriteShare(p) \/ WriteRefused(p) \/ WriteExclusive(p)
       PROVE  Past' /\ Here'
  <2>1. UNCHANGED rows /\ pc[p] \in {"share", "reserve", "promote"}
    BY <1>10 DEF WriteShare, WriteRefused, WriteExclusive
  <2>2. CASE GiveUpWrite(p)
    BY <1>8, <2>1, <2>2
  <2>3. CASE ~GiveUpWrite(p)
    <3>1. /\ UNCHANGED <<tab, at, warned>>
          /\ pc' = [pc EXCEPT ![p] = "reserve"] \/ pc' = [pc EXCEPT ![p] = "commit"]
      BY <1>10, <2>3 DEF WriteShare, WriteRefused, WriteExclusive, Goto
    <3>2. Past'
      BY <1>0, <1>1, <2>1, <3>1
    <3>3. Here'
      BY <1>0, <1>2, <2>1, <3>1
    <3>4. QED
      BY <3>2, <3>3
  <2>4. QED
    BY <2>2, <2>3
<1>11. ASSUME NEW p \in Process, PrepareTableExists(p) PROVE Past' /\ Here'
  <2>1. UNCHANGED <<rows, warned>> /\ pc[p] = "prepare" /\ Creating(p)
    BY <1>11 DEF PrepareTableExists
  <2>2. CASE NextItem(p)
    BY <1>6, <2>1, <2>2
  <2>3. CASE ~NextItem(p)
    <3>1. UNCHANGED <<tab, at>> /\ pc' = [pc EXCEPT ![p] = "step"]
      BY <1>11, <2>3 DEF PrepareTableExists, Goto
    <3>2. QED
      BY <1>0, <1>1, <1>2, <2>1, <3>1
  <2>4. QED
    BY <2>2, <2>3
<1>12. ASSUME NEW p \in Process,
              \/ CheckFile(p) \/ OpenReadWrite(p) \/ OpenCreateReadWrite(p) \/ OpenFails(p)
              \/ PrepareExists(p) \/ UnkeyedThrows(p) \/ PrepareWrite(p) \/ WriteReserve(p)
              \/ Close(p) \/ Exit(p) \/ Crash(p)
       PROVE  Past' /\ Here'
  <2>1. /\ UNCHANGED <<rows, at, warned>> /\ pc[p] # "idle"
        /\ \E l \in Label \ {"present"} : pc' = [pc EXCEPT ![p] = l]
        /\ \A r \in Process \ {p} : tab'[r] = tab[r]
    BY <1>0, <1>12 DEF CheckFile, OpenReadWrite, OpenCreateReadWrite, OpenFails, PrepareExists,
       UnkeyedThrows, PrepareWrite, WriteReserve, Close, Exit, Crash, Goto, Label, Working,
       fileVars
  <2>2. Past'
    BY <1>0, <1>1, <2>1
  <2>3. Here'
    BY <1>0, <1>2, <2>1
  <2>4. QED
    BY <2>2, <2>3
<1>13. ASSUME NEW p \in Process, PrepareErrs(p) PROVE Past' /\ Here'
  <2>1. UNCHANGED <<rows, warned>> /\ pc[p] # "idle"
    BY <1>13 DEF PrepareErrs
  <2>2. CASE Creating(p)
    BY <1>6, <1>13, <2>1, <2>2 DEF PrepareErrs
  <2>3. CASE ~Creating(p)
    <3>1. UNCHANGED <<tab, at>> /\ pc' = [pc EXCEPT ![p] = "failed"]
      BY <1>13, <2>3 DEF PrepareErrs, Goto
    <3>2. QED
      BY <1>0, <1>1, <1>2, <2>1, <3>1
  <2>4. QED
    BY <2>2, <2>3
<1>14. ASSUME NEW p \in Process, CountErrs(p) PROVE Past' /\ Here'
  <2>1. /\ UNCHANGED <<rows, tab, at, warned>> /\ pc[p] # "idle"
        /\ pc' = [pc EXCEPT ![p] = "absent"]
    BY <1>14 DEF CountErrs, Goto
  <2>2. QED
    BY <1>0, <1>1, <1>2, <2>1
<1>15. ASSUME NEW p \in Process, WriteErrs(p) PROVE Past' /\ Here'
  BY <1>8, <1>15 DEF WriteErrs
<1>16. QED
  BY <1>3, <1>4, <1>5, <1>7, <1>9, <1>10, <1>11, <1>12, <1>13, <1>14, <1>15
  DEF Next, Run, CallErrs

(***************************************************************************)
(* Half-filled stations: each getter that throws stands before the use of  *)
(* what it returns.                                                        *)
(***************************************************************************)
LEMMA GettersInvariant == LoadInv /\ [Next]_vars => (GettersPassed /\ HalfFilledNeverStored)'
<1> SUFFICES ASSUME LoadInv, [Next]_vars PROVE (GettersPassed /\ HalfFilledNeverStored)'
  OBVIOUS
<1> DEFINE Passed(q) ==
              /\ pc[q] \in Working /\ ~Creating(q) => Item(q) \notin Unkeyed
              /\ pc[q] \in Inserting /\ ~Creating(q) => Item(q) \notin Unlocated
<1>0. /\ TypeOK /\ HalfFilledNeverStored /\ \A q \in Process : Passed(q)
      /\ pc \in [Process -> Label] /\ tab \in [Process -> 1..3]
  BY DEF LoadInv, TypeOK, GettersPassed
<1>1. CASE UNCHANGED vars
  <2>1. UNCHANGED <<rows, pc, tab, at>>
    BY <1>1 DEF vars, fileVars, loaderVars
  <2>2. QED
    BY <1>0, <2>1 DEF GettersPassed, HalfFilledNeverStored, Creating, Item
<1>2. ASSUME NEW p \in Process,
             Run(p) \/ Launch(p) \/ Exit(p) \/ OpenFails(p) \/ CallErrs(p) \/ Crash(p)
      PROVE  Passed(p)'
  <2>1. CASE pc'[p] \notin Working
    BY <2>1 DEF Inserting, Working
  <2>2. CASE /\ pc[p] \in Working /\ tab'[p] = tab[p] /\ at'[p] = at[p]
             /\ pc'[p] \in Inserting => pc[p] \in Inserting
    BY <1>0, <2>2 DEF Creating, Item
  <2>3. CASE PrepareTableExists(p)
    BY <1>0, <2>3, <2>1 DEF PrepareTableExists, NextItem, Goto, Creating, Working, Inserting
  <2>4. CASE PrepareExists(p)
    BY <1>0, <2>4 DEF PrepareExists, Goto, Creating, Item, Inserting, Working
  <2>5. CASE PrepareWrite(p)
    BY <1>0, <2>5 DEF PrepareWrite, Goto, Creating, Item, Inserting, Working
  <2>6. CASE StepTableExists(p) \/ StepExists(p) \/ WriteReserve(p)
    BY <1>0, <2>2, <2>6
    DEF StepTableExists, StepExists, StepCount, WriteReserve, Goto, Working, Inserting
  <2>7. CASE WriteShare(p) \/ WriteExclusive(p) \/ WriteRefused(p)
    <3>1. CASE GiveUpWrite(p)
      BY <1>0, <2>1, <3>1 DEF GiveUpWrite, NextItem, Goto, Working
    <3>2. CASE ~GiveUpWrite(p)
      BY <1>0, <2>2, <2>7, <3>2
      DEF WriteShare, WriteExclusive, WriteRefused, Goto, Working, Inserting
    <3>3. QED
      BY <3>1, <3>2
  <2>8. CASE \/ CheckFile(p) \/ OpenReadWrite(p) \/ OpenCreateReadWrite(p)
             \/ UnkeyedThrows(p) \/ SkipExisting(p) \/ WriteCommit(p) \/ Close(p)
             \/ Launch(p) \/ Exit(p) \/ OpenFails(p) \/ Crash(p)
    BY <1>0, <2>1, <2>8
    DEF CheckFile, OpenReadWrite, OpenCreateReadWrite, UnkeyedThrows, SkipExisting,
        WriteCommit, Close, Launch, Exit, OpenFails, Crash, NextItem, Goto, Working
  <2>9. CASE CallErrs(p)
    BY <1>0, <2>1, <2>2, <2>9
    DEF CallErrs, PrepareErrs, CountErrs, WriteErrs, GiveUpWrite, NextItem, Goto, Working,
        Inserting
  <2>10. QED
    BY <1>2, <2>3, <2>4, <2>5, <2>6, <2>7, <2>8, <2>9 DEF Run
<1>3. ASSUME NEW p \in Process,
             Run(p) \/ Launch(p) \/ Exit(p) \/ OpenFails(p) \/ CallErrs(p) \/ Crash(p)
      PROVE  GettersPassed'
  <2>1. ASSUME NEW q \in Process, q # p PROVE Passed(q)'
    BY <1>0, <1>3, <2>1, OthersStay DEF Creating, Item
  <2>2. QED
    BY <1>2, <1>3, <2>1 DEF GettersPassed
<1>4. ASSUME NEW p \in Process, WriteCommit(p) PROVE HalfFilledNeverStored'
  <2>1. rows' = rows \/ (~Creating(p) /\ rows' = rows \cup {Item(p)})
    BY <1>4 DEF WriteCommit
  <2>2. ~Creating(p) => Item(p) \notin Unkeyed \cup Unlocated
    BY <1>0, <1>4 DEF WriteCommit, Working, Inserting
  <2>3. QED
    BY <1>0, <2>1, <2>2 DEF HalfFilledNeverStored
<1>5. ASSUME NEW p \in Process, ~WriteCommit(p),
             Run(p) \/ Launch(p) \/ Exit(p) \/ OpenFails(p) \/ CallErrs(p) \/ Crash(p)
      PROVE  HalfFilledNeverStored'
  BY <1>0, <1>5, RowsStay DEF HalfFilledNeverStored
<1>6. QED
  BY <1>1, <1>3, <1>4, <1>5 DEF Next

(***************************************************************************)
(* The end in order: done is reached by Close alone, and left by Exit.     *)
(***************************************************************************)
LEMMA ThroughInvariant == LoadInv /\ [Next]_vars => DoneMeansThrough'
<1> SUFFICES ASSUME LoadInv, [Next]_vars, NEW q \in Process, pc'[q] = "done"
             PROVE  at'[q] > Len(Batch[q])
  BY DEF DoneMeansThrough
<1>0. TypeOK /\ DoneMeansThrough /\ pc \in [Process -> Label]
  BY DEF LoadInv, TypeOK
<1>1. CASE UNCHANGED vars
  BY <1>0, <1>1 DEF vars, loaderVars, DoneMeansThrough
<1>2. ASSUME NEW p \in Process, p # q,
             Run(p) \/ Launch(p) \/ Exit(p) \/ OpenFails(p) \/ CallErrs(p) \/ Crash(p)
      PROVE  at'[q] > Len(Batch[q])
  BY <1>0, <1>2, OthersStay DEF DoneMeansThrough
<1>3. CASE Run(q) \/ Launch(q) \/ Exit(q) \/ OpenFails(q) \/ CallErrs(q) \/ Crash(q)
  <2>1. Close(q)
    BY <1>0, <1>3, DoneByClose
  <2>2. QED
    BY <2>1 DEF Close
<1>4. QED
  BY <1>1, <1>2, <1>3 DEF Next

(***************************************************************************)
(* Loading keeps its invariant ...                                         *)
(***************************************************************************)
LEMMA LoadInvariant == LoadInv /\ [Next]_vars => LoadInv'
BY TypeInvariant, LockInvariant, FileInvariant, SchemaInvariant, StoreInvariant,
   CommitInvariant, SettledInvariant, GettersInvariant, ThroughInvariant DEF LoadInv

(***************************************************************************)
(* ... and a loader that is done has let go of the file.                   *)
(***************************************************************************)
LEMMA ReleasedInvariant == IInv /\ [Next]_vars => DoneReleased'
<1> SUFFICES ASSUME IInv, [Next]_vars, NEW q \in Process, pc'[q] = "done"
             PROVE  lock'[q] = "none"
  BY DEF DoneReleased
<1>0. /\ TypeOK /\ DoneReleased /\ pc \in [Process -> Label]
      /\ lock \in [Process -> LockLevel]
  BY DEF IInv, LoadInv, TypeOK, FileTypeOK
<1>1. CASE UNCHANGED vars
  BY <1>0, <1>1 DEF vars, fileVars, loaderVars, DoneReleased
<1>2. ASSUME NEW p \in Process, p # q,
             Run(p) \/ Launch(p) \/ Exit(p) \/ OpenFails(p) \/ CallErrs(p) \/ Crash(p)
      PROVE  lock'[q] = "none"
  BY <1>0, <1>2, OthersStay, ConnectionsStay DEF DoneReleased
<1>3. CASE Run(q) \/ Launch(q) \/ Exit(q) \/ OpenFails(q) \/ CallErrs(q) \/ Crash(q)
  <2>1. Close(q)
    BY <1>0, <1>3, DoneByClose
  <2>2. QED
    BY <1>0, <2>1 DEF Close, Disconnect, Release, SetLock
<1>4. QED
  BY <1>1, <1>2, <1>3 DEF Next

(***************************************************************************)
(* The inductive invariant holds of every reachable state ...              *)
(***************************************************************************)
THEOREM InvariantHolds == Spec => []IInv
<1>1. IInv /\ [Next]_vars => IInv'
  BY LoadInvariant, ReleasedInvariant DEF IInv
<1>2. QED
  BY <1>1, InitInvariant, PTL DEF Spec

(***************************************************************************)
(* ... hence types, whatever the batches, processes and faults ...         *)
(***************************************************************************)
THEOREM TypesHold == Spec => []TypeOK
<1>1. IInv => TypeOK
  BY DEF IInv, LoadInv
<1>2. QED
  BY <1>1, InvariantHolds, PTL

(***************************************************************************)
(* ... the consistency of the file: a row has its table, a table its file, *)
(* and a key one row ...                                                   *)
(***************************************************************************)
THEOREM StoreStaysConsistent == Spec => []StoreConsistent
<1>1. IInv => StoreConsistent
  BY DEF IInv, LoadInv
<1>2. QED
  BY <1>1, InvariantHolds, PTL

(***************************************************************************)
(* ... and that a commit writes what was checked under RESERVED.           *)
(***************************************************************************)
THEOREM CommitIsChecked == Spec => []CheckedAtCommit
<1>1. IInv => CheckedAtCommit
  BY DEF IInv, LoadInv
<1>2. QED
  BY <1>1, InvariantHolds, PTL

(***************************************************************************)
(* No loader drops a station in silence, whatever the others do.           *)
(***************************************************************************)
THEOREM NoSilentDrop == Spec => []SettledOrWarned
<1>1. IInv => SettledOrWarned
  BY DEF IInv, LoadInv
<1>2. QED
  BY <1>1, InvariantHolds, PTL

(***************************************************************************)
(* With one epoch a station, a row that covers a station has its key.      *)
(***************************************************************************)
LEMMA SingleEpochKeys ==
    ASSUME SingleEpoch, NEW S \in SUBSET Station, NEW s \in Station, Exists(S, s)
    PROVE  KeyTaken(S, s)
BY DEF SingleEpoch, Exists, KeyTaken, SameKey

(***************************************************************************)
(* A commit is an atomic step of the store: the station table appears, or  *)
(* a station enters that no row covers.                                    *)
(***************************************************************************)
LEMMA CommitRefines ==
    ASSUME SingleEpoch, LoadInv, NEW p \in Process, WriteCommit(p)
    PROVE  [Store!StoreNext]_(Store!storeVars)
<1> USE DEF Store!StoreNext, Store!CreateStationTable, Store!InsertStation, Store!storeVars,
            Store!Exists, Store!Covers, Exists, Covers
<1>0. /\ file /\ Admissible(p) /\ (~Creating(p) => "station" \in tables)
      /\ TypeOK
  BY DEF LoadInv, CheckedAtCommit, WriteCommit
<1>1. CASE Creating(p)
  <2>1. TableOrder[tab[p]] \in Table /\ TableOrder[tab[p]] \notin tables
    BY <1>0, <1>1 DEF Creating, TypeOK, Table, TableOrder, Admissible
  <2>2. /\ tables' = tables \cup {TableOrder[tab[p]]}
        /\ rows' = rows /\ file' = file
    BY <1>1 DEF WriteCommit
  <2>3. CASE TableOrder[tab[p]] = "station"
    BY <1>0, <2>1, <2>2, <2>3
  <2>4. CASE TableOrder[tab[p]] # "station"
    BY <2>2, <2>4
  <2>5. QED
    BY <2>3, <2>4
<1>2. CASE ~Creating(p)
  <2>1. Item(p) \in Station /\ rows \in SUBSET Station
    BY <1>0, <1>2, ItemIsStation DEF WriteCommit, TypeOK, FileTypeOK, AtItem, Working
  <2>2. Item(p) \notin Unstorable /\ ~Exists(rows, Item(p))
    BY <1>0, <1>2, <2>1, SingleEpochKeys DEF Admissible, Insertable
  <2>3. rows' = rows \cup {Item(p)} /\ tables' = tables /\ file' = file
    BY <1>2 DEF WriteCommit
  <2>4. QED
    BY <1>0, <1>2, <2>1, <2>2, <2>3
<1>3. QED
  BY <1>1, <1>2

(***************************************************************************)
(* Every step of a loader is a step of the store, or one it does not show. *)
(***************************************************************************)
LEMMA LoadRefines ==
    ASSUME SingleEpoch, LoadInv, [Next]_vars
    PROVE  [Store!StoreNext]_(Store!storeVars)
<1>1. CASE UNCHANGED vars
  BY <1>1 DEF vars, fileVars, Store!storeVars
<1>2. ASSUME NEW p \in Process, OpenCreateReadWrite(p)
      PROVE  [Store!StoreNext]_(Store!storeVars)
  <2>1. file' = TRUE /\ UNCHANGED <<tables, rows>> /\ (tables # {} => file)
    BY <1>2 DEF OpenCreateReadWrite, LoadInv, StoreConsistent
  <2>2. QED
    BY <2>1 DEF Store!StoreNext, Store!CreateFile, Store!storeVars
<1>3. ASSUME NEW p \in Process, ~WriteCommit(p), ~OpenCreateReadWrite(p),
             Run(p) \/ Launch(p) \/ Exit(p) \/ OpenFails(p) \/ CallErrs(p) \/ Crash(p)
      PROVE  [Store!StoreNext]_(Store!storeVars)
  BY <1>3, RowsStay DEF Store!storeVars
<1>4. QED
  BY <1>1, <1>2, <1>3, CommitRefines DEF Next

(***************************************************************************)
(* With one epoch a station, the loaders together implement the atomic     *)
(* store: locks, journals, deaths, stale answers and the gap between       *)
(* exists and INSERT do not show.                                          *)
(***************************************************************************)
THEOREM LoaderImplementsStore ==
    ASSUME SingleEpoch
    PROVE  Spec => StoreRefined
<1>1. Init => Store!StoreInit
  BY DEF Init, FileInit, Store!StoreInit
<1>2. IInv /\ [Next]_vars => [Store!StoreNext]_(Store!storeVars)
  BY LoadRefines DEF IInv
<1>3. QED
  BY <1>1, <1>2, InvariantHolds, PTL DEF Spec, StoreRefined, Store!StoreSpec

(***************************************************************************)
(* A half-filled station is never stored.                                  *)
(***************************************************************************)
THEOREM NoHalfFilledRow == Spec => []HalfFilledNeverStored
<1>1. IInv => HalfFilledNeverStored
  BY DEF IInv, LoadInv
<1>2. QED
  BY <1>1, InvariantHolds, PTL

(***************************************************************************)
(* With one epoch a station, a row enters only while none covers it,       *)
(* however many processes query and insert at once.                        *)
(***************************************************************************)
THEOREM InsertsOnlyTheAbsent ==
    ASSUME SingleEpoch
    PROVE  Spec => InsertIfAbsent
<1>1. IInv /\ [Next]_vars => [\A s \in rows' \ rows : ~Exists(rows, s)]_rows
  <2> SUFFICES ASSUME IInv, [Next]_vars, NEW s \in rows' \ rows
               PROVE  ~Exists(rows, s)
    OBVIOUS
  <2>1. PICK p \in Process : WriteCommit(p)
    BY RowsStay DEF Next, vars, fileVars
  <2>2. ~Creating(p) /\ s = Item(p) /\ Admissible(p) /\ TypeOK
    BY <2>1 DEF WriteCommit, IInv, LoadInv, CheckedAtCommit
  <2>3. Item(p) \in Station /\ rows \in SUBSET Station
    BY <2>1, <2>2, ItemIsStation DEF WriteCommit, TypeOK, FileTypeOK, AtItem, Working
  <2>4. QED
    BY <2>2, <2>3, SingleEpochKeys DEF Admissible, Insertable
<1>2. QED
  BY <1>1, InvariantHolds, PTL DEF Spec, InsertIfAbsent

(***************************************************************************)
(* A process that has the file to itself is never refused a lock ...       *)
(***************************************************************************)
LEMMA AloneUnblocked ==
    ASSUME Alone, NEW p \in Process
    PROVE  ~Blocked(p, FALSE) /\ \A levels : ~OtherHolds(p, levels)
BY DEF Alone, Blocked, OtherHolds

(***************************************************************************)
(* ... so its INSERT fails only on an error of the system, or because the  *)
(* constraints refuse the station.                                         *)
(***************************************************************************)
LEMMA AloneInvariant ==
    ASSUME Alone, LoadInv, AloneInv, [Next]_vars
    PROVE  AloneInv'
<1> SUFFICES ASSUME NEW q \in Process
             PROVE  /\ pc'[q] \in Inserting \cup {"absent"} /\ ~Creating(q)'
                          => at'[q] \in erred'[q] \/ ~Exists(rows', Item(q)')
                    /\ \A i \in 1..Len(Batch[q]) :
                          pc'[q] # "idle" /\ i < at'[q] =>
                             \/ Exists(rows', Batch[q][i]) \/ Batch[q][i] \in Unstorable
                             \/ i \in erred'[q]
  BY DEF AloneInv
<1> DEFINE Absent == pc[q] \in Inserting \cup {"absent"} /\ ~Creating(q)
                       => at[q] \in erred[q] \/ ~Exists(rows, Item(q))
           Stored(i) == \/ Exists(rows, Batch[q][i]) \/ Batch[q][i] \in Unstorable
                        \/ i \in erred[q]
           Past == \A i \in 1..Len(Batch[q]) : pc[q] # "idle" /\ i < at[q] => Stored(i)
<1>0. /\ Absent /\ Past /\ TypeOK /\ PresentSettled
      /\ pc \in [Process -> Label] /\ tab \in [Process -> 1..3]
      /\ at \in [Process -> Nat \ {0}] /\ rows \in SUBSET Station
      /\ erred \in [Process -> SUBSET Nat]
      /\ ~Blocked(q, FALSE) /\ \A levels : ~OtherHolds(q, levels)
  BY AloneUnblocked DEF LoadInv, AloneInv, TypeOK, FileTypeOK
<1>1. ASSUME UNCHANGED rows, tab'[q] = tab[q], at'[q] = at[q], erred[q] \subseteq erred'[q],
             pc'[q] # "idle" => pc[q] # "idle",
             pc'[q] \in Inserting \cup {"absent"} => pc[q] \in Inserting \cup {"absent"}
      PROVE  Absent' /\ Past'
  BY <1>0, <1>1 DEF Creating, Item
<1>2. CASE UNCHANGED vars
  BY <1>0, <1>1, <1>2 DEF vars, fileVars, loaderVars
<1>3. CASE Launch(q)
  BY <1>0, <1>3 DEF Launch, Goto, Inserting
<1>4. CASE StepExists(q)
  <2>1. /\ pc[q] = "step" /\ UNCHANGED <<rows, tab, at, erred>>
        /\ pc' = [pc EXCEPT ![q] = IF Exists(rows, Item(q)) THEN "present" ELSE "absent"]
    BY <1>0, <1>4 DEF StepExists, StepCount, Goto
  <2>2. QED
    BY <1>0, <2>1 DEF Creating, Item, Inserting
<1>5. CASE StepTableExists(q)
  BY <1>0, <1>5 DEF StepTableExists, StepCount, Goto, Creating, Inserting
<1>6. ASSUME NextItem(q), rows \subseteq rows', pc[q] # "idle", erred[q] \subseteq erred'[q],
             ~Creating(q) => \/ Exists(rows', Item(q)) \/ Item(q) \in Unstorable
                             \/ at[q] \in erred'[q]
      PROVE  Absent' /\ Past'
  <2>1. pc'[q] = "prepare"
    BY <1>0, <1>6 DEF NextItem, Goto
  <2>2. CASE Creating(q)
    BY <1>0, <1>6, <2>1, <2>2, ExistsGrows DEF NextItem, Inserting
  <2>3. CASE ~Creating(q)
    <3>1. at'[q] = at[q] + 1
      BY <1>0, <1>6, <2>3 DEF NextItem
    <3>2. ASSUME NEW i \in 1..Len(Batch[q]), i < at'[q] PROVE Stored(i)'
      <4>1. CASE i = at[q]
        BY <1>6, <2>3, <4>1 DEF Item
      <4>2. CASE i < at[q]
        BY <1>0, <1>6, <4>2, ExistsGrows
      <4>3. QED
        BY <1>0, <3>1, <3>2, <4>1, <4>2
    <3>3. QED
      BY <2>1, <3>2 DEF Inserting
  <2>4. QED
    BY <2>2, <2>3
<1>7. CASE SkipExisting(q)
  BY <1>0, <1>6, <1>7 DEF SkipExisting, PresentSettled
<1>8. CASE PrepareTableExists(q)
  <2>1. CASE NextItem(q)
    BY <1>0, <1>6, <1>8, <2>1 DEF PrepareTableExists
  <2>2. CASE ~NextItem(q)
    BY <1>0, <1>1, <1>8, <2>2 DEF PrepareTableExists, Goto, Inserting
  <2>3. QED
    BY <2>1, <2>2
<1>9. CASE WriteShare(q)
  BY <1>0, <1>1, <1>9 DEF WriteShare, Goto, Inserting
<1>10. CASE WriteRefused(q)
  <2>1. ~Admissible(q) /\ GiveUpWrite(q) /\ UNCHANGED rows /\ pc[q] = "reserve"
    BY <1>0, <1>10 DEF WriteRefused
  <2>2. ASSUME ~Creating(q) PROVE Exists(rows, Item(q)) \/ Item(q) \in Unstorable
    <3>1. Item(q) \in Station
      BY <1>0, <2>1, <2>2, ItemIsStation DEF TypeOK, AtItem, Working
    <3>2. QED
      BY <1>0, <2>1, <2>2, <3>1, KeyTakenExists DEF Admissible, Insertable
  <2>3. UNCHANGED erred
    BY <1>10 DEF WriteRefused
  <2>4. QED
    BY <1>6, <2>1, <2>2, <2>3 DEF GiveUpWrite
<1>11. CASE WriteExclusive(q)
  BY <1>0, <1>1, <1>11 DEF WriteExclusive, Goto, Inserting
<1>12. CASE WriteCommit(q)
  <2>1. CASE Creating(q)
    BY <1>6, <1>12, <2>1 DEF WriteCommit
  <2>2. CASE ~Creating(q)
    <3>1. Item(q) \in Station /\ rows' = rows \cup {Item(q)}
      BY <1>0, <1>12, <2>2, ItemIsStation DEF WriteCommit, TypeOK, AtItem, Working
    <3>2. QED
      BY <1>0, <1>6, <1>12, <3>1, InsertedExists DEF WriteCommit
  <2>3. QED
    BY <2>1, <2>2
<1>13. CASE \/ CheckFile(q) \/ OpenReadWrite(q) \/ OpenCreateReadWrite(q) \/ OpenFails(q)
            \/ PrepareExists(q) \/ UnkeyedThrows(q) \/ PrepareWrite(q) \/ WriteReserve(q)
            \/ Close(q) \/ Exit(q) \/ Crash(q)
  <2>1. /\ UNCHANGED <<rows, at, erred>> /\ pc[q] # "idle"
        /\ (pc'[q] \in Inserting \cup {"absent"} =>
              pc[q] \in Inserting \cup {"absent"} /\ UNCHANGED tab)
    BY <1>0, <1>13 DEF CheckFile, OpenReadWrite, OpenCreateReadWrite, OpenFails,
       PrepareExists, UnkeyedThrows, PrepareWrite, WriteReserve, Close, Exit, Crash,
       Goto, Inserting, fileVars
  <2>2. QED
    BY <1>0, <2>1 DEF Creating, Item
<1>14. CASE PrepareErrs(q)
  <2>1. UNCHANGED <<rows, erred>> /\ pc[q] # "idle"
    BY <1>14 DEF PrepareErrs
  <2>2. CASE Creating(q)
    BY <1>6, <1>14, <2>1, <2>2 DEF PrepareErrs
  <2>3. CASE ~Creating(q)
    <3>1. UNCHANGED <<tab, at>> /\ pc'[q] = "failed"
      BY <1>0, <1>14, <2>3 DEF PrepareErrs, Goto
    <3>2. QED
      BY <1>1, <2>1, <3>1 DEF Inserting
  <2>4. QED
    BY <2>2, <2>3
<1>15. CASE CountErrs(q)
  <2>1. UNCHANGED <<rows, tab, at>> /\ pc[q] # "idle"
    BY <1>15 DEF CountErrs
  <2>2. erred[q] \subseteq erred'[q] /\ (~Creating(q) => at[q] \in erred'[q])
    BY <1>0, <1>15 DEF CountErrs, NoteError
  <2>3. QED
    BY <1>0, <2>1, <2>2 DEF Creating, Item
<1>16. CASE WriteErrs(q)
  <2>1. UNCHANGED rows /\ pc[q] # "idle" /\ NextItem(q)
    BY <1>16 DEF WriteErrs, GiveUpWrite
  <2>2. erred[q] \subseteq erred'[q] /\ (~Creating(q) => at[q] \in erred'[q])
    BY <1>0, <1>16 DEF WriteErrs, NoteError
  <2>3. QED
    BY <1>6, <2>1, <2>2
<1>17. QED
  BY <1>2, <1>3, <1>4, <1>5, <1>7, <1>8, <1>9, <1>10, <1>11, <1>12, <1>13, <1>14, <1>15,
     <1>16
  DEF Next, Run, CallErrs, Alone

(***************************************************************************)
(* A process that has the file to itself keeps AloneInv through deaths and *)
(* restarts ...                                                            *)
(***************************************************************************)
THEOREM AloneInvariantHolds ==
    ASSUME Alone
    PROVE  Spec => []AloneInv
<1>1. Init => AloneInv
  BY DEF Init, FileInit, AloneInv, Inserting
<1>2. IInv /\ AloneInv /\ [Next]_vars => AloneInv'
  BY AloneInvariant DEF IInv
<1>3. QED
  BY <1>1, <1>2, InvariantHolds, PTL DEF Spec

(***************************************************************************)
(* ... therefore, when it ends with EXIT_SUCCESS, every station of its     *)
(* batch is in the file but for what the constraints refuse and what met   *)
(* an error of the system.                                                 *)
(***************************************************************************)
THEOREM AloneSuccessMeansStored ==
    ASSUME Alone
    PROVE  Spec => []SuccessMeansStored
<1>1. IInv /\ AloneInv => SuccessMeansStored
  <2> SUFFICES ASSUME IInv, AloneInv, NEW p \in Process, NEW i \in 1..Len(Batch[p]),
                      pc[p] = "done"
               PROVE  \/ Exists(rows, Batch[p][i]) \/ Batch[p][i] \in Unstorable
                      \/ i \in erred[p]
    BY DEF SuccessMeansStored
  <2>1. at[p] > Len(Batch[p]) /\ at[p] \in Nat /\ Len(Batch[p]) \in Nat
    BY LoaderAssumption DEF IInv, LoadInv, DoneMeansThrough, TypeOK
  <2>2. QED
    BY <2>1 DEF AloneInv
<1>2. QED
  BY <1>1, AloneInvariantHolds, InvariantHolds, PTL

(***************************************************************************)
(* Alone, a process inserts only what no row covers, whatever the epochs,  *)
(* unless the SELECT that asks for such a row failed.                      *)
(***************************************************************************)
THEOREM AloneInsertsOnlyTheAbsent ==
    ASSUME Alone
    PROVE  Spec => InsertIfSeenAbsent
<1> DEFINE Excused(s) ==
              \E p \in Process : pc[p] = "commit" /\ Item(p) = s /\ at[p] \in erred[p]
<1>1. IInv /\ AloneInv /\ [Next]_vars =>
         [\A s \in rows' \ rows : Exists(rows, s) => Excused(s)]_rows
  <2> SUFFICES ASSUME IInv, AloneInv, [Next]_vars, NEW s \in rows' \ rows, Exists(rows, s)
               PROVE  Excused(s)
    OBVIOUS
  <2>1. PICK p \in Process : WriteCommit(p)
    BY RowsStay DEF Next, vars, fileVars
  <2>2. ~Creating(p) /\ s = Item(p) /\ pc[p] = "commit"
    BY <2>1 DEF WriteCommit
  <2>3. at[p] \in erred[p]
    BY <2>2 DEF AloneInv, Inserting
  <2>4. QED
    BY <2>2, <2>3
<1>2. QED
  BY <1>1, AloneInvariantHolds, InvariantHolds, PTL DEF Spec, InsertIfSeenAbsent
=============================================================================
