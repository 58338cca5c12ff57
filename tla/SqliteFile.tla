----------------------------- MODULE SqliteFile -----------------------------
(***************************************************************************)
(* The database file as SQLite shares it between processes: rollback       *)
(* journal, autocommit, no busy handler (src/src/database.cpp sets none),  *)
(* so a lock that is not free is SQLITE_BUSY at once.  The SQLite library  *)
(* is not part of the repository; this module models it from the calls     *)
(* Database makes.  PENDING is folded into the attempt to get EXCLUSIVE.   *)
(*                                                                         *)
(* A connection keeps the schema it last read (`known`): sqlite3_prepare   *)
(* touches the file only for a table the connection does not know yet,     *)
(* sqlite3_step always does.  A process that dies with the journal written *)
(* leaves it hot: the next connection to read must roll it back, which a   *)
(* read-only connection cannot, nor one that others share the file with.   *)
(***************************************************************************)
EXTENDS StationTable, FiniteSets

CONSTANT Process   \* each process holds at most one connection at a time

VARIABLES file,      \* the path exists in the file system
          tables,    \* tables committed to the file
          rows,      \* rows committed to the table "station"
          journal,   \* a hot journal lies beside the file
          lock,      \* lock[p]: the lock p's connection holds on the file
          known      \* known[p]: tables in the schema p's connection has read

fileVars == <<file, tables, rows, journal, lock, known>>

Table == {"station", "channel"}

Schema == tables \cup {"sqlite_master"}

LockLevel == {"none", "shared", "reserved", "exclusive"}

FileInit ==
    /\ file = FALSE
    /\ tables = {}
    /\ rows = {}
    /\ journal = FALSE
    /\ lock = [p \in Process |-> "none"]
    /\ known = [p \in Process |-> {}]

OtherHolds(p, levels) == \E q \in Process \ {p} : lock[q] \in levels

(***************************************************************************)
(* p's connection cannot get a SHARED lock.                                *)
(***************************************************************************)
Blocked(p, readOnly) ==
    /\ lock[p] = "none"
    /\ \/ OtherHolds(p, {"exclusive"})
       \/ /\ journal
          /\ \/ readOnly
             \/ OtherHolds(p, {"shared", "reserved", "exclusive"})

(***************************************************************************)
(* What the first read of a transaction does: roll a hot journal back and  *)
(* refresh the schema.                                                     *)
(***************************************************************************)
Refresh(p) ==
    /\ journal' = FALSE
    /\ known' = [known EXCEPT ![p] = Schema]

CanPrepare(p, readOnly, t) ==
    t \in known[p] \/ (~Blocked(p, readOnly) /\ t \in Schema)

Prepare(p, readOnly, t) ==
    /\ CanPrepare(p, readOnly, t)
    /\ IF t \in known[p] THEN UNCHANGED <<journal, known>> ELSE Refresh(p)

PrepareFails(p, readOnly, t) ==
    /\ ~CanPrepare(p, readOnly, t)
    /\ IF Blocked(p, readOnly) THEN UNCHANGED <<journal, known>> ELSE Refresh(p)

SetLock(p, level) == lock' = [lock EXCEPT ![p] = level]

Share(p, readOnly) ==
    /\ ~Blocked(p, readOnly)
    /\ SetLock(p, "shared")
    /\ Refresh(p)

Release(p) == SetLock(p, "none")

(***************************************************************************)
(* The connection of p is gone, closed in order.                           *)
(***************************************************************************)
Disconnect(p) ==
    /\ Release(p)
    /\ known' = [known EXCEPT ![p] = {}]

(***************************************************************************)
(* The journals p's death may leave: a writer with EXCLUSIVE has synced    *)
(* its journal, one with RESERVED may have written it or not; a file of    *)
(* zero pages has no content to roll back.                                 *)
(***************************************************************************)
JournalsLeft(p) ==
    {j \in BOOLEAN :
        /\ lock[p] = "exclusive" /\ tables # {} => j
        /\ lock[p] = "reserved" /\ tables = {} => ~j
        /\ lock[p] \in {"none", "shared"} => j = journal}

(***************************************************************************)
(* ... and those a call of p that fails on an input/output error or a full *)
(* disk may leave: as if p had died, or rolled back; a statement that has  *)
(* read before it fails leaves the journal alone.                          *)
(***************************************************************************)
JournalsAfterError(p, readOnly) ==
    JournalsLeft(p) \cup (IF lock[p] = "shared" THEN {}
                          ELSE {journal /\ Blocked(p, readOnly)})

(***************************************************************************)
(* The rules of the lock levels: one RESERVED at most, and nobody beside   *)
(* an EXCLUSIVE.                                                           *)
(***************************************************************************)
LockExclusion ==
    \A p, q \in Process :
        p # q => /\ ~(lock[p] \in {"reserved", "exclusive"}
                      /\ lock[q] \in {"reserved", "exclusive"})
                 /\ ~(lock[p] = "exclusive" /\ lock[q] = "shared")

(***************************************************************************)
(* Nobody writes while a hot journal waits to be rolled back.              *)
(***************************************************************************)
JournalQuiet ==
    journal => \A p \in Process : lock[p] \in {"none", "shared"}

FileTypeOK ==
    /\ file \in BOOLEAN
    /\ tables \subseteq Table
    /\ rows \subseteq Station
    /\ journal \in BOOLEAN
    /\ lock \in [Process -> LockLevel]
    /\ known \in [Process -> SUBSET (Table \cup {"sqlite_master"})]
=============================================================================
