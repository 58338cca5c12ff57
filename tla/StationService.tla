--------------------------- MODULE StationService ---------------------------
(***************************************************************************)
(* uMetadataServer on the database file it shares with uMetadataUpdater.   *)
(* One of the processes is the server: it first loads its region like any  *)
(* loader, closes, opens the file again read-only, and then answers RPCs   *)
(* on the threads of gRPC's callback API, all on one connection.           *)
(*                                                                         *)
(* SQLite's own mutex (SQLITE_OPEN_FULLMUTEX) makes each sqlite3 call of a *)
(* handler atomic; between two of them other handlers run and other        *)
(* processes write.  The connection holds SHARED while any of its          *)
(* statements is between its first and its last row.                       *)
(***************************************************************************)
EXTENDS MetadataLoader

CONSTANTS server,   \* the process that serves
          Call,     \* handlers in flight: bound on concurrent RPCs
          Id,       \* the (network, name) pairs clients ask for
          All,      \* a request for all active stations
          Blank,    \* a request whose network or name is empty
          MaxTime   \* bound on the clock

ASSUME ServiceAssumption ==
    /\ server \in Process
    /\ All \notin Id /\ Blank \notin Id /\ All # Blank
    /\ MaxTime \in Nat

VARIABLES phase,  \* where the server is, once its load phase is done
          call,   \* call[c]: the handler in slot c
          now     \* the time CURRENT_TIMESTAMP reads

serviceVars == <<phase, call, now>>
allVars == <<vars, serviceVars>>

(***************************************************************************)
(* A handler: where it is (at), what it was asked (want), the time its     *)
(* statement took (t), the rows it collected (got) and the status it       *)
(* passed to Finish.  The rest records, for the properties, the rows that  *)
(* were active when it asked (seen) and whether the file was busy, the     *)
(* scan broke off or the handler threw.                                    *)
(***************************************************************************)
NoCall == [at |-> "free", want |-> Blank, t |-> 0, got |-> {}, status |-> "none",
           seen |-> {}, mishap |-> "none"]

ServiceInit ==
    /\ Init
    /\ phase = "load"
    /\ call = [c \in Call |-> NoCall]
    /\ now = 0

Enter(label) == phase' = label

(* Mutant: the constructor does not look for the station table. *)
OpenUnchecked ==
    /\ phase = "load" /\ pc[server] = "done"
    /\ Enter("serving")
    /\ UNCHANGED <<vars, call, now>>

(* Mutant: main goes on to runServer after a load that threw. *)
OpenAfterFailure ==
    /\ phase = "load" /\ pc[server] \in {"done", "failed"}
    /\ Goto(server, "done")
    /\ Enter("prepare")
    /\ UNCHANGED <<fileVars, tab, at, warned, erred, faults, call, now>>

(***************************************************************************)
(* runServer constructs the service, which opens the database read-only.   *)
(***************************************************************************)
OpenReadOnly ==
    /\ phase = "load" /\ pc[server] = "done"
    /\ Enter("prepare")
    /\ UNCHANGED <<vars, call, now>>

(***************************************************************************)
(* tableExists("station") on the new connection; a throw or a "no", true   *)
(* or not, ends the process.                                               *)
(***************************************************************************)
PrepareStationTable ==
    /\ phase = "prepare"
    /\ \/ Prepare(server, TRUE, "sqlite_master") /\ Enter("step")
       \/ PrepareFails(server, TRUE, "sqlite_master") /\ Enter("stopped")
    /\ UNCHANGED <<file, tables, rows, lock, loaderVars, call, now>>

StepStationTable ==
    /\ phase = "step"
    /\ \/ Share(server, TRUE) /\ Enter(IF "station" \in tables THEN "found" ELSE "missing")
       \/ Blocked(server, TRUE) /\ Enter("missing") /\ UNCHANGED <<journal, lock, known>>
    /\ UNCHANGED <<file, tables, rows, loaderVars, call, now>>

StartServing ==
    /\ phase = "found"
    /\ Release(server)
    /\ Enter("serving")
    /\ UNCHANGED <<file, tables, rows, journal, known, loaderVars, call, now>>

GiveUpServing ==
    /\ phase = "missing"
    /\ Disconnect(server)
    /\ Enter("stopped")
    /\ UNCHANGED <<file, tables, rows, journal, loaderVars, call, now>>

(***************************************************************************)
(* The file cannot be opened again, or the SELECT on sqlite_master errs:   *)
(* prepared in vain it throws, stepped in vain it says that there is no    *)
(* table.                                                                  *)
(***************************************************************************)
StartUpErrs ==
    /\ \/ phase = "load" /\ pc[server] = "done" /\ Enter("stopped")
       \/ phase = "prepare" /\ Enter("stopped")
       \/ phase = "step" /\ Enter("missing")
    /\ Fault
    /\ UNCHANGED <<fileVars, pc, tab, at, warned, erred, call, now>>

(***************************************************************************)
(* The server's process has ended, in order or not.                        *)
(***************************************************************************)
Gone ==
    /\ Disconnect(server)
    /\ Goto(server, "idle")
    /\ Enter("load")
    /\ call' = [c \in Call |-> NoCall]
    /\ UNCHANGED <<file, tables, rows, journal, tab, at, warned, erred, now>>

Stop == phase = "stopped" /\ Gone /\ UNCHANGED faults

(***************************************************************************)
(* Killed, or dead of BuildAndStart's null pointer when the port is taken. *)
(***************************************************************************)
ServerCrash ==
    /\ phase # "load"
    /\ Fault
    /\ Gone

-----------------------------------------------------------------------------

Handler(c, label) == phase = "serving" /\ call[c].at = label

Become(c, handler) == call' = [call EXCEPT ![c] = handler]

(***************************************************************************)
(* gRPC starts a handler.                                                  *)
(***************************************************************************)
BeginCall(c) ==
    /\ Handler(c, "free")
    /\ \E want \in Id \cup {All, Blank} :
          Become(c, [NoCall EXCEPT !.at = "query", !.want = want])
    /\ UNCHANGED <<vars, phase, now>>

(***************************************************************************)
(* Database::getActiveStationInformation refuses an empty network or name. *)
(***************************************************************************)
RejectArguments(c) ==
    /\ Handler(c, "query") /\ call[c].want = Blank
    /\ Become(c, [call[c] EXCEPT !.at = "replied", !.status = "INVALID_ARGUMENT"])
    /\ UNCHANGED <<vars, phase, now>>

(***************************************************************************)
(* The statement is prepared, from the schema the connection knows, and    *)
(* its first sqlite3_step opens the read transaction and takes the time.   *)
(* If it is SQLITE_BUSY, getAllActiveStations leaves its loop with a       *)
(* warning and an empty list, and getActiveStationInformation returns      *)
(* nullopt.                                                                *)
(***************************************************************************)
Running == {r \in rows : now \in r.start..r.end}

Asked(c) == [call[c] EXCEPT !.t = now, !.seen = Running]

OpenScan(c) ==
    /\ Handler(c, "query") /\ call[c].want # Blank
    /\ ~Blocked(server, TRUE)
    /\ IF lock[server] = "none" THEN Share(server, TRUE)
                                ELSE UNCHANGED <<journal, lock, known>>
    /\ Become(c, [Asked(c) EXCEPT !.at = "scan"])
    /\ UNCHANGED <<file, tables, rows, loaderVars, phase, now>>

(* Mutant: the handler waits, and asks again, until the file is free. *)
WaitForScan(c) == FALSE

ScanBusy(c) ==
    /\ Handler(c, "query") /\ call[c].want # Blank
    /\ Blocked(server, TRUE)
    /\ Become(c, [Asked(c) EXCEPT !.at = "finish", !.mishap = "busy"])
    /\ UNCHANGED <<vars, phase, now>>

(* Mutant: each row is compared with the time at which it is read. *)
RemainingNow(c) ==
    LET h == call[c]
    IN  IF h.want = All THEN Active(rows, now) \ h.got
        ELSE {r \in Active(rows, now) : r.id = h.want /\ h.got = {}}

(***************************************************************************)
(* The rows the statement may still return; LIMIT 1 for a single station.  *)
(***************************************************************************)
Remaining(c) ==
    LET h == call[c]
    IN  IF h.want = All THEN Active(rows, h.t) \ h.got
        ELSE {r \in Active(rows, h.t) : r.id = h.want /\ h.got = {}}

ScanRow(c) ==
    /\ Handler(c, "scan")
    /\ \E r \in Remaining(c) : Become(c, [call[c] EXCEPT !.got = @ \cup {r}])
    /\ UNCHANGED <<vars, phase, now>>

(* Mutant: finalizing one statement drops the connection's lock. *)
FinalizeAll(c) == Release(server)

(* sqlite3_finalize gives SHARED back unless another handler still reads. *)
Finalize(c) ==
    IF \E d \in Call \ {c} : call[d].at = "scan" THEN UNCHANGED lock
                                                 ELSE Release(server)

(* Mutant: the statement is not finalized. *)
ScanEndOpen(c) ==
    /\ Handler(c, "scan")
    /\ Remaining(c) = {}
    /\ Become(c, [call[c] EXCEPT !.at = "finish"])
    /\ UNCHANGED <<fileVars, loaderVars, phase, now>>

ScanEnd(c) ==
    /\ Handler(c, "scan")
    /\ Remaining(c) = {}
    /\ Finalize(c)
    /\ Become(c, [call[c] EXCEPT !.at = "finish"])
    /\ UNCHANGED <<file, tables, rows, journal, known, loaderVars, phase, now>>

(***************************************************************************)
(* sqlite3_step fails on an I/O error, or a row cannot be unpacked for     *)
(* lack of memory.  getAllActiveStations logs it and returns the rows it   *)
(* has; getActiveStationInformation returns nullopt.                       *)
(***************************************************************************)
QueryBreaks(c) ==
    /\ Handler(c, "query") /\ call[c].want # Blank
    /\ Fault
    /\ Become(c, [Asked(c) EXCEPT !.at = "finish", !.mishap = "broken"])
    /\ UNCHANGED <<fileVars, pc, tab, at, warned, erred, phase, now>>

ScanBreaks(c) ==
    /\ Handler(c, "scan")
    /\ call[c].want = All \/ call[c].got = {}
    /\ Fault
    /\ Finalize(c)
    /\ Become(c, [call[c] EXCEPT !.at = "finish", !.mishap = "broken"])
    /\ UNCHANGED <<file, tables, rows, journal, known, pc, tab, at, warned, erred, phase, now>>

(***************************************************************************)
(* The reply: the status is the last one passed to Finish, which           *)
(* overwrites the status waiting in the reactor until gRPC has bound it.   *)
(***************************************************************************)
Finish(c) ==
    /\ Handler(c, "finish")
    /\ Become(c, [call[c] EXCEPT
          !.at = "replied",
          !.status = IF @ = "none" /\ call[c].want # All /\ call[c].got = {}
                     THEN "NOT_FOUND" ELSE "OK"])
    /\ UNCHANGED <<vars, phase, now>>

(***************************************************************************)
(* The query or the conversion to protobuf throws (an allocation fails).   *)
(* GetActiveStation replies UNKNOWN; the catch of GetAllActiveStations     *)
(* passes UNKNOWN to Finish and falls through to Finish(OK), with the      *)
(* stations that had been converted in the response.                       *)
(***************************************************************************)
QueryThrows(c) ==
    /\ \/ Handler(c, "query") /\ call[c].want # Blank
       \/ Handler(c, "finish") /\ call[c].got # {} /\ call[c].status = "none"
    /\ Fault
    /\ \E part \in SUBSET call[c].got :
          /\ call[c].want # All => part = {}
          /\ Become(c, [call[c] EXCEPT
                !.at = IF call[c].want = All THEN "finish" ELSE "replied",
                !.status = "UNKNOWN", !.got = part, !.mishap = "threw"])
    /\ UNCHANGED <<fileVars, pc, tab, at, warned, erred, phase, now>>

EndCall(c) ==
    /\ Handler(c, "replied")
    /\ Become(c, NoCall)
    /\ UNCHANGED <<vars, phase, now>>

Tick ==
    /\ now < MaxTime
    /\ now' = now + 1
    /\ UNCHANGED <<vars, phase, call>>

-----------------------------------------------------------------------------

Answering(c) ==
    \/ RejectArguments(c) \/ OpenScan(c) \/ ScanBusy(c) \/ ScanRow(c) \/ ScanEnd(c)
    \/ Finish(c)

HandlerErrs(c) == QueryBreaks(c) \/ ScanBreaks(c) \/ QueryThrows(c)

StartUp ==
    \/ OpenReadOnly \/ PrepareStationTable \/ StepStationTable
    \/ StartServing \/ GiveUpServing

(***************************************************************************)
(* Loading, by the updater at any time and by the server before it serves. *)
(***************************************************************************)
Load(p) ==
    /\ Run(p) \/ Launch(p) \/ OpenFails(p) \/ CallErrs(p) \/ Crash(p)
          \/ (Exit(p) /\ ~(p = server /\ pc[p] = "done"))
    /\ UNCHANGED serviceVars

ServiceNext ==
    \/ \E p \in Process : Load(p)
    \/ StartUp \/ StartUpErrs \/ Stop \/ ServerCrash
    \/ \E c \in Call : BeginCall(c) \/ Answering(c) \/ HandlerErrs(c) \/ EndCall(c)
    \/ Tick

ServiceSpec == ServiceInit /\ [][ServiceNext]_allVars

-----------------------------------------------------------------------------

HandlerState ==
    [at : {"free", "query", "scan", "finish", "replied"},
     want : Id \cup {All, Blank}, t : 0..MaxTime,
     got : SUBSET Station, seen : SUBSET Station,
     status : {"none", "OK", "NOT_FOUND", "INVALID_ARGUMENT", "UNKNOWN"},
     mishap : {"none", "busy", "broken", "threw"}]

(***************************************************************************)
(* The types, and the connection's lock: SHARED exactly while a statement  *)
(* of the service is open.                                                 *)
(***************************************************************************)
ServiceTypeOK ==
    /\ TypeOK
    /\ phase \in {"load", "prepare", "step", "found", "missing", "serving", "stopped"}
    /\ call \in [Call -> HandlerState]
    /\ now \in 0..MaxTime
    /\ phase # "load" => pc[server] = "done"
    /\ phase = "serving" =>
          (lock[server] = "shared" <=> \E c \in Call : call[c].at = "scan")

(***************************************************************************)
(* A server that serves can always prepare its queries, without touching   *)
(* the file: the station table was there, and is known, before the first   *)
(* request, whatever happened to the file while the server started.        *)
(***************************************************************************)
ServingPrepared ==
    phase = "serving" => "station" \in known[server] /\ "station" \in tables

(***************************************************************************)
(* A server that serves has its region in the file, but for the stations   *)
(* its own load phase logged as failed.                                    *)
(***************************************************************************)
ServesItsBatch ==
    phase = "serving" =>
        \A i \in 1..Len(Batch[server]) :
            Exists(rows, Batch[server][i]) \/ i \in warned[server]

(***************************************************************************)
(* A list reply is a snapshot: unless the file was busy, the scan broke or *)
(* the handler threw, it holds exactly the rows that were active when the  *)
(* statement began, though rows are committed and the clock moves while it *)
(* scans and other handlers end their own statements.                      *)
(***************************************************************************)
SnapshotList ==
    \A c \in Call :
        call[c].want = All /\ call[c].mishap = "none" =>
            /\ call[c].got \subseteq call[c].seen
            /\ call[c].at = "replied" => call[c].got = call[c].seen

(***************************************************************************)
(* A station reply is that station's row, active at the time the statement *)
(* took, and NOT_FOUND from a free file means there was none.              *)
(***************************************************************************)
StationReply ==
    \A c \in Call :
        call[c].at = "replied" /\ call[c].want \in Id /\ call[c].mishap = "none" =>
            LET running == {r \in call[c].seen : r.id = call[c].want}
            IN  /\ call[c].status = "OK" => call[c].got # {} /\ call[c].got \subseteq running
                /\ call[c].status = "NOT_FOUND" => running = {}

(***************************************************************************)
(* No connection is left with a lock: a SHARED that outlives its statement *)
(* would fail every writer from then on.                                   *)
(***************************************************************************)
ReaderReleases ==
    \A p \in Process :
        pc[p] = "done" /\ lock[p] # "none" =>
            p = server /\ phase \in {"found", "missing", "serving"}

(***************************************************************************)
(* Handlers exist only while the server serves, and it found the table     *)
(* before that.                                                            *)
(***************************************************************************)
StartUpOrder ==
    /\ phase # "serving" => \A c \in Call : call[c] = NoCall
    /\ phase = "found" => "station" \in known[server] /\ "station" \in tables

(* The rows handler h was to find. *)
Wanted(h) == IF h.want = All THEN h.seen ELSE {r \in h.seen : r.id = h.want}

(***************************************************************************)
(* A handler without a mishap: while it scans, the table is as it was when *)
(* its statement began; it collects only what it was to find, and behind   *)
(* the scan that is the whole list, or one row if there was any.           *)
(***************************************************************************)
Faithful(h) ==
    /\ h.at = "scan" => h.seen = {r \in rows : h.t \in r.start..r.end}
    /\ h.want # Blank => h.got \subseteq Wanted(h)
    /\ h.at \in {"finish", "replied"} /\ h.want # Blank =>
          /\ h.want = All => h.got = Wanted(h)
          /\ h.got = {} => Wanted(h) = {}
    /\ h.at # "replied" => h.status = "none"
    /\ h.at = "replied" /\ h.want \in Id =>
          h.status = IF h.got = {} THEN "NOT_FOUND" ELSE "OK"

HandlerOK(h) ==
    /\ h.at = "free" => h = NoCall
    /\ h.at = "query" => h.got = {}
    /\ h.at \in {"free", "query", "scan"} => h.mishap = "none"
    /\ h.at \in {"scan", "finish"} => h.want # Blank
    /\ h.mishap = "none" => Faithful(h)

HandlersOK == \A c \in Call : HandlerOK(call[c])

(***************************************************************************)
(* The inductive invariant of the service and the loaders around it.       *)
(***************************************************************************)
ServiceInv ==
    /\ LoadInv
    /\ ServiceTypeOK
    /\ ReaderReleases
    /\ StartUpOrder
    /\ ServingPrepared
    /\ HandlersOK

(***************************************************************************)
(* Every handler comes to its end, unless the server does.                 *)
(***************************************************************************)
CallEnds ==
    \A c \in Call : call[c].at = "query" ~> call[c].at = "free"

(***************************************************************************)
(* A program that loads ends although the service reads the file: readers  *)
(* make its writes fail, they do not make it wait.                         *)
(***************************************************************************)
LoadEnds ==
    \A p \in Process : pc[p] = "check" ~> pc[p] \in {"done", "failed", "idle"}

(***************************************************************************)
(* "Could not find" a station means that it is not running.                *)
(***************************************************************************)
NotFoundMeansNone ==
    \A c \in Call :
        call[c].at = "replied" /\ call[c].status = "NOT_FOUND" =>
            ~\E r \in call[c].seen : r.id = call[c].want

(***************************************************************************)
(* A query that failed on the server is reported as failed.                *)
(***************************************************************************)
FailureReported ==
    \A c \in Call :
        call[c].at = "replied" /\ call[c].mishap = "threw" => call[c].status = "UNKNOWN"
=============================================================================
