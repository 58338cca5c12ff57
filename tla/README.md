# A verification of uMetadata in TLA+

uMetadata keeps the stations of a seismic network in one SQLite file. An
updater fills the file from tables compiled into the program, a gRPC server
fills it too and then answers queries from it, and a client library asks the
server. This directory holds a TLA+ model of that system, the TLC runs that
check it on small instances, and TLAPS proofs for every instance. Line numbers
are those of the modelled commit.

## 1. The system

| Component | State | Operations | Interacts through |
|---|---|---|---|
| `Database` (`src/src/database.cpp`) | one sqlite3 connection, read-write or read-only | constructor (open, create tables), `insert`, two queries, `close` | the database file |
| the file (SQLite, external) | tables, rows, journal, locks | prepare, step, finalize, close | shared by all processes; a lock that is not free is `SQLITE_BUSY` at once, since no busy handler or timeout is set |
| `uMetadataUpdater` (`updater.cpp`) | its position in the batch | open, insert the region, close, exit | the file; nothing in the repository says what starts it, or starts it again |
| `uMetadataServer`, load phase (`server.cpp:274-300`) | the same | the same | the file |
| `uMetadataServer`, service (`server.cpp:56-242`) | a read-only connection, its handlers | `GetAllActiveStations`, `GetActiveStation` | gRPC threads share one connection (`FULLMUTEX`) |
| `Client` (`client.cpp`) | per call: mutex, condition variable, flag, status | `getAllActiveStations` | a callback on gRPC's thread |
| `Station`, `Channel` (`station.cpp`, `channel.cpp`) | a value | setters, getters that throw, protobuf round trip | none |
| both mains up to serving (`server.cpp:244-315,324-457`, `updater.cpp:28-166`) | options, connection flags, key pair | parse, make directories, open, load, close, listen | the file system, which the other program and whoever deploys them change |
| utilities, version, data tables | none | pure functions | none |

What is hard in it:

* **No transaction spans two statements.** `exists()` and the `INSERT` it
  guards are separate; so are "is there a file", "is there a table" and "create
  it". Anything may happen in between, a process's death included.
* **A busy file is read as an answer.** `exists`, `tableExists`, both queries
  and `insertStation` treat every code but the expected one alike: no row, no
  table, not found, a log line.
* **Deaths and errors.** A process may die between any two calls, and any call
  may fail on an input/output error, a full disk or a lack of memory. A file can
  be left without tables, a journal hot; the read-only server cannot roll a
  journal back; a SELECT that fails says "no such row", an INSERT that fails is a
  log line.
* **One connection, several handlers.** SHARED is held while any handler's
  statement is open, and each handler is a snapshot only because of that.
* **Looking before acting.** Directory, database, `.ini`, key and certificate
  are looked for first and used later; both programs and others act in between.
* **Stack-allocated synchronisation** in the client: a callback on another
  thread refers to locals of a function that returns when the callback says so.

What makes each part correct, in short: the file never holds two rows of a key
or a row without its table; a station enters only if nothing was seen to cover it; none is
dropped without a log line; success means stored; every run ends; a server
serves only from a prepared file with its region; a reply is a snapshot and
about the station asked for; failures are reported as failures; the client
neither hangs nor reads too early nor returns too early; a program works with
the options it was given and closes what it opened, once. `PROJECT.json` lists
the hazards behind these at their lines.

## 2. The modules

    StationTable <- SqliteFile <- MetadataLoader <- StationService <- EndToEnd -> ClientCall
                                        |                                |
                                   StationStore                     StationQuery      (implemented)

`StationTable` has the rows and their predicates, `SqliteFile` the external
library, `MetadataLoader` the loading programs, `StationService` the server
beside the updater, `ClientCall` the client's hand-over, `EndToEnd` all of them
together. `StationStore` and `StationQuery` are the abstract specifications:
what the loaders promise of the file, and what the system promises a caller.
Three modules stand alone: `MetadataObject`, the value classes, whose content the
others treat as opaque; `Launch`, the mains up to the point where the others
begin; `Version`. `MC*` give the instances, `*_proofs` the theorems.

**StationTable.** A station is a record `[id, start, end, info]`: `id` stands
for the normalised network and name, `info` for what is only stored.
`Exists`, `KeyTaken`, `Insertable`, `Active` are the SQL of `exists`, the
`UNIQUE` clause, the constraints of `CREATE TABLE station`, and the two
queries. `Unkeyed` and `Unlocated` are stations whose getters throw, before and
after the `exists` test; `Unstorable` those with a NaN coordinate, which pass
the setters' range tests and which SQLite binds as NULL.

**SqliteFile** models what the code observes of SQLite in rollback-journal
mode: none/SHARED/RESERVED/EXCLUSIVE per connection, the schema a connection
keeps (a prepare of a table it knows does not touch the file), and a journal
left hot by a writer that died. `lock` and `known` belong to connections,
`file`, `tables`, `rows`, `journal` to the disk.

**MetadataLoader.** One thread per process. `pc` follows `Database`'s
constructor and `insert(vector)`:

    idle -Launch-> check -CheckFile-> open | create
    open   -OpenReadWrite->                      prepare (inserting)
    create -OpenCreateReadWrite->                prepare (creating)
    prepare -PrepareTableExists/PrepareExists->  step      (or failed, or the next table)
    step    -StepTableExists/StepExists->        present | absent
    present -SkipExisting->                      prepare (next item)
    absent  -PrepareWrite->                      share     (or failed)
    share -WriteShare-> reserve -WriteReserve-> promote -WriteExclusive-> commit
    commit -WriteCommit->                        prepare (next item)
    share, reserve, promote -GiveUpWrite->       prepare (next item; a warning when inserting)
    prepare -Close-> done -Exit-> idle;  failed -Exit-> idle;  anywhere -Crash-> idle
    check, open, create -OpenFails->             failed
    prepare, absent -PrepareErrs->               failed (the next table when creating)
    step -CountErrs->                            absent
    share, reserve, promote, commit -WriteErrs-> prepare (next item; a warning when inserting)

`tab` is the table being created (3 when inserting), `at` the position in the
batch, `warned` the positions logged as "Failed to insert", `erred` those whose
SELECT or INSERT met an error of the system. `erred` is history: no guard reads it,
and only what is said of a loader by itself (below) refers to it. The last four
lines are those errors: of prepares and binds, which throw, of `exists()` and
`tableExists()`, which then answer "no", and of the write at whatever stage it has
reached, which is given up and rolled back or leaves its journal hot
(`JournalsAfterError`). `sqlite3_step` of a
write takes four actions because other connections act between its lock levels.
A file that exists is opened without a look at its tables, as in the
constructor. Failing to parse options, in `Launch`, is here the same as not being launched.

**StationService** adds the server's life after its load phase (`phase`:
prepare, step, found or missing, serving, stopped), the handlers (`call[c]`:
query, scan, finish, replied) and a clock. A handler's first `sqlite3_step`
takes the time and SHARED, each further one returns a row, `sqlite3_finalize`
gives SHARED back unless another statement of the connection is open. `seen`
and `mishap` are history for the properties. `StartUpErrs` are the errors of the
system on the way to serving; `QueryBreaks` and `ScanBreaks` those of a handler's
`sqlite3_step`, which end a list early and make a single station "not found";
`QueryThrows` those that throw, the conversion to protobuf included, which leaves
the stations converted so far in a list's response. `Finish` and `QueryThrows` keep
the double `Finish` of `server.cpp:121,128`: before gRPC has bound the reactor,
which it has not inside the reactor's constructor, the second call overwrites
the status of the first.

**ClientCall** follows the caller (`lock`, `test`, `wait`, `waiting`, `read`)
and the callback (`assign`, `acquire`, `set`, `notify`, `unlock`) over one
mutex, condition variable, flag and status per calling thread; `frame` says
that these are alive. Wake-ups may be spurious.

**EndToEnd.** Thread t's request is handled in slot t of the server's `call`.
`Arrive` is gRPC's delivery to a server that serves, `Reply` that of the reply
(which ends the handler and completes the client's call in one step: nothing
else can see it on its way), `Unavailable` the end of a call whose server is not
there or has died; `ClientContext` sets neither a deadline nor
`wait_for_ready`. `basis` records the rows a reply was taken from. Under the
refinement, `StationQuery`'s `Look` is the first step of the handler's
statement, `Lose` any mishap after it, `Return` the caller's return: an answer
that is neither an exception nor, but for such a mishap, the stations active at
one moment of the call is a step `StationQuery` does not have.

**Launch.** One `pc` per program, at the labels of its `main`:

    idle -StartWithIni/StartOtherwise-> parse (or exited: --help, or failed)
    parse -LookForIni->                 read | database (defaults)
    read -ReadIni->                     server: key? | database;  updater: parent
    key? -LookForKey-> certificate? -LookForCertificate-> database
    parent -LookForDirectory-> make -MakeDirectory->      database
    database -LookForDatabase->         open | directory
    directory -LookForDirectory-> create directory -MakeDirectory-> create
    open | create -OpenReadWrite/OpenCreateReadWrite->    load
    load -Load-> close -CloseDatabase-> leave -LeaveDatabase-> exited | readonly (server)
    readonly -OpenReadOnly-> table -FindTable-> secure? -ChooseCredentials-> key | build
    key -LoadString-> certificate -LoadString-> build -BuildAndStart-> listening

and from most of them to `failed`, where `main` has caught an exception, or to
`dead`, where the process is gone without its destructors: killed, dead of
`BuildAndStart`'s null pointer, or (with the same effect) ended by a table query
that throws in the read-only constructor, of which no destructor runs. A program
may be started again from each. `ClosedOnce` wants the connection closed on every
way out but `dead`.
`conn` has the handle and the flag of `DatabaseImpl`: `close()` tests the flags
and leaves the handle. `present` is the set of paths that exist; `Change` is
what others do to those in `Loose`. `loadStringFromFile` is three actions since
it looks and opens separately: a file that exists yields an empty string, one
that did not at the look is opened, which succeeds if it has come meanwhile.
What an insert does is `MetadataLoader`'s; here the load phase succeeds or throws.

**Version** has `isAtLeast` and the order it decides.

**MetadataObject** is one `Station` or `Channel` (`kind`): its setters in any
order, the constructors from a protobuf message (`Receive`), a row of the
compiled-in tables (`FromTable`: `toStation` and `toChannel`), and, as operators,
its way into a row and out (`Storable`, `Unpacked`) and onto the wire
(`Message`, `Parsed`). Fields treated alike are one: `name` for the strings
that are normalised, `latitude` for the numbers with a range. `LonTo180` is
what the loops of `lonTo180` compute, `RoundToSeconds` the `std::round` of the
constructors from protobuf, `TimeRead` the trip of `last_modified` through a
double of seconds: `floor(1e6 * (us * 1e-6))` loses nothing or one microsecond,
and nothing of whole and half seconds. A throwing setter leaves the object
alone and is no step; a refused message leaves no object. The build without
asserts is modelled; with them `lonTo180` aborts on a NaN.

## 3. The runs

| Run | Question | Result |
|---|---|---|
| `loader_alone` | one loader with deaths and failing calls: but for stations that met an error, does success mean stored, is only what is absent inserted (with the invariant behind both); does relaunching finish the job | holds |
| `loader_contention` | two loaders of two releases of a region, each with a half-filled station, one fault: inductive invariant, atomic store, end of every run | holds |
| `service` | server and updater, two handlers on one connection, one fault: what a serving server relies on, what its replies hold, the inductive invariant | holds |
| `end_to_end` | client, server, updater, one fault: the promise of `StationQuery`, the hand-over in the client, the inductive invariant, and that calls, handlers and loads end | holds |
| `object` | a Station or Channel filled by setters, tables and messages: ranges, row and wire round trips | holds |
| `launch` | both mains while others move the key, the certificate and the directory, one fault: connections, options, credentials, coming up | holds |
| `loader_lost` | success means stored, with two loaders | **violated** |
| `loader_stuck` | relaunching always finishes the job | **violated** |
| `loader_epochs` | "already exists" means an overlapping epoch | **violated** |
| `service_busy` | NOT_FOUND is the truth beside a writer | **violated** |
| `service_error` | a failed list query is reported | **violated** |
| `launch_tls` | a server told to use TLS builds its credentials from the files | **violated** |

The violations are disagreements of the code with its own messages, help text,
tests or protocol comments; `PROJECT.json` quotes each. In short: (a) a busy
file loses an INSERT and the run still succeeds; (b) a death between the
creation of the file and of its table is never repaired; (c) the epoch test of
`exists()` amounts to "a row of the station starts at or after the new one", so
overlapping later epochs are inserted and disjoint earlier ones are skipped;
(d) a running station is NOT_FOUND while another process commits; (e) a query
that throws is answered OK; (f) `loadStringFromFile`
returns an empty string for a file that exists, so a server told to use TLS never
listens (unless its files come just in time). No run is spent on a seventh that
the model shows as plainly: `setLocationCode` (`channel.cpp:166`) assigns the
documented "--" of a blank location code to a local variable only (`Coded`), and
a channel received without a code cannot be sent on. The compiled-in regions have one epoch a station
(214 and 55 stations, none in both), so (c) does not show with today's data;
that is also the assumption `SingleEpoch` of the refinement. The library accepts
any data, hence `StoreRefined` is run with revisions of an epoch (same key, other
end) and `InsertIfSeenAbsent` in `loader_alone` with several epochs.

`SuccessMeansStored`, `AloneInv` and `InsertIfSeenAbsent` excuse the stations in
`erred`, and must: an INSERT that ends in `SQLITE_FULL` or `SQLITE_IOERR` is only
logged (`database.cpp:611`) and `main` returns EXIT_SUCCESS; `exists()` answers false
on any error (`database.cpp:266-275`), and what is inserted then may be covered by a row
of another epoch. Every other station is held to the full promise, those after the
error in the same batch included, and `ReadyThenLoaded` excuses none: after the
last fault the next run stores what an error lost. `loader_lost` has no fault at all,
so that nothing is excused there.

**Bounds.** Two processes: every hazard of the loader is a race between one
step of a process and the steps of one other; a third adds another of the same.
The proofs do not have this bound. Batches of three or four stations over seven
values: two epochs of a station, a revision of one, a second station, a
NaN, one without a key, one without a position. (In `loader_contention` one
half-filled station is in the middle of its batch, with a station behind it that is
never tried, the other at the end, so both programs end in EXIT_FAILURE there;
`service` and `loader_lost` have two programs that end well.) `MaxFaults` counts deaths
(`Crash`, `ServerCrash`), opens that fail (`OpenFails`, `StartUpErrs`) and calls that meet an
error of the system (`CallErrs`, `StartUpErrs`, `HandlerErrs`); a lock that is not free or a
constraint that refuses is no fault and not bounded. It is 3 alone, 1 in
company: enough for a death in each lock state followed by recovery by the
other or by a relaunch. `Call` has two handlers in `service`, one in `end_to_end`, whose single
caller (threads of a client share nothing but the channel) may call again and again;
`MaxTime` is 1: station
A ends and B begins at 1, so both boundaries and the change between them occur
while a scan is open. `end_to_end` starts where the server's load phase has stored
its region and the updater has not run: a state `service` reaches from an empty
file, so that the larger composition need not repeat the way there; deaths of the
server lead back to the load phase. `object` has a turn of six
degrees and a second of ten microseconds, which keep every case of the
arithmetic apart (both ends of the half-open range, several turns, halves of a
second of either sign, a microsecond lost), strings in two spellings, blank
ones, five messages, three of them refused, and two rows of a table. `launch` has both
programs, one database in a directory that may be missing, three contents of the
server's `.ini` (key only, key and certificate, malformed), three changes by others,
each of any number of files (a file that goes, comes and goes again around a look)
and one fault. Handlers are interchangeable; symmetry is used only where
no liveness is checked. `CHECK_DEADLOCK FALSE` only in the loader runs and the two service
violations: programs that have ended need not be launched again.

**Fairness.** `FairSpec`: a thread whose next call cannot block is scheduled
(weak fairness of `Run` and `Exit`); no call of `Database` waits for a lock.
`RestartSpec` adds that an ended program is launched again. That is an assumption on
the environment: nothing in the repository, its scripts included, does it, and
`ReadyThenLoaded` and `EventuallyLoaded` are about a deployment that does; the second
is refuted in spite of it. `FairEndToEndSpec`: threads run on both sides (weak
fairness of the loaders, the server's start, each handler, the caller and the
callback), gRPC does its part (weak fairness of `Transport`: a request reaches
the server or fails, a reply is brought, a dead process is noticed), and the
callback's lock gets strong fairness, since a mutex released again and again is
not withheld for ever. `FairLaunchSpec`: each main is scheduled and, the same
assumption, started again with its `.ini`. Nothing obliges a client to call, a fault to happen, a
spurious wake-up to come or others to change a file; `ComesUp` asks for a
program to come up only if its `.ini` stays in place from some time on.

## 4. The proofs

TLAPS checks all of them; no step is left open. Assumptions: `StationAssumption`
(`setStartAndEndTime` throws unless start < end), `LoaderAssumption` (batches
are sequences of stations), `ServiceAssumption` (the server is one of the processes),
`EndToEndAssumption` (a call has a slot; lists are sets of stations and no list is a
failure; the table takes every station of the server's region, as it does the two of
`src/data`), `ObjectAssumption` (normalising a string twice is
normalising it once, a second and a turn have a length, `Unset` and NaN are not
values, the tables' time stamps are whole seconds), `LaunchAssumption` (paths and
contents have their types). `Process`, `Program`, `Station`, `Thread`, `Call`, `File`, the
batches and the number of faults and changes are arbitrary. Two hypotheses are named
where they are used: `SingleEpoch` (no station
has two epochs: true of `src/data`; without it a second INSERT of an overlapping epoch
can pass between the `exists()` and the INSERT of a first) and `Alone` (one
process: without it `loader_lost`).

* `MetadataLoader_proofs`: `InvariantHolds`, `Spec => []IInv`. None of
  `StoreConsistent`, `CheckedAtCommit`, `SettledOrWarned` is inductive alone.
  What a writer checked stays true until it commits because it holds RESERVED
  or EXCLUSIVE (`LockDiscipline`, tying `lock` to `pc`), because at most one
  process does (`LockExclusion`), and because only such a process commits. A
  commit is to an existing table because the connection knew the table
  (`SchemaKnown`) and tables are never dropped. "Already exists" leads past a
  station that a row covers (`PresentSettled`), and rows are never deleted
  (`ExistsGrows`). Half-filled stations stay out since a thread that inserts has
  read key and position (`GettersPassed`). `OthersStay`, `RowsStay` and
  `ConnectionsStay` say once what an action leaves alone. `IInv` is in two parts:
  `LoadInv` admits a process that is done loading and holds SHARED, so that it
  can be used for the server; `DoneReleased` adds that a plain loader holds nothing.
* `InsertsOnlyTheAbsent`, with `SingleEpoch`: a covering row then has the very key
  the `UNIQUE` clause excludes under RESERVED, whatever `exists()` answered, an error
  included.
* `AloneInvariantHolds`, `AloneSuccessMeansStored`, `AloneInsertsOnlyTheAbsent`, with
  `Alone` and any epochs: no lock is ever busy, so a write fails only if the
  constraints refuse it or a call meets an error, which puts the station into `erred`;
  of the others, what is not covered at the look is not covered at the INSERT
  (`AloneInv`), hence not taken by key either (`KeyTakenExists`), hence refused only if
  `Unstorable`.
* `LoaderImplementsStore`: with `SingleEpoch`, `Spec => StoreRefined`. A commit
  of a row is `InsertStation` since under that assumption a covering row has
  the same key (`SingleEpochKeys`), which the `UNIQUE` clause has just excluded
  under RESERVED; the creation of the file and of the station table are the
  store's two other steps; everything else stutters.
* `StationService_proofs`: `ServiceInv` is inductive, and from it all properties
  of the run `service`, for any number of handlers and loaders. Every action of the service is,
  for the loading, a step of a process that is done and reads (`ReaderStep`,
  `ReaderIdle`), so `LoadInv` stays; every step of a loader leaves the connection
  of the server alone. A list is a snapshot because the connection holds SHARED
  exactly while some handler scans (`ServiceTypeOK`), and while it does nobody
  commits (`SharedStillsTable`, from `LockExclusion`): each scanning handler's
  `seen` remains what the table holds for its time (`Faithful`). `ServesItsBatch`
  follows from `SettledOrWarned` and `DoneMeansThrough`. `ServiceImplementsStore` extends the
  refinement of the store to the whole system at the file.
* `EndToEnd_proofs`: the composition. Its steps are steps of its parts
  (`ServerSideSteps`, `ClientSideSteps`), which gives `ClientIsAsSpecified`
  (`EndToEndSpec => ClientSpec`) and two thirds of `EndToEndInv`; the third,
  `JoinInv`, ties a thread's callback, its handler and what is on its way between
  them. `CallsKeepThePromise`, `EndToEndSpec => QueryKept`: a handler's step is
  `Look` or `Lose` (`HandlerLooks`: what it has seen only shrinks but for the moment it
  asks), the end of the server is `Lose`, a commit or a tick is `Change`, a reply moves the basis from
  the handler to the client (`BetweenRefines`), and the caller returns it since
  the status it reads is the one the callback was given.
* `StationTable_proofs`: the `WHERE` clause of `exists` reduces to one
  comparison; what `UNIQUE` refuses, `exists` would have found.
* `ClientCall_proofs`: the mutex ties caller and callback together (`holder` is
  a function of where they are); from it the lifetime of the frame, the
  visibility of the status and the absence of lost wake-ups.
* `Launch_proofs`: `LaunchInv` says which connection a program has at which
  label, and that it is closed where `main` has ended, which makes `ClosedOnce` follow
  from the code of `close()`; one lemma
  per way of opening, closing and failing, which the actions share. `DoneAsTold`:
  if no `.ini` file is in `Loose`, `AsTold` holds, by a second invariant (`Obeys`)
  about what a program has taken over at which label. The assumption is needed:
  a file that goes between `parseCommandLineOptions` and `parseIniFile` leaves the
  program on its default database.
* `Version`: `isAtLeast` against the order of versions, for all numbers.
* `MetadataObject_proofs`: `InvariantHolds`, for `IInv` (the types, and what makes the
  round trips follow: unset fields of the other class, whole seconds from tables and
  messages), and from it all four properties of the run, for any numbers and strings. They rest on lemmas about the arithmetic: `LonTo180Range`
  and `LonTo180Fixes`, `RoundNear` (whole seconds, at most half a second away)
  and `RoundFixes`.

Only model-checked: all liveness (`RunEnds`, `ReadyThenLoaded`, `CallEnds`,
`LoadEnds`, `ClientReturns`, `ComesUp`), which with `ENABLED` is out of the
prover's reach. Every invariant and every other property of a passing run is
stated by a theorem, or is a part of an invariant that is. The violated ones are
of course not provable; `SuccessMeansStored` is proved under the hypothesis that its
counterexample lacks.

## 5. Not modelled, and what comes next

Not modelled: SQLite's pages, cache and PENDING (the last is folded into the
attempt to get EXCLUSIVE: a writer that fails there releases at once, so
readers are never kept out by it); the moment the file is opened versus the
inode it has (no program deletes the database); hosts and networks that go
silently; reflection, health checks and `OnCancel`, which only logs; the channel
RPCs, which are declared and not implemented; the rows of the data tables, which
are constants; options that choose no step (names, verbosity, region, host, port:
values that do not parse fall back to their defaults, as in `ptree::get` with a
default); the `int` product in `lonTo180`, whose overflow needs a longitude of
millions of turns, or an infinite one; `getNow` and strings of the version.

What is left: `MetadataObject` models `lonTo180` by what its loops compute; a
model of the loops with a counter of bounded width, proved to compute `LonTo180`
as long as the product does not overflow, would close the hazard at
`utilities.hpp:44`. And `Launch` and `MetadataLoader` meet only in this text:
`Launch`'s `Load` stands for a whole run of the other.
