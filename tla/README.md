# A TLA+ specification of the SNMP subagent

The SNMP subagent lets applications answer SNMP queries over HTTP.  An
application registers with a PUT; the subagent registers the application's base
oid at the SNMP master over AgentX, stores it in SQLite, and translates every
query below that base oid into a GET of one of the application's URLs.  This
directory holds a specification of that service in TLA+, the configurations
that check it with TLC on small instances, and proofs that TLAPS checks for all
instances.

Paths are relative to `src/`.  `PROJECT.json` maps every definition to the lines
it models, and lists the runs, the seeded faults, the hazards and the theorems.

## The system

| Component | State | Operations | Talks to |
|---|---|---|---|
| `SNMPSubagent` (`snmp_subagent/snmp_subagent.go`, `main.go`) | the map `applications`, the mutex `m` | `Initialize`, `Register`, `appRegister`, `Unregister`, the PUT and DELETE handlers | the database, AgentX, `Application` |
| Database (`snmp_subagent/database.go`) | tables `applications` and `oids`, the package variable `db` | `initDB`, `loadFromDB`, `saveApplication`, `deleteApplication` | SQLite; reads `Application.oids` |
| `Application` (`snmp_subagent/application.go`) | the map `oids`, the mutex `m`, the SNMP handler, the goroutine `rediscover` | `NewApplication`, `discover`, `rediscover`, `stopRediscover`, `Get` | the application's HTTP server; called by the AgentX session |
| AgentX client and SNMP master (external) | a client and a session per application; the registrations | open, session, register, unregister, close | the subagent |
| Value conversion (`processOidResponse`, `oid_data.go`) | the type of an oid, its name in the database | JSON value and SNMP type to Go value; type to name and back | called by `Get`, `NewOIDData`, `loadFromDB`, `saveApplication` |
| Configuration, logging (`commons/`, `config.go`, `logger.go`) | the configuration, the appenders | `LoadConfig`, `validateLogging`, `ResetLogging` | files |
| `commons/` as a library | | `StartSubAgent`, `OIDLessThan`, `OIDGreaterThan`, `OIDSorter` | the monitors |
| cpnr monitor (`monitors/cpnr`) | `StatsManager`: the statistics, their time, a mutex; `StatsSNMPHandler`: a table, its sorted oids, its time | `Run`, `Execute` every 60 s, `Load`, `Stats`, `LastUpdated`; `Get`, `GetNext`, `update` | `nrcmd` in a shell, AgentX |
| php-fpm monitor (`monitors/php-fpm`) | the same, but one map that `Load` writes in place | the same | `curl`, AgentX |

**Interaction.**  gin runs every HTTP request in a goroutine of its own.
`Register` takes `SNMPSubagent.m` three or four times: to look the base oid up,
to unregister what it found, to create and register the new application, to
save it.  Between these sections other requests run.  The AgentX calls, the SQL
statements and the first discovery happen with `m` held.  From the moment a
session is registered its queries call `Application.Get` from other goroutines,
without a lock; `rediscover` replaces the oids periodically, with
`Application.m` held, and `saveApplication` reads them without it.

A monitor is a program of its own.  `main` runs the command once, registers the
monitor's base oid and leaves a goroutine that runs the command at every tick.
The AgentX session calls `Get` and `GetNext`, which build a table from what the
manager has loaded last.  The manager's mutex is all that is between them.

**What is hard.**  Check-then-act over released locks; six error returns in
`appRegister` and five in `Unregister`, each leaving a different partial state;
a database without transactions and a process that may die between two
statements; a Go map shared by three kinds of goroutines; a stop signal that
nobody may be waiting for.  In the monitors: three ages (of the statistics, of
the table, of the tick), each read at another moment; commands that fail or
hang; rows numbered in one order, sorted in another and searched with a third
comparison.  `PROJECT.json` lists the hazards, each at its line.

**What makes it correct.**

* `SNMPSubagent`: the map and the master agree; a base oid has one owner; what
  was accepted has its own row stored (which the code keeps but for the late save
  of a PUT that has been replaced); what is forgotten is served by nobody; a rejected
  registration serves nothing; every request ends.
* Database: a restart restores what is stored; the two tables agree.
* `Application`: the handler and the map list the same oids; a query sees one
  discovery's oids; discoveries do not overlap; a stop returns.
* Value conversion: a value in range is answered as its type holds it, one out
  of range is refused.  The code keeps this but for three inputs, which the
  property names: a `Counter64` number that `float64` rounds to 2^64, a
  `TimeTicks` number of seconds that wraps, and an IPv6 address.
* Configuration: a file that is accepted gives a logger that can be used.
* Monitors: GETNEXT answers the least oid of the range it is asked for, so a
  walk visits every row once, in order; a table shows
  one listing, complete; what is answered is not older than the two limits
  together; a loader that works is never refused; a command that hangs delays
  no query, and no failure stops the loader.

## The modules

| Module | Models | Extends |
|---|---|---|
| `Params` | the sets all modules share: handlers, base oids, oids, forms, rows | |
| `Database` | the two tables and each SQL statement | `Params` |
| `AgentX` | the AgentX client and the master, external | `Params` |
| `SnmpSubagent` | the service: boot, handlers, crashes, rediscovery | `Database`, `AgentX` |
| `Registry` | what the service promises, without its goroutines, locks and files | `Params` |
| `Rediscovery` | what discoveries and rediscoveries promise: whole replacements of the oids, a loop that goes round until a stop finds it parked | |
| `SnmpSubagentProperties` | the properties, the refinement mappings to `Registry` and `Rediscovery`, the inductive invariants | `SnmpSubagent` |
| `SnmpSubagentProofs` | theorems about the service, whatever fails | `SnmpSubagentProperties` |
| `ServiceProofs` | theorems about the service while calls do not fail, and the refinement of `Rediscovery` | `SnmpSubagentProofs` |
| `ProgressProofs` | theorems about what may keep a request from its end | `ServiceProofs` |
| `Application` | one application: discovery, rediscovery, stop and concurrent queries, one step per access to shared state | |
| `ApplicationProofs` | theorems about it | `Application` |
| `OidValue` | the value `Get` answers for one oid: types, names of types, conversion of JSON values | |
| `OidValueProofs` | theorems about it | `OidValue` |
| `Commons` | how a monitor starts: configuration, logging, registration | |
| `OidOrder` | the comparisons of oids, `sort.Sort`, the search of `GetNext`, the order of keys as strings | |
| `OidOrderProofs` | theorems about the order of oids and the search | `OidOrder` |
| `KeyOrderProofs` | theorems about numerals and their order as keys | `OidOrderProofs` |
| `StatsManager` | what the two managers share: `Run`, `Execute`, the ticker, the mutex | `Commons` |
| `StatsHandler` | what the two SNMP handlers share: `update`, `Get`, `GetNext` | `StatsManager`, `OidOrder` |
| `Snapshot` | what a monitor promises of the rows it shows, without its mutex, its commands and the places of a query | |
| `CpnrStats`, `PhpFpmStats` | `Load` and the tables of either monitor | `StatsHandler` |
| `Monitors` | either monitor with its queries and time; the properties, the refinement mapping to `Snapshot` and the inductive invariant | `CpnrStats`, `PhpFpmStats` |
| `MonitorsProofs` | theorems about the monitors | `Monitors`, `KeyOrderProofs` |
| `MCSnmpSubagent`, `MCApplication`, `MCOidValue`, `MCMonitors` | the instances TLC checks | |

### SnmpSubagent

The state is that of the program: `applications` and `m` of `SNMPSubagent`;
`form`, `oids` and `loop` (where `rediscover` is) of each `Application`;
`dbOpen`, `dbApps` and `dbOids` of the database; `conn` and `master` outside.
For every goroutine `pc` names its next call, `op` and `base` are its
parameters, and `reply` is the status it answered.  `todo` is what `Initialize`
has still to restore, `rows` what `saveApplication` has still to insert.

A step is one call that another goroutine, the master or a crash can come in
between: an AgentX call, an SQL statement, a discovery, or a section of code
under `m`.  So `Unregister` is `UnregisterEnter`, `Stop`, `UnregisterSession`,
`CloseSession`, `CloseClient` (which also deletes the map entry), `DeleteApp`
and `DeleteOids`; `appRegister` is `Lookup`, `Create`, `OpenClient`,
`OpenSession`, `RegisterSession` (which also inserts the map entry) and
`Discover` (which also starts the loop); `saveApplication` is `Save`,
`InsertApp`, `ClearOids`, one `InsertOid` per row and `SaveDone`.  Each action
has a disjunct for its error, with what the code does then: `GiveUp` keeps the
application in the map, `RegisterFails` leaves the client open, `SaveFails`
answers 400 to a registered application, `PanicOnNilDb` is the panic that
`gin.Recovery` turns into a 500 while the deferred `Unlock` runs.

`Start` opens the database, or fails to and serves all the same, because `main`
ignores the error of `Initialize`.  `loadFromDB` does not ask `rows.Err()`, so
where statements may fail it may also return a part of the applications, or an
application with a part of its oids (`LoadedOids`), and no error.  `Crash` may
happen anywhere, `MapRace` is the Go runtime noticing a concurrent read and
write of `Application.oids` while `saveApplication` ranges over it, with the old
oid rows gone and any of the new ones there; both keep the tables and lose
everything else.

An `Application` is named by the handler that creates it, or by its base oid if
`Initialize` does: a request creates at most one.  A form keeps what the code
branches on: the name, whether there is a discovery URL and a positive interval,
and the oids the SNMP handler accepts.

`Application` looks closer at what this module takes in one step: a discovery
unregisters all oids, makes a new map and fills it oid by oid while queries
copy, look up and fetch.  Maps are references (`maps` holds the contents,
`current` the reference in `Application.oids`), because `RemoveAllOids`
replaces the map and a query keeps the one its value receiver copied.

### OidValue

`OidValue` follows one oid from its registration (`NewOIDData`) over saves and
restarts, which store its type by name, and through any sequence of queries.
A body is abstracted to what the code branches on: a numeral in a string, with
or without a sign, an oid, an address, another string, a number, something else,
or nothing at the jsonpath.  `Converted` has one line per SNMP type; where it is
empty the code returns an error and `Get` answers nil.

The widths are constants, so the wrap of a product and the rounding of a bound
are in the model: `encoding/json` decodes numbers to `float64`, `Float` says to
which integer, and a comparison with `math.MaxUint64` compares with 2^64.  A
conversion that Go leaves to the implementation is a choice of what amd64 and
arm64 give.

### Monitors

The managers and the handlers of the two monitors are copies of each other but
for `Load` and the table, so one module models what they share and `program` says
which of the two runs.  `process` is where `main` is; `logging`, `left` and
`nilBackend` are the loops over the map of appenders, in whatever order Go visits
it.  `loader` is where the goroutine of `Execute` is ("command" while the command
runs, "lock" where it waits for the mutex), `query` where the query is: `update`
reads `LastUpdated` and `Stats` in two sections ("age" and "take"), and checks
the age between them ("stats"), so a load may come in before or after the check
and time may pass on either side of it.  `loader` is "return" once `Load` has let
go of the mutex and before `Execute` has returned.

Times are ages.  `statsAge` is the age of the statistics, `rowsAge` that of
what `update` has read, `cacheAge` that of the table, `sinceTick` the time
since the last tick; `Elapse` is one unit of time for all of them, and may come
between any two steps.  There is one limit to it: `Run` makes its ticker after
the first load has stamped its statistics, and `Delay` bounds the time between
the two (`TickerInTime`).  `pending` is the one tick that the ticker's channel
holds; one that finds it full is dropped.  An age stops at `Oldest + Cache`,
behind which nothing depends on it.

`cpnr`: a listing is a sequence of servers, its map is keyed by the numbers of
the lines, as strings, and the rows of the table follow the order of these
strings. A load makes a new map.  `php-fpm`: a load writes its fields into the
entry of the map that a query may be reading, so `Visible` gives a query the
old or the new value of each, and `MapRace` is the runtime noticing.  As in
`getOIDValue`, a column with an enum knows its words only, any other text is 255,
a number is cut to the width of its type, seconds are multiplied by `time.Second`
and wrap, and a counter that is no numeral is nil.

`OidOrder` is pure.  An oid is the sequence of its numbers below the monitor's
base oid.  `OIDLessThan` and `OIDGreaterThan` are two loops in the code and two
definitions here; that one is the converse of the other is a theorem.  `SortKeys`
uses the same order on the digits of the keys: that is what `sort.Strings` does
to numerals.

### Assumptions about what is not in the repository

* An AgentX call or SQL statement that returns an error has had no effect.
* Unregistering a session that is not registered fails.
* `MasterRejectsDuplicates`: the master refuses a second registration of a base
  oid with the same priority (RFC 2741 asks for it).  It is a constant; the
  properties that need it say so.
* When the process dies its connections close and the master drops its
  registrations.
* A registration lasts until then: the client's automatic reconnection after a
  restart of the master is not modelled.
* go-agentx reads the queries of a session one by one, so `Get` and `GetNext` of a
  monitor, which share their table without a lock, never overlap.
* A monitor starts its ticker within `Delay` of its first load, and `Interval`
  and `Delay` together are no longer than `Oldest`: 60 s and a moment against
  90 s.  Only `RefusedOnlyWhenLate` rests on it.
* A failing `nrcmd` prints nothing and is no error, since the pipeline it starts
  ends with the status of `awk`; the last stage of the pipeline may fail.

## The properties

Safety: `Mutex`, `OneOwner`, `AcceptedIsDurable`, `ForgetOnlyDetached`,
`RetiredIsClosed`, `MapIsMaster`, `RejectedIsNotServed`, `NoOrphanOids`,
`BootRestoresStored`, `OnlyAdvances`, `WaitsAreKnown`, `NobodyStuck`; in
`Application`, `HandlerMatchesOids` and `SnapshotsAreStable`; in `OidValue`,
`KeptOrRefused`, `NeverRunsBack` and `RestartKeepsType`; in `Monitors`,
`NeverPanics`, `FreshRows`, `RefusedOnlyWhenLate`, `ShowsOneListing` and
`WalkSkipsNothing`.  Liveness: `EveryRequestAnswered`,
`BootFinishes`, `GetAnswered`, `StopReturns`, `QueryAnswered`, `KeepsLoading`,
`BootEnds`.  Refinement: `RefinesRegistry`, `RefinesRediscovery`,
`ServiceRefinesRediscovery` and `RefinesSnapshot`.  Each is stated in words where it is defined.

Three of them are the part of `EveryRequestAnswered` and `BootFinishes` that
needs no fairness.  `OnlyAdvances`: no step, of the goroutine or of another,
takes a request back to a place it has passed, so it ends after at most as many
steps of its own as there are places and rows to insert.  `WaitsAreKnown`: what
can keep a goroutine from its next step is `SNMPSubagent.m` before a `Lock`, or
a discovery that holds `Application.m`, and nothing else.  `NobodyStuck`: a
goroutine that cannot step waits for a discovery, or for the holder of `m`, and
that holder can step or waits for a discovery; nobody waits in a circle.

`AcceptedIsDurable` compares what is stored with the Application in the map: the
row must be the one `saveApplication` writes for it (`RowOf`), and, unless it is
rediscovered or was restored, the oid rows must be its oids.  There is one
exception, and the code has it: `Register` lets go of `m` between `appRegister`
and `saveApplication`, so the save of a PUT can come after another PUT has
replaced its application and was answered 202.  The property names the state
this leaves (`Overwritten`: the row is the one of another registered PUT for the
base oid), and so says that a DELETE, a failed statement, a crash or an old
oid row never does such a thing.

`KeptOrRefused` says for every type and every kind of value which answer is
given: the value as the type holds it, or nil.  It excepts three inputs and says
nothing of what they are answered with: a number for a `Counter64` that
`float64` rounds to 2^64 (`SlipsCounter64`), a number of seconds that wraps as
a `TimeTicks` (`SlipsTimeTicks`, which `oid_timeticks` shows), and an IPv6 address.

`WalkSkipsNothing` compares the search of `GetNext` with a definition that
knows no order of rows: of the items within the range, the least.  The ranges
are those of a walk, and any other (`Asked`), because a walk outlives a table:
after an update it goes on from an oid that the new table may not have.
`ShowsOneListing` is what two orders of rows must not break.  `LockedToStore`,
a conjunct of the monitors' `IndInv`, is what keeps a query from waiting for a
command.

`Registry` is the abstract specification of the service.  A handler asks for a
base oid, with the row of a PUT or without one for a DELETE, and only its
request changes anything of that base oid: takes it from its owner, gives it to
a new one when it has none, forgets what is stored when it has none.  A PUT
stores its own row, and only after its application was registered; it is
accepted only after that, and while that row is the stored one.  So a 202 means
that the row of this very registration was in the table at that moment,
whatever failed on the way and whoever was served in between.  A boot restores only what is stored.
The mapping takes the owner from `master`, what is stored from the rows of the
table `applications`, the requests from `op`, `base`, `form` and `pc`, and what
is accepted from the 202 answers to PUTs.

`Snapshot` is what a monitor promises of its rows: they are cleared, a check finds
the statistics of that moment within the age limit, then statistics are taken,
which are whole, and then the rows of just these are shown.  In between `update`
holds no mutex, loads come and go and time passes: how old the statistics
are when they are taken is not promised (what bounds the age of an answer is
`FreshRows`).  A load of cpnr makes a new map, so it leaves no trace; one of php-fpm
writes on the map that was taken (`shared`), and then the rows may be of the old
page, the new one, or the pool of one and the processes of the other, but of
nothing else.  The mapping takes the statistics from what a reader may find in
the map (`Visible`), what is checked and what is taken from `query` and `snap`,
and the rows from the table.

`Rediscovery` stands between the two models of an application.  The service
takes its steps at once, for all its applications and between boots and crashes
(`ServiceRefinesRediscovery`); `Application` implements them, for one, with one
step per access to shared state (`RefinesRediscovery`).  A discovery of the
loop takes effect when it makes the new map: from then on the abstract oids are
what is in the map together with what is left of the answer.  The discovery of
`appRegister`, which nobody but queries can watch, takes effect when it
returns. So what `SnmpSubagent` assumes of a discovery, that it replaces the
oids as a whole and that a stop waits for its end, is what `discover` and
`stopRediscover` do.

## The runs

| Run | Instance | Shows |
|---|---|---|
| `core_clean` | 3 requests, 1 base oid, no call fails, 1 crash at any step | map, master and tables agree whenever `m` is free; nothing accepted leaks a connection; a rejected PUT serves nothing; the invariant of `ServiceProofs` |
| `core_failures` | 2 requests, 1 base oid, every call and statement may fail, 2 crashes | the inductive invariant, `OneOwner`, `AcceptedIsDurable`, `ForgetOnlyDetached` and the refinement of `Registry`: a 202 means registered, and stored with its own row, which it keeps but for the late save of a PUT it replaced; requests only advance, wait for the two mutexes only and never for each other |
| `core_restart` | 2 requests, 2 base oids, 2 oids, 1 crash | a boot restores exactly the stored applications with oids; the service takes the steps of `Rediscovery` |
| `core_live` | 2 requests with rediscovery, failing AgentX calls, 1 crash | every request is answered and `Initialize` ends |
| `app` | 1 query, 3 oids (1 outside the subtree), 3 answers | handler and map agree; snapshots are stable; queries are answered though a discovery hangs; a stop returns when discoveries end; the steps implement `Rediscovery` |
| `oid_value` | words of 3 and 7 bits, floats of 4 bits, integers from -6 to 140 | numbers and texts are kept or refused, but for the three inputs named above; answers for a growing counter never shrink; types survive restarts |
| `monitors` | both monitors, 5 logging sections, listings of 0, 1 and 4 lines, one status page, any delay between any two steps, but at most `Delay` before the first ticker | what is answered is complete, in order and bounded in age; GETNEXT answers the least oid of a range, wherever it begins; rows are those of one snapshot (`Snapshot`); the mutex is held to store only; a loader that works is never refused; queries are answered while a command hangs; the loader and the boot go on |
| `core_unregister` | 2 requests | **violated**: a DELETE during a PUT is undone in the database |
| `core_load_all` | 1 request, 1 crash | **violated**: an application stored without oids is not restored |
| `app_get_race` | 1 query | **violated**: "This shouldn't happen" happens to a query routed before a discovery |
| `app_lost_stop` | 1 query | **violated**: the stop signal is lost and the loop goes on |
| `oid_timeticks` | the same | **violated**: a number of seconds wraps to a negative time |

The passing runs have between 8 000 and 760 000 distinct states.  Deadlock
is checked in all: `Idle` stutters only when every request is answered (or the
process is dead), so a goroutine that waits for ever is reported.

**Bounds.**  Two base oids never share a variable except `m` and `todo`, so one
base oid shows the races and two show the boot.  Three requests are the fewest
in which a PUT replaces an application that another PUT has replaced while a
DELETE runs.  Two crashes let a boot itself be interrupted and repeated.
`Forms` has a client that lists its oids and one that is discovered
periodically; `Discoveries` has an empty and a non-empty answer.  `MapIds` has
a map for the current one, the next, and one per query.  A query touches no
state but its own, so one query meets every interleaving with the loop.
`MaxCrashes` is the only bound of the service; the number of requests is the
number of handlers. The small words of `MCOidValue` keep the order of the real
limits (32 bits, exact floats, 64 bits, with a second that wraps only beyond 32
bits), and the integers reach past each.

`MCMonitors` has `Interval`, `Oldest` and `Cache` 2, 3 and 1 for 60, 90 and 3
seconds: in both `Cache` < `Interval` < `Oldest` < 2 `Interval`, so a tick may
be late by less than another, and statistics may pass the limit between two.
With `Radix` 3 a listing of four lines is enough for "10" to be sorted before
"2".  The listings have a server twice, `MCAsked` has ranges that begin and end
at oids which only some of the tables have, with and without their first oid,
the status page a word of an enum, one that is not, two processes, and a count
that leaves 3-bit words, and 4-bit ones once it is multiplied by `Second`.  One
page is enough, because a failed `curl` gives a second, the page of zeros.
`Delay` is 1, the most that `Interval` and `Oldest` leave.  The logging sections are one that is
accepted and four that are refused, each for a reason of its own.

**Symmetry** is used for the handlers, in runs without liveness properties.

**Seeded faults.**  `PROJECT.json` names for every property of a passing run a
definition and a faulty variant of it (`X_Y` next to `X`) under which TLC
reports that property: a lock kept on an error path, an application forgotten
although it could not be unregistered, a failed save answered 202, old oid rows
that a save leaves among the new ones, a map
emptied in place, a stop that waits for the loop, a lock taken to look up and
kept, a mutex held while a command runs, a table that is kept when the
statistics are refused, rows built from the live map, oids sorted by row, a row
that is not replaced when the old one could not be deleted, a discovery that clears the oids
before it has an answer.

## Fairness

`SnmpSubagent!Fairness`: a process that is down is started again and `Initialize`
runs (a supervisor, and `main`); every goroutine whose next step stays possible
takes it; a rediscovery that holds `Application.m` ends, because
`DiscoverTimeout` (500 ms by default) bounds its exchange.  `Stop` needs strong
fairness: it waits for `Application.m`, which the loop takes again and again,
and Go's `sync.Mutex` hands over to a waiter that starves.  Nothing obliges a
client to send a request, a tick to occur or the process to crash.  A
`discover_timeout` of 0 means no timeout; then `SnmpSubagent`'s assumption, and
`EveryRequestAnswered`, do not hold.

`Application!Scheduled` is weaker: an exchange need not end.  `GetAnswered`
holds even so, because `Get` takes no lock; `StopReturns` has the end of the
exchanges as a hypothesis.

`Monitors!Fairness`: `main` goes on, time goes on, the loader's goroutine takes
the steps it can, and so does the session.  `Update` needs strong fairness, for
it waits for a mutex that `Load` takes again and again.  Nothing is assumed
about the end of a command, which has no time limit in the code:
`QueryAnswered` holds without, `KeepsLoading` and `BootEnds` have `CommandsEnd`
as a hypothesis.

## What is proved

For all constants that the `ASSUME`s allow: any sets of goroutines, base oids,
oids and forms, any discoveries and outputs, any limits, any number of crashes.

* `SnmpSubagentProofs`: `IndInvHolds`, and from it `TypeCorrect`, `MutexHolds`,
  `OneOwnerHolds`, `AcceptedIsDurableHolds`, `ForgetOnlyDetachedHolds`; and
  `ServiceRefinesRegistry`: with a master that refuses duplicates, the service
  implements `Registry`, in which a PUT is accepted only with its own row stored.
* `ServiceProofs`: `ServiceInvHolds`, and from it `RejectedIsNotServedHolds`,
  `NoOrphanOidsHolds`, `MapIsMasterHolds`, `RetiredIsClosedHolds`,
  `BootRestoresStoredHolds`; and `ServiceRefinesRediscoveryHolds`.
* `ProgressProofs`: `OnlyAdvancesHolds`, `NobodyStuckHolds`.
* `ApplicationProofs`: `IndInvHolds`, `OneDiscoveryHolds`, `HandlerMatchesOidsHolds`,
  `SnapshotsAreStableHolds`; and `RefinesRediscoveryHolds`.
* `OidValueProofs`, for any widths and any monotone rounding that is exact up to
  `Exact`: `TypeCorrect`, `KeptOrRefusedHolds`, `NeverRunsBackHolds`,
  `RestartKeepsTypeHolds`.
* `OidOrderProofs`, for oids of any length: `GreaterIsConverse`, `LessIsIrreflexive`,
  `LessIsTotal`, `LessIsTransitive`, `NeitherMeansEqual`, `SortIsAscending`,
  `GetNextIsLeast`.
* `KeyOrderProofs`, for any radix and any number of lines: `NumeralsDiffer`,
  `SortKeysIsBijection`.
* `MonitorsProofs`: `IndInvHolds`, `TypeCorrect`, `LockedToStoreHolds`, `NeverPanicsHolds`,
  `FreshRowsHolds`, `RefusedOnlyWhenLateHolds`, `ShowsOneListingHolds`,
  `WalkSkipsNothingHolds`; and `SpecRefinesSnapshot`: the monitors implement
  `Snapshot`, for any outputs, times and rows.

The assumptions are the `ASSUME`s of the modules, which TLC evaluates in the
runs: goroutines, base oids and `None` are distinct, the constants have their
types, there are more map references than queries by two, the widths are ordered
as they are, the interval and the delay of the first ticker are together no
longer than the limit of the statistics, the numbers of the enums fit an
Integer, a
group, column or row number lies below the end of the monitor's subtree, the
cpnr table has a column besides the number of the row, and a search range of the
master begins before it ends.

### The service

`OneOwner` and `AcceptedIsDurable` are not inductive.  That the master's owner
is in the map survives `CloseClient`, which deletes the map entry, only because
an `Unregister` that got there has removed the owner from the master and nobody
else could register meanwhile: this is `UnregisterInv`, and it needs `Mutex`.
That an accepted application keeps its row survives `DeleteApp` only because
the map entry is gone by then (`UnregisterInv` again), and holds when
`SaveDone` answers 202 because the row a save has inserted is neither deleted nor
replaced before the save ends: `SaveInv`, again from `Mutex`.  Its oid rows are
its own then because what the loop has inserted and what it has still to insert
add up to them: `SavedInv`, which holds from the moment `ClearOids` has deleted
the old ones.  Any other statement that writes a row of an accepted application
is one of the save of another handler, which must have been registered
(`RegisteredInv`), and the exception `Overwritten` then lasts until the map
changes (`LateStays`).  `RestoreInv` says that what `Initialize` read is still
the row when it enters the map.  `MapInv` says an
application is in the map under its own base oid only, so that an answer to one
request says something about one entry; `RequestInv` that a handler knows its
base oid and has not answered yet; `LoadInv` that `Initialize` runs alone, on
stored base oids that are not in the map, so that what it registers has a row.
`IndInv` is the conjunction; `core_failures` checks it, `IndInvInit` and
`IndInvStep` prove it, one lemma per conjunct, one case per action.

The refinement of `Registry` follows: `OneOwner` makes `master[b]` empty or a
singleton, so the abstract owner is defined.  `Put` and `Delete` are `Ask`,
`RegisterSession` is `Attach` for a handler and `Restore` for `Initialize`
(allowed by `LoadInv`), the session's `Unregister` is `Detach`, `InsertApp` is
`Store`, `DeleteApp` is `Forget` (allowed by `UnregisterInv`), `SaveDone` is
`Accept` (allowed by `SaveInv`, which for this must say that the row is the
handler's own), every other answer is `Leave`, a crash is `DetachAll`, and the
other steps leave the abstract state alone (`RefinesMove`).  The request of a
handler changes only when it moves (`OnlyMoves`, `RequestsOfOthers`), and not
between its registration and its answer (`RequestStays`).

While calls do not fail more is true whenever `m` is free, and `ServiceInv`
says what of it is true while `m` is held.  Map and master agree on a base oid
unless an `Unregister` has taken it from the master and not yet from the map
(`AgreeInv`).  Oid rows without their application are those of a
`deleteApplication` between its two statements (`OrphanInv`).  A client is open
only for an application that is being registered, is in the map, or was
rejected (`OpenInv`).  The master knows the application of a handler only once
its PUT registered it (`MasterInv`, which is why a rejected PUT leaves nothing
behind). During a boot the map holds what `loadFromDB` returned without what is
still to do (`LoadedInv`).  `Mutex` excludes the exceptions when `m` is free,
which gives the four properties; `LoadedInv` with nothing left to do is
`BootRestoresStored`.  The proofs first state what a step does to each variable
(`ThreadEffects`, `TableEffects`, `ConnEffects`, `LoopEffects`), so that each
conjunct is proved from a handful of effects and not from every action.

`LoopInv` says no loop runs before its `appRegister` returns, so that what
`Create` and `Discover` write belongs to nobody else: with it every step is one
of `Rediscovery` or leaves loops and oids alone.

`OnlyAdvances` ranks the places in program order.  Each action of a goroutine
goes from a place to one of higher rank, or inserts a row (`UnregisterForward`,
`AppRegisterForward`, `SaveForward`); no other goroutine moves it
(`ThreadFrame`), a crash ends it, and `Initialize`, which takes one application
after the other, has one less to do at each.  `NobodyStuck` follows from
`Mutex`: who waits for `m` is before a `Lock`, who holds it is past every
`Lock`, so they are two, and the holder can wait for a discovery at most.

### The application

The invariant is where a discovery stands (`PhaseInv`): at each of its steps
the handler and the map agree, or differ by what the step before has done.
`FreshExists` counts references to show that `RemoveAllOids` finds a new map,
which is why it cannot touch a map that a query still reads.  For the
refinement `ViewInv` adds that what is in the map and what is left of the
answer add up to one of the sets a discovery may find, and that until the first
discovery has an answer the map is the form's.

### Values and monitors

In `OidValue` the invariant is that the answer is one that `processOidResponse`
gives for the last body; for the types of text `KeptOrRefused` is then a case
on the type.  For numbers, `FloatIsExact` shows that a float within bounds below
`Exact` is the integer that was sent, from the monotony of the rounding; then
each conversion is the identity on its range, and keeps the order beyond it.
For the 64-bit types what is answered is what the float holds
(`Unsigned64IsHeld`, `SecondsAreHeld`).

`OIDLessThan` is a strict total order: two oids either differ at a first place or
one is a prefix of the other (`SplitAtDifference`), and for transitivity the
smaller of two places decides.  `SortIsAscending` counts the smaller oids of each:
the counts differ (`SmallerGrows`) and there is one for every place
(`EveryPlaceIsTaken`).  In an ascending list the first oid that the loop of
`GetNext` accepts is the least of the range, whether or not the range begins at a
member: `GetNextIsLeast`.

A row must not replace another because two lines have the same key.  `Itoa` is
recursive, and induction on a formula is out of the prover's reach; so
`NumeralsDiffer` takes the least number that shares its numeral with another.
Both numerals are a shorter one and a last digit (`ItoaIs`), so the last
digits are equal, and the numbers without them share a numeral too: a smaller
counterexample.  `ItoaIs`, that `Itoa` satisfies
its own recursion, is shown in the same way: the least number up to which no
function does cannot exist (`PrefixExists`), and two functions that do agree
(`PrefixesAgree`), so together they are one function on all numbers.
`SortKeysIsBijection` is then a count as in `SortIsAscending`.

`WalkSkipsNothing` then needs that every table is the sorted one of finitely
many oids below `RangeEnd`: `TableInv`.  `FreshRows` is not inductive, since it
says nothing of a query under way: `AgeInv` relates the age that `update` has
read to that of the statistics it takes later (a load in between only makes
them younger) and both to the age of the table; and an idle loader that has
served its last tick to the time since that tick and `Delay`, which with an
interval and a delay that fit the limit is `RefusedOnlyWhenLate`.  `StartInv` follows the loops
over the appenders: no backend is nil because no appender that was passed can
give one.

The refinement of `Snapshot` needs four of the conjuncts.  `AcceptAge` is `Check`:
it finds empty rows because `update` has cleared them (`TableInv`), and statistics
within the limit because they are no older than what `LastUpdated` said before
(`AgeInv`).  `TakeStats` is `Take`, and finds whole statistics because nobody
copies while the mutex is free (`LockedToStore`).  `OutputInv` says which program's `Load` it is that
writes, so that only php-fpm's `AssignEntry` is a `Write`.  Every other step of
the loader before it stores is a stutter.

`ShowsOneListing` counts rows, and a count is not inductive.  `ListingInv` says
which function the table is: the rows of one listing in the order of its keys.
It is kept because a table is built in one piece from a map that a query has
for itself, and `ListingCounted` draws the count from it: a column has one item
a row, rows and lines correspond by `SortKeysIsBijection`.

### Only model-checked

The seven liveness properties, since fairness is beyond the prover, and
`WaitsAreKnown`, which says when an action is `ENABLED`.  `OnlyAdvances` and
`NobodyStuck` are their safety part and are proved; what TLC adds is that a
goroutine which can step does, and that the two waits end.

## What is not modelled

* Reconnection of the AgentX client after the master restarts.  The repository
  only sets its interval (`snmp_subagent/snmp_subagent.go:96`); go-agentx is not part
  of it, so what becomes of a session and its registration cannot be read from
  this source.
* The jsonpath and the text forms of oids and addresses: a value parses or not.
  An IPv6 address for an `IPAddress` gives the nil value of `To4`, one of the answers
  that `KeptOrRefused` excepts; nothing says what should be answered.
* How the monitors split a line into fields: a server or a process is a value.
  The pipeline of cpnr always prints eight fields, so the index in
  `monitors/cpnr/stats/stats.go:96` stays in range.
* Response bodies that `discover` and `Get` do not close when the status is not
  200 (`snmp_subagent/application.go:302`): connections of the HTTP client are no
  state of the models.
* The rest of `Get` after the lookup is one step: the exchange and its errors
  return a value or nil and change nothing.
* Signals after `Run`: gin's `Run` never returns, so the lines after it in `main`
  are not reached while it serves.
* What gin logs, and the backends behind the appenders.
* `commons/oid_data.go` and `commons/utils.go`: nothing uses these copies of the
  subagent's files, which `OidValue` models.

Two remarks on tests.  `monitors/cpnr/stats/stats_test.go` builds a `StatsData` of
fourteen fields and expects errors for short lines ("Stats should remain the
same as before"): it belongs to another monitor's `Load`; this one returns no
error and replaces what it has.  The models follow the code.  Likewise a failing
`nrcmd` is an empty listing and a failing `curl` of the php-fpm monitor a page of
zeros, both loaded as fresh.

## Plan

1. *Done:* the service, its database and AgentX; the application; the
   refinement of `Registry`; the first theorems.
2. *Done:* `OidValue`, its check and its theorems.
3. *Done:* the monitors, their start, their order of oids; the theorems about them.
4. *Done:* `Rediscovery`, which the service uses and `Application` implements.
5. *Done:* proofs of `MapIsMaster`, `RejectedIsNotServed`, `NoOrphanOids`,
   `RetiredIsClosed` and `BootRestoresStored`.
6. *Done:* `Registry` with requests and rows, `Snapshot` for the monitors, and
   the proofs that the models implement them.
7. *Done:* proofs of `ShowsOneListing`, with the uniqueness of keys; `GetNextIsLeast`
   for any range; the waits of the service and of the monitors.
8. *Left:* reconnection, with the library's source at hand; the connections of
   the HTTP client in `Application`; the fields of the monitors' outputs.
