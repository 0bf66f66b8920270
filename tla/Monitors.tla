------------------------------ MODULE Monitors ------------------------------
(***************************************************************************)
(* A monitor as a process: its start, its loader, the queries, and time.   *)
(* The two monitors share the code of Commons, and their managers and      *)
(* handlers are copies but for what CpnrStats and PhpFpmStats define;      *)
(* program says which of the two the process is.                           *)
(***************************************************************************)
EXTENDS CpnrStats, PhpFpmStats

CONSTANTS
    Programs,  \* the binaries that may be started
    RangeEnd,  \* an oid beyond the tables
    Asked      \* search ranges of the master, wherever they begin

ASSUME MonitorsAssumption ==
    /\ Programs \subseteq {"cpnr", "php-fpm"}
    /\ RangeEnd \in Oid /\ RangeEnd # <<>>
    /\ RangeEnd[1] > Columns /\ RangeEnd[1] > 3
    /\ Asked \subseteq [from : Oid, include : BOOLEAN, to : Oid]
    /\ \A r \in Asked : OIDLessThan(r.from, r.to)

VARIABLE program

vars == <<program, startVars, loadVars, handlerVars>>

Init ==
    /\ program \in Programs
    /\ CommonsInit /\ ManagerInit /\ HandlerInit

Start == (Startup \/ Signal) /\ UNCHANGED <<program, loadVars, handlerVars>>

Load ==
    /\ \/ program = "cpnr" /\ CpnrLoad
       \/ program = "php-fpm" /\ CurlLoad
       \/ (Execute \/ Return) /\ UNCHANGED handlerVars
    /\ UNCHANGED program

Update ==
    /\ \/ KeepTable \/ ClearTable
       \/ ReadAge \/ RefuseStale \/ AcceptAge \/ TakeStats
       \/ program = "cpnr" /\ BuildServers
       \/ program = "php-fpm" /\ BuildStatus
    /\ UNCHANGED program

Race == program = "php-fpm" /\ MapRace /\ UNCHANGED program

Elapse ==
    /\ Alive /\ TickerInTime
    /\ statsAge' = Later(statsAge, Forever)
    /\ rowsAge' = Later(rowsAge, Forever)
    /\ cacheAge' = Later(cacheAge, Cache)
    /\ TickerElapses
    /\ UNCHANGED <<program, startVars, locked, stats, loader, out, failed,
                   query, snap, table>>

Stopped == ~Alive /\ UNCHANGED vars

Next ==
    \/ Start \/ Load \/ Update \/ Race \/ Elapse \/ Stopped
    \/ (Query \/ Answer) /\ UNCHANGED program

Spec == Init /\ [][Next]_vars

(* main, the loader and the handler are scheduled, and time goes on.  The  *)
(* mutex is free again and again, and starves no one.  Nothing is assumed  *)
(* about the end of a command.                                             *)
LoadsOn == Load /\ loader # "command"
Fairness ==
    /\ WF_vars(Startup /\ UNCHANGED <<program, loadVars, handlerVars>>)
    /\ WF_vars(LoadsOn) /\ WF_vars(Elapse)
    /\ SF_vars(Update) /\ WF_vars(Answer /\ UNCHANGED program)

LiveSpec == Spec /\ Fairness

-----------------------------------------------------------------------------
IntegersFit ==
    program = "php-fpm" =>
        \A oid \in DOMAIN table.items :
            \/ oid[1] = 2 /\ PoolTypes[oid[3]] = "Integer"
            \/ oid[1] = 3 /\ ProcTypes[oid[3]] = "Integer"
            => table.items[oid] \in -MaxInt32 - 1..MaxInt32

(* The types, and what an SNMP Integer can hold.                           *)
TypeOK ==
    /\ program \in Programs /\ process \in Stages
    /\ left \subseteq DOMAIN logging /\ nilBackend \in BOOLEAN
    /\ {locked, failed, pending} \subseteq BOOLEAN
    /\ loader \in {"idle", "command", "lock", "store", "assign", "copy", "return"}
    /\ query \in Places
    /\ sinceTick \in 0..(Interval - 1)
    /\ {statsAge, rowsAge} \subseteq 0..Forever /\ cacheAge \in 0..Cache
    /\ IntegersFit

(* A configuration that validateLogging accepts, in whatever order it      *)
(* visits the map, never makes ResetLogging install a nil backend, whose   *)
(* first line would end the process.                                       *)
NeverPanics == process # "panicked"

(* The limits of update (90 s for the statistics, 3 s for the table, each  *)
(* checked at another moment, with loads and delays in between) together   *)
(* bound the age of what is answered: a table that is still kept shows     *)
(* statistics of less than Oldest + Cache ago.                             *)
FreshRows ==
    DOMAIN table.items # {} /\ cacheAge < Cache => rowsAge < Oldest + Cache

(* The interval of main and the limit of the handler fit: a query that     *)
(* finds the statistics too old, and they still are, meets a tick that has *)
(* not been served, a command that has not ended, or follows one that      *)
(* failed.  A healthy loader is never refused, whatever the phase of its   *)
(* ticker and however late its last load ended.                            *)
RefusedOnlyWhenLate ==
    [][query = "stats" /\ query' = "answer" /\ rowsAge = statsAge =>
         pending \/ loader \notin {"idle", "return"} \/ failed]_vars

(* A table of the cpnr monitor shows one listing, every server of it in as *)
(* many rows as it has lines: update and Load together lose, repeat or mix *)
(* none, though rows are numbered by the order of keys as strings.         *)
Rows(server) == {oid \in DOMAIN table.items :
                    oid[1] = 2 /\ table.items[oid] = server}
ShowsOneListing ==
    program = "cpnr" /\ DOMAIN table.items # {} =>
        \E listing \in Listings :
            /\ Cardinality(DOMAIN table.items) = Columns * Len(listing)
            /\ \A n \in 1..Len(listing) :
                Cardinality(Rows(listing[n])) =
                  Cardinality({i \in 1..Len(listing) : listing[i] = listing[n]})

(* Whatever table update builds, with rows numbered by one order of keys   *)
(* and oids sorted in another, GETNEXT answers the least item of the range *)
(* it is asked for.  So a walk from the base oid visits every item once,   *)
(* and one that goes on, after an update, from an oid that the new table   *)
(* may not have, neither skips nor repeats an oid that stayed.             *)
AnswersLeast(r) ==
    LET answer == GetNext(r.from, r.include, r.to)
        wanted == {oid \in DOMAIN table.items :
                     InRange(oid, r.from, r.include, r.to)}
    IN  IF wanted = {} THEN answer = NoSuchObject
        ELSE \E least \in wanted :
                /\ answer = DoGet(least)
                /\ \A oid \in wanted \ {least} : OIDLessThan(least, oid)

WalkSteps == [from : DOMAIN table.items \cup {<<>>}, include : {FALSE},
              to : {RangeEnd}]
WalkVisitsAll == \A r \in Asked \cup WalkSteps : AnswersLeast(r)

WalkSkipsNothing == [][table' # table => WalkVisitsAll']_vars

RowsOf(shared, a, b) ==
    IF shared THEN StatusTable(a.pool, b.procs)
              ELSE ServerTable(a, SortKeys(DOMAIN a))

Taken == IF query = "build" THEN {snap} ELSE {}

Statistics ==
    INSTANCE Snapshot WITH Rows <- RowsOf, shared <- program = "php-fpm",
        current <- Visible, age <- statsAge, checked <- query = "take",
        taken <- Taken, shown <- table.items

(* What is shown, as Snapshot promises it: though update reads LastUpdated *)
(* and Stats separately, builds the rows without the mutex, and other      *)
(* loads end meanwhile, the statistics that update found young enough are  *)
(* replaced by younger ones only, the rows of a listing are those that     *)
(* Stats returned, and only of php-fpm may they be of another page or of   *)
(* two.                                                                    *)
RefinesSnapshot == Statistics!SnapshotSpec

-----------------------------------------------------------------------------
(* The inductive invariant behind the safety properties.                   *)

(* The appenders that validateLogging has passed have a backend.           *)
StartInv ==
    /\ process \in {"config", "validate", "logging"} => ~nilBackend
    /\ process = "validate" => DOMAIN logging \ left \subseteq {"stdout", "file"}
    /\ process = "logging" => DOMAIN logging \subseteq {"stdout", "file"}
    /\ process # "panicked"

(* Load holds the mutex only while it stores what it has parsed, on every  *)
(* path: never while the command runs, nor once Load has returned.  So     *)
(* update, which takes it twice, waits for no command.                     *)
Storing == {"store", "assign", "copy"}
LockedToStore == locked <=> loader \in Storing

(* There are no loads before the first, and no queries before it has ended.*)
PhaseInv ==
    /\ loader # "idle" => process = "run" \/ Ticking \/ ~Alive
    /\ query # "idle" => process = "serving" \/ ~Alive

(* The statistics are of a listing or of a page, which php-fpm has from    *)
(* the end of its first load on.                                           *)
OutputInv ==
    /\ program = "cpnr" =>
        /\ loader \notin {"assign", "copy"}
        /\ {stats, out, snap} \subseteq
              {ParseListing(listing) : listing \in Listings} \cup {NoStats}
    /\ program = "php-fpm" =>
        /\ loader # "store"
        /\ Ticking \/ loader = "return" => stats \in Status
        /\ loader \in {"lock", "assign", "copy"} => out \in Status

(* The table is sorted, and its oids lie between the base oid and RangeEnd.*)
TableInv ==
    /\ table = TableOf(table.items)
    /\ IsFiniteSet(DOMAIN table.items)
    /\ \A oid \in DOMAIN table.items :
        oid \in Oid /\ oid # <<>> /\ oid[1] < RangeEnd[1]
    /\ query \in {"age", "stats", "take", "build"} => DOMAIN table.items = {}

(* The statistics only get younger between LastUpdated and Stats, and what *)
(* update has accepted ages with the table.  A loader that is up to date   *)
(* has loaded since its last tick, or within Delay before the first.       *)
AgeInv ==
    /\ query \in {"stats", "take"} => statsAge <= rowsAge
    /\ query \in {"take", "build"} \/ DOMAIN table.items # {} =>
        rowsAge <= Oldest + cacheAge
    /\ process = "run" /\ loader = "return" => statsAge <= Delay
    /\ Ticking /\ loader \in {"idle", "return"} /\ ~pending /\ ~failed =>
        statsAge <= sinceTick + Delay

(* The rows of the cpnr monitor are made of one listing.                   *)
ListingInv ==
    program = "cpnr" /\ DOMAIN table.items # {} =>
        \E listing \in Listings :
            table.items = ServerTable(ParseListing(listing),
                                      SortKeys(0..(Len(listing) - 1)))

IndInv ==
    /\ TypeOK /\ LockedToStore /\ StartInv /\ PhaseInv /\ OutputInv
    /\ TableInv /\ ListingInv /\ AgeInv

-----------------------------------------------------------------------------
(* Queries do not wait for commands: one that hangs for ever delays none.  *)
QueryAnswered == query # "idle" ~> (query = "idle" \/ ~Alive)

CommandsEnd == []<>(loader # "command")

(* While commands end, with or without success, there is always another:   *)
(* no failure, dropped tick or lock stops the loader's goroutine.          *)
KeepsLoading ==
    CommandsEnd => (process = "serving" ~> (loader = "command" \/ ~Alive))

(* If the first command ends, the monitor registers its oid or exits, even *)
(* when the command has failed.                                            *)
BootEnds == CommandsEnd => <>(process = "serving" \/ ~Alive)
=============================================================================
