--------------------------- MODULE MonitorsProofs ---------------------------
(***************************************************************************)
(* Theorems about the monitors, for any configurations, times, outputs and *)
(* columns: IndInv is inductive, and the safety properties follow from it. *)
(***************************************************************************)
EXTENDS Monitors, KeyOrderProofs

LEMMA TimesAre ==
    /\ Interval \in Nat /\ Interval > 0
    /\ Oldest \in Nat /\ Oldest > 0
    /\ Cache \in Nat /\ Cache > 0
    /\ Delay \in Nat /\ Interval + Delay <= Oldest
    /\ Forever \in Nat /\ Forever = Oldest + Cache
BY TimesAssumption DEF Forever

-----------------------------------------------------------------------------
(* StartInv                                                                *)

LEMMA StartStep == IndInv /\ [Next]_vars => StartInv'
<1> SUFFICES ASSUME IndInv, [Next]_vars PROVE StartInv'
  OBVIOUS
<1>0. StartInv /\ process \in Stages
  BY DEF IndInv, TypeOK
<1>1. CASE Start
  <2>1. CASE LoadConfigFails
    BY <1>0, <2>1 DEF StartInv, LoadConfigFails, Exit
  <2>2. CASE LoadConfig
    BY <1>0, <2>2 DEF StartInv, LoadConfig
  <2>3. CASE ValidateLogging
    <3>1. CASE \E a \in left : ValidAppender(a) /\ left' = left \ {a}
                    /\ UNCHANGED <<process, logging, nilBackend>>
      BY <1>0, <2>3, <3>1 DEF StartInv, ValidateLogging, ValidAppender
    <3>2. CASE \E a \in left : ~ValidAppender(a) /\ Exit
      BY <1>0, <3>2 DEF StartInv, Exit
    <3>3. CASE left = {} /\ process' = "logging" /\ UNCHANGED <<logging, nilBackend>>
      BY <1>0, <2>3, <3>3 DEF StartInv, ValidateLogging
    <3> QED BY <2>3, <3>1, <3>2, <3>3 DEF ValidateLogging
  <2>4. CASE ResetLogging
    <3>1. left \subseteq DOMAIN logging
      BY DEF IndInv, TypeOK
    <3> QED BY <1>0, <2>4, <3>1 DEF StartInv, ResetLogging
  <2>5. CASE SetBackend
    BY <1>0, <2>5 DEF StartInv, SetBackend
  <2>6. CASE StartSubAgent
    BY <1>0, <2>6 DEF StartInv, StartSubAgent, Exit
  <2>7. CASE RegisterSubAgent
    BY <1>0, <2>7 DEF StartInv, RegisterSubAgent, Exit
  <2>8. CASE Signal
    BY <1>0, <2>8 DEF StartInv, Signal, Exit
  <2> QED BY <1>1, <2>1, <2>2, <2>3, <2>4, <2>5, <2>6, <2>7, <2>8 DEF Start, Startup
<1>2. CASE Load
  <2>1. /\ UNCHANGED <<logging, left, nilBackend>>
        /\ process' \in {process, "register"}
    BY <1>2 DEF Load, CpnrLoad, CurlLoad, NrcmdEnds, NrcmdFails, LoadListing,
                CurlEnds, LoadStatus, AssignEntry, LockStats, StoreStats, Execute, Return,
                ExecuteReturns, startVars
  <2> QED BY <1>0, <2>1 DEF StartInv
<1>3. CASE Race
  BY <1>0, <1>3 DEF StartInv, Race, MapRace
<1>4. CASE Update \/ Elapse \/ Stopped \/ Query \/ Answer \/ UNCHANGED vars
  <2>1. UNCHANGED startVars
    BY <1>4 DEF Update, KeepTable, ClearTable, ReadAge, RefuseStale, AcceptAge, TakeStats,
                BuildServers, BuildStatus, BuildTable, At, Elapse, Stopped, Query,
                Answer, vars
  <2> QED BY <1>0, <2>1 DEF StartInv, startVars
<1> QED BY <1>1, <1>2, <1>3, <1>4 DEF Next

-----------------------------------------------------------------------------
(* PhaseInv                                                                *)

(* What Startup and Signal may do to process.                              *)
LEMMA StartMoves ==
    ASSUME Start
    PROVE  /\ UNCHANGED <<program, loadVars, handlerVars>>
           /\ \/ process' \in Ended
              \/ process = "register" /\ process' = "serving"
              \/ /\ process \in {"config", "validate", "logging", "open"}
                 /\ process' \in {"validate", "logging", "open", "run"}
BY DEF Start, Startup, LoadConfigFails, LoadConfig, ValidateLogging, ResetLogging,
       SetBackend, StartSubAgent, RegisterSubAgent, Signal, Exit, Ended

(* What a step of the loader may do to process.                            *)
LEMMA LoadMoves ==
    ASSUME Load
    PROVE  /\ UNCHANGED <<program, handlerVars, logging, left, nilBackend>>
           /\ process' = IF process = "run" /\ loader' = "idle" THEN "register"
                                                              ELSE process
           /\ \/ loader' = "idle"
              \/ loader # "idle"
              \/ process = "run" \/ Ticking
BY DEF Load, CpnrLoad, CurlLoad, NrcmdEnds, NrcmdFails, LoadListing, CurlEnds,
       LoadStatus, AssignEntry, LockStats, StoreStats, Execute, Return, ExecuteReturns,
       startVars, handlerVars

LEMMA PhaseStep == IndInv /\ [Next]_vars => PhaseInv'
<1> SUFFICES ASSUME IndInv, [Next]_vars PROVE PhaseInv'
  OBVIOUS
<1> USE DEF PhaseInv, Ticking, Alive
<1>0. PhaseInv /\ process \in Stages
  BY DEF IndInv, TypeOK
<1>1. CASE Start
  BY <1>0, <1>1, StartMoves DEF loadVars, handlerVars, Ended
<1>2. CASE Load
  BY <1>0, <1>2, LoadMoves DEF handlerVars, Ended
<1>3. CASE Race
  BY <1>0, <1>3 DEF Race, MapRace, Ended
<1>4. CASE Query
  BY <1>0, <1>4 DEF Query, At, startVars, loadVars
<1>5. CASE Update
  <2>1. UNCHANGED <<process, loader>> /\ query # "idle"
    BY <1>5 DEF Update, KeepTable, ClearTable, ReadAge, RefuseStale, AcceptAge, TakeStats,
                BuildServers, BuildStatus, BuildTable, At, startVars, loadVars
  <2> QED BY <1>0, <2>1
<1>6. CASE Answer
  BY <1>0, <1>6 DEF Answer, At, startVars, loadVars
<1>7. CASE Elapse \/ Stopped \/ UNCHANGED vars
  BY <1>0, <1>7 DEF Elapse, Stopped, startVars, vars, loadVars, handlerVars
<1> QED BY <1>1, <1>2, <1>3, <1>4, <1>5, <1>6, <1>7 DEF Next

LEMMA LockStep == IndInv /\ [Next]_vars => LockedToStore'
<1> SUFFICES ASSUME IndInv, [Next]_vars PROVE LockedToStore'
  OBVIOUS
<1> USE DEF LockedToStore, Storing
<1>0. LockedToStore /\ locked \in BOOLEAN
  BY DEF IndInv, TypeOK
<1>1. CASE Load
  BY <1>0, <1>1 DEF Load, CpnrLoad, CurlLoad, NrcmdEnds, NrcmdFails,
     LoadListing, CurlEnds, LoadStatus, AssignEntry, LockStats, StoreStats,
     Execute, Return, ExecuteReturns
<1>2. CASE Start
  BY <1>0, <1>2, StartMoves DEF loadVars
<1>3. CASE Race \/ Query \/ Update \/ Answer
  BY <1>0, <1>3 DEF Race, MapRace, Query, Update, KeepTable, ClearTable,
     ReadAge, RefuseStale, AcceptAge, TakeStats, BuildServers, BuildStatus, BuildTable,
     Answer, At, loadVars
<1>4. CASE Elapse \/ Stopped \/ UNCHANGED vars
  BY <1>0, <1>4 DEF Elapse, Stopped, vars, loadVars
<1> QED BY <1>1, <1>2, <1>3, <1>4 DEF Next

-----------------------------------------------------------------------------
(* OutputInv                                                               *)

LEMMA Int64Is == 0 \in Int64 /\ Int64 \subseteq Int
<1>1. MaxInt64 \in Nat
  BY PhpFpmAssumption
<1> QED BY <1>1 DEF Int64

LEMMA NoPageIsStatus == NoPage \in Status /\ Statuses \subseteq Status
<1>1. <<>> \in Seq(Text)
  OBVIOUS
<1>2. 0 \in Text
  BY Int64Is DEF Text
<1> QED BY <1>1, <1>2, PhpFpmAssumption DEF NoPage, Status

LEMMA OutputStep == IndInv /\ [Next]_vars => OutputInv'
<1> SUFFICES ASSUME IndInv, [Next]_vars PROVE OutputInv'
  OBVIOUS
<1> DEFINE Tables == {ParseListing(listing) : listing \in Listings} \cup {NoStats}
           CpnrPart == /\ loader \notin {"assign", "copy"}
                       /\ stats \in Tables /\ out \in Tables /\ snap \in Tables
           PhpPart == /\ loader # "store"
                      /\ Ticking \/ loader = "return" => stats \in Status
                      /\ loader \in {"lock", "assign", "copy"} => out \in Status
<1>0. OutputInv /\ program \in {"cpnr", "php-fpm"} /\ process \in Stages
  BY MonitorsAssumption DEF IndInv, TypeOK
<1>a. program' = program
  BY StartMoves, LoadMoves DEF Next, Update, Race, Elapse, Stopped, vars
<1>b. OutputInv <=> /\ program = "cpnr" => CpnrPart
                    /\ program = "php-fpm" => PhpPart
  BY DEF OutputInv
<1>c. OutputInv' <=> /\ program' = "cpnr" => CpnrPart'
                     /\ program' = "php-fpm" => PhpPart'
  BY DEF OutputInv
<1>d. NoStats \in Tables /\ NoStats' = NoStats /\ Tables' = Tables
  OBVIOUS
<1>1. CASE program = "cpnr"
  <2> SUFFICES CpnrPart'
    BY <1>a, <1>c, <1>1
  <2>0. CpnrPart
    BY <1>0, <1>b, <1>1
  <2> HIDE DEF Tables
  <2>1. CASE Start
    BY <2>0, <2>1, <1>d, StartMoves DEF loadVars, handlerVars
  <2>2. CASE NrcmdEnds
    <3>1. out' \in Tables
      BY <2>2 DEF NrcmdEnds, Tables
    <3> QED BY <2>0, <2>2, <3>1, <1>d DEF NrcmdEnds, handlerVars
  <2>3. CASE NrcmdFails
    BY <2>0, <2>3, <1>d DEF NrcmdFails, ExecuteReturns, handlerVars
  <2>4. CASE LoadListing
    BY <2>0, <2>4, <1>d DEF LoadListing, LockStats, StoreStats, ExecuteReturns, handlerVars
  <2>5. CASE (Execute \/ Return) /\ UNCHANGED handlerVars
    BY <2>0, <2>5, <1>d DEF Execute, Return, ExecuteReturns, handlerVars
  <2>6. CASE Update
    BY <2>0, <2>6, <1>d, <1>1 DEF Update, KeepTable, ClearTable, ReadAge, RefuseStale, AcceptAge,
          TakeStats, BuildServers, BuildTable, At, loadVars
  <2>7. CASE Elapse \/ Stopped \/ Query \/ Answer \/ UNCHANGED vars
    BY <2>0, <2>7, <1>d DEF Elapse, Stopped, Query, Answer, At, vars, loadVars, handlerVars
  <2>8. ~Race
    BY <1>1 DEF Race
  <2> QED BY <2>1, <2>2, <2>3, <2>4, <2>5, <2>6, <2>7, <2>8, <1>1
          DEF Next, Load, CpnrLoad
<1>2. CASE program = "php-fpm"
  <2> SUFFICES PhpPart'
    BY <1>a, <1>c, <1>2
  <2>0. PhpPart
    BY <1>0, <1>b, <1>2
  <2>x. PhaseInv
    BY DEF IndInv
  <2>1. CASE Start
    BY <2>0, <2>1, StartMoves DEF loadVars, handlerVars, Ticking, Ended
  <2>2. CASE CurlEnds
    BY <2>0, <2>2, NoPageIsStatus DEF CurlEnds, startVars, Ticking
  <2>3. CASE LockStats("assign")
    BY <2>0, <2>3 DEF LockStats, startVars, Ticking
  <2>4. CASE AssignEntry
    BY <2>0, <2>4 DEF AssignEntry, startVars, Ticking
  <2>5. CASE loader = "copy" /\ Alive /\ StoreStats
    BY <2>0, <2>5 DEF StoreStats
  <2>6. CASE Execute \/ Return
    BY <2>0, <2>6 DEF Execute, Return, ExecuteReturns, startVars, Ticking
  <2>7. CASE Update \/ Elapse \/ Stopped \/ Query \/ Answer \/ UNCHANGED vars
    <3>1. UNCHANGED <<process, stats, loader, out>>
      BY <2>7 DEF Update, KeepTable, ClearTable, ReadAge, RefuseStale, AcceptAge, TakeStats,
                  BuildServers, BuildStatus, BuildTable, At, Elapse, Stopped, Query,
                  Answer, vars, startVars, loadVars
    <3> QED BY <2>0, <3>1 DEF Ticking
  <2>8. CASE Race
    BY <2>0, <2>8 DEF Race, MapRace, loadVars, Ticking
  <2> QED BY <2>1, <2>2, <2>3, <2>4, <2>5, <2>6, <2>7, <2>8, <1>2
          DEF Next, Load, CurlLoad, LoadStatus
<1> QED BY <1>0, <1>1, <1>2

-----------------------------------------------------------------------------
(* AgeInv                                                                  *)

(* Time makes every age greater by one, or leaves it at its limit.         *)
LEMMA LaterIs ==
    ASSUME NEW limit \in Nat, NEW age \in 0..limit
    PROVE  /\ Later(age, limit) \in 0..limit
           /\ Later(age, limit) = age + 1 \/ (age = limit /\ Later(age, limit) = age)
BY DEF Later

LEMMA AgeStep == IndInv /\ [Next]_vars => AgeInv'
<1> SUFFICES ASSUME IndInv, [Next]_vars PROVE AgeInv'
  OBVIOUS
<1> DEFINE Up == Ticking /\ loader \in {"idle", "return"} /\ ~pending /\ ~failed
           First == process = "run" /\ loader = "return"
<1>0. /\ query \in {"stats", "take"} => statsAge <= rowsAge
      /\ query \in {"take", "build"} \/ DOMAIN table.items # {} =>
            rowsAge <= Oldest + cacheAge
      /\ First => statsAge <= Delay
      /\ Up => statsAge <= sinceTick + Delay
  BY DEF IndInv, AgeInv
<1>t. /\ statsAge \in 0..Forever /\ rowsAge \in 0..Forever
      /\ cacheAge \in 0..Cache /\ sinceTick \in 0..(Interval - 1)
  BY DEF IndInv, TypeOK
<1>e. query \in {"age", "stats", "take", "build"} => DOMAIN table.items = {}
  BY DEF IndInv, TableInv
<1>p. PhaseInv
  BY DEF IndInv
<1>1. CASE Start
  <2>1. UNCHANGED <<loadVars, handlerVars>>
    BY <1>1, StartMoves
  <2>2. Ticking' => Ticking
    BY <1>1, StartMoves DEF Ticking, Ended
  <2>3. First' => First
    <3>1. process' = "run" => process \in {"config", "validate", "logging", "open"}
      BY <1>1, StartMoves DEF Ended
    <3>2. loader = "return" => process \notin {"config", "validate", "logging", "open"}
      BY <1>p DEF PhaseInv, Ticking, Alive, Ended
    <3> QED BY <2>1, <3>1, <3>2 DEF loadVars
  <2> QED BY <1>0, <2>1, <2>2, <2>3 DEF AgeInv, loadVars, handlerVars
<1>2. CASE Load
  <2>1. UNCHANGED handlerVars
    BY <1>2, LoadMoves
  <2>2. statsAge' = statsAge \/ statsAge' = 0
    BY <1>2 DEF Load, CpnrLoad, CurlLoad, NrcmdEnds, NrcmdFails, LoadListing, CurlEnds,
         LoadStatus, AssignEntry, LockStats, StoreStats, Execute, Return, ExecuteReturns
  <2>3. CASE StoreStats
    <3>1. statsAge' = 0 /\ sinceTick' = sinceTick
      BY <2>3 DEF StoreStats, tickVars
    <3>2. statsAge' <= Delay /\ statsAge' <= sinceTick' + Delay
      BY <1>t, <3>1, TimesAre
    <3> QED BY <1>0, <1>t, <2>1, <3>1, <3>2, TimesAre DEF AgeInv, handlerVars
  <2>4. CASE NrcmdFails
    <3>1. failed' = TRUE /\ statsAge' = statsAge /\ loader' = "idle"
      BY <2>4 DEF NrcmdFails, ExecuteReturns
    <3> QED BY <1>0, <2>1, <3>1 DEF AgeInv, handlerVars
  <2>5. CASE Return
    <3>1. /\ loader = "return" /\ loader' = "idle" /\ UNCHANGED <<statsAge, failed, pending>>
          /\ process = "run" => sinceTick' = 0
          /\ process # "run" => process' = process /\ sinceTick' = sinceTick
      BY <2>5 DEF Return, ExecuteReturns
    <3>2. Up' => statsAge' <= sinceTick' + Delay
      BY <1>0, <1>t, <3>1, TimesAre DEF Ticking
    <3> QED BY <1>0, <2>1, <3>1, <3>2 DEF AgeInv, handlerVars
  <2>6. CASE ~StoreStats /\ ~NrcmdFails /\ ~Return
    <3>1. loader' \notin {"idle", "return"} /\ statsAge' = statsAge
      BY <1>2, <2>6 DEF Load, CpnrLoad, CurlLoad, NrcmdEnds, LoadListing, CurlEnds,
           LoadStatus, AssignEntry, LockStats, Execute
    <3> QED BY <1>0, <2>1, <3>1 DEF AgeInv, handlerVars
  <2> QED BY <2>3, <2>4, <2>5, <2>6
<1>3. CASE Race
  <2>1. ~Ticking' /\ ~First' /\ UNCHANGED <<loadVars, handlerVars>>
    BY <1>3 DEF Race, MapRace, Ticking
  <2> QED BY <1>0, <2>1 DEF AgeInv, loadVars, handlerVars
<1>4. CASE Elapse
  <2>1. UNCHANGED <<process, loader, failed, query, table>>
    BY <1>4 DEF Elapse, startVars
  <2>2. /\ statsAge' = Later(statsAge, Forever) /\ rowsAge' = Later(rowsAge, Forever)
        /\ cacheAge' = Later(cacheAge, Cache)
    BY <1>4 DEF Elapse
  <2>3. /\ statsAge' = statsAge + 1 \/ (statsAge = Forever /\ statsAge' = statsAge)
        /\ rowsAge' = rowsAge + 1 \/ (rowsAge = Forever /\ rowsAge' = rowsAge)
        /\ cacheAge' = cacheAge + 1 \/ (cacheAge = Cache /\ cacheAge' = cacheAge)
        /\ rowsAge' <= Forever /\ statsAge' <= Forever
    <3>1. {statsAge, rowsAge} \subseteq 0..Forever /\ cacheAge \in 0..Cache
      BY <1>t
    <3>2. /\ statsAge' \in 0..Forever
          /\ statsAge' = statsAge + 1 \/ (statsAge = Forever /\ statsAge' = statsAge)
      BY <3>1, <2>2, LaterIs, TimesAre
    <3>3. /\ rowsAge' \in 0..Forever
          /\ rowsAge' = rowsAge + 1 \/ (rowsAge = Forever /\ rowsAge' = rowsAge)
      BY <3>1, <2>2, LaterIs, TimesAre
    <3>4. cacheAge' = cacheAge + 1 \/ (cacheAge = Cache /\ cacheAge' = cacheAge)
      BY <3>1, <2>2, LaterIs, TimesAre
    <3> QED BY <3>2, <3>3, <3>4, TimesAre
  <2>4. query' \in {"stats", "take"} => statsAge' <= rowsAge'
    BY <1>0, <1>t, <2>1, <2>3, TimesAre
  <2>5. query' \in {"take", "build"} \/ DOMAIN table'.items # {} =>
            rowsAge' <= Oldest + cacheAge'
    BY <1>0, <1>t, <2>1, <2>3, TimesAre
  <2>7. First' => statsAge' <= Delay
    <3>1. First' => statsAge < Delay
      BY <1>4, <2>1 DEF Elapse, TickerInTime
    <3> QED BY <1>t, <2>3, <3>1, TimesAre
  <2>6. Up' => statsAge' <= sinceTick' + Delay
    <3> SUFFICES ASSUME Up' PROVE statsAge' <= sinceTick' + Delay
      OBVIOUS
    <3>1. Ticking /\ ~pending' /\ loader \in {"idle", "return"} /\ ~failed
      BY <2>1 DEF Ticking
    <3>2. /\ sinceTick' = (sinceTick + 1) % Interval
          /\ pending' = (pending \/ sinceTick + 1 = Interval)
      BY <1>4, <3>1 DEF Elapse, TickerElapses
    <3>3. ~pending /\ sinceTick + 1 # Interval
      BY <3>1, <3>2
    <3>4. statsAge <= sinceTick + Delay
      BY <1>0, <3>1, <3>3
    <3>5. sinceTick' = sinceTick + 1
      <4>1. sinceTick + 1 \in 0..(Interval - 1)
        BY <1>t, <3>3, TimesAre
      <4> QED BY <3>2, <4>1, TimesAre
    <3> QED BY <1>t, <2>3, <3>4, <3>5, TimesAre
  <2> QED BY <2>4, <2>5, <2>6, <2>7 DEF AgeInv
<1>5. CASE Query \/ KeepTable \/ RefuseStale \/ Answer
  <2>1. /\ UNCHANGED <<process, statsAge, loader, failed, sinceTick, pending, cacheAge, table>>
        /\ query' \in {"update", "answer", "idle"}
        /\ rowsAge' = rowsAge \/ (query = "stats" /\ rowsAge' = Forever)
    BY <1>5 DEF Query, KeepTable, RefuseStale, Answer, At, startVars, loadVars
  <2> QED BY <1>0, <1>e, <2>1 DEF AgeInv, Ticking
<1>6. CASE ClearTable
  <2>1. /\ UNCHANGED <<process, statsAge, loader, failed, sinceTick, pending>>
        /\ query' = "age" /\ table' = EmptyTable
    BY <1>6 DEF ClearTable, At, startVars, loadVars
  <2>2. DOMAIN EmptyTable.items = {}
    BY DEF EmptyTable
  <2> QED BY <1>0, <2>1, <2>2 DEF AgeInv, Ticking
<1>7. CASE ReadAge
  <2>1. /\ UNCHANGED <<process, statsAge, loader, failed, sinceTick, pending, table>>
        /\ query = "age" /\ query' = "stats" /\ rowsAge' = statsAge
    BY <1>7 DEF ReadAge, At, startVars, loadVars
  <2> QED BY <1>0, <1>e, <1>t, <2>1, TimesAre DEF AgeInv, Ticking
<1>8. CASE AcceptAge \/ TakeStats
  <2>1. /\ UNCHANGED <<process, statsAge, loader, failed, sinceTick, pending, cacheAge, table>>
        /\ \/ /\ query = "stats" /\ query' = "take" /\ rowsAge' = rowsAge
              /\ ~(rowsAge > Oldest)
           \/ query = "take" /\ query' = "build" /\ rowsAge' = statsAge
    BY <1>8 DEF AcceptAge, TakeStats, Refuses, At, startVars, loadVars
  <2>2. rowsAge' <= Oldest + cacheAge' /\ statsAge' <= rowsAge'
    BY <1>0, <1>t, <2>1, TimesAre
  <2> QED BY <1>0, <1>e, <2>1, <2>2 DEF AgeInv, Ticking
<1>9. CASE BuildServers \/ BuildStatus
  <2>1. /\ UNCHANGED <<process, statsAge, loader, failed, sinceTick, pending, cacheAge, rowsAge>>
        /\ query = "build" /\ query' = "answer"
    BY <1>9 DEF BuildServers, BuildStatus, BuildTable, At, startVars, loadVars
  <2> QED BY <1>0, <2>1 DEF AgeInv, Ticking
<1>10. CASE Stopped \/ UNCHANGED vars
  BY <1>0, <1>10 DEF Stopped, vars, AgeInv, startVars, loadVars, handlerVars, Ticking
<1> QED BY <1>1, <1>2, <1>3, <1>4, <1>5, <1>6, <1>7, <1>8, <1>9, <1>10 DEF Next, Update

-----------------------------------------------------------------------------
(* TableInv                                                                *)

(* A set of oids that a monitor may show.                                  *)
Showable(O) ==
    /\ IsFiniteSet(O)
    /\ \A oid \in O : oid \in Oid /\ oid # <<>> /\ oid[1] < RangeEnd[1]

LEMMA RangeEndIs ==
    /\ RangeEnd \in Oid /\ 1 \in 1..Len(RangeEnd) /\ RangeEnd[1] \in Nat
    /\ RangeEnd[1] > Columns /\ RangeEnd[1] > 3
<1>1. RangeEnd \in Seq(Nat) /\ RangeEnd # <<>>
  BY MonitorsAssumption DEF Oid
<1>2. Len(RangeEnd) \in Nat /\ Len(RangeEnd) # 0
  BY <1>1
<1> QED BY <1>1, <1>2, MonitorsAssumption DEF Oid

LEMMA EmptyIsTable ==
    EmptyTable = TableOf(EmptyTable.items) /\ DOMAIN EmptyTable.items = {}
<1>1. DOMAIN EmptyTable.items = {}
  BY DEF EmptyTable
<1>2. SortOids({}) = <<>>
  <2>1. Cardinality({}) = 0
    BY FS_EmptySet
  <2>2. SortOids({}) \in Seq({}) /\ Len(SortOids({})) = 0
    BY <2>1, FS_EmptySet, SortIsAscending
  <2> QED BY <2>2
<1>3. EmptyTable.items = [o \in {} |-> o]
  BY DEF EmptyTable
<1> QED BY <1>1, <1>2, <1>3 DEF EmptyTable, TableOf

(* The cpnr monitor: a column and a row.                                   *)
LEMMA ServersShowable ==
    ASSUME NEW servers, IsFiniteSet(DOMAIN servers), NEW keys,
           keys = SortKeys(DOMAIN servers)
    PROVE  Showable(DOMAIN ServerTable(servers, keys))
<1> DEFINE N == Cardinality(DOMAIN servers)
           O == {<<c, row>> : c \in 1..Columns, row \in DOMAIN keys}
<1>1. N \in Nat /\ Columns \in Nat
  BY FS_CardinalityType, CpnrAssumption
<1>2. DOMAIN keys = 1..N
  BY DEF SortKeys
<1>3. DOMAIN ServerTable(servers, keys) = O
  BY DEF ServerTable
<1>4. IsFiniteSet(O)
  <2>1. O = (1..Columns) \X (DOMAIN keys)
    OBVIOUS
  <2>2. IsFiniteSet(1..Columns) /\ IsFiniteSet(DOMAIN keys)
    BY <1>1, <1>2, FS_Interval
  <2> HIDE DEF O, N
  <2> QED BY <2>1, <2>2, FS_Product
<1>5. ASSUME NEW oid \in O PROVE oid \in Oid /\ oid # <<>> /\ oid[1] < RangeEnd[1]
  <2>1. PICK c \in 1..Columns, row \in DOMAIN keys : oid = <<c, row>>
    OBVIOUS
  <2>2. c \in Nat /\ row \in Nat /\ c <= Columns
    BY <1>1, <1>2
  <2>3. oid \in Seq(Nat) /\ oid # <<>>
    BY <2>1, <2>2
  <2> QED BY <2>1, <2>2, <2>3, <1>1, RangeEndIs DEF Oid
<1> QED BY <1>3, <1>4, <1>5 DEF Showable

(* The php-fpm monitor: a group, one, a column, a server, and a row.       *)
LEMMA StatusShowable ==
    ASSUME NEW pool, NEW procs \in Seq(Text)
    PROVE  Showable(DOMAIN StatusTable(pool, procs))
<1> DEFINE M == {<<1, 1, 1, 1, 1>>}
           P == {<<2, 1, c, 1, 1>> : c \in DOMAIN PoolTypes}
           Q == {<<3, 1, c, 1, row>> : c \in DOMAIN ProcTypes, row \in DOMAIN procs}
           C == DOMAIN PoolTypes
           D == DOMAIN ProcTypes
           R == DOMAIN procs
<1>1. DOMAIN StatusTable(pool, procs) = M \cup P \cup Q
  BY DEF StatusTable
<1>2. IsFiniteSet(C) /\ C \subseteq Nat /\ IsFiniteSet(D) /\ D \subseteq Nat
  BY PhpFpmAssumption
<1>3. IsFiniteSet(R) /\ R \subseteq Nat
  <2>1. R = 1..Len(procs) /\ Len(procs) \in Nat
    OBVIOUS
  <2> QED BY <2>1, FS_Interval
<1>4. IsFiniteSet(M)
  BY FS_Singleton
<1>5. IsFiniteSet(P)
  <2> DEFINE f == [c \in C |-> <<2, 1, c, 1, 1>>]
  <2>1. f \in Surjection(C, P)
    BY DEF Surjection
  <2> HIDE DEF C, P, f
  <2> QED BY <1>2, <2>1, FS_Surjection
<1>6. IsFiniteSet(Q)
  <2> DEFINE g == [p \in D \X R |-> <<3, 1, p[1], 1, p[2]>>]
  <2>1. g \in [D \X R -> Q]
    OBVIOUS
  <2>2. ASSUME NEW q \in Q PROVE \E p \in D \X R : g[p] = q
    <3>1. PICK c \in D, row \in R : q = <<3, 1, c, 1, row>>
      OBVIOUS
    <3>2. <<c, row>> \in D \X R /\ g[<<c, row>>] = q
      BY <3>1
    <3> QED BY <3>2
  <2>3. IsFiniteSet(D \X R)
    <3> HIDE DEF D, R
    <3> QED BY <1>2, <1>3, FS_Product
  <2>4. g \in Surjection(D \X R, Q)
    <3> HIDE DEF g, Q
    <3> QED BY <2>1, <2>2 DEF Surjection
  <2> HIDE DEF D, R, Q, g
  <2> QED BY <2>3, <2>4, FS_Surjection
<1>7. IsFiniteSet(M \cup P \cup Q)
  <2> HIDE DEF M, P, Q
  <2>1. IsFiniteSet(M \cup P)
    BY <1>4, <1>5, FS_Union
  <2> QED BY <1>6, <2>1, FS_Union
<1>8. ASSUME NEW oid \in M \cup P \cup Q
      PROVE  oid \in Oid /\ oid # <<>> /\ oid[1] < RangeEnd[1]
  <2>1. CASE oid \in M
    <3>1. oid = <<1, 1, 1, 1, 1>>
      BY <2>1
    <3> QED BY <3>1, RangeEndIs DEF Oid
  <2>2. CASE oid \in P
    <3>1. PICK c \in C : oid = <<2, 1, c, 1, 1>>
      BY <2>2
    <3>2. c \in Nat
      BY <1>2
    <3> QED BY <3>1, <3>2, RangeEndIs DEF Oid
  <2>3. CASE oid \in Q
    <3>1. PICK c \in D, row \in R : oid = <<3, 1, c, 1, row>>
      BY <2>3
    <3>2. c \in Nat /\ row \in Nat
      BY <1>2, <1>3
    <3> QED BY <3>1, <3>2, RangeEndIs DEF Oid
  <2> QED BY <2>1, <2>2, <2>3
<1> QED BY <1>1, <1>7, <1>8 DEF Showable

(* The tables that update builds.                                          *)
LEMMA BuiltTable ==
    ASSUME IndInv,
           \/ BuildServers /\ program = "cpnr"
           \/ BuildStatus /\ program = "php-fpm"
    PROVE  \E items : Showable(DOMAIN items) /\ BuildTable(items)
<1>1. CASE BuildServers /\ program = "cpnr"
  <2>1. PICK keys \in {SortKeys(DOMAIN snap)} :
            \E items \in {ServerTable(snap, keys)} : BuildTable(items)
    BY <1>1 DEF BuildServers
  <2>2. PICK items \in {ServerTable(snap, keys)} : BuildTable(items)
    BY <2>1
  <2>3. IsFiniteSet(DOMAIN snap)
    <3>1. snap \in {ParseListing(listing) : listing \in Listings} \cup {NoStats}
      BY <1>1 DEF IndInv, OutputInv
    <3>2. CASE snap = NoStats
      <4>1. DOMAIN snap = {}
        BY <3>2 DEF NoStats
      <4> QED BY <4>1, FS_EmptySet
    <3>3. ASSUME NEW listing \in Listings, snap = ParseListing(listing)
          PROVE  IsFiniteSet(DOMAIN snap)
      <4>1. Len(listing) \in Nat
        BY CpnrAssumption
      <4>2. DOMAIN snap = 0..(Len(listing) - 1)
        BY <3>3 DEF ParseListing
      <4> QED BY <4>1, <4>2, FS_Interval
    <3> QED BY <3>1, <3>2, <3>3
  <2>4. Showable(DOMAIN items)
    BY <2>3, ServersShowable
  <2> QED BY <2>2, <2>4
<1>2. CASE BuildStatus /\ program = "php-fpm"
  <2>1. Visible \subseteq Status
    <3>1. Ticking
      BY <1>2 DEF BuildStatus, BuildTable, At, IndInv, PhaseInv, Ticking
    <3> QED BY <1>2, <3>1 DEF Visible, IndInv, OutputInv
  <2>2. PICK a \in Visible, b \in Visible : BuildTable(StatusTable(a.pool, b.procs))
    BY <1>2 DEF BuildStatus
  <2>3. b.procs \in Seq(Text)
    BY <2>1 DEF Status
  <2>4. Showable(DOMAIN StatusTable(a.pool, b.procs))
    BY <2>3, StatusShowable
  <2> QED BY <2>2, <2>4
<1> QED BY <1>1, <1>2

LEMMA TableStep == IndInv /\ [Next]_vars => TableInv'
<1> SUFFICES ASSUME IndInv, [Next]_vars PROVE TableInv'
  OBVIOUS
<1>0. /\ table = TableOf(table.items)
      /\ Showable(DOMAIN table.items)
      /\ query \in {"age", "stats", "take", "build"} => DOMAIN table.items = {}
  BY DEF IndInv, TableInv, Showable
<1>q. TableInv' <=>
        /\ table' = TableOf(table'.items)
        /\ Showable(DOMAIN table'.items)
        /\ query' \in {"age", "stats", "take", "build"} => DOMAIN table'.items = {}
  BY DEF TableInv, Showable, TableOf
<1>1. CASE /\ table' = table
           /\ query' \in {"age", "stats", "take", "build"} =>
                query \in {"age", "stats", "take", "build"}
  BY <1>0, <1>1, <1>q
<1>2. CASE ClearTable
  <2>1. table' = EmptyTable
    BY <1>2 DEF ClearTable
  <2>2. Showable({})
    BY FS_EmptySet DEF Showable
  <2> QED BY <2>1, <2>2, <1>q, EmptyIsTable
<1>3. CASE \/ BuildServers /\ program = "cpnr"
           \/ BuildStatus /\ program = "php-fpm"
  <2>1. PICK items : Showable(DOMAIN items) /\ BuildTable(items)
    BY <1>3, BuiltTable
  <2>2. table' = TableOf(items) /\ query' = "answer"
    BY <2>1 DEF BuildTable, At
  <2>3. table'.items = items
    BY <2>2 DEF TableOf
  <2> QED BY <2>1, <2>2, <2>3, <1>q
<1>4. CASE Start \/ Load
  BY <1>1, <1>4, StartMoves, LoadMoves DEF handlerVars
<1>5. CASE KeepTable \/ ReadAge \/ RefuseStale \/ AcceptAge \/ TakeStats \/ Query \/ Answer
  BY <1>1, <1>5 DEF KeepTable, ReadAge, RefuseStale, AcceptAge, TakeStats, Query, Answer, At
<1>6. CASE Race \/ Elapse \/ Stopped \/ UNCHANGED vars
  BY <1>1, <1>6 DEF Race, MapRace, Elapse, Stopped, vars, handlerVars
<1> QED BY <1>2, <1>3, <1>4, <1>5, <1>6 DEF Next, Update

-----------------------------------------------------------------------------
(* ListingInv                                                              *)

LEMMA ListingStep == IndInv /\ [Next]_vars => ListingInv'
<1> SUFFICES ASSUME IndInv, [Next]_vars, program' = "cpnr", DOMAIN table'.items # {}
             PROVE  \E listing \in Listings :
                        table'.items = ServerTable(ParseListing(listing),
                                                   SortKeys(0..(Len(listing) - 1)))
  BY DEF ListingInv
<1>a. program = "cpnr"
  BY StartMoves, LoadMoves DEF Next, Update, Race, Elapse, Stopped, vars
<1>1. CASE table' = table
  BY <1>1, <1>a DEF IndInv, ListingInv
<1>2. CASE ClearTable
  <2>1. DOMAIN table'.items = {}
    BY <1>2, EmptyIsTable DEF ClearTable
  <2> QED BY <2>1
<1>3. CASE BuildServers
  <2>1. table'.items = ServerTable(snap, SortKeys(DOMAIN snap))
    BY <1>3 DEF BuildServers, BuildTable, TableOf
  <2>2. CASE \E listing \in Listings : snap = ParseListing(listing)
    <3>1. PICK listing \in Listings : snap = ParseListing(listing)
      BY <2>2
    <3>2. DOMAIN snap = 0..(Len(listing) - 1)
      BY <3>1 DEF ParseListing
    <3> QED BY <2>1, <3>1, <3>2
  <2>3. CASE snap = NoStats
    <3>1. DOMAIN snap = {}
      BY <2>3 DEF NoStats
    <3>2. DOMAIN SortKeys({}) = {}
      BY FS_EmptySet DEF SortKeys
    <3>3. DOMAIN table'.items = {}
      BY <2>1, <3>1, <3>2 DEF ServerTable
    <3> QED BY <3>3
  <2> QED BY <1>a, <2>2, <2>3 DEF IndInv, OutputInv
<1>4. CASE Start \/ Load
  BY <1>1, <1>4, StartMoves, LoadMoves DEF handlerVars
<1>5. CASE KeepTable \/ ReadAge \/ RefuseStale \/ AcceptAge \/ TakeStats \/ Query \/ Answer
  BY <1>1, <1>5 DEF KeepTable, ReadAge, RefuseStale, AcceptAge, TakeStats, Query, Answer, At
<1>6. CASE Race \/ Elapse \/ Stopped \/ UNCHANGED vars
  BY <1>1, <1>6 DEF Race, MapRace, Elapse, Stopped, vars, handlerVars
<1> QED BY <1>a, <1>2, <1>3, <1>4, <1>5, <1>6 DEF Next, Update

-----------------------------------------------------------------------------
(* TypeOK                                                                  *)

(* The conversion to a signed type ends within its range.                  *)
LEMMA WrapFits ==
    ASSUME NEW n \in Int, NEW max \in Nat PROVE Wrap(n, max) \in -max - 1..max
<1> DEFINE d == 2 * max + 2
           low == Unsigned(n, max)
<1>1. low \in 0..(2 * max + 1)
  <2>1. d \in Nat /\ d > 0 /\ d - 1 = 2 * max + 1
    OBVIOUS
  <2>2. n % d \in 0..(d - 1)
    <3> HIDE DEF d
    <3> QED BY <2>1
  <2> QED BY <2>1, <2>2 DEF Unsigned
<1>2. Wrap(n, max) = IF low > max THEN low - 2 * max - 2 ELSE low
  BY DEF Wrap
<1> HIDE DEF low
<1> QED BY <1>1, <1>2

LEMMA ValueFits ==
    ASSUME NEW index, NEW text
    PROVE  GetOIDValue(index, "Integer", text) \in -MaxInt32 - 1..MaxInt32
<1>1. GetOIDValue(index, "Integer", text) = Wrap(ParseValue(index, text), MaxInt32)
  BY DEF GetOIDValue
<1>2. MaxInt32 \in Nat /\ Unknown \in 0..MaxInt32
  BY PhpFpmAssumption
<1>3. ParseValue(index, text) \in Int
  <2>1. CASE index \in DOMAIN DataEnums /\ text \in DOMAIN DataEnums[index]
    <3>1. DataEnums[index][text] \in 0..MaxInt32
      BY <2>1, PhpFpmAssumption
    <3> QED BY <1>2, <2>1, <3>1 DEF ParseValue
  <2>2. CASE index \notin DOMAIN DataEnums /\ text \in Int64
    BY <2>2, Int64Is DEF ParseValue
  <2>3. CASE ParseValue(index, text) = Unknown
    BY <1>2, <2>3
  <2> QED BY <2>1, <2>2, <2>3 DEF ParseValue
<1> QED BY <1>1, <1>2, <1>3, WrapFits

LEMMA IntegersStep == IndInv /\ [Next]_vars => IntegersFit'
<1> SUFFICES ASSUME IndInv, [Next]_vars, program' = "php-fpm",
                    NEW oid \in DOMAIN table'.items,
                    \/ oid[1] = 2 /\ PoolTypes[oid[3]] = "Integer"
                    \/ oid[1] = 3 /\ ProcTypes[oid[3]] = "Integer"
             PROVE  table'.items[oid] \in -MaxInt32 - 1..MaxInt32
  BY DEF IntegersFit
<1>a. program = "php-fpm"
  BY StartMoves, LoadMoves DEF Next, Update, Race, Elapse, Stopped, vars
<1>1. CASE table' = table
  BY <1>1, <1>a DEF IndInv, TypeOK, IntegersFit
<1>2. CASE ClearTable
  <2>1. DOMAIN table'.items = {}
    BY <1>2, EmptyIsTable DEF ClearTable
  <2> QED BY <2>1
<1>3. CASE BuildStatus
  <2>1. Visible \subseteq Status
    <3>1. Ticking
      BY <1>3 DEF BuildStatus, BuildTable, At, IndInv, PhaseInv, Ticking
    <3> QED BY <1>a, <3>1 DEF Visible, IndInv, OutputInv
  <2>2. PICK a \in Visible, b \in Visible : BuildTable(StatusTable(a.pool, b.procs))
    BY <1>3 DEF BuildStatus
  <2>4. table'.items = StatusTable(a.pool, b.procs)
    BY <2>2 DEF BuildTable, TableOf
  <2>5. CASE oid[1] = 2
    <3>1. table'.items[oid] = GetOIDValue(<<2, oid[3]>>, PoolTypes[oid[3]], a.pool)
      BY <2>4, <2>5 DEF StatusTable
    <3>2. PoolTypes[oid[3]] = "Integer"
      BY <2>5
    <3> QED BY <3>1, <3>2, ValueFits
  <2>6. CASE oid[1] = 3
    <3>1. table'.items[oid] = GetOIDValue(<<3, oid[3]>>, ProcTypes[oid[3]], b.procs[oid[5]])
      BY <2>4, <2>6 DEF StatusTable
    <3>2. ProcTypes[oid[3]] = "Integer"
      BY <2>6
    <3> QED BY <3>1, <3>2, ValueFits
  <2> QED BY <2>5, <2>6
<1>4. CASE Start \/ Load
  BY <1>1, <1>4, StartMoves, LoadMoves DEF handlerVars
<1>5. CASE KeepTable \/ ReadAge \/ RefuseStale \/ AcceptAge \/ TakeStats \/ Query \/ Answer
  BY <1>1, <1>5 DEF KeepTable, ReadAge, RefuseStale, AcceptAge, TakeStats, Query, Answer, At
<1>6. CASE Race \/ Elapse \/ Stopped \/ UNCHANGED vars
  BY <1>1, <1>6 DEF Race, MapRace, Elapse, Stopped, vars, handlerVars
<1> QED BY <1>a, <1>2, <1>3, <1>4, <1>5, <1>6 DEF Next, Update

LEMMA TypeStep == IndInv /\ [Next]_vars => TypeOK'
<1> SUFFICES ASSUME IndInv, [Next]_vars PROVE TypeOK'
  OBVIOUS
<1> DEFINE StartOK == /\ process \in Stages
                      /\ left \subseteq DOMAIN logging /\ nilBackend \in BOOLEAN
           LoadOK == /\ locked \in BOOLEAN /\ failed \in BOOLEAN /\ pending \in BOOLEAN
                     /\ loader \in {"idle", "command", "lock", "store", "assign", "copy", "return"}
                     /\ sinceTick \in 0..(Interval - 1) /\ statsAge \in 0..Forever
           HandlerOK == /\ query \in Places
                        /\ rowsAge \in 0..Forever /\ cacheAge \in 0..Cache
<1>0. program \in Programs /\ StartOK /\ LoadOK /\ HandlerOK
  BY DEF IndInv, TypeOK
<1>q. /\ program' \in Programs /\ StartOK' /\ LoadOK' /\ HandlerOK' /\ IntegersFit'
      => TypeOK'
  BY DEF TypeOK
<1>a. IntegersFit'
  BY IntegersStep
<1>b. program' = program
  BY StartMoves, LoadMoves DEF Next, Update, Race, Elapse, Stopped, vars
<1>c. /\ 0 \in 0..(Interval - 1) /\ 0 \in 0..Forever /\ Forever \in 0..Forever
      /\ 0 \in 0..Cache
  BY TimesAre
<1>1. StartOK'
  <2>1. CASE Start
    BY <1>0, <2>1 DEF Start, Startup, LoadConfigFails, LoadConfig, ValidateLogging,
        ResetLogging, SetBackend, StartSubAgent, RegisterSubAgent, Signal, Exit,
        Stages, Ended, Unused
  <2>2. CASE Load
    BY <1>0, <2>2, LoadMoves DEF Stages
  <2>3. CASE Race
    BY <1>0, <2>3 DEF Race, MapRace, Stages, Ended
  <2>4. CASE Update \/ Elapse \/ Stopped \/ Query \/ Answer \/ UNCHANGED vars
    <3>1. UNCHANGED startVars
      BY <2>4 DEF Update, KeepTable, ClearTable, ReadAge, RefuseStale, AcceptAge, TakeStats,
           BuildServers, BuildStatus, BuildTable, At, Elapse, Stopped, Query, Answer, vars
    <3> QED BY <1>0, <3>1 DEF startVars
  <2> QED BY <2>1, <2>2, <2>3, <2>4 DEF Next
<1>2. LoadOK'
  <2>1. CASE Load
    <3>1. CASE StoreStats
      BY <1>0, <1>c, <3>1 DEF StoreStats, tickVars
    <3>2. CASE NrcmdFails
      BY <1>0, <1>c, <3>2 DEF NrcmdFails, ExecuteReturns
    <3>3. CASE NrcmdEnds \/ CurlEnds \/ AssignEntry
      BY <1>0, <3>3 DEF NrcmdEnds, CurlEnds, AssignEntry, tickVars
    <3>4. CASE LockStats("store") \/ LockStats("assign")
      BY <1>0, <3>4 DEF LockStats, tickVars
    <3>5. CASE Execute \/ Return
      BY <1>0, <1>c, <3>5 DEF Execute, Return, ExecuteReturns
    <3> QED BY <2>1, <3>1, <3>2, <3>3, <3>4, <3>5
            DEF Load, CpnrLoad, CurlLoad, LoadListing, LoadStatus
  <2>2. CASE Elapse
    <3>1. statsAge' \in 0..Forever
      BY <1>0, <2>2, LaterIs, TimesAre DEF Elapse
    <3>2. sinceTick' \in 0..(Interval - 1) /\ pending' \in BOOLEAN
      <4>1. CASE Ticking
        <5>1. sinceTick' = (sinceTick + 1) % Interval /\ sinceTick + 1 \in Nat
          BY <1>0, <2>2, <4>1, TimesAre DEF Elapse, TickerElapses
        <5>2. sinceTick' \in 0..(Interval - 1)
          BY <5>1, TimesAre
        <5>3. pending' \in BOOLEAN
          BY <2>2, <4>1 DEF Elapse, TickerElapses
        <5> QED BY <5>2, <5>3
      <4>2. CASE ~Ticking
        BY <1>0, <2>2, <4>2 DEF Elapse, TickerElapses, tickVars
      <4> QED BY <4>1, <4>2
    <3> QED BY <1>0, <2>2, <3>1, <3>2 DEF Elapse
  <2>3. CASE Start \/ Update \/ Race \/ Stopped \/ Query \/ Answer \/ UNCHANGED vars
    <3>1. UNCHANGED loadVars
      BY <2>3, StartMoves DEF Update, KeepTable, ClearTable, ReadAge, RefuseStale, AcceptAge,
           TakeStats, BuildServers, BuildStatus, BuildTable, At, Race, MapRace,
           Stopped, Query, Answer, vars
    <3> QED BY <1>0, <3>1 DEF loadVars
  <2> QED BY <2>1, <2>2, <2>3 DEF Next
<1>3. HandlerOK'
  <2>1. CASE Update \/ Query \/ Answer
    BY <1>0, <1>c, <2>1 DEF Update, KeepTable, ClearTable, ReadAge, RefuseStale, AcceptAge,
         TakeStats, BuildServers, BuildStatus, BuildTable, At, Query, Answer, Places
  <2>2. CASE Elapse
    BY <1>0, <2>2, LaterIs, TimesAre DEF Elapse
  <2>3. CASE Start \/ Load \/ Race \/ Stopped \/ UNCHANGED vars
    <3>1. UNCHANGED handlerVars
      BY <2>3, StartMoves, LoadMoves DEF Race, MapRace, Stopped, vars
    <3> QED BY <1>0, <3>1 DEF handlerVars
  <2> QED BY <2>1, <2>2, <2>3 DEF Next
<1> QED BY <1>0, <1>q, <1>a, <1>b, <1>1, <1>2, <1>3

-----------------------------------------------------------------------------
(* The invariant, and what follows from it.                                *)

LEMMA IndInvInit == Init => IndInv
<1> SUFFICES ASSUME Init PROVE IndInv
  OBVIOUS
<1> USE DEF Init, CommonsInit, ManagerInit, HandlerInit
<1>1. DOMAIN table.items = {} /\ table = TableOf(table.items)
  BY EmptyIsTable
<1>2. TypeOK
  <2>1. IntegersFit
    BY <1>1 DEF IntegersFit
  <2>2. process \in Stages /\ loader = "idle" /\ query \in Places
    BY DEF Stages, Places
  <2>3. program \in Programs /\ left \subseteq DOMAIN logging
    OBVIOUS
  <2>4. nilBackend \in BOOLEAN /\ {locked, failed, pending} \subseteq BOOLEAN
    OBVIOUS
  <2>5. /\ sinceTick \in 0..(Interval - 1) /\ cacheAge \in 0..Cache
        /\ {statsAge, rowsAge} \subseteq 0..Forever
    BY TimesAre
  <2> QED BY <2>1, <2>2, <2>3, <2>4, <2>5 DEF TypeOK
<1>3. StartInv
  BY DEF StartInv
<1>4. PhaseInv
  BY DEF PhaseInv
<1>5. OutputInv
  BY DEF OutputInv, Ticking
<1>6. TableInv
  BY <1>1, FS_EmptySet DEF TableInv
<1>7. ListingInv
  BY <1>1 DEF ListingInv
<1>8. AgeInv
  BY <1>1 DEF AgeInv, Ticking
<1>9. LockedToStore
  BY DEF LockedToStore, Storing
<1> QED BY <1>2, <1>3, <1>4, <1>5, <1>6, <1>7, <1>8, <1>9 DEF IndInv

LEMMA IndInvStep == IndInv /\ [Next]_vars => IndInv'
BY TypeStep, LockStep, StartStep, PhaseStep, OutputStep, TableStep,
   ListingStep, AgeStep DEF IndInv

(* The inductive invariant of the monitors, for any times and outputs.     *)
THEOREM IndInvHolds == Spec => []IndInv
BY IndInvInit, IndInvStep, PTL DEF Spec

(* The monitors' types; no Integer of php-fpm leaves 32 bits.              *)
THEOREM TypeCorrect == Spec => []TypeOK
<1>1. IndInv => TypeOK
  BY DEF IndInv
<1> QED BY <1>1, IndInvHolds, PTL

(* No query ever waits for a command, whatever ends it and however long it *)
(* takes.                                                                  *)
THEOREM LockedToStoreHolds == Spec => []LockedToStore
<1>1. IndInv => LockedToStore
  BY DEF IndInv
<1> QED BY <1>1, IndInvHolds, PTL

(* No accepted configuration makes a monitor panic at its first log line.  *)
THEOREM NeverPanicsHolds == Spec => []NeverPanics
<1>1. IndInv => NeverPanics
  BY DEF IndInv, StartInv, NeverPanics
<1> QED BY <1>1, IndInvHolds, PTL

(* A table that is kept is younger than Oldest and Cache together, for any *)
(* limits, loads and delays.                                               *)
THEOREM FreshRowsHolds == Spec => []FreshRows
<1>1. IndInv => FreshRows
  <2> SUFFICES ASSUME IndInv, DOMAIN table.items # {}, cacheAge < Cache
               PROVE  rowsAge < Oldest + Cache
    BY DEF FreshRows
  <2>1. rowsAge <= Oldest + cacheAge
    BY DEF IndInv, AgeInv
  <2>2. rowsAge \in Nat /\ cacheAge \in Nat
    BY TimesAre DEF IndInv, TypeOK
  <2> QED BY <2>1, <2>2, TimesAre
<1> QED BY <1>1, IndInvHolds, PTL

(* A loader that keeps up with its ticker is never refused, for any        *)
(* interval and start of the ticker that together fit Oldest.              *)
THEOREM RefusedOnlyWhenLateHolds == Spec => RefusedOnlyWhenLate
<1> DEFINE Excused ==
        query = "stats" /\ query' = "answer" /\ rowsAge = statsAge =>
            pending \/ loader \notin {"idle", "return"} \/ failed
<1>1. IndInv /\ [Next]_vars => [Excused]_vars
  <2> SUFFICES ASSUME IndInv, Next,
                      query = "stats", query' = "answer", rowsAge = statsAge,
                      ~pending, loader \in {"idle", "return"}, ~failed
               PROVE  FALSE
    OBVIOUS
  <2>1. RefuseStale
    BY StartMoves, LoadMoves
       DEF Next, Update, KeepTable, ClearTable, ReadAge, AcceptAge, TakeStats, BuildServers,
           BuildStatus, BuildTable, At, Race, MapRace, Elapse, Stopped, Query, Answer,
           vars, handlerVars
  <2>2. rowsAge > Oldest
    BY <2>1 DEF RefuseStale, Refuses
  <2>3. Ticking
    BY <2>1 DEF RefuseStale, At, IndInv, PhaseInv, Ticking
  <2>4. statsAge <= sinceTick + Delay
    BY <2>3 DEF IndInv, AgeInv
  <2>5. statsAge \in Nat /\ sinceTick \in 0..(Interval - 1)
    BY TimesAre DEF IndInv, TypeOK
  <2> QED BY <2>2, <2>4, <2>5, TimesAre
<1> QED BY <1>1, IndInvHolds, PTL DEF Spec, RefusedOnlyWhenLate

LEMMA WalkInTable == TableInv => WalkVisitsAll
<1> SUFFICES ASSUME TableInv, NEW r \in Asked \cup WalkSteps PROVE AnswersLeast(r)
  BY DEF WalkVisitsAll
<1> DEFINE S == DOMAIN table.items
           oids == table.oids
           H == Hits(oids, r.from, r.include, r.to)
           wanted == {oid \in S : InRange(oid, r.from, r.include, r.to)}
<1>1. oids = SortOids(S) /\ S \in SUBSET (Oid \ {<<>>}) /\ IsFiniteSet(S)
  BY DEF TableInv, TableOf
<1>2. {oids[i] : i \in DOMAIN oids} = S /\ oids \in Seq(Oid) /\ Ascending(oids)
  <2>1. S \in SUBSET Oid
    BY <1>1
  <2> HIDE DEF S, oids
  <2>2. /\ {oids[i] : i \in DOMAIN oids} = S
        /\ oids \in Seq(S) /\ Ascending(oids)
    BY <1>1, <2>1, SortIsAscending DEF Ascending
  <2> QED BY <2>1, <2>2
<1>3. r.from \in Oid /\ r.include \in BOOLEAN /\ r.to \in Oid /\ OIDLessThan(r.from, r.to)
  <2>1. CASE r \in Asked
    BY <2>1, MonitorsAssumption
  <2>2. CASE r \in WalkSteps
    <3>1. /\ r.from \in S \cup {<<>>} /\ r.include = FALSE /\ r.to = RangeEnd
      BY <2>2 DEF WalkSteps
    <3>2. OIDLessThan(<<>>, RangeEnd) /\ <<>> \in Oid
      BY RangeEndIs DEF OIDLessThan, AgreeTo, Oid
    <3>3. ASSUME NEW oid \in S PROVE OIDLessThan(oid, RangeEnd)
      <4>1. oid \in Oid /\ oid # <<>> /\ oid[1] < RangeEnd[1]
        BY DEF TableInv
      <4>2. 1 \in 1..Len(oid) /\ oid[1] \in Nat
        BY <4>1 DEF Oid
      <4>3. DiffersAt(1, oid, RangeEnd)
        BY <4>1, <4>2, RangeEndIs DEF DiffersAt, AgreeTo
      <4> QED BY <4>1, <4>2, <4>3 DEF OIDLessThan
    <3> QED BY <1>1, <3>1, <3>2, <3>3, RangeEndIs
  <2> QED BY <2>1, <2>2
<1>4. /\ H = {i \in DOMAIN oids : InRange(oids[i], r.from, r.include, r.to)}
      /\ H # {} => \E n \in H : /\ FirstHit(oids, r.from, r.include, r.to) = oids[n]
                                /\ \A i \in H \ {n} : OIDLessThan(oids[n], oids[i])
  BY <1>2, <1>3, GetNextIsLeast
<1>5. GetNext(r.from, r.include, r.to) =
        IF H = {} THEN NoSuchObject
        ELSE DoGet(FirstHit(oids, r.from, r.include, r.to))
  BY DEF GetNext
<1>6. wanted = {oids[i] : i \in H}
  BY <1>2, <1>4
<1> HIDE DEF H, S, oids, wanted
<1>7. wanted = {} => GetNext(r.from, r.include, r.to) = NoSuchObject
  BY <1>5, <1>6
<1>8. ASSUME wanted # {}
      PROVE  \E least \in wanted :
                /\ GetNext(r.from, r.include, r.to) = DoGet(least)
                /\ \A oid \in wanted \ {least} : OIDLessThan(least, oid)
  <2>1. H # {}
    BY <1>6, <1>8
  <2>2. PICK n \in H : /\ FirstHit(oids, r.from, r.include, r.to) = oids[n]
                       /\ \A i \in H \ {n} : OIDLessThan(oids[n], oids[i])
    BY <1>4, <2>1
  <2>3. oids[n] \in wanted /\ GetNext(r.from, r.include, r.to) = DoGet(oids[n])
    BY <1>5, <1>6, <2>1, <2>2
  <2>4. \A oid \in wanted \ {oids[n]} : OIDLessThan(oids[n], oid)
    BY <1>6, <2>2
  <2> QED BY <2>3, <2>4
<1> QED BY <1>7, <1>8 DEF AnswersLeast, wanted, S

LEMMA UpTo ==
    ASSUME NEW n \in Nat PROVE IsFiniteSet(1..n) /\ Cardinality(1..n) = n
<1>1. IsFiniteSet(1..n) /\ Cardinality(1..n) = IF 1 > n THEN 0 ELSE n - 1 + 1
  BY FS_Interval
<1> QED BY <1>1

(* What the rows of a listing count up to.                                 *)
LEMMA ListingCounted ==
    ASSUME NEW listing \in Seq(Servers), NEW items,
           items = ServerTable(ParseListing(listing), SortKeys(0..(Len(listing) - 1)))
    PROVE  /\ Cardinality(DOMAIN items) = Columns * Len(listing)
           /\ \A server :
                Cardinality({oid \in DOMAIN items : oid[1] = 2 /\ items[oid] = server}) =
                  Cardinality({i \in 1..Len(listing) : listing[i] = server})
<1> DEFINE N == Len(listing)
           K == 0..(N - 1)
           keys == SortKeys(K)
           O == {<<c, row>> : c \in 1..Columns, row \in 1..N}
<1>1. N \in Nat /\ IsFiniteSet(K) /\ Cardinality(K) = N /\ K \in SUBSET Nat
  <2>1. N \in Nat /\ 0 \in Int /\ N - 1 \in Int /\ K \in SUBSET Nat
    OBVIOUS
  <2>2. IsFiniteSet(0..(N - 1))
        /\ Cardinality(0..(N - 1)) = IF 0 > N - 1 THEN 0 ELSE N - 1 - 0 + 1
    BY <2>1, FS_Interval
  <2> QED BY <2>1, <2>2
<1>2. keys \in Bijection(1..N, K)
  BY <1>1, SortKeysIsBijection
<1>3. /\ keys \in [1..N -> K]
      /\ \A i, j \in 1..N : keys[i] = keys[j] => i = j
      /\ \A k \in K : \E i \in 1..N : keys[i] = k
  <2> HIDE DEF keys, N, K
  <2> QED BY <1>2 DEF Bijection, Injection, Surjection, IsInjective
<1>4. DOMAIN items = O
  <2>1. DOMAIN keys = 1..N
    BY <1>3
  <2> QED BY SMTT(30), <2>1 DEF ServerTable
<1>5. ASSUME NEW row \in 1..N
      PROVE  <<2, row>> \in DOMAIN items /\ items[<<2, row>>] = listing[keys[row] + 1]
  <2>1. <<2, row>> \in DOMAIN items
    BY <1>4, CpnrAssumption
  <2>2. items[<<2, row>>] = ParseListing(listing)[keys[row]]
    <3>1. items[<<2, row>>] = IF <<2, row>>[1] = 1 THEN <<2, row>>[2]
                              ELSE ParseListing(listing)[keys[<<2, row>>[2]]]
      BY <2>1 DEF ServerTable
    <3> HIDE DEF keys
    <3> QED BY <3>1
  <2>3. keys[row] \in K
    BY <1>3
  <2> HIDE DEF keys
  <2> QED BY <2>1, <2>2, <2>3 DEF ParseListing
<1>6. Cardinality(DOMAIN items) = Columns * N
  <2> DEFINE C == 1..Columns
             R == 1..N
  <2>1. O = C \X R
    OBVIOUS
  <2>2. /\ IsFiniteSet(C) /\ Cardinality(C) = Columns
        /\ IsFiniteSet(R) /\ Cardinality(R) = N
    BY <1>1, CpnrAssumption, UpTo
  <2>3. Cardinality(C \X R) = Cardinality(C) * Cardinality(R)
    <3> HIDE DEF C, R
    <3> QED BY <2>2, FS_Product
  <2> HIDE DEF C, R, N, O
  <2> QED BY <1>4, <2>1, <2>2, <2>3
<1>7. ASSUME NEW server
      PROVE  Cardinality({oid \in DOMAIN items : oid[1] = 2 /\ items[oid] = server}) =
               Cardinality({i \in 1..N : listing[i] = server})
  <2> DEFINE R == {oid \in DOMAIN items : oid[1] = 2 /\ items[oid] = server}
             L == {i \in 1..N : listing[i] = server}
             M == {row \in 1..N : listing[keys[row] + 1] = server}
             f == [row \in M |-> <<2, row>>]
             g == [row \in M |-> keys[row] + 1]
  <2>1. IsFiniteSet(M)
    <3>1. IsFiniteSet(1..N)
      BY <1>1, UpTo
    <3> HIDE DEF N, keys
    <3> QED BY <3>1, FS_Subset
  <2>2. f \in Bijection(M, R)
    <3>1. f \in [M -> R]
      BY <1>5
    <3>2. \A a, b \in M : f[a] = f[b] => a = b
      OBVIOUS
    <3>3. ASSUME NEW oid \in R PROVE \E row \in M : f[row] = oid
      <4>1. PICK c \in 1..Columns, row \in 1..N : oid = <<c, row>>
        BY <1>4
      <4>2. oid = <<2, row>>
        BY <4>1
      <4>3. row \in M
        BY <1>5, <4>2
      <4> QED BY <4>2, <4>3
    <3> HIDE DEF f, M, R
    <3> QED BY <3>1, <3>2, <3>3 DEF Bijection, Injection, Surjection, IsInjective
  <2>3. g \in Bijection(M, L)
    <3> HIDE DEF keys
    <3>1. g \in [M -> L]
      BY <1>1, <1>3
    <3>2. ASSUME NEW a \in M, NEW b \in M, g[a] = g[b] PROVE a = b
      <4>0. keys[a] \in K /\ keys[b] \in K /\ g[a] = keys[a] + 1 /\ g[b] = keys[b] + 1
        BY <1>3
      <4>1. keys[a] \in Int /\ keys[b] \in Int /\ keys[a] + 1 = keys[b] + 1
        BY <1>1, <3>2, <4>0
      <4>2. keys[a] = keys[b] /\ a \in 1..N /\ b \in 1..N
        BY <4>1
      <4> QED BY <1>3, <4>2
    <3>3. ASSUME NEW i \in L PROVE \E row \in M : g[row] = i
      <4>1. i - 1 \in K
        BY <1>1
      <4>2. PICK row \in 1..N : keys[row] = i - 1
        BY <1>3, <4>1
      <4>3. keys[row] + 1 = i
        BY <4>2
      <4> QED BY <4>2, <4>3
    <3> HIDE DEF g, M, L
    <3> QED BY <3>1, <3>2, <3>3 DEF Bijection, Injection, Surjection, IsInjective
  <2> HIDE DEF M, R, L, f, g
  <2>4. ExistsBijection(M, R) /\ ExistsBijection(M, L)
    BY <2>2, <2>3 DEF ExistsBijection
  <2>5. Cardinality(R) = Cardinality(M) /\ Cardinality(L) = Cardinality(M)
    BY <2>1, <2>4, FS_Bijection
  <2> QED BY <2>5 DEF R, L
<1> QED BY <1>6, <1>7

(* A table of the cpnr monitor shows one listing completely, for any       *)
(* outputs and any number of servers and columns.                          *)
THEOREM ShowsOneListingHolds == Spec => []ShowsOneListing
<1>1. IndInv => ShowsOneListing
  <2> SUFFICES ASSUME IndInv, program = "cpnr", DOMAIN table.items # {}
               PROVE  \E listing \in Listings :
                        /\ Cardinality(DOMAIN table.items) = Columns * Len(listing)
                        /\ \A n \in 1..Len(listing) :
                            Cardinality(Rows(listing[n])) =
                              Cardinality({i \in 1..Len(listing) : listing[i] = listing[n]})
    BY DEF ShowsOneListing
  <2>1. PICK listing \in Listings :
            table.items = ServerTable(ParseListing(listing),
                                      SortKeys(0..(Len(listing) - 1)))
    BY DEF IndInv, ListingInv
  <2>2. listing \in Seq(Servers)
    BY CpnrAssumption
  <2>3. /\ Cardinality(DOMAIN table.items) = Columns * Len(listing)
        /\ \A server : Cardinality(Rows(server)) =
                         Cardinality({i \in 1..Len(listing) : listing[i] = server})
    BY <2>1, <2>2, ListingCounted, Zenon DEF Rows
  <2> QED BY <2>3
<1> QED BY <1>1, IndInvHolds, PTL

(* Every table that update builds is walked completely, for any outputs.   *)
THEOREM WalkSkipsNothingHolds == Spec => WalkSkipsNothing
<1>1. TableInv => WalkVisitsAll
  BY WalkInTable
<1>2. TableInv' => WalkVisitsAll'
  BY <1>1, PTL
<1>3. IndInv /\ [Next]_vars => [table' # table => WalkVisitsAll']_vars
  BY <1>2, TableStep
<1> QED BY <1>3, IndInvHolds, PTL DEF Spec, WalkSkipsNothing

-----------------------------------------------------------------------------
(* The refinement of Snapshot.                                             *)

LEMMA SnapshotStarts == Init => Statistics!SnapshotInit
<1> SUFFICES ASSUME Init PROVE Statistics!SnapshotInit
  OBVIOUS
<1>1. Visible = {NoStats} /\ Taken = {} /\ statsAge \in Nat /\ query # "take"
  BY TimesAre DEF Init, ManagerInit, HandlerInit, Visible, Taken
<1>2. table.items = Statistics!NoRows
  BY DEF Init, HandlerInit, EmptyTable, Statistics!NoRows
<1> QED
  BY <1>1, <1>2 DEF Statistics!SnapshotInit, Statistics!Whole, Taken

(* What a reader finds while no entry is being copied.                     *)
LEMMA OneVisible ==
    /\ loader # "copy" => Visible = {stats}
    /\ loader = "copy" => Visible = {stats, out}
    /\ loader' # "copy" => Visible' = {stats'}
    /\ loader' = "copy" => Visible' = {stats', out'}
BY DEF Visible

(* The steps that Snapshot does not see.                                   *)
LEMMA SnapshotStays ==
    ASSUME UNCHANGED <<program, stats, statsAge>>, table'.items = table.items,
           \/ UNCHANGED <<loader, out>>
           \/ loader # "copy" /\ loader' # "copy",
           \/ UNCHANGED <<query, snap>>
           \/ {query, query'} \cap {"take", "build"} = {}
    PROVE  UNCHANGED Statistics!snapshotVars
<1>1. Visible' = Visible
  BY OneVisible
<1>2. Taken' = Taken
  BY DEF Taken
<1> QED
  BY <1>1, <1>2 DEF Statistics!snapshotVars, Taken

LEMMA SnapshotOfLoad ==
    ASSUME IndInv, Load
    PROVE  [Statistics!SnapshotNext]_(Statistics!snapshotVars)
<1>0. /\ UNCHANGED <<program, handlerVars>> /\ Taken' = Taken
      /\ table'.items = table.items
      /\ (query = "take")' = (query = "take")
  BY LoadMoves DEF handlerVars, Taken
<1>p. /\ program \in {"cpnr", "php-fpm"}
      /\ program = "cpnr" => loader \notin {"assign", "copy"}
      /\ program = "php-fpm" => loader # "store"
  BY MonitorsAssumption DEF IndInv, TypeOK, OutputInv
<1>1. CASE ~StoreStats /\ ~AssignEntry
  <2>1. /\ UNCHANGED <<stats, statsAge>>
        /\ loader # "copy" /\ loader' # "copy"
    BY <1>1 DEF Load, CpnrLoad, CurlLoad, NrcmdEnds, NrcmdFails, LoadListing,
       CurlEnds, LoadStatus, LockStats, Execute, Return, ExecuteReturns
  <2> QED
    BY <1>0, <2>1, SnapshotStays DEF handlerVars
<1>2. CASE AssignEntry
  <2>1. /\ UNCHANGED <<stats, statsAge, out>>
        /\ loader = "assign" /\ loader' = "copy" /\ program = "php-fpm"
    BY <1>2, <1>p DEF AssignEntry
  <2>2. Visible = {stats} /\ Visible' = {stats, out}
    BY <2>1, OneVisible
  <2> QED
    BY <1>0, <2>1, <2>2 DEF Statistics!SnapshotNext, Statistics!Write,
       Statistics!Whole, Taken
<1>3. CASE StoreStats
  <2>1. /\ stats' = out /\ statsAge' = 0 /\ loader' = "return"
    BY <1>3 DEF StoreStats
  <2>2. program = "php-fpm" => loader = "copy"
    <3>1. ASSUME program = "php-fpm", loader # "copy" PROVE FALSE
      BY <1>3, <1>p, <2>1, <3>1 DEF Load, CurlLoad, CurlEnds, LoadStatus,
         LockStats, AssignEntry, Execute, Return, ExecuteReturns
    <3> QED BY <3>1
  <2>3. Visible' = {out} /\ (program = "php-fpm" => out \in Visible)
    BY <2>1, <2>2, OneVisible
  <2> QED
    BY <1>0, <2>1, <2>3 DEF Statistics!SnapshotNext, Statistics!Store, Taken
<1> QED
  BY <1>1, <1>2, <1>3

LEMMA SnapshotOfUpdate ==
    ASSUME IndInv, Update
    PROVE  [Statistics!SnapshotNext]_(Statistics!snapshotVars)
<1>0. UNCHANGED <<program, loadVars>> /\ Visible' = Visible
  BY OneVisible DEF Update, KeepTable, ClearTable, ReadAge, RefuseStale, AcceptAge, TakeStats,
     BuildServers, BuildStatus, BuildTable, At, loadVars
<1>1. CASE KeepTable \/ ReadAge \/ RefuseStale
  <2>1. /\ UNCHANGED <<snap, table>>
        /\ {query, query'} \cap {"take", "build"} = {}
    BY <1>1 DEF KeepTable, ReadAge, RefuseStale, At
  <2> QED
    BY <1>0, <2>1, SnapshotStays DEF loadVars
<1>2. CASE ClearTable
  <2>1. /\ Taken = {} /\ Taken' = {} /\ table'.items = Statistics!NoRows
        /\ query # "take" /\ query' # "take"
    BY <1>2 DEF ClearTable, At, Taken, EmptyTable, Statistics!NoRows
  <2> QED
    BY <1>0, <2>1 DEF Statistics!SnapshotNext, Statistics!Clear, Taken, loadVars
<1>e. query \in {"stats", "take"} => table.items = Statistics!NoRows
  <2>1. query \in {"stats", "take"} => DOMAIN table.items = {}
    BY DEF IndInv, TableInv
  <2> QED
    BY <2>1 DEF IndInv, TableInv, TableOf, Statistics!NoRows
<1>3. CASE AcceptAge
  <2>1. /\ query = "stats" /\ query' = "take" /\ UNCHANGED <<table, snap>>
        /\ rowsAge <= Oldest
    BY <1>3, TimesAre DEF AcceptAge, At, Refuses, IndInv, TypeOK
  <2>2. statsAge <= Oldest
    BY <2>1, TimesAre DEF IndInv, TypeOK, AgeInv
  <2>3. Taken = {} /\ Taken' = {}
    BY <2>1 DEF Taken
  <2> QED
    BY <1>0, <1>e, <2>1, <2>2, <2>3 DEF Statistics!SnapshotNext, Statistics!Check,
       Taken, loadVars
<1>6. CASE TakeStats
  <2>1. /\ query = "take" /\ query' = "build" /\ snap' = stats
        /\ UNCHANGED table /\ ~locked
    BY <1>6 DEF TakeStats, At
  <2>2. Visible = {stats}
    BY <2>1, OneVisible DEF IndInv, LockedToStore, Storing
  <2>3. Taken = {} /\ Taken' = {stats}
    BY <2>1 DEF Taken
  <2> QED
    BY <1>0, <2>1, <2>2, <2>3 DEF Statistics!SnapshotNext, Statistics!Take,
       Statistics!Whole, Taken, loadVars
<1>4. CASE program = "cpnr" /\ BuildServers
  <2>1. /\ query = "build" /\ query' = "answer"
        /\ table'.items = ServerTable(snap, SortKeys(DOMAIN snap))
    BY <1>4 DEF BuildServers, BuildTable, At, TableOf
  <2>2. Taken = {snap} /\ Taken' = {}
    BY <2>1 DEF Taken
  <2>3. table'.items = RowsOf(program = "php-fpm", snap, snap)
    BY <1>4, <2>1 DEF RowsOf
  <2> QED
    BY <1>0, <1>4, <2>1, <2>2, <2>3 DEF Statistics!SnapshotNext, Statistics!Show,
       Taken, loadVars
<1>5. CASE program = "php-fpm" /\ BuildStatus
  <2>1. /\ query = "build" /\ query' = "answer"
        /\ \E a, b \in Visible : table'.items = StatusTable(a.pool, b.procs)
    BY <1>5 DEF BuildStatus, BuildTable, At, TableOf
  <2>2. Taken = {snap} /\ Taken' = {}
    BY <2>1 DEF Taken
  <2>3. \E a, b \in Visible : table'.items = RowsOf(program = "php-fpm", a, b)
    BY <1>5, <2>1 DEF RowsOf
  <2> QED
    BY <1>0, <1>5, <2>1, <2>2, <2>3 DEF Statistics!SnapshotNext, Statistics!Show,
       Taken, loadVars
<1> QED
  BY <1>1, <1>2, <1>3, <1>4, <1>5, <1>6 DEF Update

LEMMA SnapshotStep ==
    ASSUME IndInv, [Next]_vars
    PROVE  [Statistics!SnapshotNext]_(Statistics!snapshotVars)
<1>1. CASE Load
  BY <1>1, SnapshotOfLoad
<1>2. CASE Update
  BY <1>2, SnapshotOfUpdate
<1>3. CASE Elapse
  <2>1. /\ UNCHANGED <<program, stats, loader, out, query, snap, table>>
        /\ statsAge' = Later(statsAge, Forever)
    BY <1>3 DEF Elapse
  <2>2. statsAge' \in {statsAge, statsAge + 1}
    BY <2>1, TimesAre, LaterIs DEF IndInv, TypeOK
  <2>3. Visible' = Visible /\ Taken' = Taken
    BY <2>1, OneVisible DEF Taken
  <2> QED
    BY <2>1, <2>2, <2>3 DEF Statistics!SnapshotNext, Statistics!Pass, Taken
<1>4. CASE Start \/ Race \/ Stopped \/ UNCHANGED vars
  BY <1>4, StartMoves, SnapshotStays DEF Race, MapRace, Stopped, vars, loadVars,
     handlerVars
<1>5. CASE (Query \/ Answer) /\ UNCHANGED program
  BY <1>5, SnapshotStays DEF Query, Answer, At, loadVars
<1> QED
  BY <1>1, <1>2, <1>3, <1>4, <1>5 DEF Next

(* The rows a monitor shows are those of statistics that were whole when   *)
(* Stats returned them; and when update accepted the age that LastUpdated  *)
(* gave it, those there were no older than Oldest.  update, Load, their    *)
(* mutex and the two clocks implement Snapshot, for any outputs and times. *)
THEOREM SpecRefinesSnapshot == Spec => RefinesSnapshot
<1>1. IndInv /\ [Next]_vars => [Statistics!SnapshotNext]_(Statistics!snapshotVars)
  BY SnapshotStep
<1> QED
  BY <1>1, SnapshotStarts, IndInvHolds, PTL
     DEF Spec, RefinesSnapshot, Statistics!SnapshotSpec
=============================================================================
