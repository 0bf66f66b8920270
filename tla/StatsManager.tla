---------------------------- MODULE StatsManager ----------------------------
(***************************************************************************)
(* The loader of a monitor: Run executes the command once before main goes *)
(* on, then a goroutine does at every tick.  The channel of a ticker holds *)
(* one tick.  A command has no time limit.                                 *)
(*                                                                         *)
(* Times are kept as ages, up to the age at which nothing depends on them  *)
(* any more (Forever).                                                     *)
(***************************************************************************)
EXTENDS Commons, Naturals

CONSTANTS
    Interval,  \* between two ticks: main's 60 seconds
    Oldest,    \* oldest_allowed: 90 seconds
    Cache,     \* how long a table is kept: 3 seconds
    Delay      \* between the end of Run's first load and its ticker, at most

ASSUME TimesAssumption ==
    /\ {Interval, Oldest, Cache} \subseteq Nat \ {0} /\ Delay \in Nat
    /\ Interval + Delay <= Oldest

Forever == Oldest + Cache

VARIABLES
    locked,     \* StatsManager.mutex is held by Load
    stats,      \* StatsManager.stats, what the map holds
    statsAge,   \* time since StatsManager.last_updated
    loader,     \* where Execute is
    out,        \* the output Load works on
    failed,     \* the last command that ended returned an error
    sinceTick,  \* time since the last tick
    pending     \* a tick in the ticker's channel

loadVars == <<locked, stats, statsAge, loader, out, failed, sinceTick, pending>>
tickVars == <<sinceTick, pending>>

Alive   == process \notin Ended
Ticking == process \in {"register", "serving"}

NoStats == [k \in {} |-> k]

ManagerInit ==
    /\ locked = FALSE
    /\ stats = NoStats /\ statsAge = Forever
    /\ loader = "idle" /\ out = NoStats /\ failed = FALSE
    /\ sinceTick = 0 /\ pending = FALSE

Later(age, limit) == IF age < limit THEN age + 1 ELSE limit

(* time.NewTicker: a tick that finds the channel full is dropped.          *)
TickerElapses ==
    IF Ticking
    THEN /\ sinceTick' = (sinceTick + 1) % Interval
         /\ pending' = (pending \/ sinceTick + 1 = Interval)
    ELSE UNCHANGED tickVars

(* The first Execute, by main, and those of the goroutine.                 *)
Execute_Locked ==
    /\ loader = "idle"
    /\ \/ process = "run" /\ UNCHANGED pending
       \/ Ticking /\ pending /\ pending' = FALSE
    /\ loader' = "command"
    /\ ~locked /\ locked' = TRUE
    /\ UNCHANGED <<startVars, stats, statsAge, out, failed, sinceTick>>
Execute ==
    /\ loader = "idle"
    /\ \/ process = "run" /\ UNCHANGED pending
       \/ Ticking /\ pending /\ pending' = FALSE
    /\ loader' = "command"
    /\ UNCHANGED <<startVars, locked, stats, statsAge, out, failed, sinceTick>>

(* Execute returns; at the first time Run starts the ticker and main goes  *)
(* on to the registration.                                                 *)
ExecuteReturns ==
    /\ loader' = "idle" /\ out' = NoStats
    /\ process' = IF process = "run" THEN "register" ELSE process
    /\ sinceTick' = IF process = "run" THEN 0 ELSE sinceTick
    /\ UNCHANGED <<logging, left, nilBackend, pending>>

LockStats(next) ==
    /\ Alive /\ loader = "lock" /\ loader' = next
    /\ ~locked /\ locked' = TRUE
    /\ UNCHANGED <<startVars, stats, statsAge, out, failed, tickVars>>

(* Load stores what it read, stamps it and unlocks.                        *)
StoreStats ==
    /\ stats' = out /\ out' = NoStats
    /\ statsAge' = 0
    /\ locked' = FALSE /\ failed' = FALSE
    /\ loader' = "return"
    /\ UNCHANGED <<startVars, tickVars>>

Return ==
    /\ loader = "return" /\ Alive
    /\ ExecuteReturns
    /\ UNCHANGED <<locked, stats, statsAge, failed>>

(* Time may pass but between the first stamp and the ticker, after Delay.  *)
TickerInTime == process = "run" /\ loader = "return" => statsAge < Delay
=============================================================================
