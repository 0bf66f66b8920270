----------------------------- MODULE Application -----------------------------
(***************************************************************************)
(* One registered Application: the goroutine of appRegister and later of   *)
(* Unregister (Caller), the goroutine rediscover (Loop), and the           *)
(* goroutines of the AgentX session that answer SNMP queries (Getters).    *)
(* discover and stopRediscover hold Application.m; Get does not.           *)
(*                                                                         *)
(* Application.oids is a Go map, that is a reference: RemoveAllOids makes  *)
(* a new map, it does not empty the old one, and Get has a value receiver, *)
(* so a query keeps the map that was current when Get was called.  maps    *)
(* holds the contents of every map still referenced.                       *)
(*                                                                         *)
(* As in SnmpSubagent, an operator X_Y is X with a seeded fault.           *)
(***************************************************************************)
EXTENDS Naturals, FiniteSets, Sequences

CONSTANTS
    Oids,         \* the oids that may be discovered or asked for
    Subtree,      \* those the SNMP handler accepts, under the base oid
    InitialOids,  \* the oids of the registration form
    Answers,      \* the oid lists a discovery may return, in order
    Getters, Caller, Loop, None,
    Rediscovers,  \* discover_interval > 0
    MapIds        \* references of the maps

ASSUME ActorsAssumption ==
    /\ Caller # Loop
    /\ Caller \notin Getters /\ Loop \notin Getters
    /\ None \notin Getters \cup {Caller, Loop} \cup MapIds \cup Oids
ASSUME AnswersAssumption == Answers \subseteq Seq(Oids)
ASSUME OidsAssumption == InitialOids \subseteq Oids /\ Subtree \subseteq Oids
ASSUME RediscoversAssumption == Rediscovers \in BOOLEAN
(* One map is current, one may be new, and every query may hold another.   *)
ASSUME MapIdsAssumption ==
    /\ IsFiniteSet(MapIds) /\ IsFiniteSet(Getters)
    /\ Cardinality(MapIds) > Cardinality(Getters) + 1

VARIABLES
    m,            \* holder of Application.m, or None
    handlerOids,  \* the oids registered in Application.handler
    maps,         \* contents of the maps
    current,      \* the map Application.oids refers to
    writing,      \* the map a discovery is just writing to, or None
    pc,           \* next step of every goroutine
    left,         \* what is left of the discovered list
    asked,        \* the oid a query asks for
    ref,          \* the map in a query's copy of the Application
    missed,       \* the query logged "OID not registered"
    dead          \* the Go runtime killed the process

vars == <<m, handlerOids, maps, current, writing, pc, left, asked, ref,
          missed, dead>>
getVars  == <<asked, ref, missed>>
dataVars == <<handlerOids, maps, current, writing, left>>

Discoverers == {Caller, Loop}
Actors == Discoverers \cup Getters
Locked == {"http", "unregisterAll", "removeAll", "register", "write", "send"}
Places == Locked \cup {"discover", "registered", "stopped", "off", "top",
                       "select", "quit", "idle", "called", "lookup", "fetch"}

TypeOK ==
    /\ m \in Discoverers \cup {None}
    /\ handlerOids \in SUBSET Oids
    /\ maps \in [MapIds -> SUBSET Oids]
    /\ current \in MapIds
    /\ writing \in MapIds \cup {None}
    /\ pc \in [Actors -> Places]
    /\ left \in Seq(Oids)
    /\ asked \in [Getters -> Oids \cup {None}]
    /\ ref \in [Getters -> MapIds \cup {None}]
    /\ missed \in [Getters -> BOOLEAN]
    /\ dead \in BOOLEAN

(* NewApplication: the handler refuses the oids outside the base oid.      *)
Init ==
    /\ m = None
    /\ handlerOids = InitialOids \cap Subtree
    /\ current = CHOOSE i \in MapIds : TRUE
    /\ maps = [i \in MapIds |-> IF i = current THEN InitialOids \cap Subtree
                                               ELSE {}]
    /\ writing = None
    /\ pc = [t \in Actors |-> CASE t = Caller -> "discover"
                                [] t = Loop   -> "off"
                                [] OTHER      -> "idle"]
    /\ left = <<>>
    /\ asked = [g \in Getters |-> None]
    /\ ref = [g \in Getters |-> None]
    /\ missed = [g \in Getters |-> FALSE]
    /\ dead = FALSE

Goto(t, place) == pc' = [pc EXCEPT ![t] = place]

Move(t, place, next) ==
    /\ ~dead
    /\ pc[t] = place
    /\ Goto(t, next)
    /\ UNCHANGED dead

-----------------------------------------------------------------------------
(* discover, called by appRegister and by rediscover.                      *)

DiscoverLock_Unlocked(t) ==
    /\ Move(t, "discover", "http")
    /\ m' = t
    /\ UNCHANGED <<dataVars, getVars>>
DiscoverLock(t) ==
    /\ Move(t, "discover", "http")
    /\ m = None /\ m' = t
    /\ UNCHANGED <<dataVars, getVars>>

(* discover returns and unlocks; appRegister then starts the loop.         *)
DiscoverReturns(t) ==
    /\ pc' = IF t = Caller
             THEN [pc EXCEPT ![Caller] = "registered",
                             ![Loop] = IF Rediscovers THEN "top" ELSE "off"]
             ELSE [pc EXCEPT ![Loop] = "top"]
    /\ m' = None

(* The GET fails, times out, is refused or cannot be parsed.               *)
DiscoverFails(t) ==
    /\ ~dead /\ pc[t] = "http"
    /\ DiscoverReturns(t)
    /\ UNCHANGED <<dataVars, getVars, dead>>

DiscoverAnswers(t) ==
    /\ Move(t, "http", "unregisterAll")
    /\ left' \in Answers
    /\ UNCHANGED <<m, handlerOids, maps, current, writing, getVars>>

(* SNMPHandler.UnregisterAll                                               *)
UnregisterAll(t) ==
    /\ Move(t, "unregisterAll", "removeAll")
    /\ handlerOids' = {}
    /\ UNCHANGED <<m, maps, current, writing, left, getVars>>

(* RemoveAllOids: a new map that nothing refers to.                        *)
Fresh == MapIds \ ({current} \cup {ref[g] : g \in Getters})
RemoveAllOids_InPlace(t) ==
    /\ Move(t, "removeAll", "register")
    /\ maps' = [maps EXCEPT ![current] = {}]
    /\ UNCHANGED <<m, current, handlerOids, writing, left, getVars>>
RemoveAllOids(t) ==
    /\ Move(t, "removeAll", "register")
    /\ current' = CHOOSE i \in Fresh : TRUE
    /\ maps' = [maps EXCEPT ![current'] = {}]
    /\ UNCHANGED <<m, handlerOids, writing, left, getVars>>

(* SNMPHandler.Register of the next oid: one it refuses is skipped.        *)
RegisterOid_KeepRefused(t) ==
    /\ left # <<>>
    /\ Move(t, "register", "write")
    /\ writing' = current
    /\ handlerOids' = handlerOids \cup ({Head(left)} \cap Subtree)
    /\ UNCHANGED <<m, maps, current, left, getVars>>
RegisterOid(t) ==
    /\ left # <<>>
    /\ \/ /\ Head(left) \in Subtree
          /\ Move(t, "register", "write")
          /\ handlerOids' = handlerOids \cup {Head(left)}
          /\ writing' = current
          /\ UNCHANGED left
       \/ /\ Head(left) \notin Subtree
          /\ Move(t, "register", "register")
          /\ left' = Tail(left)
          /\ UNCHANGED <<handlerOids, writing>>
    /\ UNCHANGED <<m, maps, current, getVars>>

(* The write to the map ends.                                              *)
WriteOid(t) ==
    /\ Move(t, "write", "register")
    /\ maps' = [maps EXCEPT ![current] = @ \cup {Head(left)}]
    /\ left' = Tail(left)
    /\ writing' = None
    /\ UNCHANGED <<m, handlerOids, current, getVars>>

DiscoverDone(t) ==
    /\ ~dead /\ pc[t] = "register" /\ left = <<>>
    /\ DiscoverReturns(t)
    /\ UNCHANGED <<dataVars, getVars, dead>>

-----------------------------------------------------------------------------
(* rediscover: the select on the ticker and the channel.                   *)

LoopPark == Move(Loop, "top", "select") /\ UNCHANGED <<m, dataVars, getVars>>

LoopTick ==
    /\ \/ Move(Loop, "top", "discover")
       \/ Move(Loop, "select", "discover")
    /\ UNCHANGED <<m, dataVars, getVars>>

(* stopRediscover.  The send succeeds only when the loop is in its select. *)
StopLock ==
    /\ Move(Caller, "registered", "send")
    /\ m = None /\ m' = Caller
    /\ UNCHANGED <<dataVars, getVars>>

StopSend_Blocking ==
    /\ ~dead /\ pc[Caller] = "send"
    /\ pc[Loop] = "select"
    /\ pc' = [pc EXCEPT ![Caller] = "stopped", ![Loop] = "quit"]
    /\ m' = None
    /\ UNCHANGED <<dataVars, getVars, dead>>
StopSend ==
    /\ ~dead /\ pc[Caller] = "send"
    /\ pc' = [pc EXCEPT ![Caller] = "stopped",
                        ![Loop] = IF @ = "select" THEN "quit" ELSE @]
    /\ m' = None
    /\ UNCHANGED <<dataVars, getVars, dead>>

-----------------------------------------------------------------------------
(* Get.  The SNMP handler calls it for an oid it has registered; the call  *)
(* copies the Application, with its reference to the map.                  *)

Query(g) ==
    /\ Move(g, "idle", "called")
    /\ \E o \in handlerOids : asked' = [asked EXCEPT ![g] = o]
    /\ missed' = [missed EXCEPT ![g] = FALSE]
    /\ UNCHANGED <<m, dataVars, ref>>

GetCopy_Locked(g) ==
    /\ m = None
    /\ Move(g, "called", "lookup")
    /\ ref' = [ref EXCEPT ![g] = current]
    /\ UNCHANGED <<m, dataVars, asked, missed>>
GetCopy(g) ==
    /\ Move(g, "called", "lookup")
    /\ ref' = [ref EXCEPT ![g] = current]
    /\ UNCHANGED <<m, dataVars, asked, missed>>

GetLookup(g) ==
    /\ ~dead /\ pc[g] = "lookup"
    /\ IF asked[g] \in maps[ref[g]]
       THEN Goto(g, "fetch") /\ UNCHANGED missed
       ELSE Goto(g, "idle") /\ missed' = [missed EXCEPT ![g] = TRUE]
    /\ ref' = [ref EXCEPT ![g] = None]
    /\ UNCHANGED <<m, dataVars, asked, dead>>

(* The runtime may notice the lookup in a map that is being written.       *)
MapRace(g) ==
    /\ ~dead /\ pc[g] = "lookup"
    /\ writing = ref[g]
    /\ dead' = TRUE
    /\ UNCHANGED <<m, dataVars, getVars, pc>>

(* The GET of the value, within get_timeout, and its conversion.           *)
GetFetch(g) == Move(g, "fetch", "idle") /\ UNCHANGED <<m, dataVars, getVars>>

-----------------------------------------------------------------------------
(* The process is dead, or nothing is left to do.                          *)
Idle ==
    /\ \/ dead
       \/ /\ pc[Caller] = "stopped" /\ pc[Loop] \in {"off", "quit"}
          /\ \A g \in Getters : pc[g] = "idle"
    /\ UNCHANGED vars

Exchange(t) == DiscoverFails(t) \/ DiscoverAnswers(t)

Discover(t) ==
    \/ DiscoverLock(t) \/ UnregisterAll(t) \/ RemoveAllOids(t)
    \/ RegisterOid(t) \/ WriteOid(t) \/ DiscoverDone(t)

Stop == StopLock \/ StopSend

Get(g) == GetCopy(g) \/ GetLookup(g) \/ GetFetch(g)

Next ==
    \/ \E t \in Discoverers : Discover(t) \/ Exchange(t)
    \/ LoopPark \/ LoopTick
    \/ Stop
    \/ \E g \in Getters : Query(g) \/ Get(g) \/ MapRace(g)
    \/ Idle

Spec == Init /\ [][Next]_vars

(* Every goroutine is scheduled, and Application.m starves no one.  An     *)
(* HTTP exchange need not end: with discover_timeout = 0 the client waits  *)
(* for the application forever.                                            *)
Scheduled ==
    /\ \A t \in Discoverers : WF_vars(Discover(t))
    /\ WF_vars(LoopPark \/ LoopTick)
    /\ WF_vars(StopSend) /\ SF_vars(StopLock)
    /\ \A g \in Getters : WF_vars(Get(g))

LiveSpec == Spec /\ Scheduled

-----------------------------------------------------------------------------
(* Whenever no discovery is under way the SNMP handler and the map list    *)
(* the same oids: nothing discover skips or fails at half-way leaves an    *)
(* oid that is served but not known, or known but not served.              *)
HandlerMatchesOids == m = None => handlerOids = maps[current]

(* The map a query has copied loses no oid under it, and does not change   *)
(* at all once it has been replaced: RemoveAllOids makes a new map, and a  *)
(* query under way answers from one discovery's oids.                      *)
SnapshotsAreStable ==
    [][\A g \in Getters :
         ref[g] # None /\ ref'[g] = ref[g] =>
            /\ maps[ref[g]] \subseteq maps'[ref[g]]
            /\ ref[g] # current => maps'[ref[g]] = maps[ref[g]]]_vars

(* Two discoveries never interleave: the map is only written by the holder *)
(* of Application.m, and a stop never cuts a discovery short.              *)
OneDiscovery ==
    \A t \in Discoverers : pc[t] \in Locked => m = t

(* The Application as SnmpSubagent sees it.  A discovery takes effect when *)
(* it makes the new map, the one of appRegister when it returns.           *)
FirstUnderWay == pc[Caller] \in {"discover"} \cup (Locked \ {"send"})

Place(p) ==
    CASE p = "top" -> "looping"    [] p = "select" -> "parked"
      [] p = "discover" -> "waiting"
      [] p \in {"http", "unregisterAll", "removeAll"} -> "discovering"
      [] p \in {"register", "write"} -> "filling"
      [] OTHER -> p

SeenIn(list) == {list[i] : i \in DOMAIN list} \cap Subtree

Filled ==
    IF pc[Loop] \in {"register", "write"}
    THEN maps[current] \cup SeenIn(left) ELSE maps[current]

(* What the discoveries may find.                                          *)
Found == {SeenIn(list) : list \in Answers}

SeenOids == IF FirstUnderWay THEN InitialOids \cap Subtree ELSE Filled

Coarse == INSTANCE Rediscovery WITH
    Apps <- {Loop}, Given <- {}, Discoveries <- Found,
    loop <- [a \in {Loop} |-> Place(pc[a])],
    oids <- [a \in {Loop} |-> SeenOids]

(* The steps of discover, rediscover, stopRediscover and Get, with queries *)
(* in between, add up to what SnmpSubagent takes in one step each: the     *)
(* oids change from one discovery's to another's, and the loop ends only   *)
(* where it is parked.                                                     *)
RefinesRediscovery == Coarse!RediscoverySpec

(* Where a discovery stands: what handler and map agree on at each step.   *)
PhaseInv ==
    /\ m = None => handlerOids = maps[current]
    /\ \A t \in Discoverers :
        /\ pc[t] \in {"http", "unregisterAll", "send", "register"} =>
              handlerOids = maps[current]
        /\ pc[t] = "removeAll" => handlerOids = {}
        /\ pc[t] = "write" =>
              /\ left # <<>> /\ writing = current
              /\ handlerOids = maps[current] \cup {Head(left)}

(* What a discovery fills the map up to is what it found, and before the   *)
(* first one has replaced it the map is the form's.                        *)
ViewInv ==
    /\ FirstUnderWay => pc[Loop] = "off"
    /\ pc[Caller] \in {"discover", "http"} =>
          maps[current] = InitialOids \cap Subtree
    /\ \A t \in Discoverers :
        /\ pc[t] \in {"unregisterAll", "removeAll"} => SeenIn(left) \in Found
        /\ pc[t] \in {"register", "write"} =>
              maps[current] \cup SeenIn(left) \in Found
        /\ pc[t] = "write" => Head(left) \in Subtree

CoreInv == TypeOK /\ OneDiscovery /\ PhaseInv
IndInv == CoreInv /\ ViewInv

(* Get takes no lock: a query is answered even while a discovery hangs.    *)
GetAnswered == \A g \in Getters :
    pc[g] \in {"called", "lookup", "fetch"} ~> (pc[g] = "idle" \/ dead)

(* With a positive discover_timeout no exchange lasts forever.             *)
ExchangesEnd == \A t \in Discoverers : []<>(pc[t] # "http")

(* Then stopRediscover returns, whatever the loop is doing: its send does  *)
(* not wait for a loop that itself waits for Application.m.                *)
StopReturns ==
    ExchangesEnd =>
        (pc[Caller] = "registered" ~> (pc[Caller] = "stopped" \/ dead))

(* The log line of Get: "OID %v not registered. This shouldn't happen".    *)
GetFindsOid == \A g \in Getters : ~missed[g]

(* After stopRediscover the loop is not left waiting for its next tick.    *)
StoppedLoopEnds == pc[Caller] = "stopped" => pc[Loop] # "select"
=============================================================================
