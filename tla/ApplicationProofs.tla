-------------------------- MODULE ApplicationProofs --------------------------
(***************************************************************************)
(* Proofs about Application, for any number of concurrent queries, any     *)
(* oids and any answers of the discoveries.                                *)
(***************************************************************************)
EXTENDS Application, FiniteSetTheorems, FunctionTheorems, TLAPS

USE ActorsAssumption, AnswersAssumption, OidsAssumption,
    RediscoversAssumption

-----------------------------------------------------------------------------
(* RemoveAllOids always finds a new map: the current one and one for every *)
(* query are fewer than MapIds.                                            *)
LEMMA FreshExists ==
    ASSUME TypeOK PROVE Fresh # {}
<1> DEFINE refs == {ref[g] : g \in Getters}
<1>1. IsFiniteSet(refs) /\ Cardinality(refs) <= Cardinality(Getters)
  <2>1. ref \in Surjection(Getters, refs)
    BY DEF TypeOK, Surjection
  <2> QED
    BY <2>1, FS_Surjection, MapIdsAssumption
<1> HIDE DEF refs
<1>2. /\ IsFiniteSet(refs \cup {current})
      /\ Cardinality(refs \cup {current}) <= Cardinality(refs) + 1
  <2>1. Cardinality(refs) \in Nat
    BY <1>1, FS_CardinalityType
  <2>2. /\ IsFiniteSet(refs \cup {current})
        /\ Cardinality(refs \cup {current}) =
              IF current \in refs THEN Cardinality(refs)
                                 ELSE Cardinality(refs) + 1
    BY <1>1, FS_AddElement
  <2> QED
    BY <2>1, <2>2
<1>3. SUFFICES ASSUME MapIds \subseteq refs \cup {current} PROVE FALSE
  BY DEF Fresh, refs
<1>4. Cardinality(MapIds) <= Cardinality(refs \cup {current})
  BY <1>2, <1>3, FS_Subset
<1> QED
  BY <1>1, <1>2, <1>4, FS_CardinalityType, MapIdsAssumption

LEMMA FreshMap ==
    ASSUME TypeOK
    PROVE  LET i == CHOOSE i \in Fresh : TRUE IN
           i \in MapIds /\ i # current /\ \A g \in Getters : i # ref[g]
BY FreshExists DEF Fresh

-----------------------------------------------------------------------------
(* IndInv is inductive.                                                    *)

LEMMA CoreInvInit == Init => CoreInv
<1> SUFFICES ASSUME Init PROVE CoreInv
  OBVIOUS
<1>1. \E i \in MapIds : TRUE
  <2>1. Cardinality(Getters) \in Nat /\ Cardinality(MapIds) \in Nat
    BY MapIdsAssumption, FS_CardinalityType
  <2>2. Cardinality(MapIds) # 0
    BY <2>1, MapIdsAssumption
  <2> QED
    BY <2>2, FS_EmptySet
<1>2. TypeOK
  <2>1. current \in MapIds
    BY <1>1 DEF Init
  <2>2. maps \in [MapIds -> SUBSET Oids]
    BY DEF Init
  <2>3. pc \in [Actors -> Places]
    BY DEF Init, Actors, Discoverers, Places, Locked
  <2>4. /\ asked \in [Getters -> {None}] /\ ref \in [Getters -> {None}]
        /\ missed \in [Getters -> {FALSE}]
    BY DEF Init
  <2>5. /\ m = None /\ writing = None /\ left = <<>> /\ dead = FALSE
        /\ handlerOids \in SUBSET Oids
    BY DEF Init
  <2>6. left \in Seq(Oids)
    BY <2>5
  <2> QED
    BY <2>1, <2>2, <2>3, <2>4, <2>5, <2>6 DEF TypeOK
<1>3. OneDiscovery /\ PhaseInv
  BY <1>1 DEF Init, OneDiscovery, PhaseInv, Actors, Discoverers, Locked
<1> QED
  BY <1>2, <1>3 DEF CoreInv

(* The steps of a discovery.                                               *)
LEMMA DiscoverStep ==
    ASSUME CoreInv, NEW t \in Discoverers, Discover(t) \/ Exchange(t)
    PROVE  CoreInv'
<1> USE DEF Discoverers, Locked
<1>1. CASE DiscoverLock(t)
  <2>1. TypeOK'
    BY <1>1 DEF DiscoverLock, Move, Goto, CoreInv, TypeOK, Actors, Places,
       dataVars, getVars
  <2>2. OneDiscovery' /\ PhaseInv'
    BY <1>1 DEF DiscoverLock, Move, Goto, CoreInv, TypeOK, OneDiscovery,
       PhaseInv, Actors, dataVars
  <2> QED
    BY <2>1, <2>2 DEF CoreInv
<1>2. CASE DiscoverFails(t)
  <2>1. TypeOK'
    BY <1>2 DEF DiscoverFails, DiscoverReturns, CoreInv, TypeOK, Actors,
       Places, dataVars, getVars
  <2>2. OneDiscovery' /\ PhaseInv'
    BY <1>2 DEF DiscoverFails, DiscoverReturns, CoreInv, TypeOK, OneDiscovery,
       PhaseInv, Actors, dataVars
  <2> QED
    BY <2>1, <2>2 DEF CoreInv
<1>3. CASE DiscoverAnswers(t)
  <2>1. TypeOK'
    BY <1>3 DEF DiscoverAnswers, Move, Goto, CoreInv, TypeOK, Actors, Places,
       getVars
  <2>2. OneDiscovery' /\ PhaseInv'
    BY <1>3 DEF DiscoverAnswers, Move, Goto, CoreInv, TypeOK, OneDiscovery,
       PhaseInv, Actors
  <2> QED
    BY <2>1, <2>2 DEF CoreInv
<1>4. CASE UnregisterAll(t)
  <2>1. TypeOK'
    BY <1>4 DEF UnregisterAll, Move, Goto, CoreInv, TypeOK, Actors, Places,
       getVars
  <2>2. OneDiscovery' /\ PhaseInv'
    BY <1>4 DEF UnregisterAll, Move, Goto, CoreInv, TypeOK, OneDiscovery,
       PhaseInv, Actors
  <2> QED
    BY <2>1, <2>2 DEF CoreInv
<1>5. CASE RemoveAllOids(t)
  <2>1. current' \in MapIds /\ maps' = [maps EXCEPT ![current'] = {}]
    BY <1>5, FreshMap DEF RemoveAllOids, CoreInv
  <2>2. TypeOK'
    BY <1>5, <2>1 DEF RemoveAllOids, Move, Goto, CoreInv, TypeOK, Actors,
       Places, getVars
  <2>3. OneDiscovery' /\ PhaseInv'
    BY <1>5, <2>1 DEF RemoveAllOids, Move, Goto, CoreInv, TypeOK,
       OneDiscovery, PhaseInv, Actors
  <2> QED
    BY <2>2, <2>3 DEF CoreInv
<1>6. CASE RegisterOid(t)
  <2>1. Head(left) \in Oids /\ Tail(left) \in Seq(Oids)
    BY <1>6 DEF RegisterOid, CoreInv, TypeOK
  <2>2. TypeOK'
    BY <1>6, <2>1 DEF RegisterOid, Move, Goto, CoreInv, TypeOK, Actors, Places,
       getVars
  <2>3. OneDiscovery' /\ PhaseInv'
    BY <1>6 DEF RegisterOid, Move, Goto, CoreInv, TypeOK, OneDiscovery,
       PhaseInv, Actors
  <2> QED
    BY <2>2, <2>3 DEF CoreInv
<1>7. CASE WriteOid(t)
  <2>1. Head(left) \in Oids /\ Tail(left) \in Seq(Oids)
    BY <1>7 DEF WriteOid, Move, CoreInv, TypeOK, PhaseInv
  <2>2. TypeOK'
    BY <1>7, <2>1 DEF WriteOid, Move, Goto, CoreInv, TypeOK, Actors, Places,
       getVars
  <2>3. OneDiscovery' /\ PhaseInv'
    BY <1>7 DEF WriteOid, Move, Goto, CoreInv, TypeOK, OneDiscovery, PhaseInv,
       Actors
  <2> QED
    BY <2>2, <2>3 DEF CoreInv
<1>8. CASE DiscoverDone(t)
  <2>1. TypeOK'
    BY <1>8 DEF DiscoverDone, DiscoverReturns, CoreInv, TypeOK, Actors,
       Places, dataVars, getVars
  <2>2. OneDiscovery' /\ PhaseInv'
    BY <1>8 DEF DiscoverDone, DiscoverReturns, CoreInv, TypeOK, OneDiscovery,
       PhaseInv, Actors, dataVars
  <2> QED
    BY <2>1, <2>2 DEF CoreInv
<1> QED
  BY <1>1, <1>2, <1>3, <1>4, <1>5, <1>6, <1>7, <1>8 DEF Discover, Exchange

(* The loop between two discoveries, and stopRediscover.                   *)
LEMMA LoopStep ==
    ASSUME CoreInv, LoopPark \/ LoopTick \/ Stop PROVE CoreInv'
<1> USE DEF Discoverers, Locked
<1>1. CASE LoopPark \/ LoopTick
  <2>1. TypeOK'
    BY <1>1 DEF LoopPark, LoopTick, Move, Goto, CoreInv, TypeOK, Actors,
       Places, dataVars, getVars
  <2>2. OneDiscovery' /\ PhaseInv'
    BY <1>1 DEF LoopPark, LoopTick, Move, Goto, CoreInv, TypeOK,
       OneDiscovery, PhaseInv, Actors, dataVars
  <2> QED
    BY <2>1, <2>2 DEF CoreInv
<1>2. CASE StopLock
  <2>1. TypeOK'
    BY <1>2 DEF StopLock, Move, Goto, CoreInv, TypeOK, Actors, Places,
       dataVars, getVars
  <2>2. OneDiscovery' /\ PhaseInv'
    BY <1>2 DEF StopLock, Move, Goto, CoreInv, TypeOK, OneDiscovery, PhaseInv,
       Actors, dataVars
  <2> QED
    BY <2>1, <2>2 DEF CoreInv
<1>3. CASE StopSend
  <2>1. TypeOK'
    BY <1>3 DEF StopSend, CoreInv, TypeOK, Actors, Places, dataVars, getVars
  <2>2. OneDiscovery' /\ PhaseInv'
    BY <1>3 DEF StopSend, CoreInv, TypeOK, OneDiscovery, PhaseInv, Actors,
       dataVars
  <2> QED
    BY <2>1, <2>2 DEF CoreInv
<1> QED
  BY <1>1, <1>2, <1>3 DEF Stop

(* Queries touch nothing a discovery uses.                                 *)
LEMMA QueryStep ==
    ASSUME CoreInv, NEW g \in Getters, Query(g) \/ Get(g) \/ MapRace(g)
    PROVE  CoreInv'
<1>1. TypeOK'
  <2>1. CASE Query(g)
    BY <2>1 DEF Query, Move, Goto, CoreInv, TypeOK, Actors, Places, dataVars
  <2>2. CASE GetCopy(g)
    BY <2>2 DEF GetCopy, Move, Goto, CoreInv, TypeOK, Actors, Places, dataVars
  <2>3. CASE GetLookup(g)
    <3>1. /\ pc' \in [Actors -> Places] /\ missed' \in [Getters -> BOOLEAN]
          /\ ref' \in [Getters -> MapIds \cup {None}]
      BY <2>3 DEF GetLookup, Goto, CoreInv, TypeOK, Actors, Places
    <3> QED
      BY <2>3, <3>1 DEF GetLookup, CoreInv, TypeOK, dataVars
  <2>4. CASE GetFetch(g)
    BY <2>4 DEF GetFetch, Move, Goto, CoreInv, TypeOK, Actors, Places,
       dataVars, getVars
  <2>5. CASE MapRace(g)
    BY <2>5 DEF MapRace, CoreInv, TypeOK, dataVars, getVars
  <2> QED
    BY <2>1, <2>2, <2>3, <2>4, <2>5 DEF Get
<1>2. /\ UNCHANGED <<m, handlerOids, maps, current, writing, left>>
      /\ \A t \in Discoverers : pc'[t] = pc[t]
  BY DEF Query, Get, GetCopy, GetLookup, GetFetch, MapRace, Move, Goto,
     CoreInv, TypeOK, Actors, Discoverers, dataVars
<1>3. OneDiscovery' /\ PhaseInv'
  BY <1>2 DEF CoreInv, OneDiscovery, PhaseInv
<1> QED
  BY <1>1, <1>3 DEF CoreInv

LEMMA CoreInvStep == IndInv /\ [Next]_vars => CoreInv'
<1> SUFFICES ASSUME CoreInv, [Next]_vars PROVE CoreInv'
  BY DEF IndInv
<1>1. CASE UNCHANGED vars
  BY <1>1 DEF vars, CoreInv, TypeOK, OneDiscovery, PhaseInv
<1> QED
  BY <1>1, DiscoverStep, LoopStep, QueryStep DEF Next, Idle

-----------------------------------------------------------------------------
(* What a discovery will have filled the map with.                         *)

LEMMA SeenNext ==
    ASSUME left \in Seq(Oids), left # <<>>
    PROVE  SeenIn(left) = ({Head(left)} \cap Subtree) \cup SeenIn(Tail(left))
<1>1. Len(left) \in Nat \ {0} /\ DOMAIN left = 1..Len(left)
  OBVIOUS
<1>2. DOMAIN Tail(left) = 1..(Len(left) - 1)
  BY <1>1
<1>3. \A i \in 1..(Len(left) - 1) : Tail(left)[i] = left[i + 1]
  BY <1>1
<1>4. ASSUME NEW i \in 1..Len(left), i # 1
      PROVE  i - 1 \in 1..(Len(left) - 1) /\ left[i] = Tail(left)[i - 1]
  BY <1>1, <1>3, <1>4
<1>5. {left[i] : i \in DOMAIN left}
        = {Head(left)} \cup {Tail(left)[i] : i \in DOMAIN Tail(left)}
  <2>1. ASSUME NEW i \in DOMAIN left
        PROVE  left[i] \in {Head(left)}
                            \cup {Tail(left)[k] : k \in DOMAIN Tail(left)}
    <3>1. CASE i = 1
      BY <1>1, <3>1
    <3>2. CASE i # 1
      <4>1. i - 1 \in DOMAIN Tail(left) /\ left[i] = Tail(left)[i - 1]
        BY <1>1, <1>2, <1>4, <3>2
      <4> QED
        BY <4>1
    <3> QED
      BY <3>1, <3>2
  <2>2. Head(left) \in {left[i] : i \in DOMAIN left}
    BY <1>1
  <2>3. ASSUME NEW k \in DOMAIN Tail(left)
        PROVE  Tail(left)[k] \in {left[i] : i \in DOMAIN left}
    <3>1. k + 1 \in DOMAIN left /\ Tail(left)[k] = left[k + 1]
      BY <1>1, <1>2, <1>3
    <3> QED
      BY <3>1
  <2> QED
    BY <2>1, <2>2, <2>3
<1> QED
  BY <1>5 DEF SeenIn

LEMMA SeenNothing == left = <<>> => SeenIn(left) = {}
BY DEF SeenIn

LEMMA ViewInvInit == Init => ViewInv
<1> SUFFICES ASSUME Init PROVE ViewInv
  OBVIOUS
<1>1. current \in MapIds /\ maps[current] = InitialOids \cap Subtree
  BY CoreInvInit DEF Init, CoreInv, TypeOK
<1>2. pc[Caller] = "discover" /\ pc[Loop] = "off"
  BY DEF Init, Actors, Discoverers
<1> QED
  BY <1>1, <1>2 DEF ViewInv, Discoverers

LEMMA ViewInvStep == IndInv /\ [Next]_vars => ViewInv'
<1> SUFFICES ASSUME IndInv, [Next]_vars PROVE ViewInv'
  OBVIOUS
<1> USE DEF Discoverers, Locked, FirstUnderWay
<1>1. /\ pc \in [Actors -> Places] /\ left \in Seq(Oids)
      /\ maps \in [MapIds -> SUBSET Oids] /\ current \in MapIds
      /\ Caller \in Actors /\ Loop \in Actors /\ ViewInv
      /\ Getters \subseteq Actors
  BY DEF IndInv, CoreInv, TypeOK, Actors
<1>2. ASSUME NEW t \in Discoverers, Discover(t) \/ Exchange(t) PROVE ViewInv'
  <2>1. CASE DiscoverLock(t)
    BY <1>1, <2>1 DEF DiscoverLock, Move, Goto, ViewInv, dataVars, IndInv,
       CoreInv, OneDiscovery
  <2>2. CASE DiscoverFails(t) \/ DiscoverDone(t)
    BY <1>1, <2>2 DEF DiscoverFails, DiscoverDone, DiscoverReturns, ViewInv,
       dataVars
  <2>3. CASE DiscoverAnswers(t)
    BY <1>1, <2>3 DEF DiscoverAnswers, Move, Goto, ViewInv, Found, IndInv,
       CoreInv, OneDiscovery
  <2>4. CASE UnregisterAll(t)
    BY <1>1, <2>4 DEF UnregisterAll, Move, Goto, ViewInv
  <2>5. CASE RemoveAllOids(t)
    <3>1. current' \in MapIds /\ maps' = [maps EXCEPT ![current'] = {}]
      BY <2>5, FreshMap DEF RemoveAllOids, IndInv, CoreInv
    <3>2. maps'[current'] \cup SeenIn(left) = SeenIn(left)
      BY <1>1, <3>1
    <3>3. \A u \in Discoverers : u # t => pc[u] \notin Locked
      BY <2>5 DEF RemoveAllOids, Move, IndInv, CoreInv, OneDiscovery
    <3>4. /\ pc[t] = "removeAll" /\ pc' = [pc EXCEPT ![t] = "register"]
          /\ left' = left /\ SeenIn(left) \in Found
      BY <1>1, <2>5 DEF RemoveAllOids, Move, Goto, ViewInv
    <3>5. pc[Caller] # "discover" /\ (t = Caller => pc[Loop] = "off")
      BY <1>1, <3>4 DEF ViewInv
    <3> QED
      BY ZenonT(60), <1>1, <3>2, <3>3, <3>4, <3>5, ActorsAssumption DEF ViewInv
  <2>6. CASE RegisterOid(t)
    <3>1. CASE Head(left) \in Subtree
      BY <1>1, <2>6, <3>1 DEF RegisterOid, Move, Goto, ViewInv
    <3>2. CASE Head(left) \notin Subtree
      <4>1. SeenIn(left') = SeenIn(left)
        BY <1>1, <2>6, <3>2, SeenNext DEF RegisterOid
      <4>2. \A u \in Discoverers : u # t => pc[u] \notin Locked
        BY <2>6 DEF RegisterOid, Move, IndInv, CoreInv, OneDiscovery
      <4> QED
        BY <1>1, <2>6, <3>2, <4>1, <4>2 DEF RegisterOid, Move, Goto, ViewInv,
           SeenIn
    <3> QED
      BY <3>1, <3>2
  <2>7. CASE WriteOid(t)
    <3>1. left # <<>> /\ Head(left) \in Subtree
      BY <1>1, <2>7 DEF WriteOid, Move, ViewInv, IndInv, CoreInv, PhaseInv
    <3>2. maps'[current'] \cup SeenIn(left') = maps[current] \cup SeenIn(left)
      BY <1>1, <2>7, <3>1, SeenNext DEF WriteOid
    <3>3. \A u \in Discoverers : u # t => pc[u] \notin Locked
      BY <2>7 DEF WriteOid, Move, IndInv, CoreInv, OneDiscovery
    <3>4. /\ pc[t] = "write" /\ pc' = [pc EXCEPT ![t] = "register"]
          /\ maps[current] \cup SeenIn(left) \in Found
      BY <1>1, <2>7 DEF WriteOid, Move, Goto, ViewInv
    <3>5. pc[Caller] # "discover" /\ (t = Caller => pc[Loop] = "off")
      BY <1>1, <3>4 DEF ViewInv
    <3> QED
      BY ZenonT(60), <1>1, <3>2, <3>3, <3>4, <3>5, ActorsAssumption DEF ViewInv
  <2> QED
    BY <1>2, <2>1, <2>2, <2>3, <2>4, <2>5, <2>6, <2>7 DEF Discover, Exchange
<1>3. CASE LoopPark \/ LoopTick
  BY <1>1, <1>3 DEF LoopPark, LoopTick, Move, Goto, ViewInv, dataVars
<1>4. CASE Stop
  BY <1>1, <1>4 DEF Stop, StopLock, StopSend, Move, Goto, ViewInv, dataVars
<1>5. ASSUME NEW g \in Getters, Query(g) \/ Get(g) \/ MapRace(g) PROVE ViewInv'
  <2>1. /\ UNCHANGED <<maps, current, left>>
        /\ \A t \in Discoverers : pc'[t] = pc[t]
    BY <1>1, <1>5, ActorsAssumption DEF Query, Get, GetCopy, GetLookup,
       GetFetch, MapRace, Move, Goto, dataVars
  <2> QED
    BY <1>1, <2>1 DEF ViewInv, SeenIn
<1>6. CASE UNCHANGED vars
  BY <1>1, <1>6 DEF vars, ViewInv, SeenIn
<1> QED
  BY <1>2, <1>3, <1>4, <1>5, <1>6 DEF Next, Idle

LEMMA IndInvStep == IndInv /\ [Next]_vars => IndInv'
BY CoreInvStep, ViewInvStep DEF IndInv

(* The invariant holds for any oids, answers and number of queries: where  *)
(* a discovery stands says what the handler and the map differ by.         *)
THEOREM IndInvHolds == Spec => []IndInv
<1>1. Init => IndInv
  BY CoreInvInit, ViewInvInit DEF IndInv
<1> QED
  BY <1>1, IndInvStep, PTL DEF Spec

-----------------------------------------------------------------------------
(* Between discoveries the SNMP handler and Application.oids list the same *)
(* oids, whatever the application answered and the handler refused.        *)
THEOREM HandlerMatchesOidsHolds == Spec => []HandlerMatchesOids
<1>1. IndInv => HandlerMatchesOids
  BY DEF IndInv, CoreInv, PhaseInv,
     HandlerMatchesOids
<1> QED
  BY <1>1, IndInvHolds, PTL

(* Discoveries and a stop never overlap: each holds Application.m.         *)
THEOREM OneDiscoveryHolds == Spec => []OneDiscovery
<1>1. IndInv => OneDiscovery
  BY DEF IndInv, CoreInv
<1> QED
  BY <1>1, IndInvHolds, PTL

(* The map a query has copied loses no oid, and once it is replaced does   *)
(* not change at all: RemoveAllOids makes a map no query refers to.        *)
THEOREM SnapshotsAreStableHolds == Spec => SnapshotsAreStable
<1> DEFINE Stable ==
      \A g \in Getters :
         ref[g] # None /\ ref'[g] = ref[g] =>
            /\ maps[ref[g]] \subseteq maps'[ref[g]]
            /\ ref[g] # current => maps'[ref[g]] = maps[ref[g]]
<1>1. ASSUME IndInv, [Next]_vars PROVE Stable
  <2> SUFFICES ASSUME NEW g \in Getters, ref[g] # None
               PROVE  /\ maps[ref[g]] \subseteq maps'[ref[g]]
                      /\ ref[g] # current => maps'[ref[g]] = maps[ref[g]]
    OBVIOUS
  <2>1. ref[g] \in MapIds
    BY <1>1 DEF IndInv, CoreInv, TypeOK
  <2>2. ASSUME NEW t \in Discoverers, RemoveAllOids(t)
        PROVE  maps'[ref[g]] = maps[ref[g]]
    <3>1. current' # ref[g] /\ maps' = [maps EXCEPT ![current'] = {}]
      BY <1>1, <2>2, FreshMap DEF RemoveAllOids, IndInv, CoreInv
    <3> QED
      BY <1>1, <2>1, <3>1 DEF IndInv, CoreInv, TypeOK
  <2>3. ASSUME NEW t \in Discoverers, WriteOid(t)
        PROVE  maps'[ref[g]] = IF ref[g] = current
                               THEN maps[ref[g]] \cup {Head(left)}
                               ELSE maps[ref[g]]
    BY <1>1, <2>1, <2>3 DEF WriteOid, IndInv, CoreInv, TypeOK
  <2>4. CASE \A t \in Discoverers : ~RemoveAllOids(t) /\ ~WriteOid(t)
    <3>1. maps' = maps
      BY <1>1, <2>4 DEF Next, Discover, Exchange, DiscoverLock,
         DiscoverFails, DiscoverAnswers, UnregisterAll, RegisterOid,
         DiscoverDone, LoopPark, LoopTick, Stop, StopLock, StopSend, Query,
         Get, GetCopy, GetLookup, GetFetch, MapRace, Idle, vars, dataVars
    <3> QED
      BY <3>1
  <2> QED
    BY <2>2, <2>3, <2>4
<1>2. IndInv /\ [Next]_vars => [Stable]_vars
  BY <1>1
<1> QED
  BY <1>2, IndInvHolds, PTL DEF Spec, SnapshotsAreStable
-----------------------------------------------------------------------------
(* Application implements Rediscovery.                                     *)

(* A step that moves the loop moves the coarse one, and one that changes   *)
(* the oids as seen changes them for the loop's Application.               *)
LEMMA CoarseTurn ==
    ASSUME NEW from, NEW to, Place(pc[Loop]) \in from, Place(pc'[Loop]) = to
    PROVE  Coarse!Turn(Loop, from, to)
BY DEF Coarse!Turn

LEMMA CoarseKeep == SeenOids' = SeenOids => Coarse!Keep
BY DEF Coarse!Keep

LEMMA CoarseReplace == SeenOids' \in Found => Coarse!Replace(Loop, Found)
<1> SUFFICES ASSUME SeenOids' \in Found
             PROVE  \E s \in Found :
                       [a \in {Loop} |-> SeenOids'] =
                          [[a \in {Loop} |-> SeenOids] EXCEPT ![Loop] = s]
  BY DEF Coarse!Replace
<1> WITNESS SeenOids' \in Found
<1> QED
  OBVIOUS

LEMMA CoarseStutter ==
    pc'[Loop] = pc[Loop] /\ SeenOids' = SeenOids
        => UNCHANGED Coarse!rediscoveryVars
BY DEF Coarse!rediscoveryVars

LEMMA CoarseInit == Init => Coarse!RediscoveryInit
<1> SUFFICES ASSUME Init PROVE Coarse!RediscoveryInit
  OBVIOUS
<1>1. Place(pc[Loop]) = "off" /\ SeenOids = InitialOids \cap Subtree
  BY DEF Init, Actors, Discoverers, Place, SeenOids, FirstUnderWay
<1>2. SeenOids \in SUBSET Oids
  BY <1>1
<1> QED
  BY <1>1, <1>2 DEF Coarse!RediscoveryInit

(* The oids as seen, by where the discovery is.                            *)
LEMMA SeenCases ==
    ASSUME IndInv
    PROVE  /\ FirstUnderWay => SeenOids = InitialOids \cap Subtree
           /\ ~FirstUnderWay /\ pc[Loop] \in {"register", "write"} =>
                 SeenOids = maps[current] \cup SeenIn(left)
           /\ ~FirstUnderWay /\ pc[Loop] \notin {"register", "write"} =>
                 SeenOids = maps[current]
BY DEF SeenOids, Filled

(* The discovery of appRegister: it is seen when it returns.               *)
LEMMA FirstRefines ==
    ASSUME IndInv, IndInv', Discover(Caller) \/ Exchange(Caller)
    PROVE  Coarse!RediscoveryNext \/ UNCHANGED Coarse!rediscoveryVars
<1> USE DEF Locked
<1>1. /\ pc \in [Actors -> Places] /\ Caller \in Actors /\ Loop \in Actors
      /\ Caller # Loop
  BY DEF IndInv, CoreInv, TypeOK, Actors, Discoverers
<1>2. FirstUnderWay /\ pc[Loop] = "off"
  BY DEF Discover, Exchange, DiscoverLock, DiscoverFails, DiscoverAnswers,
     UnregisterAll, RemoveAllOids, RegisterOid, WriteOid, DiscoverDone, Move,
     FirstUnderWay, IndInv, ViewInv
<1>3. CASE DiscoverFails(Caller) \/ DiscoverDone(Caller)
  <2>1. /\ pc'[Caller] = "registered"
        /\ pc'[Loop] = IF Rediscovers THEN "top" ELSE "off"
        /\ maps' = maps /\ current' = current
    BY <1>1, <1>3 DEF DiscoverFails, DiscoverDone, DiscoverReturns, dataVars
  <2>2. SeenOids' = maps[current]
    BY <2>1 DEF SeenOids, Filled, FirstUnderWay
  <2>3. Place(pc[Loop]) = "off" /\ Place(pc'[Loop]) \in {"off", "looping"}
    BY <1>2, <2>1 DEF Place
  <2>4. \E to \in {"off", "looping"} : Coarse!Turn(Loop, {"off"}, to)
    BY <2>3, CoarseTurn
  <2>5. Coarse!Keep \/ Coarse!Replace(Loop, Found)
    <3>1. CASE DiscoverFails(Caller)
      <4>1. maps[current] = InitialOids \cap Subtree
        BY <3>1 DEF DiscoverFails, IndInv, ViewInv
      <4> QED
        BY <1>2, <2>2, <4>1, SeenCases, CoarseKeep
    <3>2. CASE DiscoverDone(Caller)
      <4>1. maps[current] \cup SeenIn(left) \in Found /\ left = <<>>
        BY <3>2 DEF DiscoverDone, IndInv, ViewInv, Discoverers
      <4> QED
        BY <2>2, <4>1, SeenNothing, CoarseReplace
    <3> QED
      BY <1>3, <3>1, <3>2
  <2> QED
    BY <2>4, <2>5 DEF Coarse!RediscoveryNext, Coarse!First
<1>4. CASE ~DiscoverFails(Caller) /\ ~DiscoverDone(Caller)
  <2>1. pc'[Loop] = pc[Loop] /\ pc'[Caller] \in Locked \ {"send"}
    BY <1>1, <1>4 DEF Discover, Exchange, DiscoverLock, DiscoverAnswers,
       UnregisterAll, RemoveAllOids, RegisterOid, WriteOid, Move, Goto
  <2>2. SeenOids' = SeenOids
    BY <1>2, <2>1 DEF SeenOids, FirstUnderWay
  <2> QED
    BY <2>1, <2>2, CoarseStutter
<1> QED
  BY <1>3, <1>4

(* The loop is at a place of its own only after the first discovery.       *)
LEMMA LoopAfterFirst ==
    ASSUME IndInv, pc[Loop] # "off" PROVE ~FirstUnderWay
BY DEF IndInv, ViewInv

(* The discoveries of rediscover: they are seen when the map is made.      *)
LEMMA DiscoveryRefines ==
    ASSUME IndInv, IndInv', Discover(Loop) \/ Exchange(Loop)
    PROVE  Coarse!RediscoveryNext \/ UNCHANGED Coarse!rediscoveryVars
<1> USE DEF Locked
<1>1. /\ pc \in [Actors -> Places] /\ Caller \in Actors /\ Loop \in Actors
      /\ Caller # Loop /\ left \in Seq(Oids)
      /\ maps \in [MapIds -> SUBSET Oids] /\ current \in MapIds
  BY DEF IndInv, CoreInv, TypeOK, Actors, Discoverers
<1>2. /\ pc[Loop] \in {"discover", "http", "unregisterAll", "removeAll",
                       "register", "write"}
      /\ pc'[Loop] \in Locked \cup {"top"}
      /\ pc'[Caller] = pc[Caller]
  BY <1>1 DEF Discover, Exchange, DiscoverLock, DiscoverFails,
     DiscoverAnswers, UnregisterAll, RemoveAllOids, RegisterOid, WriteOid,
     DiscoverDone, DiscoverReturns, Move, Goto
<1>3. ~FirstUnderWay /\ ~FirstUnderWay'
  BY <1>2, LoopAfterFirst DEF FirstUnderWay
<1>4. CASE DiscoverLock(Loop)
  <2>1. /\ pc[Loop] = "discover" /\ pc'[Loop] = "http"
        /\ maps' = maps /\ current' = current
    BY <1>1, <1>4 DEF DiscoverLock, Move, Goto, dataVars
  <2>2. SeenOids' = SeenOids
    BY <1>3, <2>1 DEF SeenOids, Filled
  <2>3. Coarse!Turn(Loop, {"waiting"}, "discovering")
    BY <2>1, CoarseTurn DEF Place
  <2> QED
    BY <2>2, <2>3, CoarseKeep DEF Coarse!RediscoveryNext, Coarse!Enter
<1>5. CASE DiscoverFails(Loop)
  <2>1. /\ pc[Loop] = "http" /\ pc'[Loop] = "top"
        /\ maps' = maps /\ current' = current
    BY <1>1, <1>5 DEF DiscoverFails, DiscoverReturns, dataVars
  <2>2. SeenOids' = SeenOids
    BY <1>3, <2>1 DEF SeenOids, Filled
  <2>3. Coarse!Turn(Loop, {"discovering"}, "looping")
    BY <2>1, CoarseTurn DEF Place
  <2> QED
    BY <2>2, <2>3, CoarseKeep DEF Coarse!RediscoveryNext, Coarse!Fail
<1>6. CASE DiscoverAnswers(Loop) \/ UnregisterAll(Loop)
  <2>1. /\ pc[Loop] \in {"http", "unregisterAll"}
        /\ pc'[Loop] \in {"unregisterAll", "removeAll"}
        /\ maps' = maps /\ current' = current
    BY <1>1, <1>6 DEF DiscoverAnswers, UnregisterAll, Move, Goto
  <2>2. SeenOids' = SeenOids
    BY <1>3, <2>1 DEF SeenOids, Filled
  <2>3. Place(pc'[Loop]) = Place(pc[Loop])
    BY <2>1 DEF Place
  <2> QED
    BY <2>2, <2>3 DEF Coarse!rediscoveryVars
<1>7. CASE RemoveAllOids(Loop)
  <2>1. /\ pc[Loop] = "removeAll" /\ pc'[Loop] = "register"
        /\ left' = left
    BY <1>1, <1>7 DEF RemoveAllOids, Move, Goto
  <2>2. SeenOids' \in Found
    <3>1. SeenOids' = maps'[current'] \cup SeenIn(left')
      BY <1>3, <2>1 DEF SeenOids, Filled
    <3>2. maps'[current'] \cup SeenIn(left') \in Found'
      BY <2>1 DEF IndInv, ViewInv, Discoverers
    <3> QED
      BY <3>1, <3>2 DEF Found, SeenIn
  <2>3. Coarse!Turn(Loop, {"discovering"}, "filling")
    BY <2>1, CoarseTurn DEF Place
  <2> QED
    BY <2>2, <2>3, CoarseReplace DEF Coarse!RediscoveryNext, Coarse!Clear
<1>8. CASE RegisterOid(Loop) \/ WriteOid(Loop)
  <2>1. /\ pc[Loop] \in {"register", "write"}
        /\ pc'[Loop] \in {"register", "write"}
    BY <1>1, <1>8 DEF RegisterOid, WriteOid, Move, Goto
  <2>2. maps'[current'] \cup SeenIn(left') = maps[current] \cup SeenIn(left)
    <3>1. CASE WriteOid(Loop)
      <4>1. left # <<>> /\ Head(left) \in Subtree
        BY <3>1 DEF WriteOid, Move, IndInv, ViewInv, CoreInv, PhaseInv,
           Discoverers
      <4> QED
        BY <1>1, <3>1, <4>1, SeenNext DEF WriteOid
    <3>2. CASE RegisterOid(Loop)
      BY <1>1, <3>2, SeenNext DEF RegisterOid
    <3> QED
      BY <1>8, <3>1, <3>2
  <2>3. SeenOids' = SeenOids
    BY <1>3, <2>1, <2>2 DEF SeenOids, Filled
  <2>4. Place(pc'[Loop]) = Place(pc[Loop])
    BY <2>1 DEF Place
  <2> QED
    BY <2>3, <2>4 DEF Coarse!rediscoveryVars
<1>9. CASE DiscoverDone(Loop)
  <2>1. /\ pc[Loop] = "register" /\ pc'[Loop] = "top" /\ left = <<>>
        /\ maps' = maps /\ current' = current
    BY <1>1, <1>9 DEF DiscoverDone, DiscoverReturns, dataVars
  <2>2. SeenOids' = SeenOids
    BY <1>3, <2>1, SeenNothing DEF SeenOids, Filled
  <2>3. Coarse!Turn(Loop, {"filling"}, "looping")
    BY <2>1, CoarseTurn DEF Place
  <2> QED
    BY <2>2, <2>3, CoarseKeep DEF Coarse!RediscoveryNext, Coarse!Fill
<1> QED
  BY <1>4, <1>5, <1>6, <1>7, <1>8, <1>9 DEF Discover, Exchange

(* The loop between two discoveries, stopRediscover and the queries.       *)
LEMMA RestRefines ==
    ASSUME IndInv, IndInv',
           \/ LoopPark \/ LoopTick \/ Stop \/ UNCHANGED vars
           \/ \E g \in Getters : Query(g) \/ Get(g) \/ MapRace(g)
    PROVE  Coarse!RediscoveryNext \/ UNCHANGED Coarse!rediscoveryVars
<1> USE DEF Locked
<1>1. /\ pc \in [Actors -> Places] /\ Caller \in Actors /\ Loop \in Actors
      /\ Caller # Loop /\ Getters \subseteq Actors
      /\ Loop \notin Getters /\ Caller \notin Getters
  BY ActorsAssumption DEF IndInv, CoreInv, TypeOK, Actors, Discoverers
<1>2. maps' = maps /\ current' = current /\ left' = left
  BY DEF LoopPark, LoopTick, Stop, StopLock, StopSend, Query, Get, GetCopy,
     GetLookup, GetFetch, MapRace, dataVars, vars
<1>3. CASE LoopPark
  <2>1. pc[Loop] = "top" /\ pc'[Loop] = "select" /\ pc'[Caller] = pc[Caller]
    BY <1>1, <1>3 DEF LoopPark, Move, Goto
  <2>2. SeenOids' = SeenOids
    BY <1>2, <2>1 DEF SeenOids, Filled, FirstUnderWay
  <2>3. Coarse!Turn(Loop, {"looping"}, "parked")
    BY <2>1, CoarseTurn DEF Place
  <2> QED
    BY <2>2, <2>3, CoarseKeep DEF Coarse!RediscoveryNext, Coarse!Park
<1>4. CASE LoopTick
  <2>1. /\ pc[Loop] \in {"top", "select"} /\ pc'[Loop] = "discover"
        /\ pc'[Caller] = pc[Caller]
    BY <1>1, <1>4 DEF LoopTick, Move, Goto
  <2>2. SeenOids' = SeenOids
    BY <1>2, <2>1 DEF SeenOids, Filled, FirstUnderWay
  <2>3. Coarse!Turn(Loop, {"looping", "parked"}, "waiting")
    BY <2>1, CoarseTurn DEF Place
  <2> QED
    BY <2>2, <2>3, CoarseKeep DEF Coarse!RediscoveryNext, Coarse!Tick
<1>5. CASE StopLock
  <2>1. /\ pc[Caller] = "registered" /\ pc'[Caller] = "send"
        /\ pc'[Loop] = pc[Loop]
    BY <1>1, <1>5 DEF StopLock, Move, Goto
  <2>2. SeenOids' = SeenOids
    BY <1>2, <2>1 DEF SeenOids, Filled, FirstUnderWay
  <2> QED
    BY <2>1, <2>2, CoarseStutter
<1>6. CASE StopSend
  <2>1. /\ pc[Caller] = "send" /\ pc'[Caller] = "stopped"
        /\ pc'[Loop] = IF pc[Loop] = "select" THEN "quit" ELSE pc[Loop]
    BY <1>1, <1>6 DEF StopSend
  <2>2. SeenOids' = SeenOids
    BY <1>2, <2>1 DEF SeenOids, Filled, FirstUnderWay
  <2>3. CASE pc[Loop] = "select"
    <3>1. Coarse!Turn(Loop, {"parked"}, "quit")
      BY <2>1, <2>3, CoarseTurn DEF Place
    <3> QED
      BY <2>2, <3>1, CoarseKeep DEF Coarse!RediscoveryNext, Coarse!Quit
  <2>4. CASE pc[Loop] # "select"
    BY <2>1, <2>2, <2>4, CoarseStutter
  <2> QED
    BY <2>3, <2>4
<1>7. CASE \/ UNCHANGED vars
           \/ \E g \in Getters : Query(g) \/ Get(g) \/ MapRace(g)
  <2>1. pc'[Loop] = pc[Loop] /\ pc'[Caller] = pc[Caller]
    BY <1>1, <1>7 DEF Query, Get, GetCopy, GetLookup, GetFetch, MapRace,
       Move, Goto, vars
  <2>2. SeenOids' = SeenOids
    BY <1>2, <2>1 DEF SeenOids, Filled, FirstUnderWay
  <2> QED
    BY <2>1, <2>2, CoarseStutter
<1> QED
  BY <1>3, <1>4, <1>5, <1>6, <1>7 DEF Stop

(* For any oids, answers and number of queries the steps of discover,      *)
(* rediscover, stopRediscover and Get are those of the coarse loop, which  *)
(* SnmpSubagent takes at once.                                             *)
THEOREM RefinesRediscoveryHolds == Spec => RefinesRediscovery
<1>1. Init => Coarse!RediscoveryInit
  BY CoarseInit
<1>2. IndInv /\ IndInv' /\ [Next]_vars
        => [Coarse!RediscoveryNext]_(Coarse!rediscoveryVars)
  BY FirstRefines, DiscoveryRefines, RestRefines DEF Next, Discoverers, Idle
<1> QED
  BY <1>1, <1>2, IndInvHolds, PTL
     DEF Spec, RefinesRediscovery, Coarse!RediscoverySpec
=============================================================================
