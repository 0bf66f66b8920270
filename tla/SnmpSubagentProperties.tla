----------------------- MODULE SnmpSubagentProperties -----------------------
(* What the registration service promises.                                 *)
EXTENDS SnmpSubagent

Accepted(a) == a \in Bases \/ reply[a] = "202"

InFlight(t) == pc[t] \notin {"ready", "done"}

(* No AgentX call fails for lack of the master or of the network.          *)
Live == ~AgentXFails

(* The session of a was registered at the master, in this process.         *)
WasRegistered(a) ==
    conn[a] \in {"registered", "unregistered", "sessionClosed", "closed"}

-----------------------------------------------------------------------------
(* The mutex m is held by exactly the goroutine between a Lock and its     *)
(* Unlock in Register, appRegister and Unregister: no early return, error  *)
(* path or panic keeps it, and no two goroutines are inside at once.       *)
Mutex == \A t \in Threads : m = t <=> pc[t] \in Critical

(* With a master that refuses duplicates, whatever is registered there is  *)
(* in the map under its base oid.  No order of concurrent registrations,   *)
(* unregistrations and failures leaves the master forwarding queries to an *)
(* Application the subagent has forgotten and can never unregister.        *)
OneOwner ==
    MasterRejectsDuplicates =>
        \A b \in Bases : \A a \in master[b] : applications[b] = a

(* The row and the oid rows of b are those of a, the Application in the    *)
(* map.  A rediscovery changes the oids without saving them, and so does   *)
(* the discovery of a restored Application.                                *)
HoldsOwn(a, b) ==
    /\ dbApps[b] = RowOf(a)
    /\ a \in Handlers /\ loop[a] = "off" => dbOids[b] = oids[a]

(* The row of b is that of another PUT for b that was registered: Register *)
(* has let go of m after appRegister, and its save came when the map       *)
(* already had the Application that replaced it.                           *)
Overwritten(a, b) ==
    \E h \in Handlers \ {a} :
        /\ op[h] = "PUT" /\ base[h] = b
        /\ WasRegistered(h) /\ pc[h] \in {"clearOids", "insertOids", "done"}
        /\ dbApps[b] = RowOf(h)

(* As long as it is in the map, a registration answered 202, or restored   *)
(* by Initialize, has its own row in the table applications, and one       *)
(* without rediscovery its own oids in the table oids: no DELETE, failed   *)
(* statement or crash takes them or leaves others beside them.  Only the   *)
(* late save of a PUT it replaced can, and leaves the row of that PUT.     *)
AcceptedIsDurable ==
    \A b \in Bases : LET a == applications[b] IN
        a # None /\ Accepted(a) => HoldsOwn(a, b) \/ Overwritten(a, b)

(* Unregister forgets an Application in the database only after it has     *)
(* left the map, and the master when that refuses duplicates: a crash in   *)
(* between restores it, it never loses one that is still answering.        *)
ForgetOnlyDetached ==
    [][\A b \in Bases :
         HasRow(b) /\ ~HasRow(b)' =>
            /\ applications[b] = None
            /\ MasterRejectsDuplicates => master[b] = {}]_vars

(* While calls do not fail, an accepted Application that is no longer in   *)
(* the map has closed its client: replacing and unregistering leak no      *)
(* connection.  (A registration answered 400 does leak its client.)        *)
RetiredIsClosed ==
    Live /\ MasterRejectsDuplicates =>
        \A h \in Handlers :
            reply[h] = "202" /\ op[h] = "PUT" /\ applications[base[h]] # h
            => conn[h] \in {"none", "closed"}

(* While calls do not fail, the map and the master agree whenever m is     *)
(* free: every base oid of the map is registered by exactly the            *)
(* Application the map names, and nothing else is registered.              *)
MapIsMaster ==
    Live /\ MasterRejectsDuplicates /\ m = None =>
        \A b \in Bases :
            master[b] = IF applications[b] = None THEN {}
                                                  ELSE {applications[b]}

(* A PUT answered 400 that did not fail in saveApplication registered      *)
(* nothing: neither the map nor the master knows its Application.          *)
RejectedIsNotServed ==
    ~DbFails =>
        \A h \in Handlers : reply[h] = "400" =>
            \A b \in Bases : applications[b] # h /\ h \notin master[b]

(* Until a crash or a failed statement the two tables agree whenever m     *)
(* is free: no oid row is left behind an application that is gone.         *)
NoOrphanOids ==
    ~DbFails /\ crashes = 0 /\ m = None =>
        \A b \in Bases : dbOids[b] # {} => HasRow(b)

(* After a boot on which no call fails, exactly the stored applications    *)
(* that have oids are in the map, before the HTTP server runs.             *)
BootRestoresStored ==
    [][Live /\ ~DbFails /\ mode = "loading" /\ mode' = "serving" =>
         \A b \in Bases :
            applications'[b] = IF HasRow(b) /\ dbOids[b] # {} THEN b
                                                             ELSE None]_vars

(* Every request is answered, or dies with the process: no order of        *)
(* goroutines, failures and rediscoveries keeps a handler waiting for a    *)
(* mutex forever.                                                          *)
EveryRequestAnswered ==
    \A h \in Handlers : pc[h] # "ready" ~> pc[h] = "done"

(* Initialize terminates, whatever fails while it restores.                *)
BootFinishes == mode = "loading" ~> mode # "loading"

(* What EveryRequestAnswered and BootFinishes rest on besides fairness.     *)

(* The places of a goroutine in program order.                             *)
Rank == [ready |-> 0, lookup |-> 1, unreg |-> 2, stop |-> 3,
         unregister |-> 4, closeSession |-> 5, closeClient |-> 6,
         deleteApp |-> 7, deleteOids |-> 8, create |-> 9, openClient |-> 10,
         openSession |-> 11, register |-> 12, discover |-> 13, save |-> 14,
         insertApp |-> 15, clearOids |-> 16, insertOids |-> 17, done |-> 18]
At(t) == IF t = Main /\ pc[t] = "ready" THEN "done" ELSE pc[t]

Advances(t) ==
    \/ Rank[At(t)] < Rank[At(t)']
    \/ pc'[t] = pc[t] /\ rows'[t] \subseteq rows[t]
    \/ t = Main /\ todo' \subseteq todo /\ todo' # todo

(* Nothing makes a goroutine start over: not another PUT or DELETE for the *)
(* same base oid, nor a failure, a rediscovery or a crash.  A request ends *)
(* after at most as many steps of its own as there are places and oids,    *)
(* and Initialize after as many as that for every stored application.      *)
OnlyAdvances ==
    [][/\ \A t \in Threads :
            pc'[t] # pc[t] \/ rows'[t] # rows[t] => Advances(t)
       /\ mode # "down" => todo' \subseteq todo]_vars

(* A goroutine at work waits only for m, before a Lock, and for the end of *)
(* a discovery, in stopRediscover; nothing else can keep it from a step.   *)
AwaitsLock(t)      == pc[t] \in {"lookup", "unreg", "create", "save"} /\ m # None
AwaitsDiscovery(t) ==
    pc[t] = "stop" /\ loop[Current(t)] \in {"discovering", "filling"}
CanStep(t) == InFlight(t) /\ ~AwaitsLock(t) /\ ~AwaitsDiscovery(t)
WaitsAreKnown == \A t \in Threads : CanStep(t) <=> ENABLED Thread(t)

(* No goroutine waits for one that waits for it: whoever waits for m waits *)
(* for a goroutine that can step or awaits the end of a discovery, and     *)
(* that waits for nobody.                                                  *)
NobodyStuck ==
    \A t \in Threads : InFlight(t) =>
        \/ CanStep(t) \/ AwaitsDiscovery(t)
        \/ m # None /\ m # t /\ (CanStep(m) \/ AwaitsDiscovery(m))

-----------------------------------------------------------------------------
(* Where a goroutine of a PUT, or Initialize, creates and registers.       *)
Registering == {"lookup", "create"} \cup CriticalRegister
Saving      == {"save"} \cup CriticalSave
AfterMap    == {"discover"} \cup Saving

(* The service implements the abstract registry: the owner of a base oid   *)
(* is the Application registered at the master, what is stored is the      *)
(* table applications, and a PUT that has registered is in AfterMap.       *)
Owner(b) == IF master[b] = {} THEN None ELSE CHOOSE a \in master[b] : TRUE

OwnerMap   == [b \in Bases |-> Owner(b)]
RequestOf(h) ==
    [base |-> IF InFlight(h) THEN base[h] ELSE None,
     row  |-> IF InFlight(h) /\ op[h] = "PUT" THEN RowOf(h) ELSE None,
     app  |-> IF pc[h] \in AfterMap THEN h ELSE None]
RequestMap == [h \in Handlers |-> RequestOf(h)]
AcceptedFor ==
    [h \in Handlers |->
        IF op[h] = "PUT" /\ reply[h] = "202" THEN base[h] ELSE None]

Abstract == INSTANCE Registry WITH
    owner <- OwnerMap, stored <- dbApps, request <- RequestMap,
    accepted <- AcceptedFor

(* Every behaviour of the service is one of Registry, when the master      *)
(* refuses duplicates: a base oid is handed over only through nobody and   *)
(* on a request for it, forgotten only when nobody serves it, and a PUT is *)
(* answered 202 only when its Application was registered and the stored    *)
(* row is its own, whatever other requests for the base oid do meanwhile.  *)
RefinesRegistry == Abstract!RegistrySpec

(* The Applications of the service, whose loops take their steps at once,  *)
(* are those of Rediscovery, which Application implements step by step.    *)
Loop == INSTANCE Rediscovery WITH Given <- SUBSET Oids

(* Requests, boots, crashes and stops leave every Application's oids whole *)
(* and its loop where it is: only a discovery replaces the oids, only a    *)
(* discovery of appRegister starts the loop, and that once, and only a     *)
(* stop that finds it parked ends it.                                      *)
ServiceRefinesRediscovery == Loop!RediscoverySpec

-----------------------------------------------------------------------------
(* The inductive invariant behind the safety properties.                   *)

(* A handler at work has not answered, knows its base oid, and is in       *)
(* appRegister or saveApplication only for a PUT.                          *)
RequestInv ==
    \A h \in Handlers :
        /\ pc[h] # "done" => reply[h] = "none"
        /\ op[h] \in {"PUT", "DELETE"}
        /\ InFlight(h) => base[h] \in Bases
        /\ InFlight(h) /\ op[h] = "PUT" => form[h] \in Form
        /\ pc[h] \in Registering \cup Saving => op[h] = "PUT"

(* Initialize runs alone, for stored applications that are not in the map, *)
(* so its appRegister never unregisters.                                   *)
LoadInv ==
    /\ mode # "serving" => \A h \in Handlers : ~InFlight(h)
    /\ mode # "loading" => pc[Main] = "ready" /\ todo = {}
    /\ mode = "down" => \A b \in Bases : applications[b] = None
    /\ \A b \in todo : HasRow(b) /\ applications[b] = None
    /\ pc[Main] # "ready" =>
          /\ pc[Main] \in Registering
          /\ base[Main] \in Bases \ todo
          /\ HasRow(base[Main])
          /\ form[base[Main]] \in Form
          /\ pc[Main] # "discover" => applications[base[Main]] = None

(* The row of an Application stays what Initialize read until the          *)
(* Application is restored, which is in the map under its own base oid.    *)
RestoreInv ==
    /\ pc[Main] # "ready" => dbApps[base[Main]] = RowOf(base[Main])
    /\ \A b \in Bases : applications[b] \in Bases => applications[b] = b

(* The Application of a handler is in the map only under its own base oid, *)
(* and only once its PUT has registered it.                                *)
MapInv ==
    \A b \in Bases, h \in Handlers :
        applications[b] = h =>
            base[h] = b /\ op[h] = "PUT" /\ pc[h] \in AfterMap \cup {"done"}

(* Unregister works on an Application of the map, which the master forgets *)
(* before the map does, and the map before the database.                   *)
UnregisterInv ==
    \A h \in Handlers :
        /\ pc[h] \in {"stop", "unregister", "closeSession", "closeClient"} =>
              Current(h) # None
        /\ pc[h] \in {"closeSession", "closeClient", "deleteApp", "deleteOids"} =>
              (MasterRejectsDuplicates => master[base[h]] = {})
        /\ pc[h] \in {"deleteApp", "deleteOids"} => Current(h) = None

(* Once its first statement succeeded, the row of a save stays what its    *)
(* PUT asked for until the save ends.                                      *)
SaveInv ==
    \A h \in Handlers :
        pc[h] \in {"clearOids", "insertOids"} => dbApps[base[h]] = RowOf(h)

(* What the loop over Application.oids has inserted, and what it has still *)
(* to insert, is what the Application has.                                 *)
SavedInv ==
    \A h \in Handlers :
        pc[h] = "insertOids" /\ loop[h] = "off" =>
            dbOids[base[h]] \cup rows[h] = oids[h]

(* Only an Application that was registered is saved.                       *)
RegisteredInv == \A h \in Handlers : pc[h] \in AfterMap => WasRegistered(h)

IndInv ==
    /\ TypeOK /\ Mutex /\ RequestInv /\ LoadInv /\ RestoreInv /\ MapInv
    /\ UnregisterInv /\ SaveInv /\ SavedInv /\ RegisteredInv /\ OneOwner
    /\ AcceptedIsDurable

(* What the properties of a service whose calls do not fail need besides.  *)

(* The master, like the map, knows the Application of a handler only once  *)
(* its PUT has registered it.                                              *)
MasterInv ==
    \A b \in Bases, h \in Handlers :
        h \in master[b] =>
            base[h] = b /\ op[h] = "PUT" /\ pc[h] \in AfterMap \cup {"done"}

(* Only a deleteApplication between its two statements leaves oid rows     *)
(* without their application.                                              *)
OrphanInv ==
    ~DbFails /\ crashes = 0 =>
        \A b \in Bases :
            dbOids[b] # {} /\ ~HasRow(b) =>
                \E h \in Handlers : pc[h] = "deleteOids" /\ base[h] = b

(* The map and the master agree on every base oid that no Unregister has   *)
(* taken from the master and not yet from the map.                         *)
AgreeInv ==
    Live /\ MasterRejectsDuplicates =>
        \A b \in Bases :
            \/ master[b] = IF applications[b] = None THEN {}
                                                     ELSE {applications[b]}
            \/ \E h \in Handlers :
                    pc[h] \in {"closeSession", "closeClient"} /\ base[h] = b

(* A client is open only for an Application that is being registered, is   *)
(* in the map, or was rejected.                                            *)
Opening == {"openSession", "register"}
OpenInv ==
    Live /\ MasterRejectsDuplicates =>
        \A h \in Handlers : conn[h] # "none" =>
            \/ pc[h] \in Opening
            \/ /\ pc[h] \in AfterMap \cup {"done"}
               /\ conn[h] = "closed" \/ applications[base[h]] = h
                                     \/ reply[h] = "400"

(* Of what loadFromDB returned, the map holds what Initialize has restored.*)
Restoring == IF pc[Main] \in {"ready", "discover"} THEN {} ELSE {base[Main]}
LoadedInv ==
    Live /\ ~DbFails /\ mode = "loading" =>
        /\ todo \subseteq Loadable
        /\ pc[Main] # "ready" => base[Main] \in Loadable
        /\ \A b \in Bases :
            applications[b] = IF b \in Loadable \ (todo \cup Restoring)
                              THEN b ELSE None

(* The rediscovery of an Application starts when appRegister returns it.   *)
LoopInv ==
    /\ \A h \in Handlers : loop[h] # "off" => pc[h] \in Saving \cup {"done"}
    /\ \A b \in Bases : loop[b] # "off" =>
          /\ mode # "down" /\ b \notin todo
          /\ pc[Main] # "ready" => base[Main] # b

ServiceInv ==
    /\ MasterInv /\ RejectedIsNotServed /\ OrphanInv /\ AgreeInv /\ OpenInv
    /\ LoadedInv /\ LoopInv

-----------------------------------------------------------------------------
(* Statements of the repository that the code does not keep.               *)

Quiet == mode = "serving" /\ m = None
            /\ \A h \in Handlers : pc[h] \in {"ready", "done"}

(* README.md: "An application can unregister by sending a DELETE command"; *)
(* Unregister: "Delete from DB".  With no failure and every request        *)
(* answered, no application outside the map is still stored.               *)
UnregisteredIsForgotten ==
    Quiet => \A b \in Bases : HasRow(b) => applications[b] # None

(* Initialize: "Load oids and applications".  A boot on which no call      *)
(* fails restores every stored application.                                *)
LoadsAllApplications ==
    [][Live /\ ~DbFails /\ mode = "loading" /\ mode' = "serving" =>
         \A b \in Bases : HasRow(b) => applications'[b] # None]_vars
=============================================================================
