---------------------------- MODULE SnmpSubagent ----------------------------
(***************************************************************************)
(* The registration service of the subagent: main() and Initialize, which  *)
(* restore the stored applications, and the HTTP handlers that register    *)
(* (PUT) and unregister (DELETE) an application.  Every handler runs in a  *)
(* goroutine of its own; they share SNMPSubagent.applications, guarded by  *)
(* the mutex SNMPSubagent.m, the database and the AgentX master.           *)
(*                                                                         *)
(* pc[t] names the next call of goroutine t.  From "stop" to "deleteOids", *)
(* from "openClient" to "discover" and from "insertApp" to "insertOids" t  *)
(* holds m; at the other places it does not, and any other goroutine may   *)
(* run between two of its steps.                                           *)
(*                                                                         *)
(* An operator X_Y is X with a fault seeded in it; no specification uses   *)
(* it.  The mutants of PROJECT.json put it in the place of X to show that  *)
(* a property notices the fault.                                           *)
(***************************************************************************)
EXTENDS Integers, Database, AgentX

CONSTANTS
    Forms,        \* the registration forms clients send
    Discoveries,  \* the sets of oids a discovery may return
    AgentXFails,  \* whether calls to the AgentX library may fail
    DbFails,      \* whether SQL statements may fail
    MaxCrashes    \* bound on the number of crashes of the process

ASSUME FormsAssumption == Forms \subseteq Form
ASSUME DiscoveriesAssumption == Discoveries \subseteq SUBSET Oids
ASSUME FailureAssumption == AgentXFails \in BOOLEAN /\ DbFails \in BOOLEAN
ASSUME CrashAssumption == MaxCrashes \in Nat

VARIABLES
    mode,          \* "down", "loading" (Initialize) or "serving" (Run)
    crashes,       \* how often the process was killed
    pc,            \* next step of every goroutine
    op,            \* what the goroutine is doing: "PUT", "DELETE" or "LOAD"
    base,          \* the base oid it is doing it for
    reply,         \* the status code a handler answered
    rows,          \* oids saveApplication has still to insert
    todo,          \* result of loadFromDB that Initialize has still to restore
    m,             \* holder of SNMPSubagent.m, or None
    applications,  \* SNMPSubagent.applications: base oid -> Application
    form,          \* the form an Application was created from
    oids,          \* Application.oids
    loop           \* state of the goroutine Application.rediscover

reqVars  == <<op, base>>
appVars  == <<form, oids, loop>>
procVars == <<mode, crashes, todo>>
vars == <<dbVars, axVars, procVars, reqVars, appVars,
          pc, reply, rows, m, applications>>

Ops     == {"PUT", "DELETE", "LOAD"}
Replies == {"none", "202", "400", "500"}
Loops   == {"off", "looping", "parked", "waiting", "discovering", "filling",
            "quit"}

CriticalUnregister == {"stop", "unregister", "closeSession", "closeClient",
                       "deleteApp", "deleteOids"}
CriticalRegister   == {"openClient", "openSession", "register", "discover"}
CriticalSave       == {"insertApp", "clearOids", "insertOids"}
Critical == CriticalUnregister \cup CriticalRegister \cup CriticalSave
Unlocked == {"ready", "lookup", "unreg", "create", "save", "done"}

TypeOK ==
    /\ DbTypeOK
    /\ AxTypeOK
    /\ mode \in {"down", "loading", "serving"}
    /\ crashes \in 0..MaxCrashes
    /\ pc \in [Threads -> Critical \cup Unlocked]
    /\ op \in [Threads -> Ops]
    /\ base \in [Threads -> Bases \cup {None}]
    /\ reply \in [Handlers -> Replies]
    /\ rows \in [Threads -> SUBSET Oids]
    /\ todo \in SUBSET Bases
    /\ m \in Threads \cup {None}
    /\ applications \in [Bases -> Apps \cup {None}]
    /\ form \in [Apps -> Form \cup {None}]
    /\ oids \in [Apps -> SUBSET Oids]
    /\ loop \in [Apps -> Loops]

Init ==
    /\ DbInit
    /\ AxInit
    /\ mode = "down"
    /\ crashes = 0
    /\ pc = [t \in Threads |-> "ready"]
    /\ op = [t \in Threads |-> IF t = Main THEN "LOAD" ELSE "PUT"]
    /\ base = [t \in Threads |-> None]
    /\ reply = [h \in Handlers |-> "none"]
    /\ rows = [t \in Threads |-> {}]
    /\ todo = {}
    /\ m = None
    /\ applications = [b \in Bases |-> None]
    /\ form = [a \in Apps |-> None]
    /\ oids = [a \in Apps |-> {}]
    /\ loop = [a \in Apps |-> "off"]

-----------------------------------------------------------------------------
(* Helpers: moving a goroutine, the mutex, the end of the work.            *)

Goto(t, place) == pc' = [pc EXCEPT ![t] = place]

(* t is at place and moves on to next, with no answer yet.                 *)
Move(t, place, next) ==
    /\ pc[t] = place
    /\ Goto(t, next)
    /\ UNCHANGED reply

Lock(t) == m = None /\ m' = t
Unlock  == m' = None

(* The work of t is over: a handler answers, Initialize takes the next     *)
(* application.                                                            *)
Finish(t, status) ==
    /\ Goto(t, IF t = Main THEN "ready" ELSE "done")
    /\ reply' = IF t = Main THEN reply ELSE [reply EXCEPT ![t] = status]

(* The Application goroutine t creates.                                    *)
App(t) == IF t = Main THEN base[Main] ELSE t

(* The Application t finds in the map under its base oid.                  *)
Current(t) == applications[base[t]]

(* Unregister returns: the DELETE handler answers 202 whatever happened,   *)
(* appRegister goes on to create the new Application.                      *)
UnregisterReturns_Retry(t) ==
    IF op[t] = "DELETE" THEN Finish(t, "202")
                        ELSE Goto(t, "lookup") /\ UNCHANGED reply
UnregisterReturns(t) ==
    IF op[t] = "DELETE" THEN Finish(t, "202")
                        ELSE Goto(t, "create") /\ UNCHANGED reply

(* What a dying process loses: everything but the database and the         *)
(* answers it has sent.                                                    *)
Die ==
    /\ mode' = "down"
    /\ pc' = [t \in Threads |-> IF pc[t] = "ready" \/ t = Main
                                THEN "ready" ELSE "done"]
    /\ m' = None
    /\ rows' = [t \in Threads |-> {}]
    /\ todo' = {}
    /\ applications' = [b \in Bases |-> None]
    /\ form' = [a \in Apps |-> None]
    /\ oids' = [a \in Apps |-> {}]
    /\ loop' = [a \in Apps |-> "off"]
    /\ dbOpen' = FALSE
    /\ AxDisconnectAll
    /\ UNCHANGED <<dbApps, dbOids, reqVars, reply>>

-----------------------------------------------------------------------------
(* main() and Initialize.                                                  *)

(* initDB and loadFromDB.  main() ignores the error Initialize returns, so *)
(* a process without a database, or with one it could not read, serves.    *)
(* loadFromDB does not ask rows.Err(): an error between two rows ends its  *)
(* loop like the last row, and what was read so far is all it returns.     *)
Start ==
    /\ mode = "down"
    /\ \/ DbFails /\ mode' = "serving" /\ dbOpen' = FALSE /\ todo' = {}
       \/ DbFails /\ mode' = "serving" /\ dbOpen' = TRUE /\ todo' = {}
       \/ /\ mode' = "loading" /\ dbOpen' = TRUE
          /\ todo' \in IF DbFails THEN SUBSET Loadable ELSE {Loadable}
    /\ UNCHANGED <<dbApps, dbOids, axVars, crashes, reqVars, appVars, pc,
                   reply, rows, m, applications>>

(* The oids loadFromDB read of an application: all, unless an error ended  *)
(* the rows in the midst of them (which may then be true of one            *)
(* application only; the model does not say of which).                     *)
LoadedOids(b) == IF DbFails THEN SUBSET dbOids[b] \ {{}} ELSE {dbOids[b]}

(* Initialize takes the next application of the map loadFromDB returned    *)
(* and calls appRegister.  Nothing else writes the tables meanwhile, so    *)
(* they still hold what the query read.                                    *)
LoadNext(b) ==
    /\ mode = "loading" /\ pc[Main] = "ready"
    /\ b \in todo
    /\ todo' = todo \ {b}
    /\ base' = [base EXCEPT ![Main] = b]
    /\ \E os \in LoadedOids(b) :
          form' = [form EXCEPT ![b] = [name   |-> dbApps[b].name,
                                       disc   |-> dbApps[b].disc,
                                       redisc |-> dbApps[b].redisc,
                                       oids   |-> os]]
    /\ Goto(Main, "lookup")
    /\ UNCHANGED <<dbVars, axVars, mode, crashes, op, oids, loop, reply, rows,
                   m, applications>>

LoadDone_Early ==
    /\ mode = "loading" /\ pc[Main] = "ready"
    /\ mode' = "serving"
    /\ todo' = {}
    /\ UNCHANGED <<dbVars, axVars, crashes, reqVars, appVars, pc, reply,
                   rows, m, applications>>
LoadDone ==
    /\ mode = "loading" /\ pc[Main] = "ready"
    /\ todo = {}
    /\ mode' = "serving"
    /\ UNCHANGED <<dbVars, axVars, crashes, todo, reqVars, appVars, pc, reply,
                   rows, m, applications>>

(* The process is killed, or exits on a signal without unregistering.      *)
Crash ==
    /\ mode # "down"
    /\ crashes < MaxCrashes
    /\ crashes' = crashes + 1
    /\ Die

-----------------------------------------------------------------------------
(* The HTTP handlers, up to the call of Register or Unregister.            *)

Put(h) ==
    /\ mode = "serving"
    /\ \E b \in Bases, f \in Forms :
          /\ base' = [base EXCEPT ![h] = b]
          /\ form' = [form EXCEPT ![h] = f]
    /\ op' = [op EXCEPT ![h] = "PUT"]
    /\ Move(h, "ready", "lookup")
    /\ UNCHANGED <<dbVars, axVars, procVars, oids, loop, rows, m,
                   applications>>

Delete(h) ==
    /\ mode = "serving"
    /\ \E b \in Bases : base' = [base EXCEPT ![h] = b]
    /\ op' = [op EXCEPT ![h] = "DELETE"]
    /\ Move(h, "ready", "unreg")
    /\ UNCHANGED <<dbVars, axVars, procVars, appVars, rows, m, applications>>

(* A content type, a body or an oid the handler rejects.                   *)
BadRequest(h) ==
    /\ mode = "serving" /\ pc[h] = "ready"
    /\ Finish(h, "400")
    /\ UNCHANGED <<dbVars, axVars, procVars, reqVars, appVars, rows, m,
                   applications>>

-----------------------------------------------------------------------------
(* Unregister.                                                             *)

UnregisterEnter(t) ==
    /\ pc[t] = "unreg"
    /\ m = None
    /\ IF Current(t) = None
       THEN UnregisterReturns(t) /\ UNCHANGED m
       ELSE Lock(t) /\ Goto(t, "stop") /\ UNCHANGED reply
    /\ UNCHANGED <<dbVars, axVars, procVars, reqVars, appVars, rows,
                   applications>>

(* stopRediscover waits for Application.m, which a discovery holds, and    *)
(* its non-blocking send reaches the loop only when the loop is parked in  *)
(* its select; otherwise the signal is lost.                               *)
Stop_BlockingSend(t) ==
    LET a == Current(t) IN
    /\ Move(t, "stop", "unregister")
    /\ loop[a] = "parked"
    /\ loop' = [loop EXCEPT ![a] = "quit"]
    /\ UNCHANGED <<dbVars, axVars, procVars, reqVars, form, oids, rows, m,
                   applications>>
Stop(t) ==
    LET a == Current(t) IN
    /\ Move(t, "stop", "unregister")
    /\ loop[a] \notin {"discovering", "filling"}
    /\ loop' = [loop EXCEPT ![a] = IF @ = "parked" THEN "quit" ELSE @]
    /\ UNCHANGED <<dbVars, axVars, procVars, reqVars, form, oids, rows, m,
                   applications>>

(* Unregister gives up: the Application stays in the map as it is.         *)
GiveUp(t) ==
    /\ UnregisterReturns(t)
    /\ Unlock
    /\ UNCHANGED <<axVars, applications>>

(* A session that is not registered any more cannot be unregistered.       *)
UnregisterSession_ForgetOnError(t) ==
    LET a == Current(t) IN
    /\ pc[t] = "unregister"
    /\ \/ /\ conn[a] = "registered"
          /\ AxUnregister(a, base[t])
          /\ Move(t, "unregister", "closeSession")
          /\ UNCHANGED <<m, applications>>
       \/ /\ AgentXFails \/ conn[a] # "registered"
          /\ UnregisterReturns(t)
          /\ Unlock
          /\ applications' = [applications EXCEPT ![base[t]] = None]
          /\ UNCHANGED axVars
    /\ UNCHANGED <<dbVars, procVars, reqVars, appVars, rows>>
UnregisterSession(t) ==
    LET a == Current(t) IN
    /\ pc[t] = "unregister"
    /\ \/ /\ conn[a] = "registered"
          /\ AxUnregister(a, base[t])
          /\ Move(t, "unregister", "closeSession")
          /\ UNCHANGED <<m, applications>>
       \/ /\ AgentXFails \/ conn[a] # "registered"
          /\ GiveUp(t)
    /\ UNCHANGED <<dbVars, procVars, reqVars, appVars, rows>>

CloseSession(t) ==
    /\ pc[t] = "closeSession"
    /\ \/ /\ AxCloseSession(Current(t))
          /\ Move(t, "closeSession", "closeClient")
          /\ UNCHANGED <<m, applications>>
       \/ AgentXFails /\ GiveUp(t)
    /\ UNCHANGED <<dbVars, procVars, reqVars, appVars, rows>>

CloseClient_DbFirst(t) ==
    /\ pc[t] = "closeClient"
    /\ \/ /\ AxCloseClient(Current(t))
          /\ Move(t, "closeClient", "deleteApp")
          /\ UNCHANGED <<m, applications>>
       \/ AgentXFails /\ GiveUp(t)
    /\ UNCHANGED <<dbVars, procVars, reqVars, appVars, rows>>
CloseClient_LeaveOpen(t) ==
    /\ pc[t] = "closeClient"
    /\ applications' = [applications EXCEPT ![base[t]] = None]
    /\ Move(t, "closeClient", "deleteApp")
    /\ UNCHANGED <<dbVars, axVars, procVars, reqVars, appVars, rows, m>>
CloseClient(t) ==
    /\ pc[t] = "closeClient"
    /\ \/ /\ AxCloseClient(Current(t))
          /\ applications' = [applications EXCEPT ![base[t]] = None]
          /\ Move(t, "closeClient", "deleteApp")
          /\ UNCHANGED m
       \/ AgentXFails /\ GiveUp(t)
    /\ UNCHANGED <<dbVars, procVars, reqVars, appVars, rows>>

(* A goroutine panics on the nil db; gin.Recovery answers 500 and the      *)
(* deferred Unlock runs.                                                   *)
PanicOnNilDb(t) ==
    /\ ~dbOpen
    /\ Finish(t, "500")
    /\ Unlock
    /\ UNCHANGED dbVars

(* deleteApplication: two statements, and an error is only logged.         *)
DeleteApp(t) ==
    /\ pc[t] = "deleteApp"
    /\ \/ PanicOnNilDb(t)
       \/ /\ dbOpen
          /\ DeleteAppRow(base[t])
          /\ Move(t, "deleteApp", "deleteOids")
          /\ UNCHANGED m
       \/ /\ dbOpen /\ DbFails
          /\ UnregisterReturns(t)
          /\ Unlock
          /\ UNCHANGED dbVars
    /\ UNCHANGED <<axVars, procVars, reqVars, appVars, rows, applications>>

DeleteOids_Skip(t) ==
    /\ pc[t] = "deleteOids"
    /\ UnregisterReturns(t)
    /\ Unlock
    /\ UNCHANGED <<dbVars, axVars, procVars, reqVars, appVars, rows,
                   applications>>
DeleteOids(t) ==
    /\ pc[t] = "deleteOids"
    /\ \/ DeleteOidRows(base[t])
       \/ DbFails /\ UNCHANGED dbVars
    /\ UnregisterReturns(t)
    /\ Unlock
    /\ UNCHANGED <<axVars, procVars, reqVars, appVars, rows, applications>>

-----------------------------------------------------------------------------
(* appRegister.                                                            *)

(* The map is read under m, and m is released before the result is used.   *)
Lookup_KeepLock(t) ==
    /\ Lock(t)
    /\ Move(t, "lookup", IF Current(t) = None THEN "create" ELSE "unreg")
    /\ UNCHANGED <<dbVars, axVars, procVars, reqVars, appVars, rows,
                   applications>>
Lookup(t) ==
    /\ m = None
    /\ Move(t, "lookup", IF Current(t) = None THEN "create" ELSE "unreg")
    /\ UNCHANGED <<dbVars, axVars, procVars, reqVars, appVars, rows, m,
                   applications>>

(* NewApplication, then Lock for the rest of appRegister.                  *)
Create(t) ==
    /\ Move(t, "create", "openClient")
    /\ Lock(t)
    /\ oids' = [oids EXCEPT ![App(t)] = form[App(t)].oids]
    /\ UNCHANGED <<dbVars, axVars, procVars, reqVars, form, loop, rows,
                   applications>>

(* appRegister returns an error: what was opened stays open.               *)
RegisterFails_KeepLock(t) ==
    /\ Finish(t, "400")
    /\ UNCHANGED <<m, axVars, applications>>
RegisterFails_RetryAtBoot(t) ==
    /\ IF t = Main THEN Goto(t, "create") /\ UNCHANGED reply
                   ELSE Finish(t, "400")
    /\ Unlock
    /\ UNCHANGED <<axVars, applications>>
RegisterFails(t) ==
    /\ Finish(t, "400")
    /\ Unlock
    /\ UNCHANGED <<axVars, applications>>

OpenClient(t) ==
    /\ pc[t] = "openClient"
    /\ \/ /\ AxOpenClient(App(t))
          /\ Move(t, "openClient", "openSession")
          /\ UNCHANGED <<m, applications>>
       \/ AgentXFails /\ RegisterFails(t)
    /\ UNCHANGED <<dbVars, procVars, reqVars, appVars, rows>>

OpenSession(t) ==
    /\ pc[t] = "openSession"
    /\ \/ /\ AxOpenSession(App(t))
          /\ Move(t, "openSession", "register")
          /\ UNCHANGED <<m, applications>>
       \/ AgentXFails /\ RegisterFails(t)
    /\ UNCHANGED <<dbVars, procVars, reqVars, appVars, rows>>

(* appRegister returns the Application: Register goes on to save it, an    *)
(* Application Initialize restores is in the database already.             *)
Registered(t) ==
    /\ IF t = Main THEN Finish(t, "202")
                   ELSE Goto(t, "save") /\ UNCHANGED reply
    /\ Unlock

(* session.Register and the insertion into the map.                        *)
RegisterSession_MapFirst(t) ==
    LET a == App(t) IN
    /\ pc[t] = "register"
    /\ applications' = [applications EXCEPT ![base[t]] = a]
    /\ \/ /\ MayRegister(base[t])
          /\ AxRegister(a, base[t])
          /\ IF form[a].disc
             THEN Goto(t, "discover") /\ UNCHANGED <<reply, m>>
             ELSE Registered(t)
       \/ /\ AgentXFails \/ ~MayRegister(base[t])
          /\ Finish(t, "400")
          /\ Unlock
          /\ UNCHANGED axVars
    /\ UNCHANGED <<dbVars, procVars, reqVars, appVars, rows>>
RegisterSession(t) ==
    LET a == App(t) IN
    /\ pc[t] = "register"
    /\ \/ /\ MayRegister(base[t])
          /\ AxRegister(a, base[t])
          /\ applications' = [applications EXCEPT ![base[t]] = a]
          /\ IF form[a].disc
             THEN Goto(t, "discover") /\ UNCHANGED <<reply, m>>
             ELSE Registered(t)
       \/ /\ AgentXFails \/ ~MayRegister(base[t])
          /\ RegisterFails(t)
    /\ UNCHANGED <<dbVars, procVars, reqVars, appVars, rows>>

(* The first discovery, an HTTP exchange with m held: it replaces the oids *)
(* of the form, or fails and keeps them.  Then the rediscovery starts.     *)
Discover(t) ==
    LET a == App(t) IN
    /\ pc[t] = "discover"
    /\ \/ \E d \in Discoveries : oids' = [oids EXCEPT ![a] = d]
       \/ UNCHANGED oids
    /\ loop' = [loop EXCEPT ![a] = IF form[a].redisc THEN "looping" ELSE @]
    /\ Registered(t)
    /\ UNCHANGED <<dbVars, axVars, procVars, reqVars, form, rows,
                   applications>>

-----------------------------------------------------------------------------
(* Register after appRegister: saveApplication, under m again.             *)

Save(t) ==
    /\ pc[t] = "save"
    /\ m = None
    /\ \/ PanicOnNilDb(t)
       \/ /\ dbOpen /\ Lock(t)
          /\ Move(t, "save", "insertApp")
          /\ UNCHANGED dbVars
    /\ UNCHANGED <<axVars, procVars, reqVars, appVars, rows, applications>>

(* An error of a statement: the Application stays registered, the client   *)
(* is told it is not.                                                      *)
SaveFails_Logged(t) ==
    /\ DbFails
    /\ Finish(t, "202")
    /\ Unlock
    /\ rows' = [rows EXCEPT ![t] = {}]
    /\ UNCHANGED dbVars
SaveFails(t) ==
    /\ DbFails
    /\ Finish(t, "400")
    /\ Unlock
    /\ rows' = [rows EXCEPT ![t] = {}]
    /\ UNCHANGED dbVars

RowOf_WholeForm(a) == form[a]
RowOf(a) == [name |-> form[a].name, disc |-> form[a].disc,
             redisc |-> form[a].redisc]

InsertApp(t) ==
    /\ pc[t] = "insertApp"
    /\ \/ /\ InsertOrReplaceApp(base[t], RowOf(t))
          /\ Move(t, "insertApp", "clearOids")
          /\ UNCHANGED <<m, rows>>
       \/ SaveFails(t)
    /\ UNCHANGED <<axVars, procVars, reqVars, appVars, applications>>

ClearOids_KeepOld(t) ==
    /\ pc[t] = "clearOids"
    /\ \/ /\ UNCHANGED dbVars
          /\ rows' = [rows EXCEPT ![t] = oids[t]]
          /\ Move(t, "clearOids", "insertOids")
          /\ UNCHANGED m
       \/ SaveFails(t)
    /\ UNCHANGED <<axVars, procVars, reqVars, appVars, applications>>

(* The old oid rows go, and the loop over Application.oids begins.  It     *)
(* does not take Application.m: while a rediscovery fills the new map the  *)
(* loop sees any part of it.                                               *)
ClearOids(t) ==
    /\ pc[t] = "clearOids"
    /\ \/ /\ DeleteOidRows(base[t])
          /\ \E seen \in IF loop[t] = "filling" THEN SUBSET oids[t]
                                               ELSE {oids[t]} :
                rows' = [rows EXCEPT ![t] = seen]
          /\ Move(t, "clearOids", "insertOids")
          /\ UNCHANGED m
       \/ SaveFails(t)
    /\ UNCHANGED <<axVars, procVars, reqVars, appVars, applications>>

(* The Go runtime may notice that the map is read, by the loop over it or  *)
(* by a query, while a rediscovery writes it, and kills the process: the   *)
(* old oid rows are gone, and some of the new ones may be there.           *)
MapRace(t) ==
    /\ pc[t] = "insertOids"
    /\ loop[t] = "filling"
    /\ Die
    /\ UNCHANGED crashes

InsertOid(t) ==
    /\ pc[t] = "insertOids"
    /\ \/ \E o \in rows[t] :
             /\ InsertOidRow(base[t], o)
             /\ rows' = [rows EXCEPT ![t] = @ \ {o}]
             /\ UNCHANGED <<pc, reply, m>>
       \/ rows[t] # {} /\ SaveFails(t)
    /\ UNCHANGED <<axVars, procVars, reqVars, appVars, applications>>

SaveDone(t) ==
    /\ pc[t] = "insertOids" /\ rows[t] = {}
    /\ Finish(t, "202")
    /\ Unlock
    /\ UNCHANGED <<dbVars, axVars, procVars, reqVars, appVars, rows,
                   applications>>

-----------------------------------------------------------------------------
(* The goroutine rediscover of Application a: it waits for its ticker or   *)
(* for the channel, and discovers with Application.m held.  Nothing but a  *)
(* received signal ends it.                                                *)

LoopStep(a, from, to) ==
    /\ loop[a] \in from
    /\ loop' = [loop EXCEPT ![a] = to]
    /\ UNCHANGED <<dbVars, axVars, procVars, reqVars, form, pc, reply, rows,
                   m, applications>>

LoopPark(a)  == LoopStep(a, {"looping"}, "parked") /\ UNCHANGED oids
LoopTick(a)  == LoopStep(a, {"looping", "parked"}, "waiting") /\ UNCHANGED oids
LoopEnter(a) == LoopStep(a, {"waiting"}, "discovering") /\ UNCHANGED oids
LoopFail_Emptied(a) ==
    /\ LoopStep(a, {"discovering"}, "looping")
    /\ oids' = [oids EXCEPT ![a] = {}]
LoopFail(a)  == LoopStep(a, {"discovering"}, "looping") /\ UNCHANGED oids

(* The discovery has answered: a new map replaces the old one.  oids[a]    *)
(* is the map as it will be when the loop over the answer ends.            *)
LoopClear(a) ==
    /\ LoopStep(a, {"discovering"}, "filling")
    /\ \E d \in Discoveries : oids' = [oids EXCEPT ![a] = d]

LoopFill(a) == LoopStep(a, {"filling"}, "looping") /\ UNCHANGED oids

-----------------------------------------------------------------------------
(* Every request is answered and nothing is left to restore.               *)
Idle ==
    /\ mode = "serving"
    /\ \A h \in Handlers : pc[h] = "done"
    /\ UNCHANGED vars

Unregister(t) ==
    \/ UnregisterEnter(t) \/ Stop(t) \/ UnregisterSession(t)
    \/ CloseSession(t) \/ CloseClient(t) \/ DeleteApp(t) \/ DeleteOids(t)

AppRegister(t) ==
    \/ Lookup(t) \/ Create(t) \/ OpenClient(t) \/ OpenSession(t)
    \/ RegisterSession(t) \/ Discover(t)

SaveApplication(t) ==
    \/ Save(t) \/ InsertApp(t) \/ ClearOids(t) \/ MapRace(t)
    \/ InsertOid(t) \/ SaveDone(t)

Thread(t) ==
    Unregister(t) \/ AppRegister(t) \/ (t \in Handlers /\ SaveApplication(t))

Request(h) == Put(h) \/ Delete(h) \/ BadRequest(h)

Boot == Start \/ (\E b \in Bases : LoadNext(b)) \/ LoadDone

LoopDiscovery(a) == LoopEnter(a) \/ LoopFail(a) \/ LoopClear(a) \/ LoopFill(a)

Rediscover(a) == LoopPark(a) \/ LoopTick(a) \/ LoopDiscovery(a)

Next ==
    \/ Boot
    \/ Crash
    \/ \E h \in Handlers : Request(h)
    \/ \E t \in Threads : Thread(t)
    \/ \E a \in Apps : Rediscover(a)
    \/ Idle

Spec == Init /\ [][Next]_vars

(* The process is restarted by its supervisor and every goroutine is       *)
(* scheduled; a discovery ends because the HTTP client has a timeout       *)
(* (DiscoverTimeout, 500 ms by default), and sync.Mutex does not starve a  *)
(* waiter, so a Stop that waits for Application.m gets it between two      *)
(* discoveries.  Clients need not send anything and nothing need crash.    *)
Fairness ==
    /\ WF_vars(Boot)
    /\ \A t \in Threads : WF_vars(Thread(t)) /\ SF_vars(Stop(t))
    /\ \A a \in Apps : WF_vars(LoopDiscovery(a))

LiveSpec == Spec /\ Fairness

=============================================================================
