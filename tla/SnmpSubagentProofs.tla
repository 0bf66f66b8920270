------------------------- MODULE SnmpSubagentProofs -------------------------
(***************************************************************************)
(* Proofs about SnmpSubagent, for all sets of handlers, base oids, oids    *)
(* and forms, with and without failures, and any number of crashes.        *)
(*                                                                         *)
(* Every safety property follows from the inductive invariant IndInv of    *)
(* SnmpSubagentProperties.  There is one lemma per conjunct, which shows   *)
(* that a step preserves it, with one step per action.                     *)
(***************************************************************************)
EXTENDS SnmpSubagentProperties, TLAPS

USE DisjointAssumption, NoneIsNoRecord, FormsAssumption,
    DiscoveriesAssumption, FailureAssumption, CrashAssumption,
    MasterAssumption

-----------------------------------------------------------------------------
(* Facts about the goroutines, used by every lemma below.                  *)

LEMMA SetFacts ==
    /\ Handlers \subseteq Threads /\ Main \in Threads /\ None \notin Threads
    /\ Handlers \subseteq Apps /\ Bases \subseteq Apps /\ None \notin Apps
    /\ \A h \in Handlers : h # Main /\ h \notin Bases
    /\ \A t \in Threads : t # Main => t \in Handlers
BY DEF Threads, Apps

(* A goroutine at work knows its base oid and has a name for the           *)
(* Application it creates.                                                 *)
LEMMA InFlightFacts ==
    ASSUME IndInv, NEW t \in Threads, InFlight(t)
    PROVE  /\ base[t] \in Bases
           /\ App(t) \in Apps
           /\ t = Main \/ op[t] = "PUT" => form[App(t)] \in Form
BY SetFacts DEF IndInv, RequestInv, LoadInv, InFlight, App

(* Only handlers unregister: Initialize finds no Application to replace.   *)
LEMMA UnregisterFacts ==
    ASSUME IndInv, NEW t \in Threads, Unregister(t)
    PROVE  t \in Handlers /\ t # Main /\ base[t] \in Bases
           /\ op[t] \in {"PUT", "DELETE"}
<1>1. pc[t] \notin Registering \cup {"ready", "done"}
  BY DEF Unregister, UnregisterEnter, Stop, UnregisterSession, CloseSession,
         CloseClient, DeleteApp, DeleteOids, Move, Registering,
         CriticalRegister
<1>2. t # Main
  BY <1>1 DEF IndInv, LoadInv
<1> QED
  BY <1>1, <1>2, SetFacts, InFlightFacts DEF IndInv, RequestInv, InFlight

LEMMA AppRegisterFacts ==
    ASSUME IndInv, NEW t \in Threads, AppRegister(t)
    PROVE  /\ base[t] \in Bases /\ App(t) \in Apps /\ form[App(t)] \in Form
           /\ t # Main => t \in Handlers /\ op[t] = "PUT"
           /\ InFlight(t)
<1>1. pc[t] \in Registering /\ InFlight(t)
  BY DEF AppRegister, Lookup, Create, OpenClient, OpenSession,
         RegisterSession, Discover, Move, Registering, CriticalRegister,
         InFlight
<1>2. t # Main => t \in Handlers /\ op[t] = "PUT"
  BY <1>1, SetFacts DEF IndInv, RequestInv
<1> QED
  BY <1>1, <1>2, InFlightFacts

LEMMA SaveFacts ==
    ASSUME IndInv, NEW t \in Handlers, SaveApplication(t)
    PROVE  /\ t \in Threads /\ t # Main /\ t \in Apps
           /\ base[t] \in Bases /\ op[t] = "PUT" /\ form[t] \in Form
<1>1. pc[t] \in Saving /\ InFlight(t)
  BY DEF SaveApplication, Save, InsertApp, ClearOids, MapRace, InsertOid,
         SaveDone, Move, Saving, CriticalSave, InFlight
<1>2. op[t] = "PUT"
  BY <1>1 DEF IndInv, RequestInv
<1> QED
  BY <1>1, <1>2, SetFacts, InFlightFacts DEF App

-----------------------------------------------------------------------------
(* Every variable keeps its type.                                          *)
LEMMA TypeOKDie ==
    ASSUME IndInv, Die, crashes' \in 0..MaxCrashes PROVE TypeOK'
<1>1. pc' \in [Threads -> Critical \cup Unlocked]
  BY DEF Die, IndInv, TypeOK, Unlocked
<1>2. /\ rows' \in [Threads -> SUBSET Oids]
      /\ applications' \in [Bases -> Apps \cup {None}]
      /\ form' \in [Apps -> Form \cup {None}]
      /\ oids' \in [Apps -> SUBSET Oids]
      /\ loop' \in [Apps -> Loops]
  BY DEF Die, Loops
<1>3. AxTypeOK'
  BY DEF Die, AxDisconnectAll, AxTypeOK, ConnStates
<1>4. DbTypeOK'
  BY DEF Die, IndInv, TypeOK, DbTypeOK
<1> QED
  BY <1>1, <1>2, <1>3, <1>4 DEF Die, IndInv, TypeOK, reqVars

(* What Initialize takes from the tables is a form.                        *)
LEMMA RestoredForm ==
    ASSUME IndInv, NEW b \in Bases, LoadNext(b)
    PROVE  form' \in [Apps -> Form \cup {None}] /\ form'[b] \in Form
<1>1. dbApps[b] \in AppRow /\ dbOids[b] \in SUBSET Oids
  BY DEF LoadNext, IndInv, LoadInv, HasRow, TypeOK, DbTypeOK
<1>2. LoadedOids(b) \subseteq SUBSET Oids
  BY <1>1 DEF LoadedOids
<1>3. PICK os \in LoadedOids(b) :
         form' = [form EXCEPT ![b] = [name   |-> dbApps[b].name,
                                      disc   |-> dbApps[b].disc,
                                      redisc |-> dbApps[b].redisc,
                                      oids   |-> os]]
  BY DEF LoadNext
<1>4. [name |-> dbApps[b].name, disc |-> dbApps[b].disc,
       redisc |-> dbApps[b].redisc, oids |-> os] \in Form
  BY <1>1, <1>2, <1>3 DEF Form, AppRow
<1> QED
  BY <1>3, <1>4, SetFacts DEF IndInv, TypeOK

LEMMA TypeOKStep ==
    ASSUME IndInv, [Next]_vars PROVE TypeOK'
<1>1. ASSUME NEW t \in Threads, Unregister(t) PROVE TypeOK'
  <2>1. t \in Handlers /\ t # Main /\ base[t] \in Bases
        /\ op[t] \in {"PUT", "DELETE"}
    BY <1>1, UnregisterFacts
  <2>2. CASE UnregisterEnter(t)
    BY <2>2, <2>1, SetFacts DEF IndInv, TypeOK, DbTypeOK, AxTypeOK, Critical,
       CriticalUnregister, CriticalRegister, CriticalSave, Unlocked, Loops,
       ConnStates, Replies, Ops, UnregisterEnter, Goto, Lock, Current,
       UnregisterReturns, Finish, dbVars, axVars, procVars, reqVars, appVars
  <2>3. CASE Stop(t)
    BY <2>3, <2>1, SetFacts DEF IndInv, TypeOK, DbTypeOK, AxTypeOK, Critical,
       CriticalUnregister, CriticalRegister, CriticalSave, Unlocked, Loops,
       ConnStates, Replies, Ops, Stop, Move, Goto, Current, dbVars, axVars,
       procVars, reqVars
  <2>4. CASE UnregisterSession(t)
    BY SMTT(30), <2>4, <2>1, SetFacts DEF IndInv, TypeOK, DbTypeOK, AxTypeOK, Critical,
       CriticalUnregister, CriticalRegister, CriticalSave, Unlocked, Loops,
       ConnStates, Replies, Ops, UnregisterSession, Move, Goto, Unlock,
       Current, UnregisterReturns, GiveUp, Finish, SetConn, AxUnregister,
       dbVars, axVars, procVars, reqVars, appVars
  <2>5. CASE CloseSession(t)
    BY <2>5, <2>1, SetFacts DEF IndInv, TypeOK, DbTypeOK, AxTypeOK, Critical,
       CriticalUnregister, CriticalRegister, CriticalSave, Unlocked, Loops,
       ConnStates, Replies, Ops, CloseSession, Move, Goto, Unlock, Current,
       UnregisterReturns, GiveUp, Finish, SetConn, AxCloseSession, dbVars,
       axVars, procVars, reqVars, appVars
  <2>6. CASE CloseClient(t)
    BY <2>6, <2>1, SetFacts DEF IndInv, TypeOK, DbTypeOK, AxTypeOK, Critical,
       CriticalUnregister, CriticalRegister, CriticalSave, Unlocked, Loops,
       ConnStates, Replies, Ops, CloseClient, Move, Goto, Unlock, Current,
       UnregisterReturns, GiveUp, Finish, SetConn, AxCloseClient, dbVars,
       axVars, procVars, reqVars, appVars
  <2>7. CASE DeleteApp(t)
    BY <2>7, <2>1, SetFacts DEF IndInv, TypeOK, DbTypeOK, AxTypeOK, Critical,
       CriticalUnregister, CriticalRegister, CriticalSave, Unlocked, Loops,
       ConnStates, Replies, Ops, DeleteApp, Move, Goto, Unlock,
       UnregisterReturns, Finish, PanicOnNilDb, DeleteAppRow, dbVars, axVars,
       procVars, reqVars, appVars
  <2>8. CASE DeleteOids(t)
    BY <2>8, <2>1, SetFacts DEF IndInv, TypeOK, DbTypeOK, AxTypeOK, Critical,
       CriticalUnregister, CriticalRegister, CriticalSave, Unlocked, Loops,
       ConnStates, Replies, Ops, DeleteOids, Goto, Unlock, UnregisterReturns,
       Finish, DeleteOidRows, dbVars, axVars, procVars, reqVars, appVars
  <2> QED
    BY <1>1, <2>2, <2>3, <2>4, <2>5, <2>6, <2>7, <2>8 DEF Unregister
<1>2. ASSUME NEW t \in Threads, AppRegister(t) PROVE TypeOK'
  <2>1. /\ base[t] \in Bases /\ App(t) \in Apps /\ form[App(t)] \in Form
        /\ t # Main => t \in Handlers /\ op[t] = "PUT"
        /\ InFlight(t)
    BY <1>2, AppRegisterFacts
  <2>2. CASE Lookup(t)
    BY <2>2, <2>1, SetFacts DEF IndInv, TypeOK, DbTypeOK, AxTypeOK, Critical,
       CriticalUnregister, CriticalRegister, CriticalSave, Unlocked, Loops,
       ConnStates, Replies, Ops, Lookup, Move, Goto, Current, dbVars, axVars,
       procVars, reqVars, appVars
  <2>3. CASE Create(t)
    BY <2>3, <2>1, SetFacts DEF IndInv, TypeOK, DbTypeOK, AxTypeOK, Critical,
       CriticalUnregister, CriticalRegister, CriticalSave, Unlocked, Loops,
       ConnStates, Replies, Ops, Create, Move, Goto, Lock, App, dbVars,
       axVars, procVars, reqVars, Form
  <2>4. CASE OpenClient(t)
    BY <2>4, <2>1, SetFacts DEF IndInv, TypeOK, DbTypeOK, AxTypeOK, Critical,
       CriticalUnregister, CriticalRegister, CriticalSave, Unlocked, Loops,
       ConnStates, Replies, Ops, OpenClient, Move, Goto, Unlock, App, Finish,
       RegisterFails, SetConn, AxOpenClient, dbVars, axVars, procVars,
       reqVars, appVars
  <2>5. CASE OpenSession(t)
    BY <2>5, <2>1, SetFacts DEF IndInv, TypeOK, DbTypeOK, AxTypeOK, Critical,
       CriticalUnregister, CriticalRegister, CriticalSave, Unlocked, Loops,
       ConnStates, Replies, Ops, OpenSession, Move, Goto, Unlock, App, Finish,
       RegisterFails, SetConn, AxOpenSession, dbVars, axVars, procVars,
       reqVars, appVars
  <2>6. CASE RegisterSession(t)
    <3>1. AxTypeOK'
      BY <2>6, <2>1 DEF RegisterSession, RegisterFails, AxRegister, SetConn,
         IndInv, TypeOK, AxTypeOK, ConnStates, axVars
    <3>2. applications' \in [Bases -> Apps \cup {None}]
      BY <2>6, <2>1 DEF RegisterSession, RegisterFails, IndInv, TypeOK
    <3> QED
      BY <2>6, <2>1, <3>1, <3>2, SetFacts DEF RegisterSession, RegisterFails,
         Registered, Finish, Goto, Unlock, IndInv, TypeOK, DbTypeOK, Unlocked,
         Critical, CriticalRegister, Replies, dbVars, procVars, reqVars, appVars
  <2>7. CASE Discover(t)
    BY SMTT(30), <2>7, <2>1, SetFacts DEF IndInv, TypeOK, DbTypeOK, AxTypeOK, Critical,
       CriticalUnregister, CriticalRegister, CriticalSave, Unlocked, Loops,
       ConnStates, Replies, Ops, Discover, Goto, Unlock, App, Finish,
       Registered, dbVars, axVars, procVars, reqVars
  <2> QED
    BY <1>2, <2>2, <2>3, <2>4, <2>5, <2>6, <2>7 DEF AppRegister
<1>3. ASSUME NEW t \in Handlers, SaveApplication(t) PROVE TypeOK'
  <2>1. /\ t \in Threads /\ t # Main /\ t \in Apps
        /\ base[t] \in Bases /\ op[t] = "PUT" /\ form[t] \in Form
    BY <1>3, SaveFacts
  <2>2. CASE Save(t)
    BY <2>2, <2>1, SetFacts DEF IndInv, TypeOK, DbTypeOK, AxTypeOK, Critical,
       CriticalUnregister, CriticalRegister, CriticalSave, Unlocked, Loops,
       ConnStates, Replies, Ops, Save, Move, Goto, Lock, Unlock, Finish,
       PanicOnNilDb, dbVars, axVars, procVars, reqVars, appVars
  <2>3. CASE InsertApp(t)
    <3>1. RowOf(t) \in AppRow
      BY <2>1 DEF RowOf, Form, AppRow
    <3>2. DbTypeOK'
      BY <2>3, <2>1, <3>1 DEF InsertApp, SaveFails, InsertOrReplaceApp, IndInv,
         TypeOK, DbTypeOK, dbVars
    <3> QED
      BY <2>3, <2>1, <3>2 DEF InsertApp, SaveFails, Finish, Goto, Move, Unlock,
         IndInv, TypeOK, Unlocked, Critical, CriticalSave, Replies, AxTypeOK,
         axVars, procVars, reqVars, appVars
  <2>4. CASE ClearOids(t)
    <3>1. rows' \in [Threads -> SUBSET Oids]
      BY <2>4, <2>1 DEF ClearOids, SaveFails, IndInv, TypeOK
    <3> QED
      BY <2>4, <2>1, <3>1 DEF ClearOids, SaveFails, Finish, Goto, Move, Unlock,
         DeleteOidRows, IndInv, TypeOK, DbTypeOK, AxTypeOK, Unlocked, Critical,
         CriticalSave, Replies, dbVars, axVars, procVars, reqVars, appVars
  <2>5. CASE MapRace(t)
    BY <2>5, TypeOKDie DEF MapRace, IndInv, TypeOK
  <2>6. CASE InsertOid(t)
    BY <2>6, <2>1, SetFacts DEF IndInv, TypeOK, DbTypeOK, AxTypeOK, Critical,
       CriticalUnregister, CriticalRegister, CriticalSave, Unlocked, Loops,
       ConnStates, Replies, Ops, InsertOid, Goto, Unlock, Finish, SaveFails,
       InsertOidRow, dbVars, axVars, procVars, reqVars, appVars
  <2>7. CASE SaveDone(t)
    BY <2>7, <2>1, SetFacts DEF IndInv, TypeOK, DbTypeOK, AxTypeOK, Critical,
       CriticalUnregister, CriticalRegister, CriticalSave, Unlocked, Loops,
       ConnStates, Replies, Ops, SaveDone, Goto, Unlock, Finish, dbVars,
       axVars, procVars, reqVars, appVars
  <2> QED
    BY <1>3, <2>2, <2>3, <2>4, <2>5, <2>6, <2>7 DEF SaveApplication
<1>4. ASSUME NEW h \in Handlers, Request(h) PROVE TypeOK'
  <2>1. CASE Put(h)
    BY <2>1, SetFacts DEF IndInv, TypeOK, DbTypeOK, AxTypeOK, Critical,
       CriticalUnregister, CriticalRegister, CriticalSave, Unlocked, Loops,
       ConnStates, Replies, Ops, Put, Move, Goto, dbVars, axVars, procVars
  <2>2. CASE Delete(h)
    BY <2>2, SetFacts DEF IndInv, TypeOK, DbTypeOK, AxTypeOK, Critical,
       CriticalUnregister, CriticalRegister, CriticalSave, Unlocked, Loops,
       ConnStates, Replies, Ops, Delete, Move, Goto, dbVars, axVars, procVars,
       appVars
  <2>3. CASE BadRequest(h)
    BY <2>3, SetFacts DEF IndInv, TypeOK, DbTypeOK, AxTypeOK, Critical,
       CriticalUnregister, CriticalRegister, CriticalSave, Unlocked, Loops,
       ConnStates, Replies, Ops, BadRequest, Goto, Finish, dbVars, axVars,
       procVars, reqVars, appVars
  <2> QED
    BY <1>4, <2>1, <2>2, <2>3 DEF Request
<1>5. CASE Boot
  <2>1. CASE Start
    BY ZenonT(60), <2>1, SetFacts DEF IndInv, TypeOK, DbTypeOK, AxTypeOK, Critical,
       CriticalUnregister, CriticalRegister, CriticalSave, Unlocked, Loops,
       ConnStates, Replies, Ops, Start, HasRow, Loadable, axVars, reqVars,
       appVars
  <2>2. ASSUME NEW b \in Bases, LoadNext(b) PROVE TypeOK'
    <3>1. form' \in [Apps -> Form \cup {None}]
      BY <2>2, RestoredForm
    <3> QED
      BY <2>2, <3>1, SetFacts DEF LoadNext, IndInv, TypeOK, DbTypeOK, AxTypeOK,
         Unlocked, Goto, dbVars, axVars
  <2>3. CASE LoadDone
    BY <2>3, SetFacts DEF IndInv, TypeOK, DbTypeOK, AxTypeOK, Critical,
       CriticalUnregister, CriticalRegister, CriticalSave, Unlocked, Loops,
       ConnStates, Replies, Ops, LoadDone, dbVars, axVars, reqVars, appVars
  <2> QED
    BY <1>5, <2>1, <2>2, <2>3 DEF Boot
<1>6. ASSUME NEW a \in Apps, Rediscover(a) PROVE TypeOK'
  <2>1. CASE LoopPark(a)
    BY <2>1, SetFacts DEF IndInv, TypeOK, DbTypeOK, AxTypeOK, Critical,
       CriticalUnregister, CriticalRegister, CriticalSave, Unlocked, Loops,
       ConnStates, Replies, Ops, LoopPark, LoopStep, dbVars, axVars, procVars,
       reqVars
  <2>2. CASE LoopTick(a)
    BY <2>2, SetFacts DEF IndInv, TypeOK, DbTypeOK, AxTypeOK, Critical,
       CriticalUnregister, CriticalRegister, CriticalSave, Unlocked, Loops,
       ConnStates, Replies, Ops, LoopTick, LoopStep, dbVars, axVars, procVars,
       reqVars
  <2>3. CASE LoopEnter(a)
    BY <2>3, SetFacts DEF IndInv, TypeOK, DbTypeOK, AxTypeOK, Critical,
       CriticalUnregister, CriticalRegister, CriticalSave, Unlocked, Loops,
       ConnStates, Replies, Ops, LoopEnter, LoopStep, dbVars, axVars,
       procVars, reqVars
  <2>4. CASE LoopFail(a)
    BY <2>4, SetFacts DEF IndInv, TypeOK, DbTypeOK, AxTypeOK, Critical,
       CriticalUnregister, CriticalRegister, CriticalSave, Unlocked, Loops,
       ConnStates, Replies, Ops, LoopFail, LoopStep, dbVars, axVars, procVars,
       reqVars
  <2>5. CASE LoopClear(a)
    BY <2>5, SetFacts DEF IndInv, TypeOK, DbTypeOK, AxTypeOK, Critical,
       CriticalUnregister, CriticalRegister, CriticalSave, Unlocked, Loops,
       ConnStates, Replies, Ops, LoopClear, LoopStep, dbVars, axVars,
       procVars, reqVars
  <2>6. CASE LoopFill(a)
    BY <2>6, SetFacts DEF IndInv, TypeOK, DbTypeOK, AxTypeOK, Critical,
       CriticalUnregister, CriticalRegister, CriticalSave, Unlocked, Loops,
       ConnStates, Replies, Ops, LoopFill, LoopStep, dbVars, axVars, procVars,
       reqVars
  <2> QED
    BY <1>6, <2>1, <2>2, <2>3, <2>4, <2>5, <2>6 DEF Rediscover, LoopDiscovery
<1>7. CASE Crash
  BY <1>7, TypeOKDie DEF Crash, IndInv, TypeOK
<1>8. CASE UNCHANGED vars
  BY <1>8 DEF IndInv, TypeOK, DbTypeOK, AxTypeOK, vars, dbVars, axVars,
     procVars, reqVars, appVars
<1> QED
  BY <1>1, <1>2, <1>3, <1>4, <1>5, <1>6, <1>7, <1>8 DEF Next, Thread, Idle

-----------------------------------------------------------------------------
(* m is held by exactly the goroutine inside a critical section.           *)
LEMMA MutexDie ==
    ASSUME IndInv, Die PROVE Mutex'
BY SetFacts DEF IndInv, Mutex, TypeOK, Critical, CriticalUnregister,
   CriticalRegister, CriticalSave, Die

LEMMA MutexStep ==
    ASSUME IndInv, [Next]_vars PROVE Mutex'
<1>1. ASSUME NEW t \in Threads, Unregister(t) PROVE Mutex'
  <2>1. t \in Handlers /\ t # Main /\ base[t] \in Bases
        /\ op[t] \in {"PUT", "DELETE"}
    BY <1>1, UnregisterFacts
  <2>2. CASE UnregisterEnter(t)
    BY <2>2, <2>1, SetFacts DEF IndInv, Mutex, TypeOK, Critical,
       CriticalUnregister, CriticalRegister, CriticalSave, UnregisterEnter,
       Goto, Lock, UnregisterReturns, Finish
  <2>3. CASE Stop(t)
    BY <2>3, <2>1, SetFacts DEF IndInv, Mutex, TypeOK, Critical,
       CriticalUnregister, CriticalRegister, CriticalSave, Stop, Move, Goto
  <2>4. CASE UnregisterSession(t)
    BY <2>4, <2>1, SetFacts DEF IndInv, Mutex, TypeOK, Critical,
       CriticalUnregister, CriticalRegister, CriticalSave, UnregisterSession,
       Move, Goto, Unlock, UnregisterReturns, GiveUp, Finish
  <2>5. CASE CloseSession(t)
    BY <2>5, <2>1, SetFacts DEF IndInv, Mutex, TypeOK, Critical,
       CriticalUnregister, CriticalRegister, CriticalSave, CloseSession, Move,
       Goto, Unlock, UnregisterReturns, GiveUp, Finish
  <2>6. CASE CloseClient(t)
    BY <2>6, <2>1, SetFacts DEF IndInv, Mutex, TypeOK, Critical,
       CriticalUnregister, CriticalRegister, CriticalSave, CloseClient, Move,
       Goto, Unlock, UnregisterReturns, GiveUp, Finish
  <2>7. CASE DeleteApp(t)
    BY <2>7, <2>1, SetFacts DEF IndInv, Mutex, TypeOK, Critical,
       CriticalUnregister, CriticalRegister, CriticalSave, DeleteApp, Move,
       Goto, Unlock, UnregisterReturns, Finish, PanicOnNilDb
  <2>8. CASE DeleteOids(t)
    BY <2>8, <2>1, SetFacts DEF IndInv, Mutex, TypeOK, Critical,
       CriticalUnregister, CriticalRegister, CriticalSave, DeleteOids, Goto,
       Unlock, UnregisterReturns, Finish
  <2> QED
    BY <1>1, <2>2, <2>3, <2>4, <2>5, <2>6, <2>7, <2>8 DEF Unregister
<1>2. ASSUME NEW t \in Threads, AppRegister(t) PROVE Mutex'
  <2>1. /\ base[t] \in Bases /\ App(t) \in Apps /\ form[App(t)] \in Form
        /\ t # Main => t \in Handlers /\ op[t] = "PUT"
        /\ InFlight(t)
    BY <1>2, AppRegisterFacts
  <2>2. CASE Lookup(t)
    BY <2>2, <2>1, SetFacts DEF IndInv, Mutex, TypeOK, Critical,
       CriticalUnregister, CriticalRegister, CriticalSave, Lookup, Move, Goto
  <2>3. CASE Create(t)
    BY <2>3, <2>1, SetFacts DEF IndInv, Mutex, TypeOK, Critical,
       CriticalUnregister, CriticalRegister, CriticalSave, Create, Move, Goto,
       Lock
  <2>4. CASE OpenClient(t)
    BY <2>4, <2>1, SetFacts DEF IndInv, Mutex, TypeOK, Critical,
       CriticalUnregister, CriticalRegister, CriticalSave, OpenClient, Move,
       Goto, Unlock, Finish, RegisterFails
  <2>5. CASE OpenSession(t)
    BY <2>5, <2>1, SetFacts DEF IndInv, Mutex, TypeOK, Critical,
       CriticalUnregister, CriticalRegister, CriticalSave, OpenSession, Move,
       Goto, Unlock, Finish, RegisterFails
  <2>6. CASE RegisterSession(t)
    BY <2>6, <2>1, SetFacts DEF IndInv, Mutex, TypeOK, Critical,
       CriticalUnregister, CriticalRegister, CriticalSave, RegisterSession,
       Goto, Unlock, Finish, RegisterFails, Registered
  <2>7. CASE Discover(t)
    BY <2>7, <2>1, SetFacts DEF IndInv, Mutex, TypeOK, Critical,
       CriticalUnregister, CriticalRegister, CriticalSave, Discover, Goto,
       Unlock, Finish, Registered
  <2> QED
    BY <1>2, <2>2, <2>3, <2>4, <2>5, <2>6, <2>7 DEF AppRegister
<1>3. ASSUME NEW t \in Handlers, SaveApplication(t) PROVE Mutex'
  <2>1. /\ t \in Threads /\ t # Main /\ t \in Apps
        /\ base[t] \in Bases /\ op[t] = "PUT" /\ form[t] \in Form
    BY <1>3, SaveFacts
  <2>2. CASE Save(t)
    BY <2>2, <2>1, SetFacts DEF IndInv, Mutex, TypeOK, Critical,
       CriticalUnregister, CriticalRegister, CriticalSave, Save, Move, Goto,
       Lock, Unlock, Finish, PanicOnNilDb
  <2>3. CASE InsertApp(t)
    BY <2>3, <2>1, SetFacts DEF IndInv, Mutex, TypeOK, Critical,
       CriticalUnregister, CriticalRegister, CriticalSave, InsertApp, Move,
       Goto, Unlock, Finish, SaveFails
  <2>4. CASE ClearOids(t)
    BY <2>4, <2>1, SetFacts DEF IndInv, Mutex, TypeOK, Critical,
       CriticalUnregister, CriticalRegister, CriticalSave, ClearOids, Move,
       Goto, Unlock, Finish, SaveFails
  <2>5. CASE MapRace(t)
    BY <2>5, MutexDie DEF MapRace
  <2>6. CASE InsertOid(t)
    BY <2>6, <2>1, SetFacts DEF IndInv, Mutex, TypeOK, Critical,
       CriticalUnregister, CriticalRegister, CriticalSave, InsertOid, Goto,
       Unlock, Finish, SaveFails
  <2>7. CASE SaveDone(t)
    BY <2>7, <2>1, SetFacts DEF IndInv, Mutex, TypeOK, Critical,
       CriticalUnregister, CriticalRegister, CriticalSave, SaveDone, Goto,
       Unlock, Finish
  <2> QED
    BY <1>3, <2>2, <2>3, <2>4, <2>5, <2>6, <2>7 DEF SaveApplication
<1>4. ASSUME NEW h \in Handlers, Request(h) PROVE Mutex'
  <2>1. CASE Put(h)
    BY <2>1, SetFacts DEF IndInv, Mutex, TypeOK, Critical, CriticalUnregister,
       CriticalRegister, CriticalSave, Put, Move, Goto
  <2>2. CASE Delete(h)
    BY <2>2, SetFacts DEF IndInv, Mutex, TypeOK, Critical, CriticalUnregister,
       CriticalRegister, CriticalSave, Delete, Move, Goto
  <2>3. CASE BadRequest(h)
    BY <2>3, SetFacts DEF IndInv, Mutex, TypeOK, Critical, CriticalUnregister,
       CriticalRegister, CriticalSave, BadRequest, Goto, Finish
  <2> QED
    BY <1>4, <2>1, <2>2, <2>3 DEF Request
<1>5. CASE Boot
  <2>1. CASE Start
    <3>1. UNCHANGED <<m, pc>>
      BY <2>1 DEF Start
    <3> QED
      BY <3>1 DEF IndInv, Mutex
  <2>2. ASSUME NEW b \in Bases, LoadNext(b) PROVE Mutex'
    BY <2>2, SetFacts DEF IndInv, Mutex, TypeOK, Critical, CriticalUnregister,
       CriticalRegister, CriticalSave, LoadNext, Goto
  <2>3. CASE LoadDone
    <3>1. UNCHANGED <<m, pc>>
      BY <2>3 DEF LoadDone
    <3> QED
      BY <3>1 DEF IndInv, Mutex
  <2> QED
    BY <1>5, <2>1, <2>2, <2>3 DEF Boot
<1>6. ASSUME NEW a \in Apps, Rediscover(a) PROVE Mutex'
  <2>1. CASE LoopPark(a) \/ LoopTick(a) \/ LoopEnter(a) \/ LoopFail(a) \/
             LoopClear(a) \/ LoopFill(a)
    <3>1. UNCHANGED <<m, pc>>
      BY <2>1 DEF LoopPark, LoopTick, LoopEnter, LoopFail, LoopClear,
         LoopFill, LoopStep
    <3> QED
      BY <3>1 DEF IndInv, Mutex
  <2> QED
    BY <1>6, <2>1 DEF Rediscover, LoopDiscovery
<1>7. CASE Crash
  BY <1>7, MutexDie DEF Crash
<1>8. CASE UNCHANGED vars
  BY <1>8 DEF IndInv, Mutex, TypeOK, vars, dbVars, axVars, procVars, reqVars,
     appVars
<1> QED
  BY <1>1, <1>2, <1>3, <1>4, <1>5, <1>6, <1>7, <1>8 DEF Next, Thread, Idle

-----------------------------------------------------------------------------
(* What a handler at work knows, and where a PUT can be.                   *)
LEMMA RequestInvDie ==
    ASSUME IndInv, Die PROVE RequestInv'
BY SetFacts DEF IndInv, RequestInv, TypeOK, InFlight, Registering, Saving,
   CriticalRegister, CriticalSave, Die, reqVars

LEMMA RequestInvStep ==
    ASSUME IndInv, [Next]_vars PROVE RequestInv'
<1>1. ASSUME NEW t \in Threads, Unregister(t) PROVE RequestInv'
  <2>1. t \in Handlers /\ t # Main /\ base[t] \in Bases
        /\ op[t] \in {"PUT", "DELETE"}
    BY <1>1, UnregisterFacts
  <2>2. CASE UnregisterEnter(t)
    BY <2>2, <2>1, SetFacts DEF IndInv, RequestInv, TypeOK, InFlight,
       Registering, Saving, CriticalRegister, CriticalSave, UnregisterEnter,
       Goto, Lock, Current, UnregisterReturns, Finish, reqVars, appVars
  <2>3. CASE Stop(t)
    BY <2>3, <2>1, SetFacts DEF IndInv, RequestInv, TypeOK, InFlight,
       Registering, Saving, CriticalRegister, CriticalSave, Stop, Move, Goto,
       Current, reqVars
  <2>4. CASE UnregisterSession(t)
    BY <2>4, <2>1, SetFacts DEF IndInv, RequestInv, TypeOK, InFlight,
       Registering, Saving, CriticalRegister, CriticalSave, UnregisterSession,
       Move, Goto, Unlock, Current, UnregisterReturns, GiveUp, Finish,
       reqVars, appVars
  <2>5. CASE CloseSession(t)
    BY <2>5, <2>1, SetFacts DEF IndInv, RequestInv, TypeOK, InFlight,
       Registering, Saving, CriticalRegister, CriticalSave, CloseSession,
       Move, Goto, Unlock, Current, UnregisterReturns, GiveUp, Finish,
       reqVars, appVars
  <2>6. CASE CloseClient(t)
    BY <2>6, <2>1, SetFacts DEF IndInv, RequestInv, TypeOK, InFlight,
       Registering, Saving, CriticalRegister, CriticalSave, CloseClient, Move,
       Goto, Unlock, Current, UnregisterReturns, GiveUp, Finish, reqVars,
       appVars
  <2>7. CASE DeleteApp(t)
    BY <2>7, <2>1, SetFacts DEF IndInv, RequestInv, TypeOK, InFlight,
       Registering, Saving, CriticalRegister, CriticalSave, DeleteApp, Move,
       Goto, Unlock, UnregisterReturns, Finish, PanicOnNilDb, reqVars, appVars
  <2>8. CASE DeleteOids(t)
    BY <2>8, <2>1, SetFacts DEF IndInv, RequestInv, TypeOK, InFlight,
       Registering, Saving, CriticalRegister, CriticalSave, DeleteOids, Goto,
       Unlock, UnregisterReturns, Finish, reqVars, appVars
  <2> QED
    BY <1>1, <2>2, <2>3, <2>4, <2>5, <2>6, <2>7, <2>8 DEF Unregister
<1>2. ASSUME NEW t \in Threads, AppRegister(t) PROVE RequestInv'
  <2>1. /\ base[t] \in Bases /\ App(t) \in Apps /\ form[App(t)] \in Form
        /\ t # Main => t \in Handlers /\ op[t] = "PUT"
        /\ InFlight(t)
    BY <1>2, AppRegisterFacts
  <2>2. CASE Lookup(t)
    BY <2>2, <2>1, SetFacts DEF IndInv, RequestInv, TypeOK, InFlight,
       Registering, Saving, CriticalRegister, CriticalSave, Lookup, Move,
       Goto, Current, reqVars, appVars
  <2>3. CASE Create(t)
    BY <2>3, <2>1, SetFacts DEF IndInv, RequestInv, TypeOK, InFlight,
       Registering, Saving, CriticalRegister, CriticalSave, Create, Move,
       Goto, Lock, App, reqVars
  <2>4. CASE OpenClient(t)
    BY <2>4, <2>1, SetFacts DEF IndInv, RequestInv, TypeOK, InFlight,
       Registering, Saving, CriticalRegister, CriticalSave, OpenClient, Move,
       Goto, Unlock, App, Finish, RegisterFails, reqVars, appVars
  <2>5. CASE OpenSession(t)
    BY <2>5, <2>1, SetFacts DEF IndInv, RequestInv, TypeOK, InFlight,
       Registering, Saving, CriticalRegister, CriticalSave, OpenSession, Move,
       Goto, Unlock, App, Finish, RegisterFails, reqVars, appVars
  <2>6. CASE RegisterSession(t)
    BY <2>6, <2>1, SetFacts DEF IndInv, RequestInv, TypeOK, InFlight,
       Registering, Saving, CriticalRegister, CriticalSave, RegisterSession,
       Goto, Unlock, App, Finish, RegisterFails, Registered, reqVars, appVars
  <2>7. CASE Discover(t)
    BY <2>7, <2>1, SetFacts DEF IndInv, RequestInv, TypeOK, InFlight,
       Registering, Saving, CriticalRegister, CriticalSave, Discover, Goto,
       Unlock, App, Finish, Registered, reqVars
  <2> QED
    BY <1>2, <2>2, <2>3, <2>4, <2>5, <2>6, <2>7 DEF AppRegister
<1>3. ASSUME NEW t \in Handlers, SaveApplication(t) PROVE RequestInv'
  <2>1. /\ t \in Threads /\ t # Main /\ t \in Apps
        /\ base[t] \in Bases /\ op[t] = "PUT" /\ form[t] \in Form
    BY <1>3, SaveFacts
  <2>2. CASE Save(t)
    BY <2>2, <2>1, SetFacts DEF IndInv, RequestInv, TypeOK, InFlight,
       Registering, Saving, CriticalRegister, CriticalSave, Save, Move, Goto,
       Lock, Unlock, Finish, PanicOnNilDb, reqVars, appVars
  <2>3. CASE InsertApp(t)
    BY <2>3, <2>1, SetFacts DEF IndInv, RequestInv, TypeOK, InFlight,
       Registering, Saving, CriticalRegister, CriticalSave, InsertApp, Move,
       Goto, Unlock, Finish, SaveFails, RowOf, reqVars, appVars
  <2>4. CASE ClearOids(t)
    BY <2>4, <2>1, SetFacts DEF IndInv, RequestInv, TypeOK, InFlight,
       Registering, Saving, CriticalRegister, CriticalSave, ClearOids, Move,
       Goto, Unlock, Finish, SaveFails, reqVars, appVars
  <2>5. CASE MapRace(t)
    BY <2>5, RequestInvDie DEF MapRace
  <2>6. CASE InsertOid(t)
    BY <2>6, <2>1, SetFacts DEF IndInv, RequestInv, TypeOK, InFlight,
       Registering, Saving, CriticalRegister, CriticalSave, InsertOid, Goto,
       Unlock, Finish, SaveFails, reqVars, appVars
  <2>7. CASE SaveDone(t)
    BY <2>7, <2>1, SetFacts DEF IndInv, RequestInv, TypeOK, InFlight,
       Registering, Saving, CriticalRegister, CriticalSave, SaveDone, Goto,
       Unlock, Finish, reqVars, appVars
  <2> QED
    BY <1>3, <2>2, <2>3, <2>4, <2>5, <2>6, <2>7 DEF SaveApplication
<1>4. ASSUME NEW h \in Handlers, Request(h) PROVE RequestInv'
  <2>1. CASE Put(h)
    BY <2>1, SetFacts DEF IndInv, RequestInv, TypeOK, InFlight, Registering,
       Saving, CriticalRegister, CriticalSave, Put, Move, Goto
  <2>2. CASE Delete(h)
    BY <2>2, SetFacts DEF IndInv, RequestInv, TypeOK, InFlight, Registering,
       Saving, CriticalRegister, CriticalSave, Delete, Move, Goto, appVars
  <2>3. CASE BadRequest(h)
    BY <2>3, SetFacts DEF IndInv, RequestInv, TypeOK, InFlight, Registering,
       Saving, CriticalRegister, CriticalSave, BadRequest, Goto, Finish,
       reqVars, appVars
  <2> QED
    BY <1>4, <2>1, <2>2, <2>3 DEF Request
<1>5. CASE Boot
  <2>1. CASE Start
    <3>1. UNCHANGED <<pc, reply, op, base, form>>
      BY <2>1 DEF Start, reqVars, appVars
    <3> QED
      BY <3>1 DEF IndInv, RequestInv, InFlight
  <2>2. ASSUME NEW b \in Bases, LoadNext(b) PROVE RequestInv'
    BY <2>2, SetFacts DEF IndInv, RequestInv, TypeOK, InFlight, Registering,
       Saving, CriticalRegister, CriticalSave, LoadNext, Goto
  <2>3. CASE LoadDone
    <3>1. UNCHANGED <<pc, reply, op, base, form>>
      BY <2>3 DEF LoadDone, reqVars, appVars
    <3> QED
      BY <3>1 DEF IndInv, RequestInv, InFlight
  <2> QED
    BY <1>5, <2>1, <2>2, <2>3 DEF Boot
<1>6. ASSUME NEW a \in Apps, Rediscover(a) PROVE RequestInv'
  <2>1. CASE LoopPark(a) \/ LoopTick(a) \/ LoopEnter(a) \/ LoopFail(a) \/
             LoopClear(a) \/ LoopFill(a)
    <3>1. UNCHANGED <<pc, reply, op, base, form>>
      BY <2>1 DEF LoopPark, LoopTick, LoopEnter, LoopFail, LoopClear,
         LoopFill, LoopStep, reqVars
    <3> QED
      BY <3>1 DEF IndInv, RequestInv, InFlight
  <2> QED
    BY <1>6, <2>1 DEF Rediscover, LoopDiscovery
<1>7. CASE Crash
  BY <1>7, RequestInvDie DEF Crash
<1>8. CASE UNCHANGED vars
  BY <1>8 DEF IndInv, RequestInv, TypeOK, InFlight, vars, dbVars, axVars,
     procVars, reqVars, appVars
<1> QED
  BY <1>1, <1>2, <1>3, <1>4, <1>5, <1>6, <1>7, <1>8 DEF Next, Thread, Idle

-----------------------------------------------------------------------------
(* Initialize runs alone, on applications that are not in the map.         *)
LEMMA LoadInvDie ==
    ASSUME IndInv, Die PROVE LoadInv'
BY SetFacts DEF IndInv, LoadInv, TypeOK, RequestInv, InFlight, HasRow,
   DbTypeOK, AppRow, Form, Registering, CriticalRegister, Die, reqVars

LEMMA LoadInvStep ==
    ASSUME IndInv, [Next]_vars PROVE LoadInv'
<1>1. ASSUME NEW t \in Threads, Unregister(t) PROVE LoadInv'
  <2>1. t \in Handlers /\ t # Main /\ base[t] \in Bases
        /\ op[t] \in {"PUT", "DELETE"}
    BY <1>1, UnregisterFacts
  <2>2. CASE UnregisterEnter(t)
    BY <2>2, <2>1, SetFacts DEF IndInv, LoadInv, TypeOK, RequestInv, InFlight,
       HasRow, DbTypeOK, AppRow, Form, Registering, CriticalRegister,
       UnregisterEnter, Goto, Lock, Current, UnregisterReturns, Finish,
       dbVars, procVars, reqVars, appVars
  <2>3. CASE Stop(t)
    BY <2>3, <2>1, SetFacts DEF IndInv, LoadInv, TypeOK, RequestInv, InFlight,
       HasRow, DbTypeOK, AppRow, Form, Registering, CriticalRegister, Stop,
       Move, Goto, Current, dbVars, procVars, reqVars
  <2>4. CASE UnregisterSession(t)
    BY <2>4, <2>1, SetFacts DEF IndInv, LoadInv, TypeOK, RequestInv, InFlight,
       HasRow, DbTypeOK, AppRow, Form, Registering, CriticalRegister,
       UnregisterSession, Move, Goto, Unlock, Current, UnregisterReturns,
       GiveUp, Finish, dbVars, procVars, reqVars, appVars
  <2>5. CASE CloseSession(t)
    BY <2>5, <2>1, SetFacts DEF IndInv, LoadInv, TypeOK, RequestInv, InFlight,
       HasRow, DbTypeOK, AppRow, Form, Registering, CriticalRegister,
       CloseSession, Move, Goto, Unlock, Current, UnregisterReturns, GiveUp,
       Finish, dbVars, procVars, reqVars, appVars
  <2>6. CASE CloseClient(t)
    BY <2>6, <2>1, SetFacts DEF IndInv, LoadInv, TypeOK, RequestInv, InFlight,
       HasRow, DbTypeOK, AppRow, Form, Registering, CriticalRegister,
       CloseClient, Move, Goto, Unlock, Current, UnregisterReturns, GiveUp,
       Finish, dbVars, procVars, reqVars, appVars
  <2>7. CASE DeleteApp(t)
    BY <2>7, <2>1, SetFacts DEF IndInv, LoadInv, TypeOK, RequestInv, InFlight,
       HasRow, DbTypeOK, AppRow, Form, Registering, CriticalRegister,
       DeleteApp, Move, Goto, Unlock, UnregisterReturns, Finish, PanicOnNilDb,
       DeleteAppRow, dbVars, procVars, reqVars, appVars
  <2>8. CASE DeleteOids(t)
    BY <2>8, <2>1, SetFacts DEF IndInv, LoadInv, TypeOK, RequestInv, InFlight,
       HasRow, DbTypeOK, AppRow, Form, Registering, CriticalRegister,
       DeleteOids, Goto, Unlock, UnregisterReturns, Finish, DeleteOidRows,
       dbVars, procVars, reqVars, appVars
  <2> QED
    BY <1>1, <2>2, <2>3, <2>4, <2>5, <2>6, <2>7, <2>8 DEF Unregister
<1>2. ASSUME NEW t \in Threads, AppRegister(t) PROVE LoadInv'
  <2>1. /\ base[t] \in Bases /\ App(t) \in Apps /\ form[App(t)] \in Form
        /\ t # Main => t \in Handlers /\ op[t] = "PUT"
        /\ InFlight(t)
    BY <1>2, AppRegisterFacts
  <2>2. CASE Lookup(t)
    BY <2>2, <2>1, SetFacts DEF IndInv, LoadInv, TypeOK, RequestInv, InFlight,
       HasRow, DbTypeOK, AppRow, Form, Registering, CriticalRegister, Lookup,
       Move, Goto, Current, dbVars, procVars, reqVars, appVars
  <2>3. CASE Create(t)
    BY <2>3, <2>1, SetFacts DEF IndInv, LoadInv, TypeOK, RequestInv, InFlight,
       HasRow, DbTypeOK, AppRow, Form, Registering, CriticalRegister, Create,
       Move, Goto, Lock, App, dbVars, procVars, reqVars
  <2>4. CASE OpenClient(t)
    BY <2>4, <2>1, SetFacts DEF IndInv, LoadInv, TypeOK, RequestInv, InFlight,
       HasRow, DbTypeOK, AppRow, Form, Registering, CriticalRegister,
       OpenClient, Move, Goto, Unlock, App, Finish, RegisterFails, dbVars,
       procVars, reqVars, appVars
  <2>5. CASE OpenSession(t)
    BY <2>5, <2>1, SetFacts DEF IndInv, LoadInv, TypeOK, RequestInv, InFlight,
       HasRow, DbTypeOK, AppRow, Form, Registering, CriticalRegister,
       OpenSession, Move, Goto, Unlock, App, Finish, RegisterFails, dbVars,
       procVars, reqVars, appVars
  <2>6. CASE RegisterSession(t)
    BY <2>6, <2>1, SetFacts DEF IndInv, LoadInv, TypeOK, RequestInv, InFlight,
       HasRow, DbTypeOK, AppRow, Form, Registering, CriticalRegister,
       RegisterSession, Goto, Unlock, App, Finish, RegisterFails, Registered,
       dbVars, procVars, reqVars, appVars
  <2>7. CASE Discover(t)
    BY <2>7, <2>1, SetFacts DEF IndInv, LoadInv, TypeOK, RequestInv, InFlight,
       HasRow, DbTypeOK, AppRow, Form, Registering, CriticalRegister,
       Discover, Goto, Unlock, App, Finish, Registered, dbVars, procVars,
       reqVars
  <2> QED
    BY <1>2, <2>2, <2>3, <2>4, <2>5, <2>6, <2>7 DEF AppRegister
<1>3. ASSUME NEW t \in Handlers, SaveApplication(t) PROVE LoadInv'
  <2>1. /\ t \in Threads /\ t # Main /\ t \in Apps
        /\ base[t] \in Bases /\ op[t] = "PUT" /\ form[t] \in Form
    BY <1>3, SaveFacts
  <2>2. CASE Save(t)
    BY <2>2, <2>1, SetFacts DEF IndInv, LoadInv, TypeOK, RequestInv, InFlight,
       HasRow, DbTypeOK, AppRow, Form, Registering, CriticalRegister, Save,
       Move, Goto, Lock, Unlock, Finish, PanicOnNilDb, dbVars, procVars,
       reqVars, appVars
  <2>3. CASE InsertApp(t)
    BY <2>3, <2>1, SetFacts DEF IndInv, LoadInv, TypeOK, RequestInv, InFlight,
       HasRow, DbTypeOK, AppRow, Form, Registering, CriticalRegister,
       InsertApp, Move, Goto, Unlock, Finish, SaveFails, RowOf,
       InsertOrReplaceApp, dbVars, procVars, reqVars, appVars
  <2>4. CASE ClearOids(t)
    BY <2>4, <2>1, SetFacts DEF IndInv, LoadInv, TypeOK, RequestInv, InFlight,
       HasRow, DbTypeOK, AppRow, Form, Registering, CriticalRegister,
       ClearOids, Move, Goto, Unlock, Finish, SaveFails, DeleteOidRows,
       dbVars, procVars, reqVars, appVars
  <2>5. CASE MapRace(t)
    BY <2>5, LoadInvDie DEF MapRace
  <2>6. CASE InsertOid(t)
    BY <2>6, <2>1, SetFacts DEF IndInv, LoadInv, TypeOK, RequestInv, InFlight,
       HasRow, DbTypeOK, AppRow, Form, Registering, CriticalRegister,
       InsertOid, Goto, Unlock, Finish, SaveFails, InsertOidRow, dbVars,
       procVars, reqVars, appVars
  <2>7. CASE SaveDone(t)
    BY <2>7, <2>1, SetFacts DEF IndInv, LoadInv, TypeOK, RequestInv, InFlight,
       HasRow, DbTypeOK, AppRow, Form, Registering, CriticalRegister,
       SaveDone, Goto, Unlock, Finish, dbVars, procVars, reqVars, appVars
  <2> QED
    BY <1>3, <2>2, <2>3, <2>4, <2>5, <2>6, <2>7 DEF SaveApplication
<1>4. ASSUME NEW h \in Handlers, Request(h) PROVE LoadInv'
  <2>1. CASE Put(h)
    BY <2>1, SetFacts DEF IndInv, LoadInv, TypeOK, RequestInv, InFlight,
       HasRow, DbTypeOK, AppRow, Form, Registering, CriticalRegister, Put,
       Move, Goto, dbVars, procVars
  <2>2. CASE Delete(h)
    BY <2>2, SetFacts DEF IndInv, LoadInv, TypeOK, RequestInv, InFlight,
       HasRow, DbTypeOK, AppRow, Form, Registering, CriticalRegister, Delete,
       Move, Goto, dbVars, procVars, appVars
  <2>3. CASE BadRequest(h)
    BY <2>3, SetFacts DEF IndInv, LoadInv, TypeOK, RequestInv, InFlight,
       HasRow, DbTypeOK, AppRow, Form, Registering, CriticalRegister,
       BadRequest, Goto, Finish, dbVars, procVars, reqVars, appVars
  <2> QED
    BY <1>4, <2>1, <2>2, <2>3 DEF Request
<1>5. CASE Boot
  <2>1. CASE Start
    BY <2>1, SetFacts DEF IndInv, LoadInv, TypeOK, RequestInv, InFlight,
       HasRow, DbTypeOK, AppRow, Form, Registering, CriticalRegister, Start,
       Loadable, reqVars, appVars
  <2>2. ASSUME NEW b \in Bases, LoadNext(b) PROVE LoadInv'
    <3>1. form'[b] \in Form
      BY <2>2, RestoredForm
    <3>2. /\ mode' = mode /\ applications' = applications
          /\ dbApps' = dbApps /\ todo' = todo \ {b} /\ b \in todo
          /\ base'[Main] = b /\ pc'[Main] = "lookup"
          /\ \A h \in Handlers : pc'[h] = pc[h]
      BY <2>2, SetFacts DEF LoadNext, Goto, dbVars, IndInv, TypeOK
    <3>3. mode = "loading"
      BY <2>2 DEF LoadNext
    <3> QED
      BY <3>1, <3>2, <3>3, SetFacts DEF IndInv, LoadInv, InFlight, HasRow,
         Registering
  <2>3. CASE LoadDone
    BY <2>3, SetFacts DEF IndInv, LoadInv, TypeOK, RequestInv, InFlight,
       HasRow, DbTypeOK, AppRow, Form, Registering, CriticalRegister,
       LoadDone, dbVars, reqVars, appVars
  <2> QED
    BY <1>5, <2>1, <2>2, <2>3 DEF Boot
<1>6. ASSUME NEW a \in Apps, Rediscover(a) PROVE LoadInv'
  <2>1. CASE LoopPark(a) \/ LoopTick(a) \/ LoopEnter(a) \/ LoopFail(a) \/
             LoopClear(a) \/ LoopFill(a)
    <3>1. UNCHANGED <<mode, pc, todo, applications, dbApps, base, form>>
      BY <2>1 DEF LoopPark, LoopTick, LoopEnter, LoopFail, LoopClear,
         LoopFill, LoopStep, dbVars, procVars, reqVars
    <3> QED
      BY <3>1 DEF IndInv, LoadInv, InFlight, HasRow
  <2> QED
    BY <1>6, <2>1 DEF Rediscover, LoopDiscovery
<1>7. CASE Crash
  BY <1>7, LoadInvDie DEF Crash
<1>8. CASE UNCHANGED vars
  BY <1>8 DEF IndInv, LoadInv, TypeOK, RequestInv, InFlight, HasRow, DbTypeOK,
     AppRow, Form, vars, dbVars, axVars, procVars, reqVars, appVars
<1> QED
  BY <1>1, <1>2, <1>3, <1>4, <1>5, <1>6, <1>7, <1>8 DEF Next, Thread, Idle

-----------------------------------------------------------------------------
(* A handler's Application is in the map under its own base oid only.      *)
LEMMA MapInvDie ==
    ASSUME IndInv, Die PROVE MapInv'
BY SetFacts DEF IndInv, MapInv, TypeOK, RequestInv, AfterMap, Saving,
   CriticalSave, Registering, CriticalRegister, App, Die, reqVars

LEMMA MapInvStep ==
    ASSUME IndInv, [Next]_vars PROVE MapInv'
<1>1. ASSUME NEW t \in Threads, Unregister(t) PROVE MapInv'
  <2>1. t \in Handlers /\ t # Main /\ base[t] \in Bases
        /\ op[t] \in {"PUT", "DELETE"}
    BY <1>1, UnregisterFacts
  <2>2. CASE UnregisterEnter(t)
    BY <2>2, <2>1, SetFacts DEF IndInv, MapInv, TypeOK, RequestInv, AfterMap,
       Saving, CriticalSave, Registering, CriticalRegister, App,
       UnregisterEnter, Goto, Lock, Current, UnregisterReturns, Finish,
       reqVars
  <2>3. CASE Stop(t)
    BY <2>3, <2>1, SetFacts DEF IndInv, MapInv, TypeOK, RequestInv, AfterMap,
       Saving, CriticalSave, Registering, CriticalRegister, App, Stop, Move,
       Goto, Current, reqVars
  <2>4. CASE UnregisterSession(t)
    BY <2>4, <2>1, SetFacts DEF IndInv, MapInv, TypeOK, RequestInv, AfterMap,
       Saving, CriticalSave, Registering, CriticalRegister, App,
       UnregisterSession, Move, Goto, Unlock, Current, UnregisterReturns,
       GiveUp, Finish, reqVars
  <2>5. CASE CloseSession(t)
    BY <2>5, <2>1, SetFacts DEF IndInv, MapInv, TypeOK, RequestInv, AfterMap,
       Saving, CriticalSave, Registering, CriticalRegister, App, CloseSession,
       Move, Goto, Unlock, Current, UnregisterReturns, GiveUp, Finish, reqVars
  <2>6. CASE CloseClient(t)
    BY <2>6, <2>1, SetFacts DEF IndInv, MapInv, TypeOK, RequestInv, AfterMap,
       Saving, CriticalSave, Registering, CriticalRegister, App, CloseClient,
       Move, Goto, Unlock, Current, UnregisterReturns, GiveUp, Finish, reqVars
  <2>7. CASE DeleteApp(t)
    BY <2>7, <2>1, SetFacts DEF IndInv, MapInv, TypeOK, RequestInv, AfterMap,
       Saving, CriticalSave, Registering, CriticalRegister, App, DeleteApp,
       Move, Goto, Unlock, UnregisterReturns, Finish, PanicOnNilDb, reqVars
  <2>8. CASE DeleteOids(t)
    BY <2>8, <2>1, SetFacts DEF IndInv, MapInv, TypeOK, RequestInv, AfterMap,
       Saving, CriticalSave, Registering, CriticalRegister, App, DeleteOids,
       Goto, Unlock, UnregisterReturns, Finish, reqVars
  <2> QED
    BY <1>1, <2>2, <2>3, <2>4, <2>5, <2>6, <2>7, <2>8 DEF Unregister
<1>2. ASSUME NEW t \in Threads, AppRegister(t) PROVE MapInv'
  <2>1. /\ base[t] \in Bases /\ App(t) \in Apps /\ form[App(t)] \in Form
        /\ t # Main => t \in Handlers /\ op[t] = "PUT"
        /\ InFlight(t)
    BY <1>2, AppRegisterFacts
  <2>2. CASE Lookup(t)
    BY <2>2, <2>1, SetFacts DEF IndInv, MapInv, TypeOK, RequestInv, AfterMap,
       Saving, CriticalSave, Registering, CriticalRegister, App, Lookup, Move,
       Goto, Current, reqVars
  <2>3. CASE Create(t)
    BY <2>3, <2>1, SetFacts DEF IndInv, MapInv, TypeOK, RequestInv, AfterMap,
       Saving, CriticalSave, Registering, CriticalRegister, App, Create, Move,
       Goto, Lock, reqVars
  <2>4. CASE OpenClient(t)
    BY <2>4, <2>1, SetFacts DEF IndInv, MapInv, TypeOK, RequestInv, AfterMap,
       Saving, CriticalSave, Registering, CriticalRegister, App, OpenClient,
       Move, Goto, Unlock, Finish, RegisterFails, reqVars
  <2>5. CASE OpenSession(t)
    BY <2>5, <2>1, SetFacts DEF IndInv, MapInv, TypeOK, RequestInv, AfterMap,
       Saving, CriticalSave, Registering, CriticalRegister, App, OpenSession,
       Move, Goto, Unlock, Finish, RegisterFails, reqVars
  <2>6. CASE RegisterSession(t)
    BY <2>6, <2>1, SetFacts DEF IndInv, MapInv, TypeOK, RequestInv, AfterMap,
       Saving, CriticalSave, Registering, CriticalRegister, App,
       RegisterSession, Goto, Unlock, Finish, RegisterFails, Registered,
       reqVars
  <2>7. CASE Discover(t)
    BY <2>7, <2>1, SetFacts DEF IndInv, MapInv, TypeOK, RequestInv, AfterMap,
       Saving, CriticalSave, Registering, CriticalRegister, App, Discover,
       Goto, Unlock, Finish, Registered, reqVars
  <2> QED
    BY <1>2, <2>2, <2>3, <2>4, <2>5, <2>6, <2>7 DEF AppRegister
<1>3. ASSUME NEW t \in Handlers, SaveApplication(t) PROVE MapInv'
  <2>1. /\ t \in Threads /\ t # Main /\ t \in Apps
        /\ base[t] \in Bases /\ op[t] = "PUT" /\ form[t] \in Form
    BY <1>3, SaveFacts
  <2>2. CASE Save(t)
    BY <2>2, <2>1, SetFacts DEF IndInv, MapInv, TypeOK, RequestInv, AfterMap,
       Saving, CriticalSave, Registering, CriticalRegister, App, Save, Move,
       Goto, Lock, Unlock, Finish, PanicOnNilDb, reqVars
  <2>3. CASE InsertApp(t)
    BY <2>3, <2>1, SetFacts DEF IndInv, MapInv, TypeOK, RequestInv, AfterMap,
       Saving, CriticalSave, Registering, CriticalRegister, App, InsertApp,
       Move, Goto, Unlock, Finish, SaveFails, reqVars
  <2>4. CASE ClearOids(t)
    BY <2>4, <2>1, SetFacts DEF IndInv, MapInv, TypeOK, RequestInv, AfterMap,
       Saving, CriticalSave, Registering, CriticalRegister, App, ClearOids,
       Move, Goto, Unlock, Finish, SaveFails, reqVars
  <2>5. CASE MapRace(t)
    BY <2>5, MapInvDie DEF MapRace
  <2>6. CASE InsertOid(t)
    BY <2>6, <2>1, SetFacts DEF IndInv, MapInv, TypeOK, RequestInv, AfterMap,
       Saving, CriticalSave, Registering, CriticalRegister, App, InsertOid,
       Goto, Unlock, Finish, SaveFails, reqVars
  <2>7. CASE SaveDone(t)
    BY <2>7, <2>1, SetFacts DEF IndInv, MapInv, TypeOK, RequestInv, AfterMap,
       Saving, CriticalSave, Registering, CriticalRegister, App, SaveDone,
       Goto, Unlock, Finish, reqVars
  <2> QED
    BY <1>3, <2>2, <2>3, <2>4, <2>5, <2>6, <2>7 DEF SaveApplication
<1>4. ASSUME NEW h \in Handlers, Request(h) PROVE MapInv'
  <2>1. CASE Put(h)
    BY <2>1, SetFacts DEF IndInv, MapInv, TypeOK, RequestInv, AfterMap,
       Saving, CriticalSave, Registering, CriticalRegister, App, Put, Move,
       Goto
  <2>2. CASE Delete(h)
    BY <2>2, SetFacts DEF IndInv, MapInv, TypeOK, RequestInv, AfterMap,
       Saving, CriticalSave, Registering, CriticalRegister, App, Delete, Move,
       Goto
  <2>3. CASE BadRequest(h)
    BY <2>3, SetFacts DEF IndInv, MapInv, TypeOK, RequestInv, AfterMap,
       Saving, CriticalSave, Registering, CriticalRegister, App, BadRequest,
       Goto, Finish, reqVars
  <2> QED
    BY <1>4, <2>1, <2>2, <2>3 DEF Request
<1>5. CASE Boot
  <2>1. CASE Start
    <3>1. UNCHANGED <<applications, base, op, pc>>
      BY <2>1 DEF Start, reqVars
    <3> QED
      BY <3>1 DEF IndInv, MapInv
  <2>2. ASSUME NEW b \in Bases, LoadNext(b) PROVE MapInv'
    BY <2>2, SetFacts DEF IndInv, MapInv, TypeOK, RequestInv, AfterMap,
       Saving, CriticalSave, Registering, CriticalRegister, App, LoadNext,
       Goto
  <2>3. CASE LoadDone
    <3>1. UNCHANGED <<applications, base, op, pc>>
      BY <2>3 DEF LoadDone, reqVars
    <3> QED
      BY <3>1 DEF IndInv, MapInv
  <2> QED
    BY <1>5, <2>1, <2>2, <2>3 DEF Boot
<1>6. ASSUME NEW a \in Apps, Rediscover(a) PROVE MapInv'
  <2>1. CASE LoopPark(a) \/ LoopTick(a) \/ LoopEnter(a) \/ LoopFail(a) \/
             LoopClear(a) \/ LoopFill(a)
    <3>1. UNCHANGED <<applications, base, op, pc>>
      BY <2>1 DEF LoopPark, LoopTick, LoopEnter, LoopFail, LoopClear,
         LoopFill, LoopStep, reqVars
    <3> QED
      BY <3>1 DEF IndInv, MapInv
  <2> QED
    BY <1>6, <2>1 DEF Rediscover, LoopDiscovery
<1>7. CASE Crash
  BY <1>7, MapInvDie DEF Crash
<1>8. CASE UNCHANGED vars
  BY <1>8 DEF IndInv, MapInv, TypeOK, RequestInv, AfterMap, Saving,
     CriticalSave, vars, dbVars, axVars, procVars, reqVars, appVars
<1> QED
  BY <1>1, <1>2, <1>3, <1>4, <1>5, <1>6, <1>7, <1>8 DEF Next, Thread, Idle

-----------------------------------------------------------------------------
(* Unregister takes an Application off the master, then off the map.       *)
LEMMA UnregisterInvDie ==
    ASSUME IndInv, Die PROVE UnregisterInv'
BY SetFacts DEF IndInv, UnregisterInv, TypeOK, AxTypeOK, OneOwner, Mutex,
   RequestInv, Current, Critical, CriticalUnregister, CriticalRegister, Die,
   AxDisconnectAll, reqVars

LEMMA UnregisterInvStep ==
    ASSUME IndInv, [Next]_vars PROVE UnregisterInv'
<1>1. ASSUME NEW t \in Threads, Unregister(t) PROVE UnregisterInv'
  <2>1. t \in Handlers /\ t # Main /\ base[t] \in Bases
        /\ op[t] \in {"PUT", "DELETE"}
    BY <1>1, UnregisterFacts
  <2>2. CASE UnregisterEnter(t)
    BY <2>2, <2>1, SetFacts DEF IndInv, UnregisterInv, TypeOK, AxTypeOK,
       OneOwner, Mutex, RequestInv, Current, Critical, CriticalUnregister,
       CriticalRegister, UnregisterEnter, Goto, Lock, UnregisterReturns,
       Finish, axVars, reqVars
  <2>3. CASE Stop(t)
    BY <2>3, <2>1, SetFacts DEF IndInv, UnregisterInv, TypeOK, AxTypeOK,
       OneOwner, Mutex, RequestInv, Current, Critical, CriticalUnregister,
       CriticalRegister, Stop, Move, Goto, axVars, reqVars
  <2>4. CASE UnregisterSession(t)
    BY <2>4, <2>1, SetFacts DEF IndInv, UnregisterInv, TypeOK, AxTypeOK,
       OneOwner, Mutex, RequestInv, Current, Critical, CriticalUnregister,
       CriticalRegister, UnregisterSession, Move, Goto, Unlock,
       UnregisterReturns, GiveUp, Finish, AxUnregister, axVars, reqVars
  <2>5. CASE CloseSession(t)
    BY <2>5, <2>1, SetFacts DEF IndInv, UnregisterInv, TypeOK, AxTypeOK,
       OneOwner, Mutex, RequestInv, Current, Critical, CriticalUnregister,
       CriticalRegister, CloseSession, Move, Goto, Unlock, UnregisterReturns,
       GiveUp, Finish, AxCloseSession, axVars, reqVars
  <2>6. CASE CloseClient(t)
    BY <2>6, <2>1, SetFacts DEF IndInv, UnregisterInv, TypeOK, AxTypeOK,
       OneOwner, Mutex, RequestInv, Current, Critical, CriticalUnregister,
       CriticalRegister, CloseClient, Move, Goto, Unlock, UnregisterReturns,
       GiveUp, Finish, AxCloseClient, axVars, reqVars
  <2>7. CASE DeleteApp(t)
    BY <2>7, <2>1, SetFacts DEF IndInv, UnregisterInv, TypeOK, AxTypeOK,
       OneOwner, Mutex, RequestInv, Current, Critical, CriticalUnregister,
       CriticalRegister, DeleteApp, Move, Goto, Unlock, UnregisterReturns,
       Finish, PanicOnNilDb, axVars, reqVars
  <2>8. CASE DeleteOids(t)
    BY <2>8, <2>1, SetFacts DEF IndInv, UnregisterInv, TypeOK, AxTypeOK,
       OneOwner, Mutex, RequestInv, Current, Critical, CriticalUnregister,
       CriticalRegister, DeleteOids, Goto, Unlock, UnregisterReturns, Finish,
       axVars, reqVars
  <2> QED
    BY <1>1, <2>2, <2>3, <2>4, <2>5, <2>6, <2>7, <2>8 DEF Unregister
<1>2. ASSUME NEW t \in Threads, AppRegister(t) PROVE UnregisterInv'
  <2>1. /\ base[t] \in Bases /\ App(t) \in Apps /\ form[App(t)] \in Form
        /\ t # Main => t \in Handlers /\ op[t] = "PUT"
        /\ InFlight(t)
    BY <1>2, AppRegisterFacts
  <2>2. CASE Lookup(t)
    BY <2>2, <2>1, SetFacts DEF IndInv, UnregisterInv, TypeOK, AxTypeOK,
       OneOwner, Mutex, RequestInv, Current, Critical, CriticalUnregister,
       CriticalRegister, Lookup, Move, Goto, axVars, reqVars
  <2>3. CASE Create(t)
    BY <2>3, <2>1, SetFacts DEF IndInv, UnregisterInv, TypeOK, AxTypeOK,
       OneOwner, Mutex, RequestInv, Current, Critical, CriticalUnregister,
       CriticalRegister, Create, Move, Goto, Lock, App, axVars, reqVars
  <2>4. CASE OpenClient(t)
    BY <2>4, <2>1, SetFacts DEF IndInv, UnregisterInv, TypeOK, AxTypeOK,
       OneOwner, Mutex, RequestInv, Current, Critical, CriticalUnregister,
       CriticalRegister, OpenClient, Move, Goto, Unlock, App, Finish,
       RegisterFails, AxOpenClient, axVars, reqVars
  <2>5. CASE OpenSession(t)
    BY <2>5, <2>1, SetFacts DEF IndInv, UnregisterInv, TypeOK, AxTypeOK,
       OneOwner, Mutex, RequestInv, Current, Critical, CriticalUnregister,
       CriticalRegister, OpenSession, Move, Goto, Unlock, App, Finish,
       RegisterFails, AxOpenSession, axVars, reqVars
  <2>6. CASE RegisterSession(t)
    BY <2>6, <2>1, SetFacts DEF IndInv, UnregisterInv, TypeOK, AxTypeOK,
       OneOwner, Mutex, RequestInv, Current, Critical, CriticalUnregister,
       CriticalRegister, RegisterSession, Goto, Unlock, App, Finish,
       RegisterFails, Registered, MayRegister, AxRegister, axVars, reqVars
  <2>7. CASE Discover(t)
    BY <2>7, <2>1, SetFacts DEF IndInv, UnregisterInv, TypeOK, AxTypeOK,
       OneOwner, Mutex, RequestInv, Current, Critical, CriticalUnregister,
       CriticalRegister, Discover, Goto, Unlock, App, Finish, Registered,
       axVars, reqVars
  <2> QED
    BY <1>2, <2>2, <2>3, <2>4, <2>5, <2>6, <2>7 DEF AppRegister
<1>3. ASSUME NEW t \in Handlers, SaveApplication(t) PROVE UnregisterInv'
  <2>1. /\ t \in Threads /\ t # Main /\ t \in Apps
        /\ base[t] \in Bases /\ op[t] = "PUT" /\ form[t] \in Form
    BY <1>3, SaveFacts
  <2>2. CASE Save(t)
    BY <2>2, <2>1, SetFacts DEF IndInv, UnregisterInv, TypeOK, AxTypeOK,
       OneOwner, Mutex, RequestInv, Current, Critical, CriticalUnregister,
       CriticalRegister, Save, Move, Goto, Lock, Unlock, Finish, PanicOnNilDb,
       axVars, reqVars
  <2>3. CASE InsertApp(t)
    <3>1. UNCHANGED <<master, applications, base>>
      BY <2>3 DEF InsertApp, axVars, reqVars
    <3>2. \A h \in Handlers : pc'[h] \in {pc[h], "clearOids", "done"}
      BY <2>3, <2>1, SetFacts DEF InsertApp, SaveFails, Finish, Goto, Move, IndInv,
         TypeOK
    <3> QED
      BY <3>1, <3>2 DEF IndInv, UnregisterInv, Current
  <2>4. CASE ClearOids(t)
    BY SMTT(30), <2>4, <2>1, SetFacts DEF IndInv, UnregisterInv, TypeOK, AxTypeOK,
       OneOwner, Mutex, RequestInv, Current, Critical, CriticalUnregister,
       CriticalRegister, ClearOids, Move, Goto, Unlock, Finish, SaveFails,
       axVars, reqVars
  <2>5. CASE MapRace(t)
    BY <2>5, UnregisterInvDie DEF MapRace
  <2>6. CASE InsertOid(t)
    <3>1. UNCHANGED <<master, applications, base>>
      BY <2>6 DEF InsertOid, axVars, reqVars
    <3>2. \A h \in Handlers : pc'[h] \in {pc[h], "done"}
      BY <2>6, <2>1, SetFacts DEF InsertOid, SaveFails, Finish, Goto, IndInv, TypeOK
    <3> QED
      BY <3>1, <3>2 DEF IndInv, UnregisterInv, Current
  <2>7. CASE SaveDone(t)
    BY <2>7, <2>1, SetFacts DEF IndInv, UnregisterInv, TypeOK, AxTypeOK,
       OneOwner, Mutex, RequestInv, Current, Critical, CriticalUnregister,
       CriticalRegister, SaveDone, Goto, Unlock, Finish, axVars, reqVars
  <2> QED
    BY <1>3, <2>2, <2>3, <2>4, <2>5, <2>6, <2>7 DEF SaveApplication
<1>4. ASSUME NEW h \in Handlers, Request(h) PROVE UnregisterInv'
  <2>1. CASE Put(h)
    BY SMTT(30), <2>1, SetFacts DEF IndInv, UnregisterInv, TypeOK, AxTypeOK, OneOwner,
       Mutex, RequestInv, Current, Critical, CriticalUnregister,
       CriticalRegister, Put, Move, Goto, axVars
  <2>2. CASE Delete(h)
    BY ZenonT(60), <2>2, SetFacts DEF IndInv, UnregisterInv, TypeOK, AxTypeOK, OneOwner,
       Mutex, RequestInv, Current, Critical, CriticalUnregister,
       CriticalRegister, Delete, Move, Goto, axVars
  <2>3. CASE BadRequest(h)
    BY <2>3, SetFacts DEF IndInv, UnregisterInv, TypeOK, AxTypeOK, OneOwner,
       Mutex, RequestInv, Current, Critical, CriticalUnregister,
       CriticalRegister, BadRequest, Goto, Finish, axVars, reqVars
  <2> QED
    BY <1>4, <2>1, <2>2, <2>3 DEF Request
<1>5. CASE Boot
  <2>1. CASE Start
    <3>1. UNCHANGED <<pc, base, applications, master>>
      BY <2>1 DEF Start, axVars, reqVars
    <3> QED
      BY <3>1 DEF IndInv, UnregisterInv, Current
  <2>2. ASSUME NEW b \in Bases, LoadNext(b) PROVE UnregisterInv'
    BY <2>2, SetFacts DEF IndInv, UnregisterInv, TypeOK, AxTypeOK, OneOwner,
       Mutex, RequestInv, Current, Critical, CriticalUnregister,
       CriticalRegister, LoadNext, Goto, axVars
  <2>3. CASE LoadDone
    <3>1. UNCHANGED <<pc, base, applications, master>>
      BY <2>3 DEF LoadDone, axVars, reqVars
    <3> QED
      BY <3>1 DEF IndInv, UnregisterInv, Current
  <2> QED
    BY <1>5, <2>1, <2>2, <2>3 DEF Boot
<1>6. ASSUME NEW a \in Apps, Rediscover(a) PROVE UnregisterInv'
  <2>1. CASE LoopPark(a) \/ LoopTick(a) \/ LoopEnter(a) \/ LoopFail(a) \/
             LoopClear(a) \/ LoopFill(a)
    <3>1. UNCHANGED <<pc, base, applications, master>>
      BY <2>1 DEF LoopPark, LoopTick, LoopEnter, LoopFail, LoopClear,
         LoopFill, LoopStep, axVars, reqVars
    <3> QED
      BY <3>1 DEF IndInv, UnregisterInv, Current
  <2> QED
    BY <1>6, <2>1 DEF Rediscover, LoopDiscovery
<1>7. CASE Crash
  BY <1>7, UnregisterInvDie DEF Crash
<1>8. CASE UNCHANGED vars
  BY <1>8 DEF IndInv, UnregisterInv, TypeOK, AxTypeOK, OneOwner, Mutex,
     RequestInv, Current, vars, dbVars, axVars, procVars, reqVars, appVars
<1> QED
  BY <1>1, <1>2, <1>3, <1>4, <1>5, <1>6, <1>7, <1>8 DEF Next, Thread, Idle

-----------------------------------------------------------------------------
(* The row of a save is there, as it was asked for, until the save ends.   *)

(* The row of a PUT is one.                                                *)
LEMMA RowFacts ==
    ASSUME NEW t \in Handlers, form[t] \in Form
    PROVE  RowOf(t) \in AppRow /\ RowOf(t) # None
BY DEF RowOf, Form, AppRow

LEMMA SaveInvHasRow ==
    ASSUME IndInv, NEW h \in Handlers, pc[h] \in {"clearOids", "insertOids"}
    PROVE  /\ base[h] \in Bases /\ HasRow(base[h])
           /\ dbApps[base[h]] = RowOf(h)
<1>1. op[h] = "PUT" /\ InFlight(h)
  BY DEF IndInv, RequestInv, Saving, CriticalSave, InFlight
<1>2. base[h] \in Bases /\ form[h] \in Form
  BY <1>1 DEF IndInv, RequestInv
<1> QED
  BY <1>2, RowFacts DEF IndInv, SaveInv, HasRow

(* No step disturbs a save but its own.                                    *)
LEMMA SaveInvFrame ==
    ASSUME IndInv,
           \A h \in Handlers : pc'[h] \in {"clearOids", "insertOids"} =>
              /\ pc[h] \in {"clearOids", "insertOids"}
              /\ base'[h] = base[h] /\ form'[h] = form[h]
              /\ dbApps'[base[h]] = dbApps[base[h]]
    PROVE  SaveInv'
BY DEF IndInv, SaveInv, RowOf

LEMMA SaveInvDie ==
    ASSUME IndInv, Die PROVE SaveInv'
<1>1. \A h \in Handlers : pc'[h] \in {"ready", "done"}
  BY SetFacts DEF Die
<1> QED
  BY <1>1, SaveInvFrame

(* saveApplication moves its own goroutine only, unless the process dies.  *)
LEMMA SaveMovesOne ==
    ASSUME IndInv, NEW t \in Handlers, SaveApplication(t), ~MapRace(t)
    PROVE  \A h \in Handlers : h # t => pc'[h] = pc[h] /\ reply'[h] = reply[h]
<1>1. t # Main /\ pc \in [Threads -> Critical \cup Unlocked]
      /\ reply \in [Handlers -> Replies]
  BY SaveFacts DEF IndInv, TypeOK
<1>2. CASE UNCHANGED <<pc, reply>>
  BY <1>2
<1>3. CASE \E place : Goto(t, place) /\ UNCHANGED reply
  BY <1>1, <1>3, SetFacts DEF Goto
<1>4. CASE \E status : Finish(t, status)
  BY <1>1, <1>4, SetFacts DEF Finish, Goto
<1>5. Save(t) => \/ \E place : Goto(t, place) /\ UNCHANGED reply
                 \/ \E status : Finish(t, status)
  BY DEF Save, PanicOnNilDb, Move
<1>6. InsertApp(t) \/ ClearOids(t) =>
        \/ \E place : Goto(t, place) /\ UNCHANGED reply
        \/ \E status : Finish(t, status)
  BY DEF InsertApp, ClearOids, SaveFails, Move
<1>7. InsertOid(t) \/ SaveDone(t) =>
        UNCHANGED <<pc, reply>> \/ \E status : Finish(t, status)
  BY DEF InsertOid, SaveDone, SaveFails
<1> QED
  BY <1>2, <1>3, <1>4, <1>5, <1>6, <1>7 DEF SaveApplication

LEMMA SaveInvStep ==
    ASSUME IndInv, [Next]_vars PROVE SaveInv'
<1>1. ASSUME NEW t \in Threads, Unregister(t) PROVE SaveInv'
  <2>1. base' = base /\ form' = form
    BY <1>1 DEF Unregister, UnregisterEnter, Stop, UnregisterSession,
       CloseSession, CloseClient, DeleteApp, DeleteOids, reqVars, appVars
  <2>2. \A h \in Handlers : pc'[h] \in {"clearOids", "insertOids"} =>
           pc'[h] = pc[h]
    BY <1>1, SetFacts DEF Unregister, UnregisterEnter, Stop,
       UnregisterSession, CloseSession, CloseClient, DeleteApp, DeleteOids,
       Move, Goto, GiveUp, UnregisterReturns, Finish, PanicOnNilDb, IndInv,
       TypeOK
  <2>3. CASE DeleteApp(t)
    <3>1. pc[t] = "deleteApp"
      BY <2>3 DEF DeleteApp
    <3>2. m = t
      BY <3>1 DEF IndInv, Mutex, Critical, CriticalUnregister
    <3>3. \A h \in Handlers : pc[h] \notin {"clearOids", "insertOids"}
      BY <3>1, <3>2, SetFacts DEF IndInv, Mutex, Critical, CriticalSave
    <3> QED
      BY <2>2, <3>3, SaveInvFrame
  <2>4. CASE ~DeleteApp(t)
    <3>1. dbApps' = dbApps
      BY <1>1, <2>4 DEF Unregister, UnregisterEnter, Stop,
         UnregisterSession, CloseSession, CloseClient, DeleteOids,
         DeleteOidRows, dbVars
    <3> QED
      BY <2>1, <2>2, <3>1, SaveInvFrame
  <2> QED
    BY <2>3, <2>4
<1>2. ASSUME NEW t \in Threads, AppRegister(t) PROVE SaveInv'
  <2>1. base' = base /\ form' = form /\ dbApps' = dbApps
    BY <1>2 DEF AppRegister, Lookup, Create, OpenClient, OpenSession,
       RegisterSession, Discover, dbVars, reqVars, appVars
  <2>2. \A h \in Handlers : pc'[h] \in {"clearOids", "insertOids"} =>
           pc'[h] = pc[h]
    BY <1>2, SetFacts DEF AppRegister, Lookup, Create, OpenClient,
       OpenSession, RegisterSession, Discover, Move, Goto, RegisterFails,
       Registered, Finish, IndInv, TypeOK
  <2> QED
    BY <2>1, <2>2, SaveInvFrame
<1>3. ASSUME NEW t \in Handlers, SaveApplication(t) PROVE SaveInv'
  <2>1. t \in Threads /\ t # Main /\ base[t] \in Bases
    BY <1>3, SaveFacts
  <2>2. CASE InsertApp(t)
    <3>1. base' = base /\ form' = form
      BY <2>2 DEF InsertApp, reqVars, appVars
    <3>2. m = t
      BY <2>1, <2>2 DEF InsertApp, SaveFails, Move, IndInv, Mutex, Critical,
         CriticalSave
    <3>3. \A h \in Handlers : h # t =>
             pc'[h] = pc[h] /\ pc[h] \notin {"clearOids", "insertOids"}
      BY <2>1, <2>2, <3>2, SetFacts DEF InsertApp, SaveFails, Finish, Goto,
         Move, IndInv, TypeOK, Mutex, Critical, CriticalSave
    <3>4. \/ pc'[t] = "done"
          \/ dbApps'[base[t]] = RowOf(t)
      BY <2>1, <2>2 DEF InsertApp, SaveFails, InsertOrReplaceApp, Finish,
         Goto, IndInv, TypeOK, DbTypeOK
    <3>5. RowOf(t)' = RowOf(t)
      BY <3>1 DEF RowOf
    <3> QED
      BY <3>1, <3>3, <3>4, <3>5 DEF SaveInv
  <2>3. CASE MapRace(t)
    BY <2>3, SaveInvDie DEF MapRace
  <2>4. CASE ~InsertApp(t) /\ ~MapRace(t)
    <3>1. base' = base /\ form' = form /\ dbApps' = dbApps
      BY <1>3, <2>4 DEF SaveApplication, Save, ClearOids, InsertOid,
         SaveDone, PanicOnNilDb, SaveFails, DeleteOidRows, InsertOidRow,
         dbVars, reqVars, appVars
    <3>2. \A h \in Handlers : pc'[h] \in {"clearOids", "insertOids"} =>
             pc[h] \in {"clearOids", "insertOids"}
      <4>1. \A h \in Handlers : h # t => pc'[h] = pc[h]
        BY <1>3, <2>4, SaveMovesOne
      <4>2. \/ pc[t] \in {"clearOids", "insertOids"}
            \/ pc'[t] \in {"done", "insertApp"}
        BY <1>3, <2>1, <2>4 DEF SaveApplication, Save, ClearOids, InsertOid,
           SaveDone, PanicOnNilDb, Move, Goto, Finish, IndInv, TypeOK
      <4> QED
        BY <4>1, <4>2
    <3> QED
      BY <3>1, <3>2, SaveInvFrame
  <2> QED
    BY <2>2, <2>3, <2>4
<1>4. ASSUME NEW t \in Handlers, Request(t) PROVE SaveInv'
  <2>1. \A h \in Handlers :
           /\ h # t => base'[h] = base[h] /\ form'[h] = form[h]
                         /\ pc'[h] = pc[h]
           /\ pc'[t] \in {"lookup", "unreg", "done"}
    BY <1>4, SetFacts DEF Request, Put, Delete, BadRequest, Move, Goto,
       Finish, reqVars, appVars, IndInv, TypeOK
  <2>2. dbApps' = dbApps
    BY <1>4 DEF Request, Put, Delete, BadRequest, dbVars
  <2> QED
    BY <2>1, <2>2, SaveInvFrame
<1>5. CASE Boot
  <2>1. \A h \in Handlers :
           base'[h] = base[h] /\ form'[h] = form[h] /\ pc'[h] = pc[h]
    BY <1>5, SetFacts DEF Boot, Start, LoadNext, LoadDone, Goto, reqVars,
       appVars, IndInv, TypeOK
  <2>2. dbApps' = dbApps
    BY <1>5 DEF Boot, Start, LoadNext, LoadDone, dbVars
  <2> QED
    BY <2>1, <2>2, SaveInvFrame
<1>6. CASE (\E a \in Apps : Rediscover(a)) \/ UNCHANGED vars
  <2>1. UNCHANGED <<pc, base, form, dbApps>>
    BY <1>6 DEF Rediscover, LoopDiscovery, LoopPark, LoopTick, LoopEnter,
       LoopFail, LoopClear, LoopFill, LoopStep, vars, dbVars, reqVars, appVars
  <2> QED
    BY <2>1, SaveInvFrame
<1>7. CASE Crash
  BY <1>7, SaveInvDie DEF Crash
<1> QED
  BY <1>1, <1>2, <1>3, <1>4, <1>5, <1>6, <1>7 DEF Next, Thread, Idle

-----------------------------------------------------------------------------
(* What the master has registered is in the map.                           *)
LEMMA OneOwnerDie ==
    ASSUME IndInv, Die PROVE OneOwner'
BY SetFacts DEF IndInv, OneOwner, TypeOK, AxTypeOK, Current, App, Die,
   AxDisconnectAll

LEMMA OneOwnerStep ==
    ASSUME IndInv, [Next]_vars PROVE OneOwner'
<1>1. ASSUME NEW t \in Threads, Unregister(t) PROVE OneOwner'
  <2>1. t \in Handlers /\ t # Main /\ base[t] \in Bases
        /\ op[t] \in {"PUT", "DELETE"}
    BY <1>1, UnregisterFacts
  <2>2. CASE UnregisterEnter(t) \/ Stop(t) \/ CloseSession(t) \/
             DeleteApp(t) \/ DeleteOids(t)
    <3>1. UNCHANGED <<master, applications>>
      BY <2>2 DEF UnregisterEnter, Stop, CloseSession, DeleteApp, DeleteOids,
         GiveUp, AxCloseSession, axVars
    <3> QED
      BY <3>1 DEF IndInv, OneOwner
  <2>3. CASE UnregisterSession(t)
    BY <2>3, <2>1, SetFacts DEF IndInv, OneOwner, TypeOK, AxTypeOK, Current,
       App, UnregisterSession, Move, Goto, Unlock, UnregisterReturns, GiveUp,
       Finish, AxUnregister, axVars
  <2>4. CASE CloseClient(t)
    BY <2>4, <2>1, SetFacts DEF IndInv, OneOwner, TypeOK, AxTypeOK, Current,
       App, CloseClient, Move, Goto, Unlock, UnregisterReturns, GiveUp,
       Finish, AxCloseClient, axVars, UnregisterInv
  <2> QED
    BY <1>1, <2>2, <2>3, <2>4 DEF Unregister
<1>2. ASSUME NEW t \in Threads, AppRegister(t) PROVE OneOwner'
  <2>1. /\ base[t] \in Bases /\ App(t) \in Apps /\ form[App(t)] \in Form
        /\ t # Main => t \in Handlers /\ op[t] = "PUT"
        /\ InFlight(t)
    BY <1>2, AppRegisterFacts
  <2>2. CASE Lookup(t) \/ Create(t) \/ OpenClient(t) \/ OpenSession(t) \/
             Discover(t)
    <3>1. UNCHANGED <<master, applications>>
      BY <2>2 DEF Lookup, Create, OpenClient, OpenSession, Discover,
         RegisterFails, AxOpenClient, AxOpenSession, axVars
    <3> QED
      BY <3>1 DEF IndInv, OneOwner
  <2>3. CASE RegisterSession(t)
    BY <2>3, <2>1, SetFacts DEF IndInv, OneOwner, TypeOK, AxTypeOK, Current,
       App, RegisterSession, Goto, Unlock, Finish, RegisterFails, Registered,
       MayRegister, AxRegister, axVars
  <2> QED
    BY <1>2, <2>2, <2>3 DEF AppRegister
<1>3. ASSUME NEW t \in Handlers, SaveApplication(t) PROVE OneOwner'
  <2>1. /\ t \in Threads /\ t # Main /\ t \in Apps
        /\ base[t] \in Bases /\ op[t] = "PUT" /\ form[t] \in Form
    BY <1>3, SaveFacts
  <2>2. CASE Save(t) \/ InsertApp(t) \/ ClearOids(t) \/ InsertOid(t) \/
             SaveDone(t)
    <3>1. UNCHANGED <<master, applications>>
      BY <2>2 DEF Save, InsertApp, ClearOids, InsertOid, SaveDone, axVars
    <3> QED
      BY <3>1 DEF IndInv, OneOwner
  <2>3. CASE MapRace(t)
    BY <2>3, OneOwnerDie DEF MapRace
  <2> QED
    BY <1>3, <2>2, <2>3 DEF SaveApplication
<1>4. ASSUME NEW h \in Handlers, Request(h) PROVE OneOwner'
  <2>1. CASE Put(h) \/ Delete(h) \/ BadRequest(h)
    <3>1. UNCHANGED <<master, applications>>
      BY <2>1 DEF Put, Delete, BadRequest, axVars
    <3> QED
      BY <3>1 DEF IndInv, OneOwner
  <2> QED
    BY <1>4, <2>1 DEF Request
<1>5. CASE Boot
  <2>1. CASE Start
    <3>1. UNCHANGED <<master, applications>>
      BY <2>1 DEF Start, axVars
    <3> QED
      BY <3>1 DEF IndInv, OneOwner
  <2>2. ASSUME NEW b \in Bases, LoadNext(b) PROVE OneOwner'
    BY <2>2, SetFacts DEF IndInv, OneOwner, TypeOK, AxTypeOK, Current, App,
       LoadNext, Goto, axVars
  <2>3. CASE LoadDone
    <3>1. UNCHANGED <<master, applications>>
      BY <2>3 DEF LoadDone, axVars
    <3> QED
      BY <3>1 DEF IndInv, OneOwner
  <2> QED
    BY <1>5, <2>1, <2>2, <2>3 DEF Boot
<1>6. ASSUME NEW a \in Apps, Rediscover(a) PROVE OneOwner'
  <2>1. CASE LoopPark(a) \/ LoopTick(a) \/ LoopEnter(a) \/ LoopFail(a) \/
             LoopClear(a) \/ LoopFill(a)
    <3>1. UNCHANGED <<master, applications>>
      BY <2>1 DEF LoopPark, LoopTick, LoopEnter, LoopFail, LoopClear,
         LoopFill, LoopStep, axVars
    <3> QED
      BY <3>1 DEF IndInv, OneOwner
  <2> QED
    BY <1>6, <2>1 DEF Rediscover, LoopDiscovery
<1>7. CASE Crash
  BY <1>7, OneOwnerDie DEF Crash
<1>8. CASE UNCHANGED vars
  BY <1>8 DEF IndInv, OneOwner, TypeOK, AxTypeOK, vars, dbVars, axVars,
     procVars, reqVars, appVars
<1> QED
  BY <1>1, <1>2, <1>3, <1>4, <1>5, <1>6, <1>7, <1>8 DEF Next, Thread, Idle

-----------------------------------------------------------------------------
(* What Initialize restores is what it read.                               *)

(* While Initialize restores an Application no handler runs.               *)
LEMMA RestoringAlone ==
    ASSUME IndInv, pc[Main] # "ready"
    PROVE  mode = "loading" /\ \A h \in Handlers : ~InFlight(h)
BY DEF IndInv, LoadInv

LEMMA RestoredRow ==
    ASSUME IndInv, [Next]_vars
    PROVE  (pc[Main] # "ready" => dbApps[base[Main]] = RowOf(base[Main]))'
<1> DEFINE Row == pc[Main] # "ready" => dbApps[base[Main]] = RowOf(base[Main])
<1>1. ASSUME NEW t \in Threads, Unregister(t) PROVE Row'
  <2>1. t \in Handlers /\ t # Main
    BY <1>1, UnregisterFacts
  <2>2. InFlight(t)
    BY <1>1 DEF Unregister, UnregisterEnter, Stop, UnregisterSession,
       CloseSession, CloseClient, DeleteApp, DeleteOids, Move, InFlight
  <2>3. pc[Main] = "ready"
    BY <2>1, <2>2, RestoringAlone
  <2>4. pc'[Main] = pc[Main]
    BY <1>1, <2>1, SetFacts DEF Unregister, UnregisterEnter, Stop,
       UnregisterSession, CloseSession, CloseClient, DeleteApp, DeleteOids,
       Move, Goto, GiveUp, UnregisterReturns, Finish, PanicOnNilDb, IndInv,
       TypeOK
  <2> QED
    BY <2>3, <2>4
<1>2. ASSUME NEW t \in Threads, AppRegister(t) PROVE Row'
  <2>1. base' = base /\ form' = form /\ dbApps' = dbApps
    BY <1>2 DEF AppRegister, Lookup, Create, OpenClient, OpenSession,
       RegisterSession, Discover, dbVars, reqVars, appVars
  <2>2. pc'[Main] # "ready" => pc[Main] # "ready"
    <3>1. InFlight(t) /\ t \in Threads
      BY <1>2, AppRegisterFacts
    <3>2. t # Main => pc'[Main] = pc[Main]
      BY <1>2, SetFacts DEF AppRegister, Lookup, Create, OpenClient,
         OpenSession, RegisterSession, Discover, Move, Goto, RegisterFails,
         Registered, Finish, IndInv, TypeOK
    <3> QED
      BY <3>1, <3>2 DEF InFlight
  <2> QED
    BY <2>1, <2>2 DEF IndInv, RestoreInv, RowOf
<1>3. ASSUME NEW t \in Handlers, SaveApplication(t) PROVE Row'
  <2>1. InFlight(t)
    BY <1>3 DEF SaveApplication, Save, InsertApp, ClearOids, MapRace,
       InsertOid, SaveDone, Move, SaveFails, InFlight
  <2>2. pc[Main] = "ready"
    BY <2>1, RestoringAlone
  <2>3. pc'[Main] = "ready"
    BY <1>3, <2>2, SetFacts DEF SaveApplication, Save, InsertApp, ClearOids,
       MapRace, InsertOid, SaveDone, Move, Goto, SaveFails, Finish, Die,
       PanicOnNilDb, IndInv, TypeOK
  <2> QED
    BY <2>3
<1>4. ASSUME NEW h \in Handlers, Request(h) PROVE Row'
  <2>1. pc[Main] = "ready"
    BY <1>4 DEF Request, Put, Delete, BadRequest, IndInv, LoadInv
  <2>2. pc'[Main] = "ready"
    BY <1>4, <2>1, SetFacts DEF Request, Put, Delete, BadRequest, Move, Goto,
       Finish, IndInv, TypeOK
  <2> QED
    BY <2>2
<1>5. CASE Start \/ LoadDone
  BY <1>5 DEF Start, LoadDone, IndInv, LoadInv
<1>6. ASSUME NEW b \in Bases, LoadNext(b) PROVE Row'
  <2>1. dbApps[b] \in AppRow
    BY <1>6 DEF LoadNext, IndInv, LoadInv, HasRow, TypeOK, DbTypeOK
  <2>2. base'[Main] = b /\ dbApps' = dbApps
    BY <1>6, SetFacts DEF LoadNext, IndInv, TypeOK, dbVars
  <2>3. RowOf(b)' = [name |-> dbApps[b].name, disc |-> dbApps[b].disc,
                     redisc |-> dbApps[b].redisc]
    BY <1>6, SetFacts DEF LoadNext, RowOf, IndInv, TypeOK
  <2> QED
    BY <2>1, <2>2, <2>3 DEF AppRow
<1>7. CASE (\E a \in Apps : Rediscover(a)) \/ UNCHANGED vars
  <2>1. UNCHANGED <<pc, base, form, dbApps>>
    BY <1>7 DEF Rediscover, LoopDiscovery, LoopPark, LoopTick, LoopEnter,
       LoopFail, LoopClear, LoopFill, LoopStep, vars, dbVars, reqVars, appVars
  <2> QED
    BY <2>1 DEF IndInv, RestoreInv, RowOf
<1>8. CASE Crash
  BY <1>8, SetFacts DEF Crash, Die
<1> QED
  BY <1>1, <1>2, <1>3, <1>4, <1>5, <1>6, <1>7, <1>8
     DEF Next, Thread, Boot, Idle

(* Only RegisterSession puts an Application into the map.                  *)
LEMMA MapGrows ==
    ASSUME IndInv, [Next]_vars, NEW b \in Bases,
           applications'[b] # None, applications'[b] # applications[b]
    PROVE  \E t \in Threads : /\ RegisterSession(t) /\ AppRegister(t)
                              /\ base[t] = b /\ applications'[b] = App(t)
<1>0. applications \in [Bases -> Apps \cup {None}]
  BY DEF IndInv, TypeOK
<1>1. ~Die
  BY DEF Die
<1>2. ASSUME NEW t \in Threads, Unregister(t) PROVE FALSE
  <2>1. base[t] \in Bases
    BY <1>2, UnregisterFacts
  <2> QED
    BY <1>0, <1>2, <2>1 DEF Unregister, UnregisterEnter, Stop,
       UnregisterSession, CloseSession, CloseClient, DeleteApp, DeleteOids,
       GiveUp
<1>3. ASSUME NEW t \in Threads, AppRegister(t)
      PROVE  RegisterSession(t) /\ base[t] = b /\ applications'[b] = App(t)
  <2>1. RegisterSession(t) /\ base[t] \in Bases
    BY <1>3, AppRegisterFacts DEF AppRegister, Lookup, Create, OpenClient,
       OpenSession, Discover, RegisterFails
  <2> QED
    BY <1>0, <2>1 DEF RegisterSession, RegisterFails
<1>4. ASSUME NEW t \in Handlers, SaveApplication(t) PROVE FALSE
  BY <1>1, <1>4 DEF SaveApplication, Save, InsertApp, ClearOids, MapRace,
     InsertOid, SaveDone
<1>5. ASSUME NEW t \in Handlers, Request(t) PROVE FALSE
  BY <1>5 DEF Request, Put, Delete, BadRequest
<1>6. ~Boot
  BY DEF Boot, Start, LoadNext, LoadDone
<1>7. ~(\E a \in Apps : Rediscover(a)) /\ ~UNCHANGED vars
  BY DEF Rediscover, LoopDiscovery, LoopPark, LoopTick, LoopEnter, LoopFail,
     LoopClear, LoopFill, LoopStep, vars
<1>8. \/ \E t \in Threads : Unregister(t) \/ AppRegister(t)
      \/ \E t \in Handlers : SaveApplication(t) \/ Request(t)
      \/ Boot
      \/ (\E a \in Apps : Rediscover(a)) \/ UNCHANGED vars
  BY <1>1 DEF Next, Thread, Idle, Crash
<1> QED
  BY <1>2, <1>3, <1>4, <1>5, <1>6, <1>7, <1>8

LEMMA RestoreInvStep ==
    ASSUME IndInv, [Next]_vars PROVE RestoreInv'
<1> SUFFICES ASSUME NEW b \in Bases, applications'[b] \in Bases
             PROVE  applications'[b] = b
  BY RestoredRow DEF RestoreInv
<1>1. CASE applications'[b] = applications[b]
  BY <1>1 DEF IndInv, RestoreInv
<1>2. CASE applications'[b] # applications[b]
  <2>1. PICK t \in Threads : base[t] = b /\ applications'[b] = App(t)
    BY <1>2, MapGrows
  <2> QED
    BY <2>1, SetFacts DEF App
<1> QED
  BY <1>1, <1>2

-----------------------------------------------------------------------------
(* A PUT that has registered keeps what it asked for.                      *)

Late == {"clearOids", "insertOids", "done"}

(* Nothing but the death of the process changes the request of a PUT that  *)
(* has registered, nor makes its session one that never was registered.    *)
LEMMA LateStays ==
    ASSUME IndInv, [Next]_vars, ~Die, NEW h \in Handlers,
           pc[h] \in AfterMap \cup {"done"}, WasRegistered(h)
    PROVE  /\ op'[h] = op[h] /\ base'[h] = base[h] /\ form'[h] = form[h]
           /\ WasRegistered(h)'
           /\ pc[h] \in Late => pc'[h] \in Late
<1> USE DEF Late
<1>0. /\ h # Main /\ h \in Threads /\ h \in Apps /\ h \notin Bases
      /\ pc[h] \in {"discover", "save", "insertApp", "clearOids",
                    "insertOids", "done"}
  BY SetFacts DEF AfterMap, Saving, CriticalSave
<1>1. ASSUME NEW t \in Threads, Unregister(t)
      PROVE  /\ op' = op /\ base' = base /\ form' = form
             /\ WasRegistered(h)' /\ pc'[h] = pc[h]
  <2>1. op' = op /\ base' = base /\ form' = form
    BY <1>1 DEF Unregister, UnregisterEnter, Stop, UnregisterSession,
       CloseSession, CloseClient, DeleteApp, DeleteOids, reqVars, appVars
  <2>2. pc[t] \notin {"discover", "save", "insertApp", "clearOids",
                      "insertOids", "done"}
    BY <1>1 DEF Unregister, UnregisterEnter, Stop, UnregisterSession,
       CloseSession, CloseClient, DeleteApp, DeleteOids, Move
  <2>3. pc'[h] = pc[h]
    BY <1>0, <1>1, <2>2 DEF Unregister, UnregisterEnter, Stop,
       UnregisterSession, CloseSession, CloseClient, DeleteApp, DeleteOids,
       Move, Goto, GiveUp, UnregisterReturns, Finish, PanicOnNilDb, IndInv,
       TypeOK
  <2>4. \/ conn' = conn
        \/ \E s \in {"unregistered", "sessionClosed", "closed"} :
              conn' = [conn EXCEPT ![Current(t)] = s]
    BY <1>1 DEF Unregister, UnregisterEnter, Stop, UnregisterSession,
       CloseSession, CloseClient, DeleteApp, DeleteOids, GiveUp,
       AxUnregister, AxCloseSession, AxCloseClient, SetConn, axVars
  <2>5. WasRegistered(h)'
    BY <1>0, <2>4 DEF WasRegistered, IndInv, TypeOK, AxTypeOK
  <2> QED
    BY <2>1, <2>3, <2>5
<1>2. ASSUME NEW t \in Threads, AppRegister(t)
      PROVE  /\ op' = op /\ base' = base /\ form' = form
             /\ WasRegistered(h)'
             /\ pc[h] # "discover" => pc'[h] = pc[h]
  <2>1. op' = op /\ base' = base /\ form' = form
    BY <1>2 DEF AppRegister, Lookup, Create, OpenClient, OpenSession,
       RegisterSession, Discover, reqVars, appVars
  <2>2. pc[t] \notin {"save", "insertApp", "clearOids", "insertOids", "done"}
    BY <1>2 DEF AppRegister, Lookup, Create, OpenClient, OpenSession,
       RegisterSession, Discover, Move
  <2>3. t # h => pc'[h] = pc[h]
    BY <1>0, <1>2 DEF AppRegister, Lookup, Create, OpenClient,
       OpenSession, RegisterSession, Discover, Move, Goto, RegisterFails,
       Registered, Finish, IndInv, TypeOK
  <2>4. \/ conn' = conn
        \/ /\ pc[t] # "discover"
           /\ \E s : conn' = [conn EXCEPT ![App(t)] = s]
    BY <1>2 DEF AppRegister, Lookup, Create, OpenClient, OpenSession,
       RegisterSession, RegisterFails, Discover, AxOpenClient, AxOpenSession,
       AxRegister, SetConn, Move, axVars
  <2>5. pc[t] # "discover" => App(t) # h
    BY <1>0, <1>2, <2>2, AppRegisterFacts DEF App
  <2>6. WasRegistered(h)'
    BY <1>0, <2>4, <2>5 DEF WasRegistered, IndInv, TypeOK, AxTypeOK
  <2> QED
    BY <1>0, <2>1, <2>2, <2>3, <2>6
<1>3. ASSUME NEW t \in Handlers, SaveApplication(t)
      PROVE  /\ op' = op /\ base' = base /\ form' = form
             /\ WasRegistered(h)'
             /\ pc[h] \in Late => pc'[h] \in Late
  <2>1. ~MapRace(t)
    BY DEF MapRace
  <2>2. op' = op /\ base' = base /\ form' = form /\ conn' = conn
    BY <1>3, <2>1 DEF SaveApplication, Save, InsertApp, ClearOids, InsertOid,
       SaveDone, reqVars, appVars, axVars
  <2>3. h # t => pc'[h] = pc[h]
    BY <1>3, <2>1, SaveMovesOne
  <2>4. pc[t] \in Late => pc'[t] \in Late
    BY <1>3, <2>1, SetFacts DEF SaveApplication, Save, InsertApp, ClearOids,
       InsertOid, SaveDone, SaveFails, Move, Goto, Finish, IndInv, TypeOK
  <2> QED
    BY <2>2, <2>3, <2>4 DEF WasRegistered
<1>4. ASSUME NEW t \in Handlers, Request(t)
      PROVE  /\ op'[h] = op[h] /\ base'[h] = base[h] /\ form'[h] = form[h]
             /\ WasRegistered(h)' /\ pc'[h] = pc[h]
  <2>1. t # h /\ conn' = conn
    BY <1>0, <1>4 DEF Request, Put, Delete, BadRequest, Move, axVars
  <2> QED
    BY <1>0, <1>4, <2>1 DEF Request, Put, Delete, BadRequest, Move, Goto,
       Finish, reqVars, appVars, WasRegistered, IndInv, TypeOK
<1>5. CASE Boot
  BY <1>0, <1>5, SetFacts DEF Boot, Start, LoadNext, LoadDone, Goto, reqVars,
     appVars, axVars, WasRegistered, IndInv, TypeOK
<1>6. CASE (\E a \in Apps : Rediscover(a)) \/ UNCHANGED vars
  BY <1>6 DEF Rediscover, LoopDiscovery, LoopPark, LoopTick, LoopEnter,
     LoopFail, LoopClear, LoopFill, LoopStep, vars, dbVars, axVars, reqVars,
     appVars, WasRegistered
<1>7. \/ \E t \in Threads : Unregister(t) \/ AppRegister(t)
      \/ \E t \in Handlers : SaveApplication(t) \/ Request(t)
      \/ Boot
      \/ (\E a \in Apps : Rediscover(a)) \/ UNCHANGED vars
  BY DEF Next, Thread, Idle, Crash
<1> QED
  BY <1>0, <1>1, <1>2, <1>3, <1>4, <1>5, <1>6, <1>7

(* It is RegisterSession that takes a PUT to the places after it.          *)
LEMMA EntersAfterMap ==
    ASSUME IndInv, [Next]_vars, ~Die, NEW h \in Handlers,
           pc[h] \notin AfterMap, pc'[h] \in AfterMap
    PROVE  RegisterSession(h)
<1> USE DEF AfterMap, Saving, CriticalSave
<1>0. /\ h # Main /\ h \in Threads /\ h \in Apps
      /\ pc \in [Threads -> Critical \cup Unlocked]
  BY SetFacts DEF IndInv, TypeOK
<1>1. ASSUME NEW t \in Threads, Unregister(t) PROVE FALSE
  <2>1. pc'[h] \in {pc[h], "unregister", "closeSession", "closeClient",
                    "deleteApp", "deleteOids", "stop", "create", "done",
                    "ready"}
    BY <1>0, <1>1 DEF Unregister, UnregisterEnter, Stop, UnregisterSession,
       CloseSession, CloseClient, DeleteApp, DeleteOids, Move, Goto, GiveUp,
       UnregisterReturns, Finish, PanicOnNilDb
  <2> QED
    BY <2>1
<1>2. ASSUME NEW t \in Threads, AppRegister(t), ~RegisterSession(h)
      PROVE  FALSE
  <2>1. CASE t = h
    BY <1>0, <1>2, <2>1 DEF AppRegister, Lookup, Create, OpenClient,
       OpenSession, Discover, Move, Goto, RegisterFails, Finish
  <2>2. CASE t # h
    BY <1>0, <1>2, <2>2 DEF AppRegister, Lookup, Create, OpenClient,
       OpenSession, RegisterSession, Discover, Move, Goto, RegisterFails,
       Registered, Finish
  <2> QED
    BY <2>1, <2>2
<1>3. ASSUME NEW t \in Handlers, SaveApplication(t) PROVE FALSE
  <2>1. ~MapRace(t)
    BY DEF MapRace
  <2>2. t = h
    BY <1>3, <2>1, SaveMovesOne
  <2> QED
    BY <1>3, <2>1, <2>2 DEF SaveApplication, Save, InsertApp, ClearOids,
       InsertOid, SaveDone, Move
<1>4. ASSUME NEW t \in Handlers, Request(t) PROVE FALSE
  BY <1>0, <1>4 DEF Request, Put, Delete, BadRequest, Move, Goto, Finish
<1>5. CASE Boot
  BY <1>0, <1>5 DEF Boot, Start, LoadNext, LoadDone, Goto
<1>6. CASE (\E a \in Apps : Rediscover(a)) \/ UNCHANGED vars
  BY <1>6 DEF Rediscover, LoopDiscovery, LoopPark, LoopTick, LoopEnter,
     LoopFail, LoopClear, LoopFill, LoopStep, vars
<1>7. \/ \E t \in Threads : Unregister(t) \/ AppRegister(t)
      \/ \E t \in Handlers : SaveApplication(t) \/ Request(t)
      \/ Boot
      \/ (\E a \in Apps : Rediscover(a)) \/ UNCHANGED vars
  BY DEF Next, Thread, Idle, Crash
<1> QED
  BY <1>1, <1>2, <1>3, <1>4, <1>5, <1>6, <1>7

(* A PUT gets past session.Register only with a registered session.        *)
LEMMA RegisteredInvStep ==
    ASSUME IndInv, [Next]_vars PROVE RegisteredInv'
<1>1. CASE Die
  BY <1>1, SetFacts DEF Die, RegisteredInv, AfterMap, Saving, CriticalSave
<1>2. CASE ~Die
  <2> SUFFICES ASSUME NEW h \in Handlers, pc'[h] \in AfterMap
               PROVE  WasRegistered(h)'
    BY DEF RegisteredInv
  <2>1. CASE pc[h] \in AfterMap
    BY <1>2, <2>1, LateStays DEF IndInv, RegisteredInv
  <2>2. CASE pc[h] \notin AfterMap
    <3>1. RegisterSession(h) /\ h \in Threads /\ h # Main
      BY <1>2, <2>2, EntersAfterMap, SetFacts
    <3>2. pc'[h] # "done"
      BY DEF AfterMap, Saving, CriticalSave
    <3>3. AxRegister(h, base[h])
      BY <3>1, <3>2 DEF RegisterSession, RegisterFails, Finish, Goto, App,
         IndInv, TypeOK
    <3> QED
      BY <3>3, SetFacts DEF AxRegister, SetConn, WasRegistered, IndInv,
         TypeOK, AxTypeOK
  <2> QED
    BY <2>1, <2>2
<1> QED
  BY <1>1, <1>2

(* It is ClearOids that begins the loop over Application.oids.             *)
LEMMA EntersInsertOids ==
    ASSUME IndInv, [Next]_vars, ~Die, NEW h \in Handlers,
           pc[h] # "insertOids", pc'[h] = "insertOids"
    PROVE  ClearOids(h) /\ base[h] \in Bases
<1>1. pc[h] \in AfterMap
  <2>1. CASE RegisterSession(h)
    BY <2>1, SetFacts DEF RegisterSession, RegisterFails, Registered, Finish,
       Goto, IndInv, TypeOK
  <2> QED
    BY <2>1, EntersAfterMap DEF AfterMap, Saving, CriticalSave
<1>2. SaveApplication(h)
  <2>0. /\ h # Main /\ h \in Threads /\ h \in Apps
        /\ pc \in [Threads -> Critical \cup Unlocked]
    BY SetFacts DEF IndInv, TypeOK
  <2>1. ASSUME NEW t \in Threads, Unregister(t) PROVE FALSE
    BY <2>0, <2>1 DEF Unregister, UnregisterEnter, Stop, UnregisterSession,
       CloseSession, CloseClient, DeleteApp, DeleteOids, Move, Goto, GiveUp,
       UnregisterReturns, Finish, PanicOnNilDb
  <2>2. ASSUME NEW t \in Threads, AppRegister(t) PROVE FALSE
    BY <2>0, <2>2 DEF AppRegister, Lookup, Create, OpenClient, OpenSession,
       RegisterSession, Discover, Move, Goto, RegisterFails, Registered,
       Finish
  <2>3. ASSUME NEW t \in Handlers, SaveApplication(t) PROVE t = h
    BY <2>3, SaveMovesOne DEF MapRace
  <2>4. ASSUME NEW t \in Handlers, Request(t) PROVE FALSE
    BY <2>0, <2>4 DEF Request, Put, Delete, BadRequest, Move, Goto, Finish
  <2>5. ~Boot
    BY <2>0 DEF Boot, Start, LoadNext, LoadDone, Goto
  <2>6. ~(\E a \in Apps : Rediscover(a)) /\ ~UNCHANGED vars
    BY DEF Rediscover, LoopDiscovery, LoopPark, LoopTick, LoopEnter,
       LoopFail, LoopClear, LoopFill, LoopStep, vars
  <2>7. \/ \E t \in Threads : Unregister(t) \/ AppRegister(t)
        \/ \E t \in Handlers : SaveApplication(t) \/ Request(t)
        \/ Boot
        \/ (\E a \in Apps : Rediscover(a)) \/ UNCHANGED vars
    BY DEF Next, Thread, Idle, Crash
  <2> QED
    BY <2>1, <2>2, <2>3, <2>4, <2>5, <2>6, <2>7
<1> QED
  BY <1>2, SaveFacts, SetFacts DEF SaveApplication, Save, InsertApp, MapRace,
     InsertOid, SaveDone, SaveFails, PanicOnNilDb, Move, Goto, Finish, IndInv,
     TypeOK

(* What is left of Application.oids to insert completes what is inserted:  *)
(* no other goroutine writes the tables while a save holds m.              *)
LEMMA SavedInvStep ==
    ASSUME IndInv, [Next]_vars PROVE SavedInv'
<1> SUFFICES ASSUME NEW h \in Handlers,
                    pc'[h] = "insertOids", loop'[h] = "off"
             PROVE  (dbOids[base[h]] \cup rows[h] = oids[h])'
  BY DEF SavedInv
<1>0. /\ h # Main /\ h \in Threads /\ h \in Apps /\ h \notin Bases
      /\ pc \in [Threads -> Critical \cup Unlocked]
      /\ loop \in [Apps -> Loops] /\ oids \in [Apps -> SUBSET Oids]
      /\ rows \in [Threads -> SUBSET Oids]
      /\ dbOids \in [Bases -> SUBSET Oids]
  BY SetFacts DEF IndInv, TypeOK, DbTypeOK
<1>1. ~Die
  BY <1>0 DEF Die
<1>2. CASE pc[h] = "insertOids"
  <2>1. m = h /\ op[h] = "PUT" /\ base[h] \in Bases
    BY <1>0, <1>2 DEF IndInv, Mutex, Critical, CriticalSave, RequestInv,
       Saving, InFlight
  <2>2. base'[h] = base[h]
    BY <1>0, <1>1, <1>2, LateStays DEF IndInv, RegisteredInv, AfterMap,
       Saving, CriticalSave
  <2>3. ASSUME UNCHANGED <<rows, dbOids>>, oids'[h] = oids[h],
               loop[h] = "off"
        PROVE  (dbOids[base[h]] \cup rows[h] = oids[h])'
    BY <1>2, <2>2, <2>3 DEF IndInv, SavedInv
  <2>4. ASSUME NEW t \in Threads, Unregister(t)
        PROVE  UNCHANGED <<rows, dbOids>> /\ oids' = oids /\ loop[h] = "off"
    <3>1. ~DeleteOids(t)
      BY <1>0, <1>2, <2>1 DEF DeleteOids, IndInv, Mutex, Critical,
         CriticalUnregister
    <3> QED
      BY <1>0, <2>4, <3>1 DEF Unregister, UnregisterEnter, Stop,
         UnregisterSession, CloseSession, CloseClient, DeleteApp,
         DeleteAppRow, PanicOnNilDb, dbVars, appVars
  <2>5. ASSUME NEW t \in Threads, AppRegister(t)
        PROVE  /\ UNCHANGED <<rows, dbOids>>
               /\ oids'[h] = oids[h] /\ loop[h] = "off"
    <3>1. App(t) # h
      BY <1>0, <1>2, <2>5, AppRegisterFacts DEF App, AppRegister, Lookup,
         Create, OpenClient, OpenSession, RegisterSession, Discover, Move
    <3> QED
      BY <1>0, <2>5, <3>1 DEF AppRegister, Lookup, Create, OpenClient,
         OpenSession, RegisterSession, Discover, dbVars, appVars
  <2>6. ASSUME NEW t \in Handlers, SaveApplication(t)
        PROVE  (dbOids[base[h]] \cup rows[h] = oids[h])'
    <3>1. CASE t = h
      <4>1. InsertOid(h)
        BY <1>0, <1>1, <1>2, <2>6, <3>1 DEF SaveApplication, Save, InsertApp,
           ClearOids, MapRace, SaveDone, Move, Goto, Finish
      <4>2. PICK o \in rows[h] : /\ InsertOidRow(base[h], o)
                                 /\ rows' = [rows EXCEPT ![h] = @ \ {o}]
        BY <1>0, <4>1 DEF InsertOid, SaveFails, Finish, Goto
      <4>3. oids' = oids /\ loop' = loop
        BY <4>1 DEF InsertOid, appVars
      <4>4. dbOids'[base[h]] = dbOids[base[h]] \cup {o}
        BY <1>0, <2>1, <4>2 DEF InsertOidRow
      <4>5. rows'[h] = rows[h] \ {o}
        BY <1>0, <4>2
      <4>6. dbOids[base[h]] \cup rows[h] = oids[h]
        BY <1>2, <4>3 DEF IndInv, SavedInv
      <4> QED
        BY <2>2, <4>2, <4>3, <4>4, <4>5, <4>6
    <3>2. CASE t # h
      <4>1. Save(t) /\ m = None
        BY <1>0, <1>1, <2>1, <2>6, <3>2, SetFacts DEF SaveApplication, Save,
           InsertApp, ClearOids, MapRace, InsertOid, SaveDone, Move, SaveFails,
           IndInv, Mutex, Critical, CriticalSave
      <4> QED
        BY <1>0, <2>1, <4>1
    <3> QED
      BY <3>1, <3>2
  <2>7. ASSUME NEW t \in Handlers, Request(t)
        PROVE  UNCHANGED <<rows, dbOids>> /\ oids' = oids /\ loop[h] = "off"
    BY <2>7 DEF Request, Put, Delete, BadRequest, dbVars, appVars
  <2>8. CASE Boot
    BY <2>3, <2>8 DEF Boot, Start, LoadNext, LoadDone, dbVars, appVars
  <2>9. ASSUME NEW a \in Apps, Rediscover(a)
        PROVE  /\ UNCHANGED <<rows, dbOids>>
               /\ oids'[h] = oids[h] /\ loop[h] = "off"
    BY <1>0, <2>9 DEF Rediscover, LoopDiscovery, LoopPark, LoopTick,
       LoopEnter, LoopFail, LoopClear, LoopFill, LoopStep, dbVars
  <2>10. CASE UNCHANGED vars
    BY <2>3, <2>10 DEF vars, dbVars, appVars
  <2>11. \/ \E t \in Threads : Unregister(t) \/ AppRegister(t)
         \/ \E t \in Handlers : SaveApplication(t) \/ Request(t)
         \/ Boot
         \/ (\E a \in Apps : Rediscover(a)) \/ UNCHANGED vars
    BY <1>1 DEF Next, Thread, Idle, Crash
  <2> QED
    BY <2>3, <2>4, <2>5, <2>6, <2>7, <2>8, <2>9, <2>10, <2>11
<1>3. CASE pc[h] # "insertOids"
  <2>1. ClearOids(h) /\ base[h] \in Bases
    BY <1>0, <1>1, <1>3, EntersInsertOids
  <2>2. /\ DeleteOidRows(base[h]) /\ base' = base
        /\ oids' = oids /\ loop' = loop
        /\ \E seen \in {oids[h]} : rows' = [rows EXCEPT ![h] = seen]
    BY <1>0, <2>1 DEF ClearOids, SaveFails, Finish, Goto, reqVars, appVars
  <2> QED
    BY <1>0, <2>1, <2>2 DEF DeleteOidRows
<1> QED
  BY <1>2, <1>3

-----------------------------------------------------------------------------
(* An accepted Application of the map keeps its rows, or loses them to     *)
(* the late save of a PUT it has replaced.                                 *)

(* Unregister answers 202 to a DELETE only.                                *)
LEMMA UnregisterAnswers ==
    ASSUME IndInv, NEW t \in Threads, Unregister(t)
    PROVE  \A h \in Handlers :
              reply'[h] = "202" => reply[h] = "202" \/ op[h] = "DELETE"
<1>1. \/ reply' = reply
      \/ op[t] = "DELETE" /\ reply' = [reply EXCEPT ![t] = "202"]
      \/ reply' = [reply EXCEPT ![t] = "500"]
  BY UnregisterFacts
     DEF Unregister, UnregisterEnter, Stop, UnregisterSession, CloseSession,
         CloseClient, DeleteApp, DeleteOids, Move, GiveUp, UnregisterReturns,
         Finish, PanicOnNilDb
<1> QED
  BY <1>1, UnregisterFacts DEF IndInv, TypeOK

(* appRegister answers 400 or nothing.                                     *)
LEMMA AppRegisterAnswers ==
    ASSUME IndInv, NEW t \in Threads, AppRegister(t)
    PROVE  \A h \in Handlers : reply'[h] = "202" => reply[h] = "202"
<1>1. reply' = reply \/ reply' = [reply EXCEPT ![t] = "400"]
  BY AppRegisterFacts
     DEF AppRegister, Lookup, Create, OpenClient, OpenSession,
         RegisterSession, Discover, Move, RegisterFails, Registered, Finish
<1> QED
  BY <1>1, AppRegisterFacts DEF IndInv, TypeOK

(* A PUT is answered 202 by the end of its save only.                      *)
LEMMA Acceptances ==
    ASSUME IndInv, [Next]_vars, ~Die, NEW h \in Handlers, op[h] = "PUT",
           reply[h] # "202", reply'[h] = "202"
    PROVE  SaveDone(h)
<1>1. ASSUME NEW t \in Threads, Unregister(t) PROVE FALSE
  BY <1>1, UnregisterAnswers
<1>2. ASSUME NEW t \in Threads, AppRegister(t) PROVE FALSE
  BY <1>2, AppRegisterAnswers
<1>3. ASSUME NEW t \in Handlers, SaveApplication(t) PROVE SaveDone(h)
  <2>1. h = t
    BY <1>3, SaveMovesOne DEF MapRace
  <2> QED
    BY <1>3, <2>1
       DEF SaveApplication, Save, InsertApp, ClearOids, MapRace, InsertOid,
           SaveFails, PanicOnNilDb, Move, Finish, IndInv, TypeOK
<1>4. ASSUME NEW t \in Handlers, Request(t) PROVE FALSE
  BY <1>4, SetFacts DEF Request, Put, Delete, BadRequest, Move, Finish,
     IndInv, TypeOK
<1>5. ~Boot
  BY DEF Boot, Start, LoadNext, LoadDone
<1>6. ~(\E a \in Apps : Rediscover(a)) /\ ~UNCHANGED vars
  BY DEF Rediscover, LoopDiscovery, LoopPark, LoopTick, LoopEnter, LoopFail,
     LoopClear, LoopFill, LoopStep, vars
<1>7. \/ \E t \in Threads : Unregister(t) \/ AppRegister(t)
      \/ \E t \in Handlers : SaveApplication(t) \/ Request(t)
      \/ Boot
      \/ (\E a \in Apps : Rediscover(a)) \/ UNCHANGED vars
  BY DEF Next, Thread, Idle, Crash
<1> QED
  BY <1>1, <1>2, <1>3, <1>4, <1>5, <1>6, <1>7

(* The rows of a base oid in the map are written by saves only, and from   *)
(* then on the row is that of the PUT that saves.                          *)
LEMMA Writes ==
    ASSUME IndInv, [Next]_vars, ~Die, NEW b \in Bases, applications[b] # None
    PROVE  \/ dbApps'[b] = dbApps[b] /\ dbOids'[b] = dbOids[b]
           \/ \E h \in Handlers : /\ op[h] = "PUT" /\ base[h] = b
                                  /\ pc[h] \in CriticalSave
                                  /\ pc'[h] \in Late
                                  /\ dbApps'[b] = RowOf(h)
<1>0. /\ dbApps \in [Bases -> AppRow \cup {None}]
      /\ dbOids \in [Bases -> SUBSET Oids]
      /\ pc \in [Threads -> Critical \cup Unlocked]
  BY DEF IndInv, TypeOK, DbTypeOK
<1>1. ASSUME NEW t \in Threads, Unregister(t)
      PROVE  dbApps'[b] = dbApps[b] /\ dbOids'[b] = dbOids[b]
  <2>1. t \in Handlers /\ base[t] \in Bases
    BY <1>1, UnregisterFacts
  <2>2. CASE DeleteApp(t) \/ DeleteOids(t)
    <3>1. base[t] # b
      BY <2>1, <2>2 DEF DeleteApp, DeleteOids, IndInv, UnregisterInv, Current
    <3> QED
      BY <1>0, <2>1, <2>2, <3>1 DEF DeleteApp, DeleteOids, DeleteAppRow,
         DeleteOidRows, PanicOnNilDb, dbVars
  <2>3. CASE ~DeleteApp(t) /\ ~DeleteOids(t)
    BY <1>1, <2>3 DEF Unregister, UnregisterEnter, Stop, UnregisterSession,
       CloseSession, CloseClient, dbVars
  <2> QED
    BY <2>2, <2>3
<1>2. ASSUME NEW t \in Threads, AppRegister(t)
      PROVE  dbApps' = dbApps /\ dbOids' = dbOids
  BY <1>2 DEF AppRegister, Lookup, Create, OpenClient, OpenSession,
     RegisterSession, Discover, dbVars
<1>3. ASSUME NEW t \in Handlers, SaveApplication(t)
      PROVE  \/ dbApps'[b] = dbApps[b] /\ dbOids'[b] = dbOids[b]
             \/ /\ op[t] = "PUT" /\ base[t] = b /\ pc[t] \in CriticalSave
                /\ pc'[t] \in Late /\ dbApps'[b] = RowOf(t)
  <2>1. t \in Threads /\ t # Main /\ base[t] \in Bases /\ op[t] = "PUT"
    BY <1>3, SaveFacts
  <2>2. CASE InsertApp(t)
    BY <1>0, <2>1, <2>2 DEF InsertApp, InsertOrReplaceApp, SaveFails, Move,
       Goto, dbVars, CriticalSave, Late
  <2>3. CASE ClearOids(t) \/ InsertOid(t)
    <3>1. pc[t] \in {"clearOids", "insertOids"} /\ pc'[t] \in Late
      BY <1>0, <2>1, <2>3 DEF ClearOids, InsertOid, SaveFails, Move, Goto,
         Finish, Late
    <3>2. dbApps[base[t]] = RowOf(t)
      BY <3>1 DEF IndInv, SaveInv
    <3>3. dbApps' = dbApps
      BY <2>3 DEF ClearOids, InsertOid, SaveFails, DeleteOidRows,
         InsertOidRow, dbVars
    <3>4. base[t] # b => dbOids'[b] = dbOids[b]
      BY <1>0, <2>3 DEF ClearOids, InsertOid, SaveFails, DeleteOidRows,
         InsertOidRow, dbVars
    <3> QED
      BY <2>1, <3>1, <3>2, <3>3, <3>4 DEF CriticalSave
  <2>4. CASE Save(t) \/ SaveDone(t)
    BY <2>4 DEF Save, SaveDone, PanicOnNilDb, dbVars
  <2> QED
    BY <1>3, <2>2, <2>3, <2>4 DEF SaveApplication, MapRace
<1>4. CASE \/ \E t \in Handlers : Request(t)
           \/ Boot
           \/ (\E a \in Apps : Rediscover(a)) \/ UNCHANGED vars
  BY <1>4 DEF Request, Put, Delete, BadRequest, Boot, Start, LoadNext,
     LoadDone, Rediscover, LoopDiscovery, LoopPark, LoopTick, LoopEnter,
     LoopFail, LoopClear, LoopFill, LoopStep, vars, dbVars
<1> QED
  BY <1>1, <1>2, <1>3, <1>4 DEF Next, Thread, Idle, Crash

(* Nothing but a rediscovery changes an accepted Application of the map.   *)
LEMMA AcceptedStays ==
    ASSUME IndInv, [Next]_vars, ~Die, NEW b \in Bases, NEW a \in Apps,
           applications[b] = a, Accepted(a)
    PROVE  /\ form'[a] = form[a]
           /\ a \in Handlers /\ loop'[a] = "off" =>
                 loop[a] = "off" /\ oids'[a] = oids[a]
<1>0. /\ form \in [Apps -> Form \cup {None}] /\ loop \in [Apps -> Loops]
      /\ oids \in [Apps -> SUBSET Oids]
  BY DEF IndInv, TypeOK
<1>1. a \in Handlers => pc[a] = "done" /\ a \notin Bases
  BY SetFacts DEF Accepted, IndInv, RequestInv
<1>2. a \notin Handlers => a = b
  BY SetFacts DEF IndInv, RestoreInv, Apps
<1>3. ASSUME NEW t \in Threads, Unregister(t)
      PROVE  /\ form' = form /\ oids' = oids
             /\ loop'[a] = "off" => loop[a] = "off"
  BY <1>0, <1>3 DEF Unregister, UnregisterEnter, Stop, UnregisterSession,
     CloseSession, CloseClient, DeleteApp, DeleteOids, appVars
<1>4. ASSUME NEW t \in Threads, AppRegister(t)
      PROVE  /\ form' = form
             /\ a \in Handlers => oids'[a] = oids[a] /\ loop'[a] = loop[a]
  <2>1. a \in Handlers => App(t) # a
    BY <1>1, <1>4, AppRegisterFacts DEF App, InFlight
  <2> QED
    BY <1>0, <1>4, <2>1 DEF AppRegister, Lookup, Create, OpenClient,
       OpenSession, RegisterSession, Discover, appVars
<1>5. ASSUME NEW t \in Handlers, SaveApplication(t)
      PROVE  UNCHANGED <<form, oids, loop>>
  BY <1>5 DEF SaveApplication, Save, InsertApp, ClearOids, MapRace,
     InsertOid, SaveDone, appVars
<1>6. ASSUME NEW t \in Handlers, Request(t)
      PROVE  form'[a] = form[a] /\ oids' = oids /\ loop' = loop
  <2>1. t # a
    BY <1>1, <1>6 DEF Request, Put, Delete, BadRequest, Move
  <2> QED
    BY <1>0, <1>6, <2>1 DEF Request, Put, Delete, BadRequest, appVars
<1>7. CASE Boot
  <2>1. a \notin todo
    BY <1>1, <1>2, SetFacts DEF IndInv, LoadInv, TypeOK
  <2> QED
    BY <1>0, <1>7, <2>1 DEF Boot, Start, LoadNext, LoadDone, appVars
<1>8. CASE (\E c \in Apps : Rediscover(c)) \/ UNCHANGED vars
  BY <1>0, <1>8 DEF Rediscover, LoopDiscovery, LoopPark, LoopTick, LoopEnter,
     LoopFail, LoopClear, LoopFill, LoopStep, vars, appVars
<1>9. \/ \E t \in Threads : Unregister(t) \/ AppRegister(t)
      \/ \E t \in Handlers : SaveApplication(t) \/ Request(t)
      \/ Boot
      \/ (\E c \in Apps : Rediscover(c)) \/ UNCHANGED vars
  BY DEF Next, Thread, Idle, Crash
<1> QED
  BY <1>3, <1>4, <1>5, <1>6, <1>7, <1>8, <1>9

(* An Application that was accepted before the step keeps its rows, or     *)
(* loses them to the save of another PUT.                                  *)
LEMMA KeepsRows ==
    ASSUME IndInv, [Next]_vars, ~Die, NEW b \in Bases, NEW a \in Apps,
           applications[b] = a, Accepted(a)
    PROVE  (HoldsOwn(a, b) \/ Overwritten(a, b))'
<1>1. applications[b] # None
  BY SetFacts
<1>2. HoldsOwn(a, b) \/ Overwritten(a, b)
  BY <1>1 DEF IndInv, AcceptedIsDurable
<1>3. CASE dbApps'[b] = dbApps[b] /\ dbOids'[b] = dbOids[b] /\ HoldsOwn(a, b)
  BY <1>3, AcceptedStays DEF HoldsOwn, RowOf
<1>4. CASE dbApps'[b] = dbApps[b] /\ Overwritten(a, b)
  <2>1. PICK h \in Handlers \ {a} :
                /\ op[h] = "PUT" /\ base[h] = b
                /\ WasRegistered(h) /\ pc[h] \in Late
                /\ dbApps[b] = RowOf(h)
    BY <1>4 DEF Overwritten, Late
  <2>2. /\ op'[h] = op[h] /\ base'[h] = base[h] /\ form'[h] = form[h]
        /\ WasRegistered(h)' /\ pc'[h] \in Late
    BY <2>1, LateStays DEF Late, AfterMap, Saving, CriticalSave
  <2> QED
    BY <1>4, <2>1, <2>2 DEF Overwritten, Late, RowOf
<1>5. ASSUME NEW h \in Handlers, op[h] = "PUT", base[h] = b,
             pc[h] \in CriticalSave, pc'[h] \in Late, dbApps'[b] = RowOf(h)
      PROVE  Overwritten(a, b)'
  <2>1. h # a
    BY <1>5, SetFacts DEF Accepted, IndInv, RequestInv, CriticalSave
  <2>2. pc[h] \in AfterMap /\ WasRegistered(h)
    BY <1>5 DEF AfterMap, Saving, IndInv, RegisteredInv
  <2>3. /\ op'[h] = op[h] /\ base'[h] = base[h] /\ form'[h] = form[h]
        /\ WasRegistered(h)'
    BY <2>2, LateStays
  <2> QED
    BY <1>5, <2>1, <2>3 DEF Overwritten, Late, RowOf
<1> QED
  BY <1>1, <1>2, <1>3, <1>4, <1>5, Writes

LEMMA AcceptedIsDurableStep ==
    ASSUME IndInv, [Next]_vars PROVE AcceptedIsDurable'
<1>1. CASE Die
  BY <1>1 DEF Die, AcceptedIsDurable
<1>2. CASE ~Die
  <2> DEFINE Durable(a, b) == HoldsOwn(a, b) \/ Overwritten(a, b)
  <2> SUFFICES ASSUME NEW b \in Bases, NEW a, a = applications'[b],
                      a # None, Accepted(a)'
               PROVE  Durable(a, b)'
    BY DEF AcceptedIsDurable
  <2>0. a \in Apps
    BY TypeOKStep DEF TypeOK
  <2>1. CASE a = applications[b] /\ Accepted(a)
    BY <1>2, <2>0, <2>1, KeepsRows
  <2>2. CASE a = applications[b] /\ ~Accepted(a)
    <3>1. /\ a \in Handlers /\ base[a] = b /\ op[a] = "PUT"
          /\ reply[a] # "202" /\ reply'[a] = "202"
      BY <2>0, <2>2, SetFacts DEF Accepted, Apps, IndInv, MapInv
    <3>2. SaveDone(a)
      BY <1>2, <3>1, Acceptances
    <3>3. UNCHANGED <<dbApps, dbOids, form, oids, loop>>
      BY <3>2 DEF SaveDone, dbVars, appVars
    <3>4. dbApps[b] = RowOf(a)
      BY <3>1, <3>2 DEF SaveDone, IndInv, SaveInv
    <3>5. loop[a] = "off" => dbOids[b] = oids[a]
      <4>1. loop[a] = "off" => dbOids[b] \cup rows[a] = oids[a]
        BY <3>1, <3>2 DEF SaveDone, IndInv, SavedInv
      <4> QED
        BY <3>2, <4>1 DEF SaveDone
    <3> QED
      BY <3>3, <3>4, <3>5 DEF HoldsOwn, RowOf
  <2>3. CASE a # applications[b]
    <3>1. PICK t \in Threads : /\ RegisterSession(t) /\ AppRegister(t)
                               /\ base[t] = b /\ a = App(t)
      BY <2>3, MapGrows
    <3>2. UNCHANGED <<dbApps, form>>
      BY <3>1 DEF RegisterSession, dbVars, appVars
    <3>3. CASE t = Main
      <4>1. a = b /\ pc[Main] # "ready"
        BY <3>1, <3>3 DEF App, RegisterSession
      <4>2. dbApps[b] = RowOf(b)
        BY <3>1, <3>3, <4>1 DEF IndInv, RestoreInv
      <4> QED
        BY <3>2, <4>1, <4>2, SetFacts DEF HoldsOwn, RowOf
    <3>4. CASE t # Main
      <4>1. /\ a = t /\ t \in Handlers /\ t \notin Bases
            /\ reply[t] # "202"
        BY <3>1, <3>4, SetFacts DEF App, RegisterSession, IndInv, RequestInv
      <4> QED
        BY <3>1, <4>1, AppRegisterAnswers DEF Accepted
    <3> QED
      BY <3>3, <3>4
  <2> QED
    BY <2>1, <2>2, <2>3
<1> QED
  BY <1>1, <1>2

-----------------------------------------------------------------------------
(* IndInv is inductive.                                                    *)

LEMMA IndInvInit == Init => IndInv
<1> SUFFICES ASSUME Init PROVE IndInv
  OBVIOUS
<1>1. TypeOK
  <2>1. DbTypeOK /\ AxTypeOK
    BY DEF Init, DbInit, AxInit, DbTypeOK, AxTypeOK, ConnStates
  <2>2. /\ mode = "down" /\ crashes \in 0..MaxCrashes
        /\ pc \in [Threads -> Unlocked] /\ op \in [Threads -> Ops]
        /\ todo = {} /\ m = None
    BY DEF Init, Unlocked, Ops
  <2>3. /\ base \in [Threads -> {None}] /\ reply \in [Handlers -> {"none"}]
        /\ rows \in [Threads -> {{}}] /\ applications \in [Bases -> {None}]
        /\ form \in [Apps -> {None}] /\ oids \in [Apps -> {{}}]
        /\ loop \in [Apps -> {"off"}]
    BY DEF Init
  <2> QED
    BY <2>1, <2>2, <2>3 DEF TypeOK, Replies, Loops
<1>2. Mutex
  BY SetFacts DEF Init, Mutex, Critical, CriticalUnregister,
     CriticalRegister, CriticalSave
<1>3. RequestInv /\ LoadInv
  BY SetFacts DEF Init, RequestInv, LoadInv, InFlight, Registering, Saving,
     CriticalRegister, CriticalSave, Threads
<1>4. MapInv /\ UnregisterInv /\ SaveInv /\ SavedInv
  BY SetFacts DEF Init, MapInv, UnregisterInv, SaveInv, SavedInv
<1>6. RestoreInv /\ RegisteredInv
  BY SetFacts DEF Init, RestoreInv, RegisteredInv, AfterMap, Saving,
     CriticalSave
<1>5. OneOwner /\ AcceptedIsDurable
  BY DEF Init, AxInit, OneOwner, AcceptedIsDurable
<1> QED
  BY <1>1, <1>2, <1>3, <1>4, <1>5, <1>6 DEF IndInv

LEMMA IndInvStep == IndInv /\ [Next]_vars => IndInv'
<1> SUFFICES ASSUME IndInv, [Next]_vars PROVE IndInv'
  OBVIOUS
<1> QED
  BY TypeOKStep, MutexStep, RequestInvStep, LoadInvStep, RestoreInvStep,
     MapInvStep, UnregisterInvStep, SaveInvStep, SavedInvStep,
     RegisteredInvStep, OneOwnerStep, AcceptedIsDurableStep
     DEF IndInv

(* The invariant holds for all constants: what the goroutines, Initialize  *)
(* and the crashes leave behind relates map, master, tables and answers.   *)
THEOREM IndInvHolds == Spec => []IndInv
BY IndInvInit, IndInvStep, PTL DEF Spec

-----------------------------------------------------------------------------
(* Every variable of the service keeps its type, for all constants: no     *)
(* handler, early return or error path stores anything else.               *)
THEOREM TypeCorrect == Spec => []TypeOK
<1>1. IndInv => TypeOK
  BY DEF IndInv
<1> QED
  BY <1>1, IndInvHolds, PTL

(* SNMPSubagent.m is held exactly between the Lock and the Unlock of       *)
(* Register, appRegister and Unregister, whatever fails or panics there.   *)
THEOREM MutexHolds == Spec => []Mutex
<1>1. IndInv => Mutex
  BY DEF IndInv
<1> QED
  BY <1>1, IndInvHolds, PTL

(* With a master that refuses duplicates, what is registered there is in   *)
(* SNMPSubagent.applications, whatever calls fail and in whatever order    *)
(* requests arrive.                                                        *)
THEOREM OneOwnerHolds == Spec => []OneOwner
<1>1. IndInv => OneOwner
  BY DEF IndInv
<1> QED
  BY <1>1, IndInvHolds, PTL

(* An Application of the map that was answered 202, or that Initialize     *)
(* restored, has its own row in the database, and its own oids there if    *)
(* they are not rediscovered: no Unregister deletes them, no statement     *)
(* that failed is answered 202 and no old oid row is left among them.  The *)
(* one thing that can take them is the save of a PUT for the same base oid *)
(* that was registered too, and then the row is the one of that PUT.       *)
THEOREM AcceptedIsDurableHolds == Spec => []AcceptedIsDurable
<1>1. IndInv => AcceptedIsDurable
  BY DEF IndInv
<1> QED
  BY <1>1, IndInvHolds, PTL

-----------------------------------------------------------------------------
(* What the steps do to the rows of the table applications.                *)

(* Only the DELETE of deleteApplication removes a row.                     *)
LEMMA RowsStay ==
    ASSUME IndInv, [Next]_vars,
           \A t \in Handlers : ~DeleteApp(t),
           NEW b \in Bases, HasRow(b)
    PROVE  HasRow(b)'
<1>1. ASSUME NEW t \in Threads, Unregister(t) PROVE dbApps' = dbApps
  BY <1>1, UnregisterFacts
     DEF Unregister, UnregisterEnter, Stop, UnregisterSession, CloseSession,
         CloseClient, DeleteOids, DeleteOidRows, dbVars
<1>2. ASSUME NEW t \in Threads, AppRegister(t) PROVE dbApps' = dbApps
  BY <1>2 DEF AppRegister, Lookup, Create, OpenClient, OpenSession,
     RegisterSession, Discover, dbVars
<1>3. ASSUME NEW t \in Handlers, SaveApplication(t) PROVE HasRow(b)'
  <2>1. base[t] \in Bases /\ RowOf(t) # None
    BY <1>3, SaveFacts DEF RowOf, Form, AppRow
  <2> QED
    BY <1>3, <2>1
       DEF SaveApplication, Save, InsertApp, ClearOids, MapRace, Die,
           InsertOid, SaveDone, SaveFails, PanicOnNilDb, InsertOrReplaceApp,
           DeleteOidRows, InsertOidRow, HasRow, dbVars, IndInv, TypeOK,
           DbTypeOK
<1>4. ASSUME NEW h \in Handlers, Request(h) PROVE dbApps' = dbApps
  BY <1>4 DEF Request, Put, Delete, BadRequest, dbVars
<1>5. CASE Boot
  BY <1>5 DEF Boot, Start, LoadNext, LoadDone, dbVars, HasRow
<1>6. ASSUME NEW a \in Apps, Rediscover(a) PROVE dbApps' = dbApps
  BY <1>6 DEF Rediscover, LoopDiscovery, LoopPark, LoopTick, LoopEnter,
     LoopFail, LoopClear, LoopFill, LoopStep, dbVars
<1>7. CASE Crash
  BY <1>7 DEF Crash, Die, HasRow
<1>8. CASE UNCHANGED vars
  BY <1>8 DEF vars, dbVars, HasRow
<1> QED
  BY <1>1, <1>2, <1>3, <1>4, <1>5, <1>6, <1>7, <1>8
     DEF Next, Thread, Idle, HasRow

(* deleteApplication runs on what neither the map nor the master knows.    *)
LEMMA DeletesDetached ==
    ASSUME IndInv, NEW t \in Handlers, DeleteApp(t)
    PROVE  /\ base[t] \in Bases /\ applications[base[t]] = None
           /\ MasterRejectsDuplicates => master[base[t]] = {}
           /\ \A b \in Bases : b # base[t] => (HasRow(b) <=> HasRow(b)')
<1>1. base[t] \in Bases /\ pc[t] = "deleteApp"
  BY SetFacts, UnregisterFacts DEF Unregister, DeleteApp
<1>2. applications[base[t]] = None
  BY <1>1 DEF IndInv, UnregisterInv, Current
<1>3. MasterRejectsDuplicates => master[base[t]] = {}
  BY <1>1 DEF IndInv, UnregisterInv
<1>4. ASSUME NEW b \in Bases, b # base[t] PROVE dbApps'[b] = dbApps[b]
  BY <1>1, <1>4 DEF DeleteApp, DeleteAppRow, PanicOnNilDb, dbVars, IndInv,
     TypeOK, DbTypeOK
<1> QED
  BY <1>1, <1>2, <1>3, <1>4 DEF HasRow

(* A row goes only when its Application has left the map and the master:   *)
(* a crash anywhere in Unregister never loses one that still answers.      *)
THEOREM ForgetOnlyDetachedHolds == Spec => ForgetOnlyDetached
<1> DEFINE Forgets ==
      \A b \in Bases : HasRow(b) /\ ~HasRow(b)' =>
         /\ applications[b] = None
         /\ MasterRejectsDuplicates => master[b] = {}
<1>1. ASSUME IndInv, [Next]_vars PROVE Forgets
  <2> SUFFICES ASSUME NEW b \in Bases, HasRow(b), ~HasRow(b)'
               PROVE  /\ applications[b] = None
                      /\ MasterRejectsDuplicates => master[b] = {}
    OBVIOUS
  <2>1. PICK t \in Handlers : DeleteApp(t)
    BY <1>1, RowsStay
  <2> QED
    BY <1>1, <2>1, DeletesDetached
<1>2. IndInv /\ [Next]_vars => [Forgets]_vars
  BY <1>1
<1> QED
  BY <1>2, IndInvHolds, PTL DEF Spec, ForgetOnlyDetached

-----------------------------------------------------------------------------
(* The service implements Registry.  Under a master that refuses           *)
(* duplicates OneOwner makes master[b] empty or a singleton, so the owner  *)
(* of b is well defined.                                                   *)

LEMMA OwnerFacts ==
    ASSUME IndInv, MasterRejectsDuplicates, NEW b \in Bases
    PROVE  /\ master[b] = {} \/ \E a \in Apps : master[b] = {a}
           /\ \A a \in Apps : master[b] = {a} => OwnerMap[b] = a
           /\ master[b] = {} => OwnerMap[b] = None
           /\ OwnerMap[b] = None => master[b] = {}
<1>1. master[b] \subseteq Apps /\ \A a \in master[b] : applications[b] = a
  BY DEF IndInv, TypeOK, AxTypeOK, OneOwner
<1>2. master[b] = {} \/ \E a \in Apps : master[b] = {a}
  <2>1. CASE master[b] = {}
    BY <2>1
  <2>2. CASE master[b] # {}
    <3>1. PICK a \in master[b] : TRUE
      BY <2>2
    <3> QED
      BY <1>1, <3>1
  <2> QED
    BY <2>1, <2>2
<1>3. \A a \in Apps : master[b] = {a} => OwnerMap[b] = a
  BY DEF OwnerMap, Owner
<1>4. master[b] = {} => OwnerMap[b] = None
  BY DEF OwnerMap, Owner
<1> QED
  BY <1>2, <1>3, <1>4, SetFacts

(* What a step does to the abstract state, read off the variables it is    *)
(* defined from.                                                           *)
LEMMA OwnerFrame == master' = master => OwnerMap' = OwnerMap
BY DEF OwnerMap, Owner

LEMMA OwnerChange ==
    ASSUME NEW b \in Bases, NEW o,
           \A c \in Bases : c # b => master'[c] = master[c],
           (master'[b] = {} /\ o = None) \/ master'[b] = {o}
    PROVE  OwnerMap' = [OwnerMap EXCEPT ![b] = o]
<1> DEFINE OwnerIn(s) == IF s = {} THEN None ELSE CHOOSE a \in s : TRUE
<1>1. OwnerIn(master'[b]) = o
  <2>1. CASE master'[b] = {}
    BY <2>1
  <2>2. CASE master'[b] = {o}
    BY <2>2
  <2> QED
    BY <2>1, <2>2
<1>2. OwnerMap = [c \in Bases |-> OwnerIn(master[c])]
  BY DEF OwnerMap, Owner
<1>3. OwnerMap' = [c \in Bases |-> OwnerIn(master'[c])]
  BY DEF OwnerMap, Owner
<1> HIDE DEF OwnerIn
<1> QED
  BY <1>1, <1>2, <1>3

LEMMA AcceptedFrame ==
    ASSUME IndInv,
           \A h \in Handlers :
              \/ op'[h] = op[h] /\ base'[h] = base[h] /\ reply'[h] = reply[h]
              \/ reply[h] # "202" /\ reply'[h] # "202"
              \/ op'[h] = "DELETE" /\ op[h] = "DELETE"
    PROVE  AcceptedFor' = AcceptedFor
BY DEF AcceptedFor

(* What the registry sees of a handler.                                    *)
LEMMA RequestFacts ==
    ASSUME IndInv, NEW h \in Handlers
    PROVE  /\ RequestMap[h] = RequestOf(h)
           /\ RequestMap[h].app = IF pc[h] \in AfterMap THEN h ELSE None
           /\ InFlight(h) =>
                /\ Abstract!Asked(h) = base[h]
                /\ base[h] \in Bases /\ base[h] # None
                /\ op[h] = "PUT" => RequestMap[h].row = RowOf(h)
           /\ ~InFlight(h) =>
                /\ RequestMap[h] = Abstract!NoRequest
                /\ Abstract!Asked(h) = None
<1>1. ~InFlight(h) => pc[h] \notin AfterMap
  BY DEF InFlight, AfterMap, Saving, CriticalSave
<1>2. InFlight(h) => base[h] \in Bases
  BY DEF IndInv, RequestInv
<1> QED
  BY <1>1, <1>2 DEF RequestMap, RequestOf, Abstract!Asked,
     Abstract!NoRequest

(* A step of one goroutine, which is all that moves.                       *)
OnlyMoves(t) ==
    /\ base' = base /\ op' = op /\ form' = form
    /\ \A h \in Handlers : h # t => pc'[h] = pc[h] /\ reply'[h] = reply[h]

LEMMA RequestsOfOthers ==
    ASSUME NEW t, OnlyMoves(t), NEW h \in Handlers, h # t
    PROVE  RequestOf(h)' = RequestOf(h)
BY DEF OnlyMoves, RequestOf, InFlight, RowOf

LEMMA RequestStays ==
    ASSUME NEW t, OnlyMoves(t),
           t \in Handlers =>
              /\ InFlight(t) /\ InFlight(t)'
              /\ pc'[t] \in AfterMap <=> pc[t] \in AfterMap
    PROVE  RequestMap' = RequestMap
<1>1. t \in Handlers => RequestOf(t)' = RequestOf(t)
  BY DEF OnlyMoves, RequestOf, RowOf
<1> QED
  BY <1>1, RequestsOfOthers DEF RequestMap

LEMMA RequestChanges ==
    ASSUME NEW t \in Handlers, OnlyMoves(t), NEW r, RequestOf(t)' = r
    PROVE  RequestMap' = [RequestMap EXCEPT ![t] = r]
BY RequestsOfOthers DEF RequestMap

(* A step of a handler that neither registers, stores, accepts nor gives   *)
(* up a registration: its request goes on, or is answered.                 *)
LEMMA RefinesMove ==
    ASSUME IndInv, NEW t \in Threads, OnlyMoves(t),
           master' = master, dbApps' = dbApps,
           t = Main => reply' = reply,
           t \in Handlers =>
              /\ InFlight(t)
              /\ \/ pc'[t] = "done"
                 \/ InFlight(t)' /\ (pc'[t] \in AfterMap <=> pc[t] \in AfterMap)
              /\ op[t] = "PUT" => reply'[t] # "202"
    PROVE  Abstract!RegistryNext \/ UNCHANGED Abstract!registryVars
<1>1. OwnerMap' = OwnerMap
  BY OwnerFrame
<1>2. AcceptedFor' = AcceptedFor
  <2>1. t \in Handlers => reply[t] = "none" /\ op[t] \in {"PUT", "DELETE"}
    BY DEF IndInv, RequestInv, InFlight
  <2> QED
    BY <2>1, SetFacts, AcceptedFrame DEF OnlyMoves
<1>3. CASE t \in Handlers /\ pc'[t] = "done"
  <2>1. RequestOf(t)' = Abstract!NoRequest
    BY <1>3 DEF RequestOf, InFlight, AfterMap, Saving, CriticalSave,
       Abstract!NoRequest
  <2>2. RequestMap' = [RequestMap EXCEPT ![t] = Abstract!NoRequest]
    BY <1>3, <2>1, RequestChanges
  <2>3. Abstract!Asked(t) # None
    BY <1>3, RequestFacts
  <2> QED
    BY <1>1, <1>2, <1>3, <2>2, <2>3 DEF Abstract!RegistryNext, Abstract!Leave
<1>4. CASE ~(t \in Handlers /\ pc'[t] = "done")
  BY <1>1, <1>2, <1>4, RequestStays DEF Abstract!registryVars
<1> QED
  BY <1>3, <1>4

LEMMA RefinesInit == Init => Abstract!RegistryInit
<1> SUFFICES ASSUME Init PROVE Abstract!RegistryInit
  OBVIOUS
<1>1. OwnerMap = [b \in Bases |-> None] /\ dbApps = [b \in Bases |-> None]
  BY DEF Init, DbInit, AxInit, OwnerMap, Owner
<1>2. ASSUME NEW h \in Handlers PROVE RequestOf(h) = Abstract!NoRequest
  <2>1. pc[h] = "ready"
    BY SetFacts DEF Init
  <2> QED
    BY <2>1 DEF RequestOf, InFlight, AfterMap, Saving, CriticalSave,
       Abstract!NoRequest
<1>3. RequestMap = [h \in Handlers |-> Abstract!NoRequest]
  BY <1>2 DEF RequestMap
<1>4. AcceptedFor = [h \in Handlers |-> None]
  BY DEF Init, AcceptedFor
<1> QED
  BY <1>1, <1>3, <1>4 DEF Abstract!RegistryInit

(* The process dies: DetachAll.                                            *)
LEMMA RefinesDie == ASSUME IndInv, Die PROVE Abstract!RegistryNext
<1>1. OwnerMap' = [b \in Bases |-> None]
  BY DEF Die, AxDisconnectAll, OwnerMap, Owner
<1>2. RequestMap' = [h \in Handlers |-> Abstract!NoRequest]
  <2>1. \A h \in Handlers : pc'[h] \in {"ready", "done"}
    BY SetFacts DEF Die
  <2> QED
    BY <2>1 DEF RequestMap, RequestOf, InFlight, AfterMap, Saving,
       CriticalSave, Abstract!NoRequest
<1>3. AcceptedFor' = AcceptedFor /\ dbApps' = dbApps
  BY DEF Die, reqVars, AcceptedFor
<1> QED
  BY <1>1, <1>2, <1>3 DEF Abstract!RegistryNext, Abstract!DetachAll

(* Unregister: the session's Unregister is Detach, the DELETE of the row   *)
(* is Forget, everything else goes on or is answered.                      *)
LEMMA RefinesUnregister ==
    ASSUME IndInv, IndInv', MasterRejectsDuplicates,
           NEW t \in Threads, Unregister(t)
    PROVE  Abstract!RegistryNext \/ UNCHANGED Abstract!registryVars
<1>1. t \in Handlers /\ t # Main /\ base[t] \in Bases
  BY UnregisterFacts
<1>2. OnlyMoves(t)
  BY <1>1, SetFacts DEF OnlyMoves, Unregister, UnregisterEnter, Stop,
     UnregisterSession, CloseSession, CloseClient, DeleteApp, DeleteOids,
     Move, Goto, GiveUp, UnregisterReturns, Finish, PanicOnNilDb, reqVars,
     appVars, IndInv, TypeOK
<1>3. /\ InFlight(t) /\ pc[t] \notin AfterMap
      /\ \/ pc'[t] = "done"
         \/ InFlight(t)' /\ pc'[t] \notin AfterMap
      /\ op[t] = "PUT" => reply'[t] # "202"
  <2>1. pc[t] \in {"unreg"} \cup CriticalUnregister
    BY DEF Unregister, UnregisterEnter, Stop, UnregisterSession,
       CloseSession, CloseClient, DeleteApp, DeleteOids, Move,
       CriticalUnregister
  <2>2. reply[t] = "none"
    BY <1>1, <2>1 DEF IndInv, RequestInv, CriticalUnregister
  <2>3. pc'[t] \in {"done", "create"} \cup CriticalUnregister
    BY <1>1 DEF Unregister, UnregisterEnter, Stop, UnregisterSession,
       CloseSession, CloseClient, DeleteApp, DeleteOids, Move, Goto, GiveUp,
       UnregisterReturns, Finish, PanicOnNilDb, IndInv, TypeOK,
       CriticalUnregister
  <2>4. reply'[t] \in {"none", "500"} \/ op[t] = "DELETE"
    BY <1>1, <2>2 DEF Unregister, UnregisterEnter, Stop, UnregisterSession,
       CloseSession, CloseClient, DeleteApp, DeleteOids, Move, GiveUp,
       UnregisterReturns, Finish, PanicOnNilDb, IndInv, TypeOK
  <2> QED
    BY <2>1, <2>3, <2>4 DEF InFlight, AfterMap, Saving, CriticalSave,
       CriticalUnregister
<1>4. Abstract!Unattached(t) /\ Abstract!Asked(t) = base[t]
  BY <1>1, <1>3, RequestFacts DEF Abstract!Unattached
<1>5. CASE master' = master /\ dbApps' = dbApps
  BY <1>1, <1>2, <1>3, <1>5, RefinesMove
<1>6. CASE master' # master
  <2>1. /\ UnregisterSession(t) /\ dbApps' = dbApps /\ reply' = reply
        /\ pc'[t] = "closeSession"
        /\ master' = [master EXCEPT ![base[t]] = @ \ {Current(t)}]
    BY <1>1, <1>6 DEF Unregister, UnregisterEnter, Stop, UnregisterSession,
       CloseSession, CloseClient, DeleteApp, DeleteOids, GiveUp,
       AxUnregister, AxCloseSession, AxCloseClient, axVars, dbVars, Move,
       Goto, IndInv, TypeOK
  <2>2. applications' = applications
    BY <1>6, <2>1 DEF UnregisterSession, GiveUp, axVars
  <2>3. master'[base[t]] = {}
    BY <1>1, <2>1, <2>2 DEF IndInv, TypeOK, AxTypeOK, OneOwner, Current
  <2>4. OwnerMap' = [OwnerMap EXCEPT ![base[t]] = None]
    BY <1>1, <2>1, <2>3, OwnerChange DEF IndInv, TypeOK, AxTypeOK
  <2>5. RequestMap' = RequestMap
    BY <1>2, <1>3, <2>1, RequestStays
  <2>6. AcceptedFor' = AcceptedFor
    BY <1>2, <2>1, AcceptedFrame DEF OnlyMoves
  <2> QED
    BY <1>1, <1>4, <2>1, <2>4, <2>5, <2>6
       DEF Abstract!RegistryNext, Abstract!Detach
<1>7. CASE dbApps' # dbApps
  <2>1. /\ DeleteApp(t) /\ reply' = reply /\ pc'[t] = "deleteOids"
        /\ dbApps' = [dbApps EXCEPT ![base[t]] = None]
    BY <1>1, <1>7 DEF Unregister, UnregisterEnter, Stop, UnregisterSession,
       CloseSession, CloseClient, DeleteApp, DeleteOids, DeleteOidRows,
       DeleteAppRow, PanicOnNilDb, dbVars, Move, Goto, IndInv, TypeOK
  <2>2. OwnerMap' = OwnerMap
    BY <2>1, OwnerFrame DEF DeleteApp, axVars
  <2>3. OwnerMap[base[t]] = None
    BY <1>1, <2>1, DeletesDetached, OwnerFacts
  <2>4. RequestMap' = RequestMap
    BY <1>2, <1>3, <2>1, RequestStays
  <2>5. AcceptedFor' = AcceptedFor
    BY <1>2, <2>1, AcceptedFrame DEF OnlyMoves
  <2> QED
    BY <1>1, <1>4, <2>1, <2>2, <2>3, <2>4, <2>5
       DEF Abstract!RegistryNext, Abstract!Forget
<1> QED
  BY <1>5, <1>6, <1>7

(* appRegister: the session's Register is Attach for a handler and Restore *)
(* for Initialize, on a base oid that nobody owns; everything else goes on *)
(* or is answered.                                                         *)
LEMMA RefinesAppRegister ==
    ASSUME IndInv, IndInv', MasterRejectsDuplicates,
           NEW t \in Threads, AppRegister(t)
    PROVE  Abstract!RegistryNext \/ UNCHANGED Abstract!registryVars
<1>1. /\ base[t] \in Bases /\ App(t) \in Apps /\ InFlight(t)
      /\ t # Main => t \in Handlers /\ op[t] = "PUT"
  BY AppRegisterFacts
<1>2. OnlyMoves(t) /\ dbApps' = dbApps
  BY SetFacts DEF OnlyMoves, AppRegister, Lookup, Create, OpenClient,
     OpenSession, RegisterSession, Discover, Move, Goto, RegisterFails,
     Registered, Finish, dbVars, reqVars, appVars, IndInv, TypeOK
<1>3. t = Main => reply' = reply
  BY DEF AppRegister, Lookup, Create, OpenClient, OpenSession,
     RegisterSession, Discover, Move, RegisterFails, Registered, Finish
<1>4. t # Main => reply'[t] # "202"
  <2>1. t # Main => reply[t] = "none"
    BY <1>1 DEF IndInv, RequestInv, InFlight
  <2> QED
    BY <1>1, <2>1 DEF AppRegister, Lookup, Create, OpenClient, OpenSession,
       RegisterSession, Discover, Move, RegisterFails, Registered, Finish,
       IndInv, TypeOK
<1>5. CASE master' = master
  <2>1. pc[t] \in {"lookup", "create", "openClient", "openSession",
                   "register", "discover"}
    BY DEF AppRegister, Lookup, Create, OpenClient, OpenSession,
       RegisterSession, Discover, Move
  <2>2. ASSUME t # Main, pc[t] # "discover"
        PROVE  pc'[t] \in {"done", "unreg", "create", "openClient",
                           "openSession", "register"}
    <3>1. ~(pc[t] = "register" /\ AxRegister(App(t), base[t])
            /\ MayRegister(base[t]))
      <4>1. MayRegister(base[t]) => App(t) \notin master[base[t]]
        BY DEF MayRegister
      <4> QED
        BY <1>1, <1>5, <4>1 DEF AxRegister, IndInv, TypeOK, AxTypeOK
    <3> QED
      BY <1>1, <2>2, <3>1 DEF AppRegister, Lookup, Create, OpenClient,
         OpenSession, RegisterSession, Discover, Move, Goto, RegisterFails,
         Finish, IndInv, TypeOK
  <2>3. ASSUME t # Main, pc[t] = "discover" PROVE pc'[t] = "save"
    BY <1>1, <2>3 DEF AppRegister, Lookup, Create, OpenClient, OpenSession,
       RegisterSession, Discover, Move, Goto, Registered, IndInv, TypeOK
  <2>4. t # Main =>
           \/ pc'[t] = "done"
           \/ InFlight(t)' /\ (pc'[t] \in AfterMap <=> pc[t] \in AfterMap)
    BY <2>1, <2>2, <2>3 DEF InFlight, AfterMap, Saving, CriticalSave
  <2> QED
    BY <1>1, <1>2, <1>3, <1>4, <1>5, <2>4, SetFacts, RefinesMove
<1>6. CASE master' # master
  <2>1. /\ pc[t] = "register" /\ master[base[t]] = {}
        /\ master' = [master EXCEPT ![base[t]] = @ \cup {App(t)}]
        /\ t # Main => pc'[t] \in {"discover", "save"} /\ reply' = reply
    BY <1>1, <1>6 DEF AppRegister, Lookup, Create, OpenClient, OpenSession,
       RegisterSession, Discover, RegisterFails, Registered, Goto, Finish,
       AxOpenClient, AxOpenSession, AxRegister, MayRegister, axVars, IndInv,
       TypeOK
  <2>2. OwnerMap[base[t]] = None
    BY <1>1, <2>1, OwnerFacts
  <2>3. OwnerMap' = [OwnerMap EXCEPT ![base[t]] = App(t)]
    <3>1. master'[base[t]] = {App(t)}
      BY <1>1, <2>1 DEF IndInv, TypeOK, AxTypeOK
    <3> QED
      BY <1>1, <2>1, <3>1, OwnerChange DEF IndInv, TypeOK, AxTypeOK
  <2>4. AcceptedFor' = AcceptedFor
    BY <1>2, <1>3, <2>1, AcceptedFrame DEF OnlyMoves
  <2>5. CASE t = Main
    <3>1. dbApps[base[t]] # None /\ App(t) = base[t]
      BY <2>1, <2>5 DEF IndInv, LoadInv, HasRow, App
    <3>2. RequestMap' = RequestMap
      BY <1>2, <2>5, SetFacts, RequestStays
    <3> QED
      BY <1>1, <1>2, <2>2, <2>3, <2>4, <3>1, <3>2
         DEF Abstract!RegistryNext, Abstract!Restore
  <2>6. CASE t # Main
    <3>1. App(t) = t /\ t \in Handlers /\ form[t] \in Form
      BY <1>1, <2>6, AppRegisterFacts DEF App
    <3>2. /\ Abstract!Unattached(t) /\ Abstract!Asked(t) = base[t]
          /\ RequestMap[t].row # None
      BY <1>1, <2>1, <3>1, <2>6, RequestFacts, RowFacts
         DEF Abstract!Unattached, AfterMap, Saving, CriticalSave
    <3>3. RequestOf(t)' = [RequestOf(t) EXCEPT !.app = t]
      BY <1>1, <1>2, <2>1, <2>6 DEF OnlyMoves, RequestOf, InFlight, RowOf,
         AfterMap, Saving
    <3>4. RequestMap' = [RequestMap EXCEPT ![t].app = t]
      BY <1>2, <3>1, <3>3, RequestChanges DEF RequestMap
    <3> QED
      BY <1>2, <2>2, <2>3, <2>4, <3>1, <3>2, <3>4
         DEF Abstract!RegistryNext, Abstract!Attach
  <2> QED
    BY <2>5, <2>6
<1> QED
  BY <1>5, <1>6

(* saveApplication: the first statement is Store, the answer is Accept.    *)
LEMMA RefinesSave ==
    ASSUME IndInv, IndInv', NEW t \in Handlers, SaveApplication(t)
    PROVE  Abstract!RegistryNext \/ UNCHANGED Abstract!registryVars
<1>1. /\ t \in Threads /\ t # Main /\ base[t] \in Bases /\ op[t] = "PUT"
      /\ form[t] \in Form
  BY SaveFacts
<1>2. CASE MapRace(t)
  BY <1>2, RefinesDie DEF MapRace
<1>3. CASE ~MapRace(t)
  <2>1. master' = master /\ OnlyMoves(t)
    <3>1. UNCHANGED <<master, base, op, form>>
      BY <1>3 DEF SaveApplication, Save, InsertApp, ClearOids, InsertOid,
         SaveDone, axVars, reqVars, appVars
    <3>2. \A h \in Handlers : h # t => pc'[h] = pc[h] /\ reply'[h] = reply[h]
      BY <1>3, SaveMovesOne
    <3> QED
      BY <3>1, <3>2 DEF OnlyMoves
  <2>2. InFlight(t) /\ pc[t] \in AfterMap /\ reply[t] = "none"
    BY <1>3 DEF SaveApplication, Save, InsertApp, ClearOids, InsertOid,
       SaveDone, Move, IndInv, RequestInv, InFlight, AfterMap, Saving,
       CriticalSave
  <2>3. /\ RequestMap[t].app = t /\ Abstract!Asked(t) = base[t]
        /\ RequestMap[t].row = RowOf(t)
    BY <1>1, <2>2, RequestFacts
  <2>4. OwnerMap' = OwnerMap
    BY <2>1, OwnerFrame
  <2>5. CASE SaveDone(t)
    <3>1. /\ dbApps' = dbApps /\ reply' = [reply EXCEPT ![t] = "202"]
          /\ pc'[t] = "done"
      BY <1>1, <2>5 DEF SaveDone, Finish, Goto, dbVars, IndInv, TypeOK
    <3>2. dbApps[base[t]] = RowOf(t)
      BY <2>5, SaveInvHasRow DEF SaveDone
    <3>3. AcceptedFor' = [AcceptedFor EXCEPT ![t] = base[t]]
      BY <1>1, <2>1, <3>1 DEF AcceptedFor, OnlyMoves, IndInv, TypeOK
    <3>4. RequestOf(t)' = Abstract!NoRequest
      BY <3>1 DEF RequestOf, InFlight, AfterMap, Saving, CriticalSave,
         Abstract!NoRequest
    <3>5. RequestMap' = [RequestMap EXCEPT ![t] = Abstract!NoRequest]
      BY <2>1, <3>4, RequestChanges
    <3> QED
      BY <2>3, <2>4, <3>1, <3>2, <3>3, <3>5
         DEF Abstract!RegistryNext, Abstract!Accept
  <2>6. CASE ~SaveDone(t)
    <3>1. /\ pc'[t] \in {"done"} \cup CriticalSave
          /\ reply'[t] # "202"
      BY <1>1, <1>3, <2>2, <2>6
         DEF SaveApplication, Save, InsertApp, ClearOids, InsertOid,
             SaveFails, PanicOnNilDb, Move, Goto, Finish, IndInv, TypeOK,
             CriticalSave
    <3>2. CASE dbApps' = dbApps
      <4>1. \/ pc'[t] = "done"
            \/ InFlight(t)' /\ pc'[t] \in AfterMap
        BY <3>1 DEF InFlight, AfterMap, Saving, CriticalSave
      <4> QED
        BY <1>1, <2>1, <2>2, <3>1, <3>2, <4>1, RefinesMove
    <3>3. CASE dbApps' # dbApps
      <4>1. /\ dbApps' = [dbApps EXCEPT ![base[t]] = RowOf(t)]
            /\ pc'[t] = "clearOids" /\ reply' = reply
        BY <1>1, <1>3, <2>6, <3>3
           DEF SaveApplication, Save, InsertApp, ClearOids, InsertOid,
               SaveFails, PanicOnNilDb, InsertOrReplaceApp, DeleteOidRows,
               InsertOidRow, dbVars, Move, Goto, IndInv, TypeOK
      <4>2. RequestMap' = RequestMap
        BY <2>1, <2>2, <4>1, RequestStays
           DEF InFlight, AfterMap, Saving, CriticalSave
      <4>3. AcceptedFor' = AcceptedFor
        BY <2>1, <4>1, AcceptedFrame DEF OnlyMoves
      <4> QED
        BY <2>3, <2>4, <4>1, <4>2, <4>3
           DEF Abstract!RegistryNext, Abstract!Store
    <3> QED
      BY <3>2, <3>3
  <2> QED
    BY <2>5, <2>6
<1> QED
  BY <1>2, <1>3

(* A request that arrives is Ask, or is answered 400 at once.              *)
LEMMA RefinesRequest ==
    ASSUME IndInv, IndInv', NEW t \in Handlers, Request(t)
    PROVE  Abstract!RegistryNext \/ UNCHANGED Abstract!registryVars
<1>1. master' = master /\ dbApps' = dbApps /\ t \in Threads /\ t # Main
  BY SetFacts DEF Request, Put, Delete, BadRequest, dbVars, axVars
<1>2. pc[t] = "ready" /\ reply[t] = "none" /\ ~InFlight(t)
  BY DEF Request, Put, Delete, BadRequest, Move, IndInv, RequestInv, InFlight
<1>3. \A h \in Handlers :
         IF h = t THEN reply'[h] \in {"none", "400"}
         ELSE /\ op'[h] = op[h] /\ base'[h] = base[h] /\ reply'[h] = reply[h]
              /\ form'[h] = form[h] /\ pc'[h] = pc[h]
  BY <1>1, <1>2, SetFacts DEF Request, Put, Delete, BadRequest, Move, Goto,
     Finish, reqVars, appVars, IndInv, TypeOK
<1>4. AcceptedFor' = AcceptedFor /\ AcceptedFor[t] = None
  BY <1>2, <1>3, AcceptedFrame DEF AcceptedFor
<1>5. OwnerMap' = OwnerMap
  BY <1>1, OwnerFrame
<1>6. Abstract!Asked(t) = None /\ RequestMap[t] = Abstract!NoRequest
  BY <1>2, RequestFacts
<1>7. RequestMap' = [RequestMap EXCEPT ![t] = RequestOf(t)']
  <2>1. \A h \in Handlers : h # t => RequestOf(h)' = RequestOf(h)
    BY <1>3 DEF RequestOf, InFlight, RowOf
  <2> QED
    BY <2>1 DEF RequestMap
<1>8. CASE pc'[t] = "done"
  <2>1. RequestOf(t)' = Abstract!NoRequest
    BY <1>8 DEF RequestOf, InFlight, AfterMap, Saving, CriticalSave,
       Abstract!NoRequest
  <2>2. RequestMap' = RequestMap
    BY <1>6, <1>7, <2>1 DEF RequestMap
  <2> QED
    BY <1>1, <1>4, <1>5, <2>2 DEF Abstract!registryVars
<1>9. CASE pc'[t] # "done"
  <2>1. pc'[t] \in {"lookup", "unreg"} /\ InFlight(t)'
    BY <1>1, <1>9 DEF Request, Put, Delete, BadRequest, Move, Goto, Finish,
       IndInv, TypeOK, InFlight
  <2>2. base'[t] \in Bases /\ (op'[t] = "PUT" => form'[t] \in Form)
    BY <2>1 DEF IndInv, RequestInv
  <2>3. op'[t] = "PUT" => RowOf(t)' \in AppRow
    BY <2>2 DEF RowOf, Form, AppRow
  <2>4. RequestOf(t)' \in Abstract!Requests
    BY <2>1, <2>2, <2>3 DEF RequestOf, Abstract!Requests, Abstract!AppRow,
       AppRow, AfterMap, Saving, CriticalSave
  <2>5. Abstract!Ask(t, RequestOf(t)')
    BY <1>1, <1>4, <1>5, <1>6, <1>7, <2>4 DEF Abstract!Ask
  <2> QED
    BY <2>4, <2>5 DEF Abstract!RegistryNext
<1> QED
  BY <1>8, <1>9

(* A step of Initialize or of a rediscovery.                               *)
LEMMA RefinesOthers ==
    ASSUME IndInv,
           \/ Boot
           \/ \E a \in Apps : Rediscover(a)
           \/ UNCHANGED vars
    PROVE  UNCHANGED Abstract!registryVars
<1>1. master' = master /\ dbApps' = dbApps
  BY DEF Boot, Start, LoadNext, LoadDone, Rediscover, LoopDiscovery,
     LoopPark, LoopTick, LoopEnter, LoopFail, LoopClear, LoopFill, LoopStep,
     vars, dbVars, axVars
<1>2. /\ op' = op /\ reply' = reply
      /\ \A h \in Handlers :
            base'[h] = base[h] /\ form'[h] = form[h] /\ pc'[h] = pc[h]
  <2>1. CASE Boot
    BY <2>1, SetFacts DEF Boot, Start, LoadNext, LoadDone, Goto, reqVars,
       appVars, IndInv, TypeOK
  <2>2. CASE (\E a \in Apps : Rediscover(a)) \/ UNCHANGED vars
    BY <2>2 DEF Rediscover, LoopDiscovery, LoopPark, LoopTick, LoopEnter,
       LoopFail, LoopClear, LoopFill, LoopStep, vars, reqVars, appVars
  <2> QED
    BY <2>1, <2>2
<1>3. AcceptedFor' = AcceptedFor
  BY <1>2, AcceptedFrame
<1>4. RequestMap' = RequestMap
  BY <1>2 DEF RequestMap, RequestOf, InFlight, RowOf
<1> QED
  BY <1>1, <1>3, <1>4, OwnerFrame DEF Abstract!registryVars

LEMMA RefinesStep ==
    ASSUME IndInv, IndInv', MasterRejectsDuplicates, [Next]_vars
    PROVE  [Abstract!RegistryNext]_(Abstract!registryVars)
<1>1. CASE Crash
  BY <1>1, RefinesDie DEF Crash
<1>2. ASSUME NEW t \in Threads, Thread(t)
      PROVE  Abstract!RegistryNext \/ UNCHANGED Abstract!registryVars
  BY <1>2, RefinesUnregister, RefinesAppRegister, RefinesSave DEF Thread
<1> QED
  BY <1>1, <1>2, RefinesRequest, RefinesOthers DEF Next, Idle

(* When the master refuses duplicate registrations, every behaviour of the *)
(* service is one of the abstract registry: a base oid changes hands only  *)
(* through nobody and on a request, is forgotten only when nobody owns it, *)
(* and a PUT is answered 202 only once its Application was registered and  *)
(* while its own row is the stored one.                                    *)
THEOREM ServiceRefinesRegistry ==
    ASSUME MasterRejectsDuplicates PROVE Spec => RefinesRegistry
<1>1. Init => Abstract!RegistryInit
  BY RefinesInit
<1>2. IndInv /\ IndInv' /\ [Next]_vars
        => [Abstract!RegistryNext]_(Abstract!registryVars)
  BY RefinesStep
<1> QED
  BY <1>1, <1>2, IndInvHolds, PTL
     DEF Spec, RefinesRegistry, Abstract!RegistrySpec
=============================================================================
