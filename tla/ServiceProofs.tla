--------------------------- MODULE ServiceProofs ---------------------------
(***************************************************************************)
(* Proofs of what SnmpSubagent keeps while calls do not fail: map, master  *)
(* and tables agree, a rejected registration serves nothing, nothing leaks *)
(* and a boot restores what is stored.                                     *)
(*                                                                         *)
(* The invariant is ServiceInv, on top of the IndInv of                    *)
(* SnmpSubagentProofs.  First come the effects of a step: what it does to  *)
(* every variable of ServiceInv.  Then each conjunct has its lemma.        *)
(***************************************************************************)
EXTENDS SnmpSubagentProofs

USE DisjointAssumption, NoneIsNoRecord, FormsAssumption,
    DiscoveriesAssumption, FailureAssumption, CrashAssumption,
    MasterAssumption

-----------------------------------------------------------------------------
(* The effects of a step.  A goroutine changes its own place and answer.   *)
(* The map and the master change in three of its steps only.               *)

Races(t) == t \in Handlers /\ MapRace(t)

Attaches(t) ==
    /\ RegisterSession(t)
    /\ pc[t] = "register" /\ pc'[t] \in {"discover", "save", "ready"}
    /\ MayRegister(base[t])
    /\ AxRegister(App(t), base[t])
    /\ applications' = [applications EXCEPT ![base[t]] = App(t)]

Detaches(t) ==
    /\ UnregisterSession(t)
    /\ pc[t] = "unregister" /\ pc'[t] = "closeSession"
    /\ AxUnregister(Current(t), base[t])
    /\ applications' = applications

Drops(t) ==
    /\ CloseClient(t)
    /\ pc[t] = "closeClient" /\ pc'[t] = "deleteApp"
    /\ AxCloseClient(Current(t))
    /\ applications' = [applications EXCEPT ![base[t]] = None]

(* A goroutine leaves the others where they are.                           *)
LEMMA ThreadFrame ==
    ASSUME IndInv, NEW t \in Threads, Thread(t), ~Races(t)
    PROVE  /\ base' = base /\ op' = op
           /\ mode' = mode /\ crashes' = crashes /\ todo' = todo
           /\ \A u \in Threads : u # t => pc'[u] = pc[u]
           /\ \A h \in Handlers : h # t => reply'[h] = reply[h]
<1>1. CASE Unregister(t)
  <2>1. t \in Handlers /\ t # Main
    BY <1>1, UnregisterFacts
  <2> QED
    BY <1>1, <2>1 DEF Unregister, UnregisterEnter, Stop, UnregisterSession,
       CloseSession, CloseClient, DeleteApp, DeleteOids, GiveUp, PanicOnNilDb,
       UnregisterReturns, Finish, Move, Goto, reqVars, procVars, IndInv, TypeOK
<1>2. CASE AppRegister(t)
  <2>1. t # Main => t \in Handlers
    BY SetFacts
  <2>2. base' = base /\ op' = op /\ procVars' = procVars
    BY <1>2 DEF AppRegister, Lookup, Create, OpenClient, OpenSession,
       RegisterSession, Discover, reqVars
  <2>3. \E p : pc' = [pc EXCEPT ![t] = p]
    BY <1>2 DEF AppRegister, Lookup, Create, OpenClient, OpenSession,
       RegisterSession, Discover, RegisterFails, Registered, Finish, Move, Goto
  <2>4. \/ reply' = reply
        \/ t # Main /\ \E r : reply' = [reply EXCEPT ![t] = r]
    BY <1>2 DEF AppRegister, Lookup, Create, OpenClient, OpenSession,
       RegisterSession, Discover, RegisterFails, Registered, Finish, Move
  <2> QED
    BY <2>1, <2>2, <2>3, <2>4 DEF procVars, IndInv, TypeOK
<1>3. CASE t \in Handlers /\ SaveApplication(t)
  BY <1>3, SetFacts DEF Races, SaveApplication, Save, InsertApp, ClearOids,
     InsertOid, SaveDone, SaveFails, PanicOnNilDb, Finish, Move, Goto, reqVars,
     procVars, IndInv, TypeOK
<1> QED
  BY <1>1, <1>2, <1>3 DEF Thread

(* What a goroutine does to the map and the master.                        *)
LEMMA ThreadEffects ==
    ASSUME IndInv, NEW t \in Threads, Thread(t), ~Races(t)
    PROVE  \/ Attaches(t) \/ Detaches(t) \/ Drops(t)
           \/ applications' = applications /\ master' = master
<1>1. pc \in [Threads -> Critical \cup Unlocked]
  BY DEF IndInv, TypeOK
<1>2. CASE Unregister(t)
  BY <1>1, <1>2 DEF Unregister, UnregisterEnter, Stop, UnregisterSession,
     CloseSession, CloseClient, DeleteApp, DeleteOids, GiveUp, AxCloseSession,
     AxCloseClient, AxUnregister, Move, Goto, axVars, Detaches, Drops
<1>3. CASE AppRegister(t)
  <2>1. CASE RegisterSession(t)
    BY <1>1, <2>1 DEF RegisterSession, RegisterFails, Registered, Finish, Goto,
       axVars, Attaches
  <2>2. CASE ~RegisterSession(t)
    BY <1>3, <2>2 DEF AppRegister, Lookup, Create, OpenClient, OpenSession,
       Discover, RegisterFails, AxOpenClient, AxOpenSession, axVars
  <2> QED
    BY <2>1, <2>2
<1>4. CASE t \in Handlers /\ SaveApplication(t)
  BY <1>4 DEF Races, SaveApplication, Save, InsertApp, ClearOids, InsertOid,
     SaveDone, axVars
<1> QED
  BY <1>2, <1>3, <1>4 DEF Thread

(* From the insertion into the map a PUT goes on to its answer only.       *)
LEMMA ProgramOrder ==
    ASSUME IndInv, NEW t \in Handlers, Thread(t), ~Races(t),
           pc[t] \in AfterMap \cup {"done"}
    PROVE  pc'[t] \in AfterMap \cup {"done"}
<1>1. t \in Threads /\ t # Main /\ pc \in [Threads -> Critical \cup Unlocked]
  BY SetFacts DEF IndInv, TypeOK
<1>2. ~Unregister(t)
  BY DEF AfterMap, Saving, CriticalSave, Unregister, UnregisterEnter, Stop,
     UnregisterSession, CloseSession, CloseClient, DeleteApp, DeleteOids, Move
<1>3. CASE AppRegister(t)
  BY <1>1, <1>3 DEF AfterMap, Saving, CriticalSave, AppRegister, Lookup,
     Create, OpenClient, OpenSession, RegisterSession, Discover, Registered,
     Finish, Move, Goto
<1>4. CASE SaveApplication(t)
  BY <1>1, <1>4 DEF Races, AfterMap, Saving, CriticalSave, SaveApplication,
     Save, InsertApp, ClearOids, InsertOid, SaveDone, SaveFails, PanicOnNilDb,
     Finish, Move, Goto
<1> QED
  BY <1>2, <1>3, <1>4 DEF Thread

(* A request that arrives, a step of Initialize or of a rediscovery.       *)
Others == \/ \E h \in Handlers : Request(h)
          \/ Boot
          \/ \E a \in Apps : Rediscover(a)
          \/ UNCHANGED vars

LEMMA OthersFrame ==
    ASSUME IndInv, Others
    PROVE  /\ UNCHANGED <<applications, master, conn, dbApps, dbOids, crashes>>
           /\ \A h \in Handlers :
                IF pc[h] = "ready"
                THEN /\ pc'[h] \in {"ready", "lookup", "unreg", "done"}
                     /\ reply'[h] \in {"none", "400"}
                ELSE /\ pc'[h] = pc[h] /\ reply'[h] = reply[h]
                     /\ base'[h] = base[h] /\ op'[h] = op[h]
<1>1. \A h \in Handlers : pc[h] = "ready" => reply[h] = "none"
  BY DEF IndInv, RequestInv
<1>2. ASSUME NEW g \in Handlers, Request(g)
      PROVE  /\ UNCHANGED <<dbVars, axVars, procVars, applications>>
             /\ \A h \in Handlers :
                  IF pc[h] = "ready"
                  THEN /\ pc'[h] \in {"ready", "lookup", "unreg", "done"}
                       /\ reply'[h] \in {"none", "400"}
                  ELSE /\ pc'[h] = pc[h] /\ reply'[h] = reply[h]
                       /\ base'[h] = base[h] /\ op'[h] = op[h]
  BY <1>1, <1>2, SetFacts DEF Request, Put, Delete, BadRequest, Move, Goto,
     Finish, reqVars, IndInv, TypeOK
<1>3. ASSUME Boot
      PROVE  /\ UNCHANGED <<applications, axVars, dbApps, dbOids, crashes>>
             /\ \A h \in Handlers : /\ pc'[h] = pc[h] /\ reply'[h] = reply[h]
                                    /\ base'[h] = base[h] /\ op'[h] = op[h]
  BY <1>3, SetFacts DEF Boot, Start, LoadNext, LoadDone, Goto, dbVars, reqVars,
     IndInv, TypeOK
<1>4. ASSUME (\E a \in Apps : Rediscover(a)) \/ UNCHANGED vars
      PROVE  /\ UNCHANGED <<dbVars, axVars, procVars, applications>>
             /\ UNCHANGED <<pc, reply, base, op>>
  BY <1>4 DEF Rediscover, LoopDiscovery, LoopPark, LoopTick, LoopEnter,
     LoopFail, LoopClear, LoopFill, LoopStep, vars, reqVars
<1> QED
  BY <1>1, <1>2, <1>3, <1>4 DEF Others, dbVars, axVars, procVars

(* Every step is of one of three kinds.                                    *)
LEMMA Steps ==
    ASSUME [Next]_vars
    PROVE  \/ Die
           \/ Others
           \/ \E t \in Threads : Thread(t) /\ ~Races(t)
BY DEF Next, Idle, Others, Crash, Races, MapRace

-----------------------------------------------------------------------------
(* The master knows the Application of a handler only once its PUT has     *)
(* registered it.                                                          *)
LEMMA MasterInvStep ==
    ASSUME IndInv, MasterInv, [Next]_vars PROVE MasterInv'
<1>1. CASE Die
  BY <1>1 DEF Die, AxDisconnectAll, MasterInv
<1>2. CASE Others
  BY <1>2, OthersFrame DEF MasterInv, AfterMap, Saving, CriticalSave
<1>3. ASSUME NEW t \in Threads, Thread(t), ~Races(t) PROVE MasterInv'
  <2> SUFFICES ASSUME NEW b \in Bases, NEW h \in Handlers, h \in master'[b]
               PROVE  /\ base'[h] = b /\ op'[h] = "PUT"
                      /\ pc'[h] \in AfterMap \cup {"done"}
    BY DEF MasterInv
  <2>1. base' = base /\ op' = op /\ (h # t => pc'[h] = pc[h])
    BY <1>3, ThreadFrame, SetFacts
  <2>2. CASE h \in master[b]
    BY <1>3, <2>1, <2>2, ProgramOrder DEF MasterInv
  <2>3. CASE h \notin master[b]
    <3>1. Attaches(t)
      BY <1>3, <2>3, ThreadEffects DEF Detaches, Drops, AxUnregister,
         AxCloseClient, IndInv, TypeOK, AxTypeOK
    <3>2. AppRegister(t)
      BY <3>1 DEF Attaches, AppRegister
    <3>3. h = App(t) /\ base[t] = b
      BY <2>3, <3>1, <3>2, AppRegisterFacts DEF Attaches, AxRegister, IndInv,
         TypeOK, AxTypeOK
    <3>4. h = t /\ t # Main /\ op[t] = "PUT"
      BY <3>2, <3>3, AppRegisterFacts, SetFacts DEF App
    <3>5. pc'[t] \in {"discover", "save"}
      BY <3>1, <3>4, SetFacts DEF Attaches, RegisterSession, RegisterFails,
         Registered, Finish, Goto, IndInv, TypeOK
    <3> QED
      BY <2>1, <3>3, <3>4, <3>5 DEF AfterMap, Saving
  <2> QED
    BY <2>2, <2>3
<1> QED
  BY <1>1, <1>2, <1>3, Steps
-----------------------------------------------------------------------------
(* A PUT that fails before saveApplication is in neither map nor master.   *)

(* While statements do not fail, 400 is what appRegister answers.          *)
LEMMA Rejects ==
    ASSUME IndInv, ~DbFails, NEW t \in Handlers, Thread(t), ~Races(t),
           reply'[t] = "400"
    PROVE  /\ pc[t] \in CriticalRegister /\ pc[t] # "discover"
           /\ applications' = applications /\ master' = master
<1>1. t \in Threads /\ t # Main
  BY SetFacts
<1>2. reply[t] # "400"
  <2>1. pc[t] # "done"
    BY <1>1 DEF Thread, Unregister, UnregisterEnter, Stop, UnregisterSession,
       CloseSession, CloseClient, DeleteApp, DeleteOids, AppRegister, Lookup,
       Create, OpenClient, OpenSession, RegisterSession, Discover,
       SaveApplication, Save, InsertApp, ClearOids, InsertOid, MapRace,
       SaveDone, Move
  <2> QED
    BY <2>1 DEF IndInv, RequestInv
<1>3. ~Unregister(t)
  BY <1>1, <1>2 DEF Unregister, UnregisterEnter, Stop, UnregisterSession,
     CloseSession, CloseClient, DeleteApp, DeleteOids, GiveUp, PanicOnNilDb,
     UnregisterReturns, Finish, Move, IndInv, TypeOK
<1>4. ~SaveApplication(t)
  BY <1>1, <1>2 DEF Races, SaveApplication, Save, InsertApp, ClearOids,
     InsertOid, SaveDone, SaveFails, PanicOnNilDb, Finish, Move, IndInv, TypeOK
<1>5. AppRegister(t)
  BY <1>3, <1>4 DEF Thread
<1> QED
  BY <1>1, <1>2, <1>5 DEF AppRegister, Lookup, Create, OpenClient, OpenSession,
     RegisterSession, Discover, RegisterFails, Registered, Finish, Move,
     axVars, CriticalRegister

LEMMA RejectedStep ==
    ASSUME IndInv, MasterInv, RejectedIsNotServed, [Next]_vars
    PROVE  RejectedIsNotServed'
<1> SUFFICES ASSUME ~DbFails, NEW h \in Handlers, reply'[h] = "400",
                    NEW b \in Bases
             PROVE  applications'[b] # h /\ h \notin master'[b]
  BY DEF RejectedIsNotServed
<1>1. CASE Die
  BY <1>1, SetFacts DEF Die, AxDisconnectAll, Apps
<1>2. CASE Others
  BY <1>2, OthersFrame DEF RejectedIsNotServed, IndInv, MapInv, MasterInv,
     AfterMap, Saving, CriticalSave
<1>3. ASSUME NEW t \in Threads, Thread(t), ~Races(t)
      PROVE  applications'[b] # h /\ h \notin master'[b]
  <2>1. CASE h = t
    <3>1. pc[h] \notin AfterMap \cup {"done"}
      BY <1>3, <2>1, Rejects DEF CriticalRegister, AfterMap, Saving,
         CriticalSave
    <3> QED
      BY <1>3, <2>1, <3>1, Rejects DEF IndInv, MapInv, MasterInv
  <2>2. CASE h # t
    <3>1. reply[h] = "400"
      BY <1>3, <2>2, ThreadFrame
    <3>2. applications[b] # h /\ h \notin master[b]
      BY <3>1 DEF RejectedIsNotServed
    <3>3. CASE Attaches(t)
      <4>1. App(t) # h /\ base[t] \in Bases
        <5>1. AppRegister(t)
          BY <3>3 DEF Attaches, AppRegister
        <5> QED
          BY <2>2, <5>1, AppRegisterFacts, SetFacts DEF App
      <4> QED
        BY <3>2, <3>3, <4>1 DEF Attaches, AxRegister, IndInv, TypeOK, AxTypeOK
    <3>4. CASE Detaches(t)
      BY <3>2, <3>4 DEF Detaches, AxUnregister, IndInv, TypeOK, AxTypeOK
    <3>5. CASE Drops(t)
      BY <3>2, <3>5, SetFacts DEF Drops, AxCloseClient, IndInv, TypeOK
    <3> QED
      BY <1>3, <3>2, <3>3, <3>4, <3>5, ThreadEffects
  <2> QED
    BY <2>1, <2>2
<1> QED
  BY <1>1, <1>2, <1>3, Steps

-----------------------------------------------------------------------------
(* The two tables.                                                         *)

(* What a goroutine does to the tables while no statement fails.           *)
LEMMA TableEffects ==
    ASSUME IndInv, ~DbFails, NEW t \in Threads, Thread(t), ~Races(t)
    PROVE  \/ dbApps' = dbApps /\ dbOids' = dbOids /\ pc[t] # "deleteOids"
           \/ /\ t \in Handlers /\ pc'[t] = "deleteOids"
              /\ dbApps' = [dbApps EXCEPT ![base[t]] = None]
              /\ dbOids' = dbOids /\ pc[t] = "deleteApp"
           \/ /\ dbOids' = [dbOids EXCEPT ![base[t]] = {}]
              /\ dbApps' = dbApps
           \/ /\ t \in Handlers /\ pc[t] = "insertApp"
              /\ dbApps' = [dbApps EXCEPT ![base[t]] = RowOf(t)]
              /\ dbOids' = dbOids
           \/ /\ t \in Handlers /\ pc[t] = "insertOids" /\ dbApps' = dbApps
              /\ \E o \in Oids :
                    dbOids' = [dbOids EXCEPT ![base[t]] = @ \cup {o}]
<1>1. pc \in [Threads -> Critical \cup Unlocked]
  BY DEF IndInv, TypeOK
<1>2. CASE Unregister(t)
  <2>1. t \in Handlers
    BY <1>2, UnregisterFacts
  <2> QED
    BY <1>1, <1>2, <2>1 DEF Unregister, UnregisterEnter, Stop,
       UnregisterSession, CloseSession, CloseClient, DeleteApp, DeleteOids,
       PanicOnNilDb, Move, Goto, DeleteAppRow, DeleteOidRows, dbVars
<1>3. CASE AppRegister(t)
  BY <1>3 DEF AppRegister, Lookup, Create, OpenClient, OpenSession,
     RegisterSession, Discover, Move, dbVars
<1>4. CASE t \in Handlers /\ SaveApplication(t)
  <2>1. rows[t] \subseteq Oids
    BY <1>4, SetFacts DEF IndInv, TypeOK
  <2> QED
    BY <1>4, <2>1 DEF Races, SaveApplication, Save, InsertApp, ClearOids,
       InsertOid, SaveDone, SaveFails, PanicOnNilDb, Move, InsertOrReplaceApp,
       DeleteOidRows, InsertOidRow, dbVars
<1> QED
  BY <1>2, <1>3, <1>4 DEF Thread

LEMMA OrphanInvStep ==
    ASSUME IndInv, OrphanInv, [Next]_vars PROVE OrphanInv'
<1> SUFFICES ASSUME ~DbFails, crashes' = 0, NEW b \in Bases,
                    dbOids'[b] # {}, dbApps'[b] = None
             PROVE  \E h \in Handlers : pc'[h] = "deleteOids" /\ base'[h] = b
  BY DEF OrphanInv, HasRow
<1> DEFINE Deleting == \E h \in Handlers : pc[h] = "deleteOids" /\ base[h] = b
<1>1. crashes = 0 /\ dbOids[b] # {} /\ dbApps[b] = None => Deleting
  BY DEF OrphanInv, HasRow
<1>2. CASE Crash
  BY <1>2 DEF Crash, IndInv, TypeOK
<1>3. ASSUME NEW t \in Handlers, MapRace(t) PROVE FALSE
  <2>1. dbOids[b] # {} /\ dbApps[b] = None /\ crashes = 0
    BY <1>3 DEF MapRace, Die
  <2>2. PICK h \in Handlers : pc[h] = "deleteOids"
    BY <1>1, <2>1
  <2> QED
    BY <1>3, <2>2, SetFacts DEF MapRace, IndInv, Mutex, Critical, CriticalSave,
       CriticalUnregister
<1>4. CASE Others
  BY <1>1, <1>4, OthersFrame
<1>5. ASSUME NEW t \in Threads, Thread(t), ~Races(t)
      PROVE  \E h \in Handlers : pc'[h] = "deleteOids" /\ base'[h] = b
  <2>1. /\ base' = base /\ crashes = 0
        /\ \A h \in Handlers : h # t => pc'[h] = pc[h]
    BY <1>5, ThreadFrame, SetFacts
  <2>2. ASSUME Deleting, pc[t] # "deleteOids" \/ base[t] # b
        PROVE  \E h \in Handlers : pc'[h] = "deleteOids" /\ base'[h] = b
    BY <2>1, <2>2
  <2>3. base[t] = b => dbOids' # [dbOids EXCEPT ![base[t]] = {}]
    BY DEF IndInv, TypeOK, DbTypeOK
  <2>4. CASE dbApps' = dbApps /\ dbOids' = dbOids /\ pc[t] # "deleteOids"
    BY <1>1, <2>1, <2>2, <2>4
  <2>5. CASE /\ t \in Handlers /\ pc'[t] = "deleteOids"
             /\ dbApps' = [dbApps EXCEPT ![base[t]] = None]
             /\ dbOids' = dbOids /\ pc[t] = "deleteApp"
    <3>1. CASE base[t] = b
      BY <2>1, <2>5, <3>1
    <3>2. CASE base[t] # b
      BY <1>1, <2>1, <2>2, <2>5, <3>2 DEF IndInv, TypeOK, DbTypeOK
    <3> QED
      BY <3>1, <3>2
  <2>6. CASE dbOids' = [dbOids EXCEPT ![base[t]] = {}] /\ dbApps' = dbApps
    BY <1>1, <2>1, <2>2, <2>3, <2>6 DEF IndInv, TypeOK, DbTypeOK
  <2>7. CASE /\ t \in Handlers /\ pc[t] = "insertApp"
             /\ dbApps' = [dbApps EXCEPT ![base[t]] = RowOf(t)]
             /\ dbOids' = dbOids
    <3>1. SaveApplication(t) /\ t \in Threads
      BY <1>5, <2>7, SetFacts DEF Thread, SaveApplication, Unregister,
         UnregisterEnter, Stop, UnregisterSession, CloseSession, CloseClient,
         DeleteApp, DeleteOids, AppRegister, Lookup, Create, OpenClient,
         OpenSession, RegisterSession, Discover, Move
    <3>2. RowOf(t) # None
      BY <2>7, <3>1, SaveFacts DEF RowOf, Form, AppRow
    <3>3. base[t] # b
      BY <2>7, <3>2 DEF IndInv, TypeOK, DbTypeOK
    <3> QED
      BY <1>1, <2>1, <2>2, <2>7, <3>3 DEF IndInv, TypeOK, DbTypeOK
  <2>8. CASE /\ t \in Handlers /\ pc[t] = "insertOids" /\ dbApps' = dbApps
             /\ \E o \in Oids :
                   dbOids' = [dbOids EXCEPT ![base[t]] = @ \cup {o}]
    <3>1. base[t] # b
      BY <2>8, SaveInvHasRow DEF HasRow
    <3> QED
      BY <1>1, <2>1, <2>2, <2>8, <3>1 DEF IndInv, TypeOK, DbTypeOK
  <2> QED
    BY <1>5, <2>4, <2>5, <2>6, <2>7, <2>8, TableEffects
<1> QED
  BY <1>2, <1>3, <1>4, <1>5 DEF Next, Idle, Others, Races
-----------------------------------------------------------------------------
(* The map and the master.                                                 *)

(* Without failures Unregister goes on from the session to the map.        *)
LEMMA UnregisterGoesOn ==
    ASSUME IndInv, Live, NEW t \in Handlers, Thread(t), ~Races(t),
           pc[t] \in {"closeSession", "closeClient"}
    PROVE  Drops(t) \/ pc'[t] = "closeClient"
<1>1. t \in Threads /\ pc \in [Threads -> Critical \cup Unlocked]
  BY SetFacts DEF IndInv, TypeOK
<1> QED
  BY <1>1 DEF Live, Thread, Unregister, UnregisterEnter, Stop,
     UnregisterSession, CloseSession, CloseClient, DeleteApp, DeleteOids,
     AppRegister, Lookup, Create, OpenClient, OpenSession, RegisterSession,
     Discover, Races, SaveApplication, Save, InsertApp, ClearOids, InsertOid,
     SaveDone, Move, Goto, Drops

LEMMA AgreeInvStep ==
    ASSUME IndInv, AgreeInv, [Next]_vars PROVE AgreeInv'
<1> DEFINE Agree(b) ==
      master[b] = IF applications[b] = None THEN {} ELSE {applications[b]}
<1> SUFFICES ASSUME Live, MasterRejectsDuplicates, NEW b \in Bases
             PROVE  \/ Agree(b)'
                    \/ \E h \in Handlers :
                          /\ pc'[h] \in {"closeSession", "closeClient"}
                          /\ base'[h] = b
  BY DEF AgreeInv, Live
<1>1. \/ Agree(b)
      \/ \E h \in Handlers :
            pc[h] \in {"closeSession", "closeClient"} /\ base[h] = b
  BY DEF AgreeInv
<1>2. CASE Die
  BY <1>2 DEF Die, AxDisconnectAll
<1>3. CASE Others
  BY <1>1, <1>3, OthersFrame
<1>4. ASSUME NEW t \in Threads, Thread(t), ~Races(t)
      PROVE  \/ Agree(b)'
             \/ \E h \in Handlers :
                   /\ pc'[h] \in {"closeSession", "closeClient"}
                   /\ base'[h] = b
  <2>1. base' = base /\ \A h \in Handlers : h # t => pc'[h] = pc[h]
    BY <1>4, ThreadFrame, SetFacts
  <2>2. CASE Attaches(t)
    <3>1. AppRegister(t) /\ pc[t] = "register" /\ MayRegister(base[t])
      BY <2>2 DEF Attaches, AppRegister
    <3>2. base[t] \in Bases /\ App(t) \in Apps /\ App(t) # None
      BY <3>1, AppRegisterFacts, SetFacts
    <3>3. CASE base[t] = b
      <4>1. master[b] = {}
        BY <3>1, <3>3 DEF MayRegister
      <4> QED
        BY <2>2, <3>2, <3>3, <4>1 DEF Attaches, AxRegister, IndInv, TypeOK,
           AxTypeOK
    <3>4. CASE base[t] # b
      <4>1. master'[b] = master[b] /\ applications'[b] = applications[b]
        BY <2>2, <3>4 DEF Attaches, AxRegister, IndInv, TypeOK, AxTypeOK
      <4> QED
        BY <1>1, <2>1, <3>4, <4>1
    <3> QED
      BY <3>3, <3>4
  <2>3. CASE Detaches(t)
    <3>1. t \in Handlers
      BY <2>3, UnregisterFacts DEF Detaches, Unregister
    <3>2. CASE base[t] = b
      BY <2>1, <2>3, <3>1, <3>2 DEF Detaches
    <3>3. CASE base[t] # b
      <4>1. master'[b] = master[b] /\ applications'[b] = applications[b]
        BY <2>3, <3>3 DEF Detaches, AxUnregister, IndInv, TypeOK, AxTypeOK
      <4> QED
        BY <1>1, <2>1, <3>3, <4>1
    <3> QED
      BY <3>2, <3>3
  <2>4. CASE Drops(t)
    <3>1. t \in Handlers /\ base[t] \in Bases /\ pc[t] = "closeClient"
      BY <2>4, UnregisterFacts DEF Drops, Unregister
    <3>2. master' = master
      BY <2>4 DEF Drops, AxCloseClient
    <3>3. CASE base[t] = b
      <4>1. master[b] = {}
        BY <3>1, <3>3 DEF IndInv, UnregisterInv
      <4> QED
        BY <2>4, <3>2, <3>3, <4>1 DEF Drops, IndInv, TypeOK
    <3>4. CASE base[t] # b
      <4>1. applications'[b] = applications[b]
        BY <2>4, <3>4 DEF Drops, IndInv, TypeOK
      <4> QED
        BY <1>1, <2>1, <3>2, <3>4, <4>1
    <3> QED
      BY <3>3, <3>4
  <2>5. CASE ~Drops(t) /\ applications' = applications /\ master' = master
    BY <1>1, <1>4, <2>1, <2>5, UnregisterGoesOn
  <2> QED
    BY <1>4, <2>2, <2>3, <2>4, <2>5, ThreadEffects
<1> QED
  BY <1>2, <1>3, <1>4, Steps

(* A goroutine that may register finds the base oid free in the map.       *)
LEMMA FreeToRegister ==
    ASSUME IndInv, AgreeInv, Live, MasterRejectsDuplicates,
           NEW t \in Threads, pc[t] = "register", base[t] \in Bases
    PROVE  MayRegister(base[t]) <=> applications[base[t]] = None
<1>1. \A h \in Handlers : pc[h] \notin {"closeSession", "closeClient"}
  <2>1. m = t
    BY DEF IndInv, Mutex, Critical, CriticalRegister
  <2> QED
    BY <2>1, SetFacts DEF IndInv, Mutex, Critical, CriticalUnregister
<1> QED
  BY <1>1 DEF AgreeInv, MayRegister

-----------------------------------------------------------------------------
(* The clients.                                                            *)

(* What a goroutine does to the clients and sessions.                      *)
LEMMA ConnEffects ==
    ASSUME IndInv, NEW t \in Threads, Thread(t), ~Races(t)
    PROVE  \/ conn' = conn
           \/ /\ pc[t] = "openClient" /\ pc'[t] = "openSession"
              /\ SetConn(App(t), "client")
           \/ /\ pc[t] = "openSession" /\ pc'[t] = "register"
              /\ SetConn(App(t), "session")
           \/ Attaches(t) \/ Detaches(t) \/ Drops(t)
           \/ /\ CloseSession(t) /\ AxCloseSession(Current(t))
              /\ pc[t] = "closeSession"
<1>1. pc \in [Threads -> Critical \cup Unlocked]
  BY DEF IndInv, TypeOK
<1>2. CASE Attaches(t) \/ Detaches(t) \/ Drops(t)
  BY <1>2
<1>3. CASE UNCHANGED axVars
  BY <1>3 DEF axVars
<1>4. CASE Unregister(t)
  BY <1>1, <1>4 DEF Unregister, UnregisterEnter, Stop, UnregisterSession,
     CloseSession, CloseClient, DeleteApp, DeleteOids, GiveUp, Move, Goto,
     axVars, Detaches, Drops
<1>5. CASE AppRegister(t)
  <2>1. CASE RegisterSession(t)
    BY <1>1, <2>1 DEF RegisterSession, RegisterFails, Registered, Finish, Goto,
       axVars, Attaches
  <2>2. CASE ~RegisterSession(t)
    BY <1>1, <1>5, <2>2 DEF AppRegister, Lookup, Create, OpenClient,
       OpenSession, Discover, RegisterFails, AxOpenClient, AxOpenSession, Move,
       Goto, axVars
  <2> QED
    BY <2>1, <2>2
<1>6. CASE t \in Handlers /\ SaveApplication(t)
  BY <1>6 DEF Races, SaveApplication, Save, InsertApp, ClearOids, InsertOid,
     SaveDone, axVars
<1> QED
  BY <1>4, <1>5, <1>6 DEF Thread

(* An Application whose registration does not come through is rejected.    *)
LEMMA OpeningFails ==
    ASSUME IndInv, NEW t \in Handlers, Thread(t), ~Races(t), pc[t] \in Opening
    PROVE  \/ pc'[t] \in Opening
           \/ Attaches(t)
           \/ pc'[t] = "done" /\ reply'[t] = "400"
<1>1. /\ t \in Threads /\ t # Main
      /\ pc \in [Threads -> Critical \cup Unlocked]
      /\ reply \in [Handlers -> Replies]
  BY SetFacts DEF IndInv, TypeOK
<1>2. OpenSession(t) \/ RegisterSession(t)
  BY DEF Opening, Thread, Unregister, UnregisterEnter, Stop, UnregisterSession,
     CloseSession, CloseClient, DeleteApp, DeleteOids, AppRegister, Lookup,
     Create, OpenClient, Discover, Races, SaveApplication, Save, InsertApp,
     ClearOids, InsertOid, SaveDone, Move
<1>3. CASE OpenSession(t)
  BY <1>1, <1>3 DEF OpenSession, RegisterFails, Finish, Move, Goto, Opening
<1>4. CASE RegisterSession(t)
  BY <1>1, <1>4 DEF RegisterSession, RegisterFails, Registered, Finish, Goto,
     Attaches
<1> QED
  BY <1>2, <1>3, <1>4

LEMMA OpenInvStep ==
    ASSUME IndInv, AgreeInv, OpenInv, [Next]_vars PROVE OpenInv'
<1> DEFINE Open(h) ==
      conn[h] # "none" =>
         \/ pc[h] \in Opening
         \/ /\ pc[h] \in AfterMap \cup {"done"}
            /\ conn[h] = "closed" \/ applications[base[h]] = h
                                  \/ reply[h] = "400"
<1> SUFFICES ASSUME Live, MasterRejectsDuplicates, NEW h \in Handlers
             PROVE  Open(h)'
  BY DEF OpenInv, Live
<1>1. Open(h)
  BY DEF OpenInv
<1>2. CASE Die
  BY <1>2, SetFacts DEF Die, AxDisconnectAll
<1>3. CASE Others
  BY <1>1, <1>3, OthersFrame DEF Opening, AfterMap, Saving, CriticalSave
<1>4. ASSUME NEW t \in Threads, Thread(t), ~Races(t), h = t PROVE Open(h)'
  <2>1. base' = base
    BY <1>4, ThreadFrame
  <2>2. /\ h # Main /\ h \in Apps /\ App(t) = h
        /\ conn \in [Apps -> ConnStates]
    BY <1>4, SetFacts DEF App, IndInv, TypeOK, AxTypeOK
  <2>3. CASE Attaches(t)
    <3>1. base[t] \in Bases
      BY <2>3, AppRegisterFacts DEF Attaches, AppRegister
    <3>2. applications'[base[t]] = h
      BY <2>2, <2>3, <3>1 DEF Attaches, IndInv, TypeOK
    <3>3. pc'[t] \in {"discover", "save"}
      BY <1>4, <2>2, <2>3 DEF Attaches, RegisterSession, RegisterFails,
         Registered, Finish, Goto, IndInv, TypeOK
    <3> QED
      BY <1>4, <2>1, <3>2, <3>3 DEF AfterMap, Saving
  <2>4. CASE pc[t] \in Opening /\ ~Attaches(t)
    BY <1>4, <2>4, OpeningFails
  <2>5. CASE pc[t] = "openClient"
    BY <1>1, <1>4, <2>2, <2>5, ConnEffects DEF SetConn, Attaches, Detaches,
       Drops, Opening, AfterMap, Saving, CriticalSave
  <2>6. CASE pc[t] \in AfterMap \cup {"done"}
    <3>1. conn' = conn /\ applications' = applications
      BY <1>4, <2>6, ConnEffects, ThreadEffects DEF Attaches, Detaches, Drops,
         AfterMap, Saving, CriticalSave
    <3>2. pc'[t] \in AfterMap \cup {"done"}
      BY <1>4, <2>6, ProgramOrder
    <3>3. reply[h] = "400" => reply'[h] = "400"
      <4>1. pc[h] # "done"
        BY <1>4, SetFacts DEF Thread, Unregister, UnregisterEnter, Stop,
           UnregisterSession, CloseSession, CloseClient, DeleteApp, DeleteOids,
           AppRegister, Lookup, Create, OpenClient, OpenSession,
           RegisterSession, Discover, Races, SaveApplication, Save, InsertApp,
           ClearOids, InsertOid, SaveDone, Move
      <4> QED
        BY <4>1 DEF IndInv, RequestInv
    <3> QED
      BY <1>1, <1>4, <2>1, <2>6, <3>1, <3>2, <3>3 DEF Opening, AfterMap,
         Saving, CriticalSave
  <2>7. CASE pc[t] \notin
               Opening \cup {"openClient"} \cup AfterMap \cup {"done"}
    <3>1. conn[h] = "none"
      BY <1>1, <1>4, <2>7
    <3>2. \A b \in Bases : applications[b] # h
      BY <1>4, <2>7 DEF IndInv, MapInv
    <3>3. conn' = conn \/ SetConn(Current(t), "unregistered")
            \/ SetConn(Current(t), "sessionClosed")
            \/ SetConn(Current(t), "closed")
      BY <1>4, <2>7, ConnEffects DEF Opening, Attaches, Detaches, Drops,
         AxUnregister, AxCloseSession, AxCloseClient
    <3>4. CASE conn' = conn
      BY <3>1, <3>4
    <3>5. CASE conn' # conn
      <4>1. t \in Handlers /\ base[t] \in Bases
        <5>1. Unregister(t)
          BY <1>4, <2>7, <3>5, ConnEffects DEF Opening, Attaches, Detaches,
             Drops, Unregister
        <5> QED
          BY <5>1, UnregisterFacts
      <4> QED
        BY <1>4, <2>2, <3>1, <3>2, <3>3, <3>5, <4>1 DEF SetConn, Current
    <3> QED
      BY <3>4, <3>5
  <2> QED
    BY <2>3, <2>4, <2>5, <2>6, <2>7
<1>5. ASSUME NEW t \in Threads, Thread(t), ~Races(t), h # t PROVE Open(h)'
  <2>1. base' = base /\ pc'[h] = pc[h] /\ reply'[h] = reply[h]
    BY <1>5, ThreadFrame, SetFacts
  <2>2. conn \in [Apps -> ConnStates] /\ h \in Apps
    BY SetFacts DEF IndInv, TypeOK, AxTypeOK
  <2>3. CASE Attaches(t)
    <3>1. base[t] \in Bases /\ pc[t] = "register" /\ MayRegister(base[t])
      BY <2>3, AppRegisterFacts DEF Attaches, AppRegister
    <3>2. applications[base[t]] = None
      BY <1>5, <3>1, FreeToRegister
    <3>3. conn'[h] = conn[h]
      <4>1. App(t) # h
        BY <1>5, <3>1, SetFacts DEF App
      <4> QED
        BY <2>2, <2>3, <4>1 DEF Attaches, AxRegister, SetConn
    <3>4. applications[base[h]] = h => applications'[base[h]] = h
      BY <2>3, <3>2, SetFacts DEF Attaches, IndInv, TypeOK
    <3> QED
      BY <1>1, <2>1, <3>3, <3>4
  <2>4. CASE Drops(t)
    <3>1. t \in Handlers /\ base[t] \in Bases
      BY <2>4, UnregisterFacts DEF Drops, Unregister
    <3>2. CASE Current(t) = h
      <4>1. pc[h] \in AfterMap \cup {"done"}
        BY <3>1, <3>2 DEF Current, IndInv, MapInv
      <4>2. conn'[h] = "closed"
        BY <2>2, <2>4, <3>2 DEF Drops, AxCloseClient, SetConn
      <4> QED
        BY <2>1, <4>1, <4>2
    <3>3. CASE Current(t) # h
      <4>1. conn'[h] = conn[h]
        BY <2>2, <2>4, <3>3 DEF Drops, AxCloseClient, SetConn
      <4>2. applications[base[h]] = h => applications'[base[h]] = h
        BY <2>4, <3>3 DEF Drops, Current, IndInv, TypeOK
      <4> QED
        BY <1>1, <2>1, <4>1, <4>2
    <3> QED
      BY <3>2, <3>3
  <2>5. CASE \/ Detaches(t)
             \/ /\ CloseSession(t) /\ AxCloseSession(Current(t))
                /\ pc[t] = "closeSession"
    <3>1. t \in Handlers /\ base[t] \in Bases
      BY <2>5, UnregisterFacts DEF Detaches, Unregister
    <3>2. applications' = applications
      BY <2>5 DEF Detaches, CloseSession, GiveUp
    <3>3. CASE Current(t) = h
      BY <2>1, <3>1, <3>2, <3>3 DEF Current, IndInv, MapInv
    <3>4. CASE Current(t) # h
      <4>1. conn'[h] = conn[h]
        BY <2>2, <2>5, <3>4 DEF Detaches, AxUnregister, AxCloseSession, SetConn
      <4> QED
        BY <1>1, <2>1, <3>2, <4>1
    <3> QED
      BY <3>3, <3>4
  <2>6. CASE /\ applications' = applications
             /\ pc[t] \in {"openClient", "openSession"}
             /\ \E s : SetConn(App(t), s)
    <3>1. App(t) # h
      <4>1. AppRegister(t)
        BY <1>5, <2>6 DEF Thread, Unregister, UnregisterEnter, Stop,
           UnregisterSession, CloseSession, CloseClient, DeleteApp, DeleteOids,
           SaveApplication, Save, InsertApp, ClearOids, InsertOid, SaveDone,
           Races, Move
      <4> QED
        BY <1>5, <4>1, AppRegisterFacts, SetFacts DEF App
    <3>2. conn'[h] = conn[h]
      BY <2>2, <2>6, <3>1 DEF SetConn
    <3> QED
      BY <1>1, <2>1, <2>6, <3>2
  <2>7. CASE applications' = applications /\ conn' = conn
    BY <1>1, <2>1, <2>7
  <2> QED
    BY <1>5, <2>3, <2>4, <2>5, <2>6, <2>7, ConnEffects, ThreadEffects
<1> QED
  BY <1>2, <1>3, <1>4, <1>5, Steps
-----------------------------------------------------------------------------
(* The boot.                                                               *)

(* While Initialize runs nothing else changes the map or the tables.       *)
LEMMA LoadingAlone ==
    ASSUME IndInv, mode = "loading", NEW t \in Threads, Thread(t)
    PROVE  t = Main /\ AppRegister(Main) /\ ~Races(t)
<1>1. t \in Handlers => pc[t] \in {"ready", "done"}
  BY DEF IndInv, LoadInv, InFlight
<1>2. t = Main
  BY <1>1, SetFacts DEF Thread, Unregister, UnregisterEnter, Stop,
     UnregisterSession, CloseSession, CloseClient, DeleteApp, DeleteOids,
     AppRegister, Lookup, Create, OpenClient, OpenSession, RegisterSession,
     Discover, SaveApplication, Save, InsertApp, ClearOids, InsertOid, MapRace,
     SaveDone, Move
<1> QED
  BY <1>2, SetFacts, UnregisterFacts DEF Thread, Races

(* A step of appRegister for Initialize, while no call fails.              *)
LEMMA RestoreStep ==
    ASSUME IndInv, AgreeInv, LoadedInv, Live, ~DbFails, mode = "loading",
           AppRegister(Main)
    PROVE  /\ base[Main] \in Loadable
           /\ \/ pc'[Main] \notin {"ready", "discover"}
                 /\ pc[Main] \notin {"ready", "discover"}
                 /\ applications' = applications
              \/ pc'[Main] \in {"ready", "discover"}
                 /\ pc[Main] \notin {"ready", "discover"}
                 /\ applications' =
                       [applications EXCEPT ![base[Main]] = base[Main]]
              \/ pc'[Main] = "ready" /\ pc[Main] = "discover"
                 /\ applications' = applications
<1>1. /\ Main \in Threads /\ base[Main] \in Bases /\ pc[Main] # "ready"
      /\ App(Main) = base[Main] /\ pc \in [Threads -> Critical \cup Unlocked]
  BY SetFacts, AppRegisterFacts DEF InFlight, App, IndInv, TypeOK
<1>2. pc[Main] # "discover" => applications[base[Main]] = None
  BY <1>1 DEF IndInv, LoadInv
<1>3. base[Main] \in Loadable
  BY <1>1 DEF LoadedInv
<1>4. CASE RegisterSession(Main)
  <2>1. pc[Main] = "register" /\ MayRegister(base[Main])
    BY <1>1, <1>2, <1>4, FreeToRegister DEF RegisterSession, MayRegister
  <2> QED
    BY <1>1, <1>3, <1>4, <2>1 DEF RegisterSession, Live, Registered, Finish,
       Goto
<1>5. CASE ~RegisterSession(Main)
  BY <1>1, <1>2, <1>3, <1>5 DEF AppRegister, Lookup, Create, OpenClient,
     OpenSession, Discover, Live, Current, Registered, Finish, Move, Goto
<1> QED
  BY <1>4, <1>5

LEMMA LoadedInvStep ==
    ASSUME IndInv, AgreeInv, LoadedInv, [Next]_vars PROVE LoadedInv'
<1> SUFFICES ASSUME Live, ~DbFails, mode' = "loading"
             PROVE  /\ todo' \subseteq Loadable'
                    /\ pc'[Main] # "ready" => base'[Main] \in Loadable'
                    /\ \A b \in Bases :
                          applications'[b] =
                             IF b \in Loadable' \ (todo' \cup Restoring')
                             THEN b ELSE None
  BY DEF LoadedInv, Live
<1>1. ~Die
  BY DEF Die
<1>2. CASE Start
  <2>1. pc[Main] = "ready" /\ \A b \in Bases : applications[b] = None
    BY <1>2 DEF Start, IndInv, LoadInv
  <2>2. todo' = Loadable /\ Loadable' = Loadable
    BY <1>2 DEF Start, Loadable, HasRow
  <2>3. applications' = applications /\ pc' = pc
    BY <1>2 DEF Start
  <2> QED
    BY <2>1, <2>2, <2>3
<1>3. ASSUME ~Start PROVE mode = "loading"
  BY <1>1, <1>3, Steps, ThreadFrame DEF Others, Request, Put, Delete,
     BadRequest, Boot, LoadNext, LoadDone, Rediscover, LoopDiscovery, LoopPark,
     LoopTick, LoopEnter, LoopFail, LoopClear, LoopFill, LoopStep, procVars,
     vars
<1>4. ASSUME NEW b \in Bases, LoadNext(b)
      PROVE  /\ todo' \subseteq Loadable'
             /\ base'[Main] \in Loadable'
             /\ \A c \in Bases :
                   applications'[c] =
                      IF c \in Loadable' \ (todo' \cup Restoring')
                      THEN c ELSE None
  <2>1. /\ mode = "loading" /\ pc[Main] = "ready" /\ b \in todo
        /\ todo' = todo \ {b} /\ applications' = applications
        /\ Loadable' = Loadable
    BY <1>4 DEF LoadNext, dbVars, Loadable, HasRow
  <2>2. pc'[Main] = "lookup" /\ base'[Main] = b
    BY <1>4, SetFacts DEF LoadNext, Goto, IndInv, TypeOK
  <2>3. Restoring = {} /\ Restoring' = {b}
    BY <2>1, <2>2 DEF Restoring
  <2> QED
    BY <2>1, <2>2, <2>3 DEF LoadedInv
<1>5. ASSUME NEW t \in Threads, Thread(t)
      PROVE  /\ todo' \subseteq Loadable'
             /\ pc'[Main] # "ready" => base'[Main] \in Loadable'
             /\ \A b \in Bases :
                   applications'[b] =
                      IF b \in Loadable' \ (todo' \cup Restoring')
                      THEN b ELSE None
  <2>1. ~Start
    BY <1>5, ThreadFrame, LoadingAlone DEF Start, IndInv, LoadInv, Thread,
       Races, InFlight, Unregister, UnregisterEnter, Stop, UnregisterSession,
       CloseSession, CloseClient, DeleteApp, DeleteOids, AppRegister, Lookup,
       Create, OpenClient, OpenSession, RegisterSession, Discover,
       SaveApplication, Save, InsertApp, ClearOids, InsertOid, MapRace,
       SaveDone, procVars
  <2>2. mode = "loading"
    BY <1>3, <2>1
  <2>3. t = Main /\ AppRegister(Main) /\ ~Races(t)
    BY <1>5, <2>2, LoadingAlone
  <2>4. base' = base /\ todo' = todo
    BY <1>5, <2>3, ThreadFrame
  <2>5. Loadable' = Loadable
    BY <2>3 DEF AppRegister, Lookup, Create, OpenClient, OpenSession,
       RegisterSession, Discover, dbVars, Loadable, HasRow
  <2>6. base[Main] \in Bases \ todo
    BY <2>3, AppRegisterFacts DEF IndInv, LoadInv, InFlight
  <2>7. applications \in [Bases -> Apps \cup {None}]
    BY DEF IndInv, TypeOK
  <2> QED
    BY <2>2, <2>3, <2>4, <2>5, <2>6, <2>7, RestoreStep
       DEF LoadedInv, Restoring
<1>6. ASSUME (\E h \in Handlers : Request(h)) \/ LoadDone
               \/ (\E a \in Apps : Rediscover(a)) \/ UNCHANGED vars
      PROVE  /\ todo' \subseteq Loadable'
             /\ pc'[Main] # "ready" => base'[Main] \in Loadable'
             /\ \A b \in Bases :
                   applications'[b] =
                      IF b \in Loadable' \ (todo' \cup Restoring')
                      THEN b ELSE None
  <2>1. ~LoadDone /\ \A h \in Handlers : ~Request(h)
    BY DEF LoadDone, Request, Put, Delete, BadRequest, procVars
  <2>2. UNCHANGED <<dbVars, procVars, reqVars, pc, applications>>
    BY <1>6, <2>1 DEF Rediscover, LoopDiscovery, LoopPark, LoopTick, LoopEnter,
       LoopFail, LoopClear, LoopFill, LoopStep, vars
  <2> QED
    BY <2>2 DEF LoadedInv, Restoring, Loadable, HasRow, dbVars, procVars,
       reqVars
<1> QED
  BY <1>1, <1>2, <1>4, <1>5, <1>6, Steps DEF Others, Boot

-----------------------------------------------------------------------------
(* The rediscoveries.                                                      *)

Creates(t) ==
    /\ pc[t] = "create" /\ pc'[t] = "openClient"
    /\ oids' = [oids EXCEPT ![App(t)] = form[App(t)].oids]
    /\ loop' = loop

Discovers(t) ==
    /\ pc[t] = "discover" /\ pc'[t] \in {"save", "ready"}
    /\ \/ \E d \in Discoveries : oids' = [oids EXCEPT ![App(t)] = d]
       \/ oids' = oids
    /\ \E to \in {loop[App(t)], "looping"} :
          loop' = [loop EXCEPT ![App(t)] = to]

Stops(a) ==
    /\ loop[a] = "parked" /\ loop' = [loop EXCEPT ![a] = "quit"]
    /\ oids' = oids

(* What a goroutine does to the oids and loops of Applications.            *)
LEMMA LoopEffects ==
    ASSUME IndInv, NEW t \in Threads, Thread(t), ~Races(t)
    PROVE  \/ AppRegister(t) /\ (Creates(t) \/ Discovers(t))
           \/ \E a \in Apps : Stops(a)
           \/ oids' = oids /\ loop' = loop
<1>1. pc \in [Threads -> Critical \cup Unlocked] /\ loop \in [Apps -> Loops]
  BY DEF IndInv, TypeOK
<1>2. CASE Unregister(t)
  <2>1. CASE Stop(t)
    <3>1. Current(t) \in Apps
      <4>1. t \in Handlers /\ base[t] \in Bases /\ Current(t) # None
        BY <1>2, <2>1, UnregisterFacts DEF Stop, Move, IndInv, UnregisterInv
      <4> QED
        BY <4>1 DEF Current, IndInv, TypeOK
    <3>2. CASE loop[Current(t)] = "parked"
      BY <2>1, <3>1, <3>2 DEF Stop, Stops
    <3>3. CASE loop[Current(t)] # "parked"
      BY <1>1, <2>1, <3>1, <3>3 DEF Stop
    <3> QED
      BY <3>2, <3>3
  <2>2. CASE ~Stop(t)
    BY <1>2, <2>2 DEF Unregister, UnregisterEnter, UnregisterSession,
       CloseSession, CloseClient, DeleteApp, DeleteOids, appVars
  <2> QED
    BY <2>1, <2>2
<1>3. CASE AppRegister(t)
  <2>1. CASE Create(t)
    BY <1>1, <1>3, <2>1 DEF Create, Creates, Move, Goto
  <2>2. CASE Discover(t)
    BY <1>1, <1>3, <2>2 DEF Discover, Discovers, Registered, Finish, Goto
  <2>3. CASE ~Create(t) /\ ~Discover(t)
    BY <1>3, <2>3 DEF AppRegister, Lookup, OpenClient, OpenSession,
       RegisterSession, appVars
  <2> QED
    BY <2>1, <2>2, <2>3
<1>4. CASE t \in Handlers /\ SaveApplication(t)
  BY <1>4 DEF Races, SaveApplication, Save, InsertApp, ClearOids, InsertOid,
     SaveDone, appVars
<1> QED
  BY <1>2, <1>3, <1>4 DEF Thread

(* Until appRegister returns it the Application has no rediscovery.        *)
LEMMA NotYetLooping ==
    ASSUME IndInv, LoopInv, NEW t \in Threads, AppRegister(t)
    PROVE  loop[App(t)] = "off"
<1>1. pc[t] \notin Saving \cup {"ready", "done"}
  BY DEF AppRegister, Lookup, Create, OpenClient, OpenSession,
     RegisterSession, Discover, Move, Saving, CriticalSave
<1>2. base[t] \in Bases /\ (t # Main => t \in Handlers)
  BY AppRegisterFacts
<1> QED
  BY <1>1, <1>2 DEF App, LoopInv

LEMMA LoopInvStep ==
    ASSUME IndInv, LoopInv, [Next]_vars PROVE LoopInv'
<1>1. CASE Die
  BY <1>1, SetFacts DEF Die, LoopInv
<1>2. ASSUME NEW t \in Threads, Thread(t), ~Races(t) PROVE LoopInv'
  <2>1. /\ base' = base /\ mode' = mode /\ todo' = todo
        /\ \A u \in Threads : u # t => pc'[u] = pc[u]
    BY <1>2, ThreadFrame
  <2>2. \A h \in Handlers : pc[h] \in Saving \cup {"done"} =>
                               pc'[h] \in Saving \cup {"done"}
    <3> SUFFICES ASSUME NEW h \in Handlers, pc[h] \in Saving \cup {"done"}
                 PROVE  pc'[h] \in Saving \cup {"done"}
      OBVIOUS
    <3>1. CASE h = t
      <4>1. pc'[t] \in AfterMap \cup {"done"}
        BY <1>2, <3>1, ProgramOrder DEF AfterMap
      <4>2. pc'[t] # "discover"
        BY <1>2, <3>1, SetFacts DEF Thread, Unregister, UnregisterEnter, Stop,
           UnregisterSession, CloseSession, CloseClient, DeleteApp,
           DeleteOids, AppRegister, Lookup, Create, OpenClient, OpenSession,
           RegisterSession, Discover, Races, Saving, CriticalSave,
           SaveApplication, Save, InsertApp, ClearOids, InsertOid, SaveDone,
           SaveFails, PanicOnNilDb, Finish, Move, Goto, IndInv, TypeOK
      <4> QED
        BY <3>1, <4>1, <4>2 DEF AfterMap
    <3>2. CASE h # t
      BY <2>1, <3>2, SetFacts
    <3> QED
      BY <3>1, <3>2
  <2>3. pc[Main] = "ready" => pc'[Main] = "ready"
    BY <1>2, <2>1, SetFacts DEF Thread, Unregister, UnregisterEnter, Stop,
       UnregisterSession, CloseSession, CloseClient, DeleteApp, DeleteOids,
       AppRegister, Lookup, Create, OpenClient, OpenSession, RegisterSession,
       Discover, Move
  <2>4. loop \in [Apps -> Loops]
    BY DEF IndInv, TypeOK
  <2>5. CASE \A a \in Apps : loop'[a] # "off" => loop[a] # "off"
    BY <2>1, <2>2, <2>3, <2>5, SetFacts DEF LoopInv
  <2>6. CASE AppRegister(t) /\ Discovers(t)
    <3>1. \A a \in Apps : a # App(t) => loop'[a] = loop[a]
      BY <2>4, <2>6 DEF Discovers
    <3>2. CASE t = Main
      <4>1. /\ base[Main] \in Bases /\ base[Main] \notin todo
            /\ App(t) = base[Main] /\ mode # "down"
        BY <2>6, <3>2, AppRegisterFacts DEF App, InFlight, IndInv, LoadInv
      <4>2. pc'[Main] = "ready"
        <5>1. pc[Main] = "discover" /\ Main \notin Handlers
          BY <2>6, <3>2, SetFacts DEF Discovers
        <5>2. Discover(t)
          BY <2>6, <3>2, <5>1 DEF AppRegister, Lookup, Create, OpenClient,
             OpenSession, RegisterSession, Move
        <5> QED
          BY <3>2, <5>2, SetFacts DEF Discover, Registered, Finish, Goto,
             IndInv, TypeOK
      <4>3. \A h \in Handlers : loop'[h] = loop[h]
        BY <3>1, <4>1, SetFacts
      <4> QED
        BY <2>1, <2>2, <3>1, <4>1, <4>2, <4>3, SetFacts DEF LoopInv
    <3>3. CASE t # Main
      <4>1. t \in Handlers /\ App(t) = t
        BY <3>3, SetFacts DEF App
      <4>2. pc'[t] \in Saving \cup {"done"}
        <5>1. pc[t] = "discover"
          BY <2>6 DEF Discovers
        <5>2. Discover(t)
          BY <2>6, <5>1 DEF AppRegister, Lookup, Create, OpenClient,
             OpenSession, RegisterSession, Move
        <5> QED
          BY <3>3, <5>2 DEF Discover, Registered, Goto, Saving, IndInv, TypeOK
      <4>3. \A b \in Bases : loop'[b] = loop[b]
        BY <3>1, <4>1, SetFacts
      <4> QED
        BY <2>1, <2>2, <2>3, <3>1, <4>1, <4>2, <4>3, SetFacts DEF LoopInv
    <3> QED
      BY <3>2, <3>3
  <2> QED
    BY <1>2, <2>4, <2>5, <2>6, LoopEffects DEF Creates, Stops
<1>3. ASSUME NEW h \in Handlers, Request(h) PROVE LoopInv'
  <2>1. UNCHANGED <<loop, mode, todo>>
    BY <1>3 DEF Request, Put, Delete, BadRequest, appVars, procVars
  <2>2. pc'[Main] = pc[Main] /\ base'[Main] = base[Main]
    BY <1>3, SetFacts DEF Request, Put, Delete, BadRequest, Move, Goto,
       Finish, reqVars, IndInv, TypeOK
  <2>3. \A g \in Handlers : pc[g] # "ready" => pc'[g] = pc[g]
    BY <1>3, OthersFrame DEF Others
  <2> QED
    BY <2>1, <2>2, <2>3 DEF LoopInv, Saving, CriticalSave
<1>4. CASE Start
  BY <1>4 DEF Start, LoopInv, IndInv, LoadInv, appVars, reqVars
<1>5. ASSUME NEW b \in Bases, LoadNext(b) PROVE LoopInv'
  BY <1>5, SetFacts DEF LoadNext, Goto, LoopInv, IndInv, TypeOK
<1>6. CASE LoadDone
  BY <1>6 DEF LoadDone, LoopInv, appVars, reqVars
<1>7. ASSUME NEW a \in Apps, Rediscover(a) PROVE LoopInv'
  <2>1. UNCHANGED <<mode, todo, pc, base>>
    BY <1>7 DEF Rediscover, LoopDiscovery, LoopPark, LoopTick, LoopEnter,
       LoopFail, LoopClear, LoopFill, LoopStep, procVars, reqVars
  <2>2. \A c \in Apps : loop'[c] # "off" => loop[c] # "off"
    BY <1>7 DEF Rediscover, LoopDiscovery, LoopPark, LoopTick, LoopEnter,
       LoopFail, LoopClear, LoopFill, LoopStep, IndInv, TypeOK
  <2> QED
    BY <2>1, <2>2, SetFacts DEF LoopInv
<1>8. CASE UNCHANGED vars
  BY <1>8 DEF vars, LoopInv, appVars, reqVars, procVars
<1> QED
  BY <1>1, <1>2, <1>3, <1>4, <1>5, <1>6, <1>7, <1>8, Steps DEF Others, Boot

-----------------------------------------------------------------------------
(* The invariant and what follows.                                         *)

LEMMA ServiceInvInit == Init => ServiceInv
BY SetFacts DEF Init, DbInit, AxInit, ServiceInv, MasterInv,
   RejectedIsNotServed, OrphanInv, AgreeInv, OpenInv, LoadedInv, LoopInv,
   HasRow

(* For all constants: each Application of the master has been registered,  *)
(* only a deleteApplication leaves orphans, map and master differ only for *)
(* an Unregister, open clients are accounted for, and a boot has restored  *)
(* what it has left behind.                                                *)
THEOREM ServiceInvHolds == Spec => []ServiceInv
<1>1. IndInv /\ ServiceInv /\ [Next]_vars => ServiceInv'
  BY MasterInvStep, RejectedStep, OrphanInvStep, AgreeInvStep, OpenInvStep,
     LoadedInvStep, LoopInvStep DEF ServiceInv
<1> QED
  BY <1>1, ServiceInvInit, IndInvHolds, PTL DEF Spec

(* A PUT that failed before saveApplication has left nothing in the map or *)
(* at the master, whatever other requests do.                              *)
THEOREM RejectedIsNotServedHolds == Spec => []RejectedIsNotServed
<1>1. ServiceInv => RejectedIsNotServed
  BY DEF ServiceInv
<1> QED
  BY <1>1, ServiceInvHolds, PTL

(* When m is free no deleteApplication is between its statements, so every *)
(* oid row has its application.                                            *)
THEOREM NoOrphanOidsHolds == Spec => []NoOrphanOids
<1>1. IndInv /\ ServiceInv => NoOrphanOids
  BY SetFacts DEF ServiceInv, OrphanInv, NoOrphanOids, IndInv, Mutex, Critical,
     CriticalUnregister
<1> QED
  BY <1>1, ServiceInvHolds, IndInvHolds, PTL

(* When m is free no Unregister is between the master and the map, so they *)
(* agree.                                                                  *)
THEOREM MapIsMasterHolds == Spec => []MapIsMaster
<1>1. IndInv /\ ServiceInv => MapIsMaster
  BY SetFacts DEF ServiceInv, AgreeInv, MapIsMaster, IndInv, Mutex, Critical,
     CriticalUnregister
<1> QED
  BY <1>1, ServiceInvHolds, IndInvHolds, PTL

(* A PUT that was accepted is not being registered and was not rejected:   *)
(* once out of the map its client is closed.                               *)
THEOREM RetiredIsClosedHolds == Spec => []RetiredIsClosed
<1>1. IndInv /\ ServiceInv => RetiredIsClosed
  BY DEF ServiceInv, OpenInv, Opening, RetiredIsClosed, IndInv, RequestInv
<1> QED
  BY <1>1, ServiceInvHolds, IndInvHolds, PTL

(* The only step from "loading" to "serving" comes when nothing is left to *)
(* restore.                                                                *)
THEOREM BootRestoresStoredHolds == Spec => BootRestoresStored
<1> DEFINE Restores ==
      Live /\ ~DbFails /\ mode = "loading" /\ mode' = "serving" =>
         \A b \in Bases :
            applications'[b] = IF HasRow(b) /\ dbOids[b] # {} THEN b ELSE None
<1>1. ASSUME IndInv, ServiceInv, [Next]_vars PROVE Restores
  <2> SUFFICES ASSUME Live, ~DbFails, mode = "loading", mode' = "serving"
               PROVE  Restores
    OBVIOUS
  <2>1. LoadDone
    BY <1>1, Steps, ThreadFrame DEF Die, Others, Request, Put, Delete,
       BadRequest, Boot, Start, LoadNext, Rediscover, LoopDiscovery, LoopPark,
       LoopTick, LoopEnter, LoopFail, LoopClear, LoopFill, LoopStep, procVars,
       vars
  <2>2. todo = {} /\ Restoring = {} /\ applications' = applications
    BY <2>1 DEF LoadDone, Restoring
  <2> QED
    BY <1>1, <2>2 DEF ServiceInv, LoadedInv, Loadable
<1>2. IndInv /\ ServiceInv /\ [Next]_vars => [Restores]_vars
  BY <1>1
<1> QED
  BY <1>2, ServiceInvHolds, IndInvHolds, PTL DEF Spec, BootRestoresStored

(* Every step of the service is one of Rediscovery for one Application, or *)
(* none: what Application's refinement says of one, the service relies on  *)
(* for all of them, whatever requests, boots and crashes come in between.  *)
THEOREM ServiceRefinesRediscoveryHolds == Spec => ServiceRefinesRediscovery
<1>1. Init => Loop!RediscoveryInit
  BY DEF Init, Loop!RediscoveryInit
<1>2. ASSUME IndInv, LoopInv, [Next]_vars
      PROVE  [Loop!RediscoveryNext]_<<loop, oids>>
  <2>1. loop \in [Apps -> Loops] /\ oids \in [Apps -> SUBSET Oids]
    BY <1>2 DEF IndInv, TypeOK
  <2>2. CASE Die
    BY <2>2 DEF Die, Loop!RediscoveryNext, Loop!Lost
  <2>3. ASSUME NEW t \in Threads, Thread(t), ~Races(t)
        PROVE  [Loop!RediscoveryNext]_<<loop, oids>>
    <3>1. CASE AppRegister(t)
      <4>1. /\ App(t) \in Apps /\ form[App(t)].oids \in SUBSET Oids
            /\ loop[App(t)] = "off"
        BY <1>2, <3>1, AppRegisterFacts, NotYetLooping DEF Form
      <4>2. CASE Creates(t)
        <5>1. Loop!Created(App(t))
          BY <2>1, <4>1, <4>2 DEF Creates, Loop!Created, Loop!Turn,
             Loop!Replace
        <5> QED
          BY <4>1, <5>1 DEF Loop!RediscoveryNext
      <4>3. CASE Discovers(t)
        <5>1. Loop!First(App(t))
          BY <2>1, <4>1, <4>3 DEF Discovers, Loop!First, Loop!Turn,
             Loop!Replace, Loop!Keep
        <5> QED
          BY <4>1, <5>1 DEF Loop!RediscoveryNext
      <4>4. ASSUME NEW a \in Apps, Stops(a) PROVE Loop!Quit(a)
        BY <4>4 DEF Stops, Loop!Quit, Loop!Turn, Loop!Keep
      <4> QED
        BY <1>2, <2>3, <4>2, <4>3, <4>4, LoopEffects DEF Loop!RediscoveryNext
    <3>2. CASE ~AppRegister(t)
      <4>1. ASSUME NEW a \in Apps, Stops(a) PROVE Loop!Quit(a)
        BY <4>1 DEF Stops, Loop!Quit, Loop!Turn, Loop!Keep
      <4> QED
        BY <1>2, <2>3, <3>2, <4>1, LoopEffects DEF Loop!RediscoveryNext
    <3> QED
      BY <3>1, <3>2
  <2>4. ASSUME NEW a \in Apps, Rediscover(a)
        PROVE  Loop!RediscoveryNext
    <3>1. \/ Loop!Park(a) \/ Loop!Tick(a) \/ Loop!Enter(a) \/ Loop!Fail(a)
          \/ Loop!Clear(a) \/ Loop!Fill(a)
      BY <2>4 DEF Rediscover, LoopDiscovery, LoopPark, LoopTick, LoopEnter,
         LoopFail, LoopClear, LoopFill, LoopStep, Loop!Park, Loop!Tick,
         Loop!Enter, Loop!Fail, Loop!Clear, Loop!Fill, Loop!Turn, Loop!Keep,
         Loop!Replace
    <3> QED
      BY <3>1 DEF Loop!RediscoveryNext
  <2>5. CASE (\E h \in Handlers : Request(h)) \/ Boot \/ UNCHANGED vars
    BY <2>5 DEF Request, Put, Delete, BadRequest, Boot, Start, LoadNext,
       LoadDone, appVars, vars
  <2> QED
    BY <1>2, <2>2, <2>3, <2>4, <2>5, Steps DEF Others
<1>3. IndInv /\ ServiceInv /\ [Next]_vars =>
         [Loop!RediscoveryNext]_<<loop, oids>>
  BY <1>2 DEF ServiceInv
<1> QED
  BY <1>1, <1>3, ServiceInvHolds, IndInvHolds, PTL
     DEF Spec, ServiceRefinesRediscovery, Loop!RediscoverySpec,
         Loop!rediscoveryVars
=============================================================================
