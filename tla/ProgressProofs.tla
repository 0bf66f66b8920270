--------------------------- MODULE ProgressProofs ---------------------------
(***************************************************************************)
(* Proofs of the safety half of EveryRequestAnswered and BootFinishes:     *)
(* goroutines only advance, and none waits for one that waits for it.      *)
(* What is left to fairness is that a goroutine that can step does.        *)
(***************************************************************************)
EXTENDS ServiceProofs

USE DisjointAssumption, NoneIsNoRecord, FormsAssumption,
    DiscoveriesAssumption, FailureAssumption, CrashAssumption,
    MasterAssumption

-----------------------------------------------------------------------------
(* The places in program order.                                            *)
LEMMA RankOf ==
    /\ Rank["ready"] = 0 /\ Rank["lookup"] = 1 /\ Rank["unreg"] = 2
    /\ Rank["stop"] = 3 /\ Rank["unregister"] = 4 /\ Rank["closeSession"] = 5
    /\ Rank["closeClient"] = 6 /\ Rank["deleteApp"] = 7
    /\ Rank["deleteOids"] = 8 /\ Rank["create"] = 9
    /\ Rank["openClient"] = 10 /\ Rank["openSession"] = 11
    /\ Rank["register"] = 12 /\ Rank["discover"] = 13 /\ Rank["save"] = 14
    /\ Rank["insertApp"] = 15 /\ Rank["clearOids"] = 16
    /\ Rank["insertOids"] = 17 /\ Rank["done"] = 18
BY DEF Rank

(* Before the end of its work a goroutine is at an earlier place.          *)
LEMMA RankBeforeDone ==
    ASSUME NEW p \in Critical \cup Unlocked, p # "done"
    PROVE  Rank[p] < Rank["done"]
BY RankOf DEF Critical, CriticalUnregister, CriticalRegister, CriticalSave,
   Unlocked

(* Where the step of a goroutine may take it: on, or to the end.           *)
Forward(t) ==
    \/ pc'[t] \in Critical \cup Unlocked /\ Rank[pc[t]] < Rank[pc'[t]]
    \/ t = Main /\ pc'[t] = "ready" /\ pc[t] \notin {"ready", "done"}
    \/ pc'[t] = pc[t] /\ rows'[t] \subseteq rows[t]

LEMMA UnregisterForward ==
    ASSUME IndInv, NEW t \in Threads, Unregister(t)
    PROVE  Forward(t) /\ rows' = rows
<1>1. t # Main /\ pc \in [Threads -> Critical \cup Unlocked]
  BY UnregisterFacts DEF IndInv, TypeOK
<1>2. rows' = rows
  BY DEF Unregister, UnregisterEnter, Stop, UnregisterSession, CloseSession,
     CloseClient, DeleteApp, DeleteOids
<1>3. pc[t] \in {"unreg"} \cup CriticalUnregister
  BY DEF Unregister, UnregisterEnter, Stop, UnregisterSession, CloseSession,
     CloseClient, DeleteApp, DeleteOids, Move, CriticalUnregister
<1>4. CASE pc'[t] \in {"create", "done"}
  BY <1>3, <1>4, <1>2, RankOf DEF Forward, CriticalUnregister, Critical,
     CriticalRegister, Unlocked
<1>5. CASE pc'[t] \notin {"create", "done"}
  <2>1. <<pc[t], pc'[t]>> \in
          {<<"unreg", "stop">>, <<"stop", "unregister">>,
           <<"unregister", "closeSession">>, <<"closeSession", "closeClient">>,
           <<"closeClient", "deleteApp">>, <<"deleteApp", "deleteOids">>}
    BY <1>1, <1>5 DEF Unregister, UnregisterEnter, Stop, UnregisterSession,
       CloseSession, CloseClient, DeleteApp, DeleteOids, GiveUp, PanicOnNilDb,
       UnregisterReturns, Finish, Move, Goto
  <2> QED
    BY <1>2, <2>1, RankOf DEF Forward, Critical, CriticalUnregister, Unlocked
<1> QED
  BY <1>2, <1>4, <1>5

LEMMA AppRegisterForward ==
    ASSUME IndInv, NEW t \in Threads, AppRegister(t)
    PROVE  Forward(t) /\ rows' = rows
<1>1. pc \in [Threads -> Critical \cup Unlocked]
  BY DEF IndInv, TypeOK
<1>2. rows' = rows
  BY DEF AppRegister, Lookup, Create, OpenClient, OpenSession,
     RegisterSession, Discover
<1>3. pc[t] \in Registering
  BY DEF AppRegister, Lookup, Create, OpenClient, OpenSession,
     RegisterSession, Discover, Move, Registering, CriticalRegister
<1>4. CASE pc'[t] = "ready" /\ t = Main
  BY <1>2, <1>3, <1>4 DEF Forward, Registering, CriticalRegister
<1>5. CASE pc'[t] \in {"done", "save"}
  BY <1>2, <1>3, <1>5, RankOf DEF Forward, Registering, CriticalRegister,
     Unlocked
<1>6. CASE ~(pc'[t] = "ready" /\ t = Main) /\ pc'[t] \notin {"done", "save"}
  <2>1. <<pc[t], pc'[t]>> \in
          {<<"lookup", "unreg">>, <<"lookup", "create">>,
           <<"create", "openClient">>, <<"openClient", "openSession">>,
           <<"openSession", "register">>, <<"register", "discover">>}
    BY <1>1, <1>6 DEF AppRegister, Lookup, Create, OpenClient, OpenSession,
       RegisterSession, Discover, RegisterFails, Registered, Finish, Move, Goto
  <2> QED
    BY <1>2, <2>1, RankOf DEF Forward, Critical, CriticalRegister, Unlocked
<1> QED
  BY <1>2, <1>4, <1>5, <1>6

LEMMA SaveForward ==
    ASSUME IndInv, NEW t \in Handlers, SaveApplication(t), ~Races(t)
    PROVE  Forward(t)
<1>1. t # Main /\ t \in Threads /\ pc \in [Threads -> Critical \cup Unlocked]
      /\ rows \in [Threads -> SUBSET Oids]
  BY SetFacts DEF IndInv, TypeOK
<1>2. pc[t] \in Saving
  BY DEF Races, SaveApplication, Save, InsertApp, ClearOids, InsertOid,
     SaveDone, Move, Saving, CriticalSave
<1>3. CASE pc'[t] = "done"
  BY <1>2, <1>3, RankOf DEF Forward, Saving, CriticalSave, Unlocked
<1>4. CASE pc'[t] # "done"
  <2>1. \/ <<pc[t], pc'[t]>> \in
             {<<"save", "insertApp">>, <<"insertApp", "clearOids">>,
              <<"clearOids", "insertOids">>}
        \/ pc'[t] = pc[t] /\ \E o \in rows[t] : rows'[t] = rows[t] \ {o}
    BY <1>1, <1>4 DEF Races, SaveApplication, Save, InsertApp, ClearOids,
       InsertOid, SaveDone, SaveFails, PanicOnNilDb, Finish, Move, Goto
  <2> QED
    BY <2>1, RankOf DEF Forward, Critical, CriticalSave
<1> QED
  BY <1>3, <1>4

(* The rows a goroutine has still to insert are its own.                   *)
LEMMA RowsFrame ==
    ASSUME IndInv, NEW t \in Threads, Thread(t), ~Races(t)
    PROVE  \A u \in Threads : u # t => rows'[u] = rows[u]
<1>1. rows' = rows \/ \E r : rows' = [rows EXCEPT ![t] = r]
  <2>1. CASE t \in Handlers /\ SaveApplication(t)
    BY <2>1 DEF Races, SaveApplication, Save, InsertApp, ClearOids, InsertOid,
       SaveDone, SaveFails
  <2> QED
    BY <2>1, UnregisterForward, AppRegisterForward DEF Thread
<1> QED
  BY <1>1 DEF IndInv, TypeOK

LEMMA ForwardAdvances ==
    ASSUME IndInv, NEW t \in Threads, Forward(t), pc[t] # "ready"
    PROVE  Advances(t)
<1>1. pc[t] \in Critical \cup Unlocked
  BY DEF IndInv, TypeOK
<1>2. At(t) = pc[t]
  BY DEF At
<1>3. CASE /\ pc'[t] \in Critical \cup Unlocked /\ Rank[pc[t]] < Rank[pc'[t]]
  <2>1. pc'[t] # "ready"
    BY <1>1, <1>3, RankOf DEF Critical, CriticalUnregister, CriticalRegister,
       CriticalSave, Unlocked
  <2>2. At(t)' = pc'[t]
    BY <2>1 DEF At
  <2> QED
    BY <1>2, <1>3, <2>2 DEF Advances
<1>4. CASE t = Main /\ pc'[t] = "ready" /\ pc[t] \notin {"ready", "done"}
  <2>1. At(t)' = "done"
    BY <1>4 DEF At
  <2> QED
    BY <1>1, <1>2, <1>4, <2>1, RankBeforeDone DEF Advances
<1> QED
  BY <1>3, <1>4 DEF Forward, Advances

LEMMA OnlyAdvancesStep ==
    ASSUME IndInv, [Next]_vars
    PROVE  /\ \A t \in Threads :
                pc'[t] # pc[t] \/ rows'[t] # rows[t] => Advances(t)
           /\ mode # "down" => todo' \subseteq todo
<1>1. pc \in [Threads -> Critical \cup Unlocked]
      /\ rows \in [Threads -> SUBSET Oids]
  BY DEF IndInv, TypeOK
<1>2. CASE Die
  <2>1. ASSUME NEW t \in Threads PROVE Advances(t)
    <3>1. rows'[t] = {}
      BY <1>2 DEF Die
    <3>2. CASE pc[t] = "ready"
      BY <1>2, <3>1, <3>2 DEF Die, Advances
    <3>3. CASE pc[t] # "ready" /\ t = Main
      <4>1. At(t) = pc[t] /\ At(t)' = "done"
        BY <1>2, <3>3 DEF Die, At
      <4>2. pc[t] # "done"
        BY <3>3 DEF IndInv, LoadInv, Registering, CriticalRegister
      <4> QED
        BY <1>1, <4>1, <4>2, RankBeforeDone DEF Advances
    <3>4. CASE pc[t] # "ready" /\ t # Main
      <4>1. pc'[t] = "done"
        BY <1>2, <3>4 DEF Die
      <4>2. At(t) = pc[t] /\ At(t)' = "done"
        BY <3>4, <4>1 DEF At
      <4>3. CASE pc[t] = "done"
        BY <3>1, <4>1, <4>3 DEF Advances
      <4>4. CASE pc[t] # "done"
        BY <1>1, <4>2, <4>4, RankBeforeDone DEF Advances
      <4> QED
        BY <4>3, <4>4
    <3> QED
      BY <3>2, <3>3, <3>4
  <2>2. todo' = {}
    BY <1>2 DEF Die
  <2> QED
    BY <2>1, <2>2
<1>3. ASSUME NEW t \in Threads, Thread(t), ~Races(t)
      PROVE  /\ \A u \in Threads :
                  pc'[u] # pc[u] \/ rows'[u] # rows[u] => Advances(u)
             /\ todo' = todo
  <2>1. todo' = todo /\ \A u \in Threads :
                            u # t => pc'[u] = pc[u] /\ rows'[u] = rows[u]
    BY <1>3, ThreadFrame, RowsFrame
  <2>2. Forward(t)
    BY <1>3, UnregisterForward, AppRegisterForward, SaveForward DEF Thread
  <2>3. pc[t] # "ready"
    BY <1>3 DEF Races, Thread, Unregister, UnregisterEnter, Stop,
       UnregisterSession, CloseSession, CloseClient, DeleteApp, DeleteOids,
       AppRegister, Lookup, Create, OpenClient, OpenSession, RegisterSession,
       Discover, SaveApplication, Save, InsertApp, ClearOids, InsertOid,
       SaveDone, Move
  <2>4. Advances(t)
    BY <2>2, <2>3, ForwardAdvances
  <2> QED
    BY <2>1, <2>4
<1>4. ASSUME NEW h \in Handlers, Request(h)
      PROVE  /\ \A u \in Threads :
                  pc'[u] # pc[u] \/ rows'[u] # rows[u] => Advances(u)
             /\ todo' = todo
  <2>1. todo' = todo /\ rows' = rows /\ h \in Threads /\ h # Main
    BY <1>4, SetFacts DEF Request, Put, Delete, BadRequest, procVars
  <2>2. pc[h] = "ready"
        /\ \E p \in {"lookup", "unreg", "done"} : pc' = [pc EXCEPT ![h] = p]
    BY <1>4, <2>1 DEF Request, Put, Delete, BadRequest, Move, Goto, Finish
  <2>3. At(h) = "ready" /\ At(h)' \in {"lookup", "unreg", "done"}
    BY <1>1, <2>1, <2>2 DEF At
  <2>4. Advances(h)
    BY <2>3, RankOf DEF Advances
  <2> QED
    BY <1>1, <2>1, <2>2, <2>4
<1>5. CASE Boot
  <2>1. CASE Start \/ LoadDone
    BY <2>1 DEF Start, LoadDone
  <2>2. ASSUME NEW b \in Bases, LoadNext(b)
        PROVE  /\ \A u \in Threads :
                    pc'[u] # pc[u] \/ rows'[u] # rows[u] => Advances(u)
               /\ todo' \subseteq todo
    <3>1. rows' = rows /\ todo' \subseteq todo /\ todo' # todo
      BY <2>2 DEF LoadNext
    <3>2. \A u \in Threads : u # Main => pc'[u] = pc[u]
      BY <1>1, <2>2 DEF LoadNext, Goto
    <3> QED
      BY <3>1, <3>2 DEF Advances
  <2> QED
    BY <1>5, <2>1, <2>2 DEF Boot
<1>6. CASE (\E a \in Apps : Rediscover(a)) \/ UNCHANGED vars
  BY <1>6 DEF Rediscover, LoopDiscovery, LoopPark, LoopTick, LoopEnter,
     LoopFail, LoopClear, LoopFill, LoopStep, vars, procVars
<1> QED
  BY <1>2, <1>3, <1>4, <1>5, <1>6, Steps DEF Others

(* No step of any goroutine takes a request or Initialize back to a place  *)
(* it has passed, and what loadFromDB returned only shrinks.               *)
THEOREM OnlyAdvancesHolds == Spec => OnlyAdvances
<1>1. IndInv /\ [Next]_vars =>
        [/\ \A t \in Threads :
              pc'[t] # pc[t] \/ rows'[t] # rows[t] => Advances(t)
         /\ mode # "down" => todo' \subseteq todo]_vars
  BY OnlyAdvancesStep
<1> QED
  BY <1>1, IndInvHolds, PTL DEF Spec, OnlyAdvances

-----------------------------------------------------------------------------
(* The holder of m is past every Lock, so it waits for a discovery at most;*)
(* whoever cannot step and awaits no discovery waits for it.               *)
THEOREM NobodyStuckHolds == Spec => []NobodyStuck
<1>1. IndInv => NobodyStuck
  <2> SUFFICES ASSUME IndInv, NEW t \in Threads, InFlight(t), ~CanStep(t),
                      ~AwaitsDiscovery(t)
               PROVE  m # None /\ m # t /\ (CanStep(m) \/ AwaitsDiscovery(m))
    BY DEF NobodyStuck
  <2>1. AwaitsLock(t)
    BY DEF CanStep
  <2>2. m \in Threads /\ pc[m] \in Critical
    BY <2>1 DEF AwaitsLock, IndInv, TypeOK, Mutex
  <2>3. m # t
    BY <2>1, <2>2 DEF AwaitsLock, Critical, CriticalUnregister,
       CriticalRegister, CriticalSave
  <2>4. InFlight(m) /\ ~AwaitsLock(m)
    BY <2>2 DEF InFlight, AwaitsLock, Critical, CriticalUnregister,
       CriticalRegister, CriticalSave
  <2> QED
    BY <2>1, <2>3, <2>4 DEF AwaitsLock, CanStep
<1> QED
  BY <1>1, IndInvHolds, PTL
=============================================================================
