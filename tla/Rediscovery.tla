---------------------------- MODULE Rediscovery ----------------------------
(***************************************************************************)
(* What discover and rediscover promise to the rest of the subagent: every *)
(* Application's oids change only as a whole, from what it was created     *)
(* with to what one discovery found, and from one discovery to another;    *)
(* its loop goes round until a stop finds it parked.  SnmpSubagent works   *)
(* with these steps, Application implements them.                          *)
(***************************************************************************)
CONSTANTS
    Apps,
    Oids,
    Given,       \* the sets of oids an Application may be created with
    Discoveries  \* the sets of oids a discovery may find

VARIABLES
    loop,  \* where the goroutine rediscover of an Application is
    oids   \* its oids; in "filling" what they will be when the map is filled

rediscoveryVars == <<loop, oids>>

RediscoveryInit ==
    /\ loop = [a \in Apps |-> "off"]
    /\ oids \in [Apps -> SUBSET Oids]

Turn(a, from, to) ==
    /\ loop[a] \in from
    /\ loop' = [loop EXCEPT ![a] = to]

Keep == UNCHANGED oids
Replace(a, S) == \E s \in S : oids' = [oids EXCEPT ![a] = s]

Created(a) == Turn(a, {"off"}, "off") /\ Replace(a, Given)

(* The discovery of appRegister, and the start of the loop, if it has one. *)
First(a) ==
    /\ \E to \in {"off", "looping"} : Turn(a, {"off"}, to)
    /\ Keep \/ Replace(a, Discoveries)

Park(a)  == Turn(a, {"looping"}, "parked") /\ Keep
Tick(a)  == Turn(a, {"looping", "parked"}, "waiting") /\ Keep
Enter(a) == Turn(a, {"waiting"}, "discovering") /\ Keep
Fail(a)  == Turn(a, {"discovering"}, "looping") /\ Keep
Clear(a) == Turn(a, {"discovering"}, "filling") /\ Replace(a, Discoveries)
Fill(a)  == Turn(a, {"filling"}, "looping") /\ Keep
Quit(a)  == Turn(a, {"parked"}, "quit") /\ Keep

(* The process dies.                                                       *)
Lost ==
    /\ loop' = [a \in Apps |-> "off"]
    /\ oids' = [a \in Apps |-> {}]

RediscoveryNext ==
    \/ \E a \in Apps :
        \/ Created(a) \/ First(a) \/ Park(a) \/ Tick(a) \/ Enter(a)
        \/ Fail(a) \/ Clear(a) \/ Fill(a) \/ Quit(a)
    \/ Lost

RediscoverySpec == RediscoveryInit /\ [][RediscoveryNext]_rediscoveryVars
=============================================================================
