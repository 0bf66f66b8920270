------------------------------- MODULE AgentX -------------------------------
(***************************************************************************)
(* The AgentX client library and the SNMP master agent, as the subagent    *)
(* uses them: one client with one session per Application, one             *)
(* registration per session, always with priority 127.  This code is not   *)
(* in the repository.  A call that returns an error has no effect.  When   *)
(* the process dies its connections close and the master drops what they   *)
(* registered.                                                             *)
(***************************************************************************)
EXTENDS Params

CONSTANT
    MasterRejectsDuplicates   \* the master refuses a second registration
                              \* of a base oid with the same priority

ASSUME MasterAssumption == MasterRejectsDuplicates \in BOOLEAN

VARIABLES
    conn,       \* how far the client and session of an Application got
    master      \* the Applications registered at the master, per base oid

axVars == <<conn, master>>

ConnStates == {"none", "client", "session", "registered", "unregistered",
               "sessionClosed", "closed"}

AxTypeOK ==
    /\ conn \in [Apps -> ConnStates]
    /\ master \in [Bases -> SUBSET Apps]

AxInit ==
    /\ conn = [a \in Apps |-> "none"]
    /\ master = [b \in Bases |-> {}]

SetConn(a, s) == conn' = [conn EXCEPT ![a] = s]

MayRegister(b) == MasterRejectsDuplicates => master[b] = {}

AxOpenClient(a)  == SetConn(a, "client")        /\ UNCHANGED master
AxOpenSession(a) == SetConn(a, "session")       /\ UNCHANGED master
AxCloseSession(a) == SetConn(a, "sessionClosed") /\ UNCHANGED master
AxCloseClient(a) == SetConn(a, "closed")        /\ UNCHANGED master

AxRegister(a, b) ==
    /\ SetConn(a, "registered")
    /\ master' = [master EXCEPT ![b] = @ \cup {a}]

AxUnregister(a, b) ==
    /\ SetConn(a, "unregistered")
    /\ master' = [master EXCEPT ![b] = @ \ {a}]

AxDisconnectAll ==
    /\ conn' = [a \in Apps |-> "none"]
    /\ master' = [b \in Bases |-> {}]
=============================================================================
