------------------------------ MODULE Registry ------------------------------
(***************************************************************************)
(* What the registration service promises to the SNMP master and to the    *)
(* applications, without its goroutines, its mutex and its database file.  *)
(* A base oid has at most one owner, and gets another only when a request  *)
(* for it has taken it from the last.  What is stored for it is what a     *)
(* registered PUT asked for, is restored by a boot, and is forgotten only  *)
(* on a request, when nobody owns it.  A PUT is accepted only once its     *)
(* Application was registered and while its own row is the stored one.     *)
(***************************************************************************)
EXTENDS Params

VARIABLES
    owner,     \* the Application that answers queries below a base oid
    stored,    \* the row a restart restores a base oid from, or None
    request,   \* what a handler works on
    accepted   \* the base oid a handler has accepted a registration for

registryVars == <<owner, stored, request, accepted>>

(* A request: the row of a PUT, and the Application it has registered.     *)
Requests  == [base : Bases, row : AppRow \cup {None}, app : {None}]
NoRequest == [base |-> None, row |-> None, app |-> None]

RegistryInit ==
    /\ owner = [b \in Bases |-> None]
    /\ stored = [b \in Bases |-> None]
    /\ request = [h \in Handlers |-> NoRequest]
    /\ accepted = [h \in Handlers |-> None]

Asked(h)      == request[h].base
Unattached(h) == Asked(h) # None /\ request[h].app = None

Ask(h, r) ==
    /\ Asked(h) = None /\ accepted[h] = None
    /\ request' = [request EXCEPT ![h] = r]
    /\ UNCHANGED <<owner, stored, accepted>>

Attach(h) ==
    /\ Unattached(h) /\ request[h].row # None
    /\ owner[Asked(h)] = None
    /\ owner' = [owner EXCEPT ![Asked(h)] = h]
    /\ request' = [request EXCEPT ![h].app = h]
    /\ UNCHANGED <<stored, accepted>>

Detach(h) ==
    /\ Unattached(h)
    /\ owner' = [owner EXCEPT ![Asked(h)] = None]
    /\ UNCHANGED <<stored, request, accepted>>

Store(h) ==
    /\ request[h].app = h
    /\ stored' = [stored EXCEPT ![Asked(h)] = request[h].row]
    /\ UNCHANGED <<owner, request, accepted>>

Forget(h) ==
    /\ Unattached(h) /\ owner[Asked(h)] = None
    /\ stored' = [stored EXCEPT ![Asked(h)] = None]
    /\ UNCHANGED <<owner, request, accepted>>

Accept(h) ==
    /\ request[h].app = h
    /\ stored[Asked(h)] = request[h].row
    /\ accepted' = [accepted EXCEPT ![h] = Asked(h)]
    /\ request' = [request EXCEPT ![h] = NoRequest]
    /\ UNCHANGED <<owner, stored>>

(* The request is answered otherwise, and nothing is undone.               *)
Leave(h) ==
    /\ Asked(h) # None
    /\ request' = [request EXCEPT ![h] = NoRequest]
    /\ UNCHANGED <<owner, stored, accepted>>

(* A boot restores what is stored.                                         *)
Restore(b) ==
    /\ owner[b] = None /\ stored[b] # None
    /\ owner' = [owner EXCEPT ![b] = b]
    /\ UNCHANGED <<stored, request, accepted>>

(* The process dies: nobody answers, what is stored stays stored.          *)
DetachAll ==
    /\ owner' = [b \in Bases |-> None]
    /\ request' = [h \in Handlers |-> NoRequest]
    /\ UNCHANGED <<stored, accepted>>

RegistryNext ==
    \/ \E h \in Handlers, r \in Requests : Ask(h, r)
    \/ \E h \in Handlers :
            \/ Attach(h) \/ Detach(h) \/ Store(h)
            \/ Forget(h) \/ Accept(h) \/ Leave(h)
    \/ \E b \in Bases : Restore(b)
    \/ DetachAll

RegistrySpec == RegistryInit /\ [][RegistryNext]_registryVars
=============================================================================
