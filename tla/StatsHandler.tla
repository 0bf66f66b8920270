---------------------------- MODULE StatsHandler ----------------------------
(***************************************************************************)
(* The SNMP handler of a monitor.  The AgentX session runs one query at a  *)
(* time.  Every query calls update, which keeps the table for Cache, and   *)
(* otherwise empties it and builds it anew from statistics that are not    *)
(* older than Oldest.  The query is then answered from the table.          *)
(***************************************************************************)
EXTENDS StatsManager, OidOrder

VARIABLES
    query,     \* where the query is
    snap,      \* what Stats returned
    rowsAge,   \* time since the last_updated that update has read, then that
               \* of what it has taken, or Forever
    cacheAge,  \* time since StatsSNMPHandler.last_updated
    table      \* the items, by oid, and the oids, in order

handlerVars == <<query, snap, rowsAge, cacheAge, table>>

Places == {"idle", "update", "age", "stats", "take", "build", "answer"}

EmptyTable == [oids |-> <<>>, items |-> [o \in {} |-> o]]
TableOf(items) == [oids |-> SortOids(DOMAIN items), items |-> items]

HandlerInit ==
    /\ query = "idle" /\ snap = NoStats
    /\ rowsAge = Forever /\ cacheAge = Cache
    /\ table = EmptyTable

At(place, next) ==
    /\ Alive
    /\ query = place /\ query' = next
    /\ UNCHANGED <<startVars, loadVars>>

Query ==
    /\ process = "serving"
    /\ At("idle", "update")
    /\ UNCHANGED <<snap, rowsAge, cacheAge, table>>

KeepTable ==
    /\ cacheAge < Cache
    /\ At("update", "answer")
    /\ UNCHANGED <<snap, rowsAge, cacheAge, table>>

ClearTable_KeepRows ==
    /\ cacheAge >= Cache
    /\ At("update", "age")
    /\ rowsAge' = Forever
    /\ cacheAge' = 0
    /\ UNCHANGED <<snap, table>>
ClearTable ==
    /\ cacheAge >= Cache
    /\ At("update", "age")
    /\ table' = EmptyTable
    /\ rowsAge' = Forever
    /\ cacheAge' = 0
    /\ UNCHANGED <<snap>>

(* StatsManager.LastUpdated, and the time since.                           *)
ReadAge ==
    /\ ~locked
    /\ At("age", "stats")
    /\ rowsAge' = statsAge
    /\ UNCHANGED <<snap, cacheAge, table>>

Refuses_Cache == rowsAge >= Cache
Refuses == rowsAge > Oldest

RefuseStale ==
    /\ Refuses
    /\ At("stats", "answer")
    /\ rowsAge' = Forever
    /\ UNCHANGED <<snap, cacheAge, table>>

AcceptAge_Unchecked ==
    /\ At("stats", "take")
    /\ UNCHANGED <<snap, rowsAge, cacheAge, table>>
AcceptAge ==
    /\ ~Refuses
    /\ At("stats", "take")
    /\ UNCHANGED <<snap, rowsAge, cacheAge, table>>

(* StatsManager.Stats, which waits for the mutex once more.                *)
TakeStats ==
    /\ ~locked
    /\ At("take", "build")
    /\ snap' = stats /\ rowsAge' = statsAge
    /\ UNCHANGED <<cacheAge, table>>

BuildTable(items) ==
    /\ At("build", "answer")
    /\ table' \in {TableOf(items)}
    /\ snap' = NoStats
    /\ UNCHANGED <<rowsAge, cacheAge>>

-----------------------------------------------------------------------------
(* The answer is a function of the query and the table.                    *)
NoSuchObject == <<"NoSuchObject">>

DoGet(oid) ==
    IF oid \in DOMAIN table.items THEN <<oid, table.items[oid]>>
                                  ELSE NoSuchObject

GetNext(from, includeFrom, to) ==
    IF Hits(table.oids, from, includeFrom, to) = {} THEN NoSuchObject
    ELSE DoGet(FirstHit(table.oids, from, includeFrom, to))

Answer ==
    /\ At("answer", "idle")
    /\ UNCHANGED <<snap, rowsAge, cacheAge, table>>
=============================================================================
