------------------------------ MODULE Database ------------------------------
(***************************************************************************)
(* The SQLite file behind snmp_subagent/database.go: the tables            *)
(* applications (primary key base_oid) and oids (primary key base_oid,     *)
(* oid).  Every statement is one transaction of its own, because the code  *)
(* opens none: an operator below is one Exec or one Query, and the         *)
(* sequences of statements of saveApplication and deleteApplication are    *)
(* steps of the module that calls them.  The tables outlive the process.   *)
(***************************************************************************)
EXTENDS Params

VARIABLES
    dbOpen,     \* the package variable db is not nil
    dbApps,     \* table applications: base oid -> row, or None
    dbOids      \* table oids: base oid -> the oids with a row

dbVars == <<dbOpen, dbApps, dbOids>>

DbTypeOK ==
    /\ dbOpen \in BOOLEAN
    /\ dbApps \in [Bases -> AppRow \cup {None}]
    /\ dbOids \in [Bases -> SUBSET Oids]

DbInit ==
    /\ dbOpen = FALSE
    /\ dbApps = [b \in Bases |-> None]
    /\ dbOids = [b \in Bases |-> {}]

HasRow(b) == dbApps[b] # None

(* loadFromDB: the join of the two tables returns no row for an            *)
(* application without oids.                                               *)
Loadable == {b \in Bases : HasRow(b) /\ dbOids[b] # {}}

InsertOrReplaceApp_Ignore(b, row) ==
    /\ dbApps' = IF HasRow(b) THEN dbApps ELSE [dbApps EXCEPT ![b] = row]
    /\ UNCHANGED <<dbOpen, dbOids>>
InsertOrReplaceApp(b, row) ==
    /\ dbApps' = [dbApps EXCEPT ![b] = row]
    /\ UNCHANGED <<dbOpen, dbOids>>

DeleteAppRow(b) ==
    /\ dbApps' = [dbApps EXCEPT ![b] = None]
    /\ UNCHANGED <<dbOpen, dbOids>>

DeleteOidRows(b) ==
    /\ dbOids' = [dbOids EXCEPT ![b] = {}]
    /\ UNCHANGED <<dbOpen, dbApps>>

InsertOidRow(b, o) ==
    /\ dbOids' = [dbOids EXCEPT ![b] = @ \cup {o}]
    /\ UNCHANGED <<dbOpen, dbApps>>
=============================================================================
