------------------------------- MODULE Params -------------------------------
(***************************************************************************)
(* The sets the subagent's modules share.  A request is one goroutine of   *)
(* the HTTP server (gin runs every handler in its own), and it creates at  *)
(* most one Application, so the Application a PUT creates is named by its  *)
(* handler.  The Application Initialize restores for a base oid is named   *)
(* by that base oid, which loadFromDB returns at most once.                *)
(***************************************************************************)
CONSTANTS
    Handlers,   \* the goroutines of the HTTP requests, one request each
    Bases,      \* base oids, the keys of SNMPSubagent.applications
    Oids,       \* the oids an application serves
    Names,      \* application names
    Main,       \* the goroutine of main(), which runs Initialize
    None        \* nil, an absent row, an unset field

ASSUME DisjointAssumption ==
    /\ Handlers \cap Bases = {}
    /\ Main \notin Handlers \cup Bases
    /\ None \notin Handlers \cup Bases \cup {Main}

Threads == Handlers \cup {Main}
Apps    == Handlers \cup Bases

(* What registrationHandler keeps of a RegisterForm: the name, whether     *)
(* there is a discover_url and a positive rediscover_interval, the oids.   *)
Form == [name : Names, disc : BOOLEAN, redisc : BOOLEAN, oids : SUBSET Oids]

(* A row of the table "applications", without its key.                     *)
AppRow == [name : Names, disc : BOOLEAN, redisc : BOOLEAN]

ASSUME NoneIsNoRecord == None \notin Form /\ None \notin AppRow
=============================================================================
