----------------------------- MODULE CpnrStats ------------------------------
(***************************************************************************)
(* The cpnr monitor: the DHCP servers that nrcmd lists, one a line.  Load  *)
(* makes a new map, keyed by the numbers of the lines, so the map a query  *)
(* has taken never changes.                                                *)
(***************************************************************************)
EXTENDS StatsHandler

CONSTANTS
    Servers,   \* the lines that nrcmd may print
    Listings,  \* its outputs
    Columns    \* of the table: 9

ASSUME CpnrAssumption ==
    Listings \subseteq Seq(Servers) /\ Columns \in Nat \ {0, 1}

ParseListing_ByName(listing) ==
    [line \in {i \in 0..(Len(listing) - 1) :
                \A j \in (i + 2)..Len(listing) : listing[j] # listing[i + 1]}
        |-> listing[line + 1]]
ParseListing(listing) ==
    [line \in 0..(Len(listing) - 1) |-> listing[line + 1]]

(* The pipeline ends with awk's status, so a failing nrcmd prints nothing  *)
(* and is no error.                                                        *)
NrcmdEnds ==
    /\ loader = "command" /\ Alive
    /\ \E listing \in Listings : out' = ParseListing(listing)
    /\ loader' = "lock"
    /\ UNCHANGED <<startVars, locked, stats, statsAge, failed, tickVars,
                   handlerVars>>

NrcmdFails_RetryAtBoot ==
    /\ loader = "command" /\ Alive
    /\ failed' = TRUE
    /\ IF process = "run"
       THEN loader' = "idle" /\ UNCHANGED <<startVars, out, tickVars>>
       ELSE ExecuteReturns
    /\ UNCHANGED <<locked, stats, statsAge, handlerVars>>
NrcmdFails_Returns ==
    /\ loader = "command" /\ Alive
    /\ failed' = TRUE /\ loader' = IF Ticking THEN "returned" ELSE "idle"
    /\ process' = IF process = "run" THEN "register" ELSE process
    /\ UNCHANGED <<logging, left, nilBackend, locked, stats, statsAge, out,
                   tickVars, handlerVars>>
NrcmdFails ==
    /\ loader = "command" /\ Alive
    /\ failed' = TRUE
    /\ ExecuteReturns
    /\ UNCHANGED <<locked, stats, statsAge, handlerVars>>

LoadListing ==
    \/ LockStats("store") /\ UNCHANGED handlerVars
    \/ /\ loader = "store" /\ Alive
       /\ StoreStats
       /\ UNCHANGED handlerVars

(* One row a server, in the order of the keys as strings; the first column *)
(* is the number of the row.                                               *)
ServerTable(servers, keys) ==
    [oid \in {<<c, row>> : c \in 1..Columns, row \in DOMAIN keys} |->
        IF oid[1] = 1 THEN oid[2] ELSE servers[keys[oid[2]]]]

BuildServers_Live ==
    /\ query = "build"
    /\ \E keys \in {SortKeys(DOMAIN stats)} :
            \E items \in {ServerTable(stats, keys)} : BuildTable(items)
BuildServers ==
    /\ query = "build"
    /\ \E keys \in {SortKeys(DOMAIN snap)} :
            \E items \in {ServerTable(snap, keys)} : BuildTable(items)

CpnrLoad == NrcmdEnds \/ NrcmdFails \/ LoadListing
=============================================================================
