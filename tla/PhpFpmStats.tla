---------------------------- MODULE PhpFpmStats -----------------------------
(***************************************************************************)
(* The php-fpm monitor: the status page of one php-fpm, a block of lines   *)
(* for its pool and one for every process.  Load writes the entry of the   *)
(* one server into the map that Stats has handed out, and update reads the *)
(* map without the mutex.                                                  *)
(*                                                                         *)
(* A status is the text of a value of the pool and of each process: a      *)
(* numeral of 64 bits, or another word.                                    *)
(***************************************************************************)
EXTENDS StatsHandler, Integers

CONSTANTS
    Statuses,    \* what the pages that are served say
    Words,       \* texts that are no numeral of 64 bits
    Nil,
    PoolTypes,   \* the SNMP types of the columns, by group
    ProcTypes,
    DataEnums,   \* the numbers of the words of a group's columns
    Unknown,     \* the Integer for any other text: 255
    Second,      \* in nanoseconds
    MaxInt32,    \* 2^31 - 1
    MaxInt64     \* 2^63 - 1

Int64  == -MaxInt64 - 1..MaxInt64
Text   == Int64 \cup Words
Status == [pool : Text, procs : Seq(Text)]

ASSUME PhpFpmAssumption ==
    /\ MaxInt32 \in Nat \ {0} /\ Unknown \in 0..MaxInt32
    /\ MaxInt64 \in Nat /\ Second \in Nat
    /\ Statuses \subseteq Status
    /\ \A index \in DOMAIN DataEnums : \A word \in DOMAIN DataEnums[index] :
            DataEnums[index][word] \in 0..MaxInt32
    /\ IsFiniteSet(DOMAIN PoolTypes) /\ DOMAIN PoolTypes \subseteq Nat
    /\ IsFiniteSet(DOMAIN ProcTypes) /\ DOMAIN ProcTypes \subseteq Nat

(* A pool with every value "0", and no process: what Load makes of the     *)
(* output of a curl that failed.                                           *)
NoPage == [pool |-> 0, procs |-> <<>>]

(* Execute loads what it has, whether curl failed or not.                  *)
CurlEnds ==
    /\ loader = "command" /\ Alive
    /\ out' \in Statuses \cup {NoPage}
    /\ loader' = "lock"
    /\ UNCHANGED <<startVars, locked, stats, statsAge, failed, tickVars,
                   handlerVars>>

(* "assign" looks the entry up to write to it, "copy" writes its fields.   *)
AssignEntry ==
    /\ loader = "assign" /\ loader' = "copy" /\ Alive
    /\ UNCHANGED <<startVars, locked, stats, statsAge, out, failed, tickVars,
                   handlerVars>>

LoadStatus ==
    \/ LockStats("assign") /\ UNCHANGED handlerVars
    \/ AssignEntry
    \/ /\ loader = "copy" /\ Alive
       /\ StoreStats
       /\ UNCHANGED handlerVars

(* The runtime may notice that the map is read while it is written.        *)
MapRace ==
    /\ query = "build" /\ loader = "assign" /\ Alive
    /\ process' = "killed"
    /\ UNCHANGED <<logging, left, nilBackend, loadVars, handlerVars>>

-----------------------------------------------------------------------------
(* Go's conversions to a signed and an unsigned type whose greatest signed *)
(* value is max: the bits above are lost.                                  *)
Unsigned(n, max) == n % (2 * max + 2)
Wrap_None(n, max) == n
Wrap(n, max) == IF Unsigned(n, max) > max THEN Unsigned(n, max) - 2 * max - 2
                                          ELSE Unsigned(n, max)

(* A column with an enum knows its words, any other column the numerals.   *)
ParseValue(index, text) ==
    IF index \in DOMAIN DataEnums
    THEN IF text \in DOMAIN DataEnums[index] THEN DataEnums[index][text]
                                             ELSE Unknown
    ELSE IF text \in Int64 THEN text ELSE Unknown

(* Counter32 is also Gauge32, and the other types are texts.               *)
GetOIDValue(index, type, text) ==
    CASE type = "Integer" -> Wrap(ParseValue(index, text), MaxInt32)
      [] type \in {"Counter32", "TimeTicks", "Counter64"} /\ text \notin Int64
                             -> Nil
      [] type = "Counter32" -> Unsigned(text, MaxInt32)
      [] type = "TimeTicks" -> Wrap(text * Second, MaxInt64)
      [] type = "Counter64" -> Unsigned(text, MaxInt64)
      [] OTHER -> text

(* The groups of the table below 1, 2 and 3: the master, the pool and the  *)
(* processes, each oid its group, column, server and row.                  *)
StatusTable(pool, procs) ==
    LET MasterOids == {<<1, 1, 1, 1, 1>>}
        PoolOids == {<<2, 1, c, 1, 1>> : c \in DOMAIN PoolTypes}
        ProcOids == {<<3, 1, c, 1, row>> :
                        c \in DOMAIN ProcTypes, row \in DOMAIN procs}
    IN [oid \in MasterOids \cup PoolOids \cup ProcOids |->
            CASE oid[1] = 1 -> 1
              [] oid[1] = 2 -> GetOIDValue(<<2, oid[3]>>, PoolTypes[oid[3]], pool)
              [] oid[1] = 3 -> GetOIDValue(<<3, oid[3]>>, ProcTypes[oid[3]],
                                           procs[oid[5]])]

(* While Load copies the fields a query may see each before or after.      *)
Visible == {stats} \cup (IF loader = "copy" THEN {out} ELSE {})

BuildStatus ==
    /\ query = "build"
    /\ \E items \in {StatusTable(a.pool, b.procs) : a, b \in Visible} :
            BuildTable(items)

CurlLoad == CurlEnds \/ LoadStatus
=============================================================================
