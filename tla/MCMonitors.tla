----------------------------- MODULE MCMonitors -----------------------------
(* Small instances of Monitors for TLC.                                    *)
EXTENDS Monitors, TLC

CONSTANTS s1, s2, running, other

(* A listing of four servers has the keys 0, 1, 3, 2 in the order of their *)
(* ternary digits, in which 3 is "10".                                     *)
MCListings == {<<>>, <<s1>>, <<s1, s2, s2, s1>>}

(* A numeral that leaves 32 bits, and 64 once it is nanoseconds.           *)
MCPoolTypes == (2 :> "Integer" @@ 9 :> "TimeTicks" @@ 10 :> "Counter32")
MCProcTypes == (2 :> "Integer")
MCDataEnums == (<<3, 2>> :> (running :> 2))
MCStatuses == {[pool |-> 5, procs |-> <<running, other>>]}

MCRangeEnd == <<4>>

(* From the base oid and from oids the tables have or not, with nearer and *)
(* farther ends.                                                           *)
MCAsked ==
    {r \in [from : {<<>>, <<1, 2>>, <<1, 5>>, <<2, 1, 10>>},
            include : BOOLEAN, to : {<<1, 3>>, MCRangeEnd}] :
        OIDLessThan(r.from, r.to)}

Good == [level |-> "known", format |-> "absent", dir |-> TRUE]
MCConfigs == {
    [a \in {"stdout", "file"} |-> Good],
    [a \in {"stdout", "syslog"} |-> Good],
    [a \in {"file"} |-> [Good EXCEPT !.dir = FALSE]],
    [a \in {"stdout"} |-> [Good EXCEPT !.level = "absent"]],
    [a \in {"stdout"} |-> [Good EXCEPT !.format = "unknown"]]}
=============================================================================
