--------------------------- MODULE MCSnmpSubagent ---------------------------
(* Small instances of SnmpSubagent for TLC.                                *)
EXTENDS SnmpSubagentProperties, TLC

CONSTANTS n1, n2, o1, o2

MCNames == {n1, n2}
MCOids  == {o1, o2}

(* A client that lists its oids, and one that is discovered, periodically. *)
Listed     == [name |-> n1, disc |-> FALSE, redisc |-> FALSE, oids |-> {o2}]
Discovered == [name |-> n2, disc |-> TRUE, redisc |-> TRUE, oids |-> {}]

FormsBoth     == {Listed, Discovered}
FormsLive     == {[Discovered EXCEPT !.oids = {o1}]}
FormsListed   == {Listed, [Listed EXCEPT !.name = n2]}
FormsTwoOids  == {[Listed EXCEPT !.oids = {o1, o2}], Discovered}
DiscoveredSets == {{}, {o1}}
DiscoveredTwo  == {{o1, o2}}

Symmetry == Permutations(Handlers)
=============================================================================
