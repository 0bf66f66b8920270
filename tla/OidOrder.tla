------------------------------ MODULE OidOrder ------------------------------
(***************************************************************************)
(* How the monitors order oids, search them for a GETNEXT, and number the  *)
(* rows of their tables.  An oid is the sequence of its numbers below the  *)
(* monitor's base oid, so that the base oid itself is <<>>.                *)
(***************************************************************************)
EXTENDS Naturals, Sequences, FiniteSets

CONSTANT Radix   \* of the numerals of strconv.Itoa: 10

ASSUME RadixAssumption == Radix \in Nat \ {0, 1}

Oid == Seq(Nat)

(* The first k numbers of the two oids agree.                              *)
AgreeTo(k, oid, other) == \A i \in 1..k : oid[i] = other[i]

DiffersAt(k, oid, other) ==
    /\ k \in 1..Len(oid) /\ k \in 1..Len(other)
    /\ oid[k] # other[k]
    /\ AgreeTo(k - 1, oid, other)

OIDLessThan(oid, other) ==
    \/ \E k \in 1..Len(oid) : DiffersAt(k, oid, other) /\ oid[k] < other[k]
    \/ Len(oid) < Len(other) /\ AgreeTo(Len(oid), oid, other)

OIDGreaterThan(oid, other) ==
    \/ \E k \in 1..Len(oid) : DiffersAt(k, oid, other) /\ oid[k] > other[k]
    \/ Len(oid) > Len(other) /\ AgreeTo(Len(other), oid, other)

(* What sort.Sort makes of different oids: each at the place that the      *)
(* number of smaller ones gives it.                                        *)
SmallerOids(S, oid) == {other \in S : OIDLessThan(other, oid)}

SortOids_ByRow(S) ==
    LET Back(oid) == <<oid[Len(oid)]>> \o oid
        Place(oid) == Cardinality({p \in S : OIDLessThan(Back(p), Back(oid))})
    IN [i \in 1..Cardinality(S) |-> CHOOSE oid \in S : Place(oid) = i - 1]
SortOids(S) ==
    LET place == [oid \in S |-> Cardinality(SmallerOids(S, oid))]
    IN [i \in 1..Cardinality(S) |-> CHOOSE oid \in S : place[oid] = i - 1]

-----------------------------------------------------------------------------
(* GetNext: the loop's two conditions, and the first oid that meets one.   *)
Matches(oid, from, includeFrom, to) ==
    \/ OIDGreaterThan(oid, from) /\ OIDLessThan(oid, to)
    \/ includeFrom /\ ~OIDLessThan(oid, from) /\ ~OIDGreaterThan(oid, from)

Hits(oids, from, includeFrom, to) ==
    {i \in DOMAIN oids : Matches(oids[i], from, includeFrom, to)}

IsFirst(i, S) == i \in S /\ \A j \in S : i <= j

FirstHit(oids, from, includeFrom, to) ==
    LET hits == Hits(oids, from, includeFrom, to)
    IN oids[CHOOSE i \in DOMAIN oids : IsFirst(i, hits)]

(* What a GETNEXT asks for: an oid behind from, or from itself where it is *)
(* included, and before to.                                                *)
InRange(oid, from, include, to) ==
    /\ OIDLessThan(from, oid) \/ (include /\ oid = from)
    /\ OIDLessThan(oid, to)

-----------------------------------------------------------------------------
(* sort.Strings puts the numerals of strconv.Itoa in the order of their    *)
(* digits, read as an oid: "10" comes before "2".                          *)
Itoa[n \in Nat] ==
    IF n < Radix THEN <<n>> ELSE Append(Itoa[n \div Radix], n % Radix)

SortKeys(K) ==
    [i \in 1..Cardinality(K) |->
        CHOOSE n \in K :
            Cardinality({k \in K : OIDLessThan(Itoa[k], Itoa[n])}) = i - 1]
=============================================================================
