--------------------------- MODULE OidOrderProofs ---------------------------
(***************************************************************************)
(* The comparison of oids is a strict total order, sorting by it puts a    *)
(* finite set of oids in ascending order, and the search of GetNext in an  *)
(* ascending list finds the least oid of the range it is asked for.        *)
(***************************************************************************)
EXTENDS OidOrder, FiniteSetTheorems, FunctionTheorems, WellFoundedInduction,
        TLAPS

(* A set of natural numbers has a least element.                           *)
LEMMA LeastNatural ==
    ASSUME NEW S \in SUBSET Nat, S # {}
    PROVE  \E n \in S : \A k \in S : n <= k
<1>1. PICK n \in S : \A k \in S : ~(<<k, n>> \in OpToRel(<, Nat))
  BY WFMin, NatLessThanWellFounded
<1>2. ASSUME NEW k \in S PROVE n <= k
  <2>1. k \in Nat /\ n \in Nat
    OBVIOUS
  <2>2. ~(k < n)
    BY <1>1, <2>1 DEF OpToRel
  <2> QED BY <2>1, <2>2
<1> QED BY <1>2

LEMMA OidShape ==
    ASSUME NEW oid \in Oid
    PROVE  /\ Len(oid) \in Nat /\ DOMAIN oid = 1..Len(oid)
           /\ \A k \in 1..Len(oid) : oid[k] \in Nat
BY DEF Oid

-----------------------------------------------------------------------------
LEMMA SplitAtDifference ==
    ASSUME NEW a \in Oid, NEW b \in Oid, a # b,
           ~\E k \in 1..Len(a) : DiffersAt(k, a, b)
    PROVE  /\ Len(a) # Len(b)
           /\ Len(a) < Len(b) => AgreeTo(Len(a), a, b)
           /\ Len(b) < Len(a) => AgreeTo(Len(b), a, b)
<1> DEFINE D == {k \in 1..Len(a) : k \in 1..Len(b) /\ a[k] # b[k]}
<1>0. D \in SUBSET Nat
  OBVIOUS
<1>1. D = {}
  <2> SUFFICES ASSUME D # {} PROVE FALSE
    OBVIOUS
  <2>1. PICK k \in D : \A i \in D : k <= i
    BY LeastNatural, <1>0
  <2>2. AgreeTo(k - 1, a, b)
    <3> SUFFICES ASSUME NEW i \in 1..(k - 1), a[i] # b[i] PROVE FALSE
      BY DEF AgreeTo
    <3>1. i \in D /\ i < k
      BY OidShape
    <3> QED BY <2>1, <3>1
  <2>3. DiffersAt(k, a, b)
    BY <2>2 DEF DiffersAt
  <2> QED BY <2>3
<1>2. ASSUME Len(a) <= Len(b) PROVE AgreeTo(Len(a), a, b)
  BY <1>1, <1>2, OidShape DEF AgreeTo
<1>3. ASSUME Len(b) <= Len(a) PROVE AgreeTo(Len(b), a, b)
  BY <1>1, <1>3, OidShape DEF AgreeTo
<1>4. ASSUME Len(a) = Len(b) PROVE FALSE
  <2>1. \A i \in 1..Len(a) : a[i] = b[i]
    BY <1>2, <1>4, OidShape DEF AgreeTo
  <2>2. a \in Seq(Nat) /\ b \in Seq(Nat)
    BY DEF Oid
  <2>3. a = b
    BY <2>1, <2>2, <1>4
  <2> QED BY <2>3
<1> QED BY <1>2, <1>3, <1>4, OidShape

(* OIDGreaterThan and OIDLessThan, two copies of one loop, are converses.  *)
THEOREM GreaterIsConverse ==
    ASSUME NEW a \in Oid, NEW b \in Oid
    PROVE  OIDGreaterThan(a, b) <=> OIDLessThan(b, a)
<1>1. ASSUME NEW k PROVE DiffersAt(k, a, b) <=> DiffersAt(k, b, a)
  <2>1. ASSUME k \in 1..Len(a) PROVE AgreeTo(k - 1, a, b) <=> AgreeTo(k - 1, b, a)
    BY DEF AgreeTo
  <2> QED BY <2>1 DEF DiffersAt
<1>2. AgreeTo(Len(b), a, b) <=> AgreeTo(Len(b), b, a)
  BY DEF AgreeTo
<1>3. (\E k \in 1..Len(a) : DiffersAt(k, a, b) /\ a[k] > b[k])
        <=> \E k \in 1..Len(b) : DiffersAt(k, b, a) /\ b[k] < a[k]
  <2>1. ASSUME NEW k \in 1..Len(a), k \in 1..Len(b)
        PROVE  a[k] > b[k] <=> b[k] < a[k]
    BY <2>1, OidShape
  <2>2. ASSUME NEW k, DiffersAt(k, a, b) PROVE k \in 1..Len(a) /\ k \in 1..Len(b)
    BY <2>2 DEF DiffersAt
  <2> QED BY <1>1, <2>1, <2>2
<1>4. Len(a) > Len(b) <=> Len(b) < Len(a)
  BY OidShape
<1> QED BY <1>2, <1>3, <1>4 DEF OIDGreaterThan, OIDLessThan

(* No oid comes before itself.                                             *)
THEOREM LessIsIrreflexive ==
    ASSUME NEW a \in Oid PROVE ~OIDLessThan(a, a)
BY OidShape DEF OIDLessThan, DiffersAt

(* Of two different oids one comes before the other.                       *)
THEOREM LessIsTotal ==
    ASSUME NEW a \in Oid, NEW b \in Oid, a # b
    PROVE  OIDLessThan(a, b) \/ OIDLessThan(b, a)
<1>1. CASE \E k \in 1..Len(a) : DiffersAt(k, a, b)
  <2>1. PICK k \in 1..Len(a) : DiffersAt(k, a, b)
    BY <1>1
  <2>2. k \in 1..Len(b) /\ a[k] # b[k] /\ AgreeTo(k - 1, b, a)
    BY <2>1 DEF DiffersAt, AgreeTo
  <2>3. a[k] < b[k] \/ b[k] < a[k]
    BY <2>1, <2>2, OidShape
  <2>4. DiffersAt(k, b, a)
    BY <2>2 DEF DiffersAt
  <2> QED BY <2>1, <2>2, <2>3, <2>4 DEF OIDLessThan
<1>2. CASE ~\E k \in 1..Len(a) : DiffersAt(k, a, b)
  <2>1. /\ Len(a) # Len(b)
        /\ Len(a) < Len(b) => AgreeTo(Len(a), a, b)
        /\ Len(b) < Len(a) => AgreeTo(Len(b), a, b)
    BY <1>2, SplitAtDifference
  <2>2. AgreeTo(Len(b), a, b) => AgreeTo(Len(b), b, a)
    BY DEF AgreeTo
  <2> QED BY <2>1, <2>2, OidShape DEF OIDLessThan
<1> QED BY <1>1, <1>2

(* The order is transitive.                                                *)
THEOREM LessIsTransitive ==
    ASSUME NEW a \in Oid, NEW b \in Oid, NEW c \in Oid,
           OIDLessThan(a, b), OIDLessThan(b, c)
    PROVE  OIDLessThan(a, c)
<1> DEFINE AtDifference(k, x, y) ==
        k \in 1..Len(x) /\ k \in 1..Len(y) /\ x[k] < y[k] /\ AgreeTo(k - 1, x, y)
<1> DEFINE AtEnd(x, y) == Len(x) < Len(y) /\ AgreeTo(Len(x), x, y)
<1>0. ASSUME NEW x \in Oid, NEW y \in Oid
      PROVE  OIDLessThan(x, y) <=> AtEnd(x, y) \/ \E k : AtDifference(k, x, y)
  <2>1. ASSUME NEW k \in 1..Len(x), k \in 1..Len(y)
        PROVE x[k] < y[k] => x[k] # y[k]
    BY <2>1, OidShape
  <2> QED BY <2>1 DEF OIDLessThan, DiffersAt
<1>1. CASE AtEnd(a, b) /\ AtEnd(b, c)
  <2>1. AtEnd(a, c)
    BY <1>1, OidShape DEF AgreeTo
  <2> QED BY <1>0, <2>1
<1>2. ASSUME NEW k, AtDifference(k, a, b), AtEnd(b, c) PROVE OIDLessThan(a, c)
  <2>1. AtDifference(k, a, c)
    BY <1>2, OidShape DEF AgreeTo
  <2> QED BY <1>0, <2>1
<1>3. ASSUME NEW k, AtEnd(a, b), AtDifference(k, b, c) PROVE OIDLessThan(a, c)
  <2>1. CASE k <= Len(a)
    <3>1. AtDifference(k, a, c)
      BY <1>3, <2>1, OidShape DEF AgreeTo
    <3> QED BY <1>0, <3>1
  <2>2. CASE k > Len(a)
    <3>1. AtEnd(a, c)
      BY <1>3, <2>2, OidShape DEF AgreeTo
    <3> QED BY <1>0, <3>1
  <2> QED BY <1>3, <2>1, <2>2, OidShape
<1>4. ASSUME NEW k, NEW l, AtDifference(k, a, b), AtDifference(l, b, c)
      PROVE  OIDLessThan(a, c)
  <2>1. CASE k <= l
    <3>1. AtDifference(k, a, c)
      BY <1>4, <2>1, OidShape DEF AgreeTo
    <3> QED BY <1>0, <3>1
  <2>2. CASE l < k
    <3>1. AtDifference(l, a, c)
      BY <1>4, <2>2, OidShape DEF AgreeTo
    <3> QED BY <1>0, <3>1
  <2> QED BY <1>4, <2>1, <2>2, OidShape
<1> QED BY <1>0, <1>1, <1>2, <1>3, <1>4

(* GetNext: "false with less and greater means equal".                     *)
THEOREM NeitherMeansEqual ==
    ASSUME NEW a \in Oid, NEW b \in Oid
    PROVE  ~OIDLessThan(a, b) /\ ~OIDGreaterThan(a, b) <=> a = b
BY LessIsTotal, LessIsIrreflexive, GreaterIsConverse

-----------------------------------------------------------------------------
(* A place in the order is the number of smaller oids.                     *)
LEMMA SmallerIsFinite ==
    ASSUME NEW S \in SUBSET Oid, IsFiniteSet(S), NEW a \in S
    PROVE  /\ IsFiniteSet(SmallerOids(S, a))
           /\ Cardinality(SmallerOids(S, a)) \in 0..(Cardinality(S) - 1)
<1>1. SmallerOids(S, a) \in SUBSET S
  BY DEF SmallerOids
<1>2. /\ IsFiniteSet(SmallerOids(S, a))
      /\ Cardinality(SmallerOids(S, a)) <= Cardinality(S)
      /\ Cardinality(S) = Cardinality(SmallerOids(S, a)) => S = SmallerOids(S, a)
  BY <1>1, FS_Subset
<1>3. S # SmallerOids(S, a)
  BY LessIsIrreflexive DEF SmallerOids
<1>4. Cardinality(S) \in Nat /\ Cardinality(SmallerOids(S, a)) \in Nat
  BY <1>2, FS_CardinalityType
<1> QED BY <1>2, <1>3, <1>4

LEMMA SmallerGrows ==
    ASSUME NEW S \in SUBSET Oid, IsFiniteSet(S), NEW a \in S, NEW b \in S,
           OIDLessThan(a, b)
    PROVE  Cardinality(SmallerOids(S, a)) < Cardinality(SmallerOids(S, b))
<1>1. SmallerOids(S, a) \cup {a} \subseteq SmallerOids(S, b)
  BY LessIsTransitive DEF SmallerOids
<1>2. a \notin SmallerOids(S, a)
  BY LessIsIrreflexive DEF SmallerOids
<1>3. SmallerOids(S, a) \in SUBSET SmallerOids(S, b)
  BY <1>1
<1>4. IsFiniteSet(SmallerOids(S, b)) /\ IsFiniteSet(SmallerOids(S, a))
  BY SmallerIsFinite
<1>5. /\ Cardinality(SmallerOids(S, a)) <= Cardinality(SmallerOids(S, b))
      /\ Cardinality(SmallerOids(S, b)) = Cardinality(SmallerOids(S, a)) =>
            SmallerOids(S, b) = SmallerOids(S, a)
  BY <1>3, <1>4, FS_Subset
<1>6. SmallerOids(S, b) # SmallerOids(S, a)
  BY <1>1, <1>2
<1>7. /\ Cardinality(SmallerOids(S, a)) \in Nat
      /\ Cardinality(SmallerOids(S, b)) \in Nat
  BY <1>4, FS_CardinalityType
<1> QED BY <1>5, <1>6, <1>7

LEMMA EveryPlaceIsTaken ==
    ASSUME NEW S \in SUBSET Oid, IsFiniteSet(S), NEW i \in 1..Cardinality(S)
    PROVE  \E a \in S : Cardinality(SmallerOids(S, a)) = i - 1
<1> DEFINE N == Cardinality(S)
           P == 0..(N - 1)
           place == [a \in S |-> Cardinality(SmallerOids(S, a))]
<1>1. N \in Nat
  BY FS_CardinalityType
<1>2. IsFiniteSet(P) /\ Cardinality(P) = N
  <2>1. 0 \in Int /\ N - 1 \in Int
    BY <1>1
  <2>2. IsFiniteSet(P) /\ Cardinality(P) = IF 0 > N - 1 THEN 0 ELSE N - 1 - 0 + 1
    BY <2>1, FS_Interval
  <2> QED BY <1>1, <2>2
<1>3. place \in Injection(S, P)
  <2>1. place \in [S -> P]
    BY SmallerIsFinite
  <2>2. ASSUME NEW a \in S, NEW b \in S, a # b PROVE place[a] # place[b]
    <3>1. OIDLessThan(a, b) \/ OIDLessThan(b, a)
      BY <2>2, LessIsTotal
    <3>2. OIDLessThan(a, b) => place[a] < place[b]
      BY SmallerGrows
    <3>3. OIDLessThan(b, a) => place[b] < place[a]
      BY SmallerGrows
    <3>4. place[a] \in Int /\ place[b] \in Int
      BY <2>1
    <3> HIDE DEF place
    <3> QED BY <3>1, <3>2, <3>3, <3>4
  <2> HIDE DEF place, P
  <2> QED BY <2>1, <2>2 DEF Injection, IsInjective
<1>4. place \in Surjection(S, P)
  <2> HIDE DEF place, P
  <2> QED BY <1>2, <1>3, FS_Injection
<1>5. i - 1 \in P
  BY <1>1
<1>6. \E a \in S : place[a] = i - 1
  <2> HIDE DEF place, P
  <2> QED BY <1>4, <1>5 DEF Surjection
<1> QED BY <1>6

LEMMA SortPlaces ==
    ASSUME NEW S \in SUBSET Oid, IsFiniteSet(S)
    PROVE  /\ Cardinality(S) \in Nat
           /\ DOMAIN SortOids(S) = 1..Cardinality(S)
           /\ \A i \in 1..Cardinality(S) :
                /\ SortOids(S)[i] \in S
                /\ Cardinality(SmallerOids(S, SortOids(S)[i])) = i - 1
<1>1. ASSUME NEW i \in 1..Cardinality(S)
      PROVE  /\ SortOids(S)[i] \in S
             /\ Cardinality(SmallerOids(S, SortOids(S)[i])) = i - 1
  <2>1. SortOids(S)[i] =
            CHOOSE oid \in S : Cardinality(SmallerOids(S, oid)) = i - 1
    BY DEF SortOids
  <2> QED BY <2>1, EveryPlaceIsTaken
<1>2. Cardinality(S) \in Nat
  BY FS_CardinalityType
<1> QED BY <1>1, <1>2 DEF SortOids

(* sort.Sort(OIDSorter(oids)): every oid of a finite set once, ascending.  *)
THEOREM SortIsAscending ==
    ASSUME NEW S \in SUBSET Oid, IsFiniteSet(S)
    PROVE  /\ {SortOids(S)[i] : i \in DOMAIN SortOids(S)} = S
           /\ SortOids(S) \in Seq(S) /\ Len(SortOids(S)) = Cardinality(S)
           /\ \A i, j \in DOMAIN SortOids(S) :
                i < j => OIDLessThan(SortOids(S)[i], SortOids(S)[j])
<1> DEFINE N == Cardinality(S)
           sorted == SortOids(S)
<1>1. /\ N \in Nat /\ DOMAIN sorted = 1..N
      /\ \A i \in 1..N : /\ sorted[i] \in S
                         /\ Cardinality(SmallerOids(S, sorted[i])) = i - 1
  BY SortPlaces
<1>2. ASSUME NEW i \in 1..N, NEW j \in 1..N, i < j
      PROVE  OIDLessThan(sorted[i], sorted[j])
  <2>1. sorted[i] # sorted[j]
    BY <1>1, <1>2
  <2>2. ~OIDLessThan(sorted[j], sorted[i])
    <3> SUFFICES ASSUME OIDLessThan(sorted[j], sorted[i]) PROVE FALSE
      OBVIOUS
    <3>1. Cardinality(SmallerOids(S, sorted[j])) < Cardinality(SmallerOids(S, sorted[i]))
      BY <1>1, SmallerGrows
    <3> QED BY <1>1, <1>2, <3>1
  <2> QED BY <1>1, <2>1, <2>2, LessIsTotal
<1>3. ASSUME NEW a \in S PROVE \E i \in 1..N : sorted[i] = a
  <2> DEFINE i == Cardinality(SmallerOids(S, a)) + 1
  <2>1. i \in 1..N /\ Cardinality(SmallerOids(S, a)) = i - 1
    BY <1>1, SmallerIsFinite
  <2>2. Cardinality(SmallerOids(S, sorted[i])) = i - 1 /\ sorted[i] \in S
    BY <1>1, <2>1
  <2>3. sorted[i] = a
    <3> SUFFICES ASSUME sorted[i] # a PROVE FALSE
      OBVIOUS
    <3>1. \/ Cardinality(SmallerOids(S, sorted[i])) < Cardinality(SmallerOids(S, a))
          \/ Cardinality(SmallerOids(S, a)) < Cardinality(SmallerOids(S, sorted[i]))
      BY <2>2, LessIsTotal, SmallerGrows
    <3> QED BY <2>1, <2>2, <3>1
  <2> QED BY <2>1, <2>3
<1>4. sorted \in Seq(S) /\ Len(sorted) = N
  <2>1. sorted = [i \in 1..N |-> sorted[i]]
    BY <1>1 DEF SortOids
  <2> HIDE DEF sorted
  <2> QED BY <1>1, <2>1
<1> HIDE DEF sorted, N
<1>5. {sorted[i] : i \in DOMAIN sorted} = S
  BY <1>1, <1>3
<1>6. \A i, j \in DOMAIN sorted : i < j => OIDLessThan(sorted[i], sorted[j])
  BY <1>1, <1>2
<1> QED BY <1>4, <1>5, <1>6 DEF sorted, N

-----------------------------------------------------------------------------
Ascending(oids) ==
    \A i, j \in DOMAIN oids : i < j => OIDLessThan(oids[i], oids[j])

(* The loop of GetNext stops at the first oid that matches.                *)
LEMMA FirstHitIs ==
    ASSUME NEW oids \in Seq(Oid), NEW from, NEW includeFrom, NEW to,
           NEW n \in Hits(oids, from, includeFrom, to),
           \A i \in Hits(oids, from, includeFrom, to) : n <= i
    PROVE  FirstHit(oids, from, includeFrom, to) = oids[n]
<1> DEFINE H == Hits(oids, from, includeFrom, to)
<1>1. H \subseteq DOMAIN oids /\ DOMAIN oids \subseteq Nat
  BY DEF Hits
<1>2. IsFirst(n, H)
  BY DEF IsFirst
<1>3. ASSUME NEW i \in DOMAIN oids, IsFirst(i, H) PROVE i = n
  <2>1. i <= n /\ n <= i /\ i \in Nat /\ n \in Nat
    BY <1>1, <1>3 DEF IsFirst
  <2> QED BY <2>1
<1> HIDE DEF H
<1>4. (CHOOSE i \in DOMAIN oids : IsFirst(i, H)) = n
  BY <1>1, <1>2, <1>3 DEF H
<1> QED BY <1>4 DEF FirstHit, H

(* GETNEXT in an ascending list, of any range: the least oid in the range, *)
(* or none when there is none.                                             *)
THEOREM GetNextIsLeast ==
    ASSUME NEW oids \in Seq(Oid), Ascending(oids),
           NEW from \in Oid, NEW include \in BOOLEAN, NEW to \in Oid,
           OIDLessThan(from, to)
    PROVE  /\ Hits(oids, from, include, to) =
                {i \in DOMAIN oids : InRange(oids[i], from, include, to)}
           /\ Hits(oids, from, include, to) # {} =>
                \E n \in Hits(oids, from, include, to) :
                    /\ FirstHit(oids, from, include, to) = oids[n]
                    /\ \A i \in Hits(oids, from, include, to) \ {n} :
                        OIDLessThan(oids[n], oids[i])
<1> DEFINE H == Hits(oids, from, include, to)
<1>1. DOMAIN oids = 1..Len(oids) /\ \A i \in DOMAIN oids : oids[i] \in Oid
  OBVIOUS
<1>2. ASSUME NEW oid \in Oid
      PROVE  Matches(oid, from, include, to) <=> InRange(oid, from, include, to)
  <2>1. OIDGreaterThan(oid, from) <=> OIDLessThan(from, oid)
    BY GreaterIsConverse
  <2>2. ~OIDLessThan(oid, from) /\ ~OIDGreaterThan(oid, from) <=> oid = from
    BY NeitherMeansEqual
  <2> QED BY <2>1, <2>2 DEF Matches, InRange
<1>3. H = {i \in DOMAIN oids : InRange(oids[i], from, include, to)}
  BY <1>1, <1>2 DEF Hits
<1>4. ASSUME H # {}
      PROVE  \E n \in H : /\ FirstHit(oids, from, include, to) = oids[n]
                          /\ \A i \in H \ {n} : OIDLessThan(oids[n], oids[i])
  <2>1. H \in SUBSET Nat /\ H \subseteq DOMAIN oids
    BY <1>1 DEF Hits
  <2>2. PICK n \in H : \A i \in H : n <= i
    <3> HIDE DEF H
    <3> QED BY <1>4, <2>1, LeastNatural
  <2>3. FirstHit(oids, from, include, to) = oids[n]
    BY <2>2, FirstHitIs
  <2>4. ASSUME NEW i \in H \ {n} PROVE OIDLessThan(oids[n], oids[i])
    <3>1. n \in DOMAIN oids /\ i \in DOMAIN oids /\ n < i
      <4> HIDE DEF H
      <4> QED BY <2>1, <2>2
    <3> QED BY <3>1 DEF Ascending
  <2> QED BY <2>3, <2>4
<1> QED BY <1>3, <1>4
=============================================================================
