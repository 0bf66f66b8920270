--------------------------- MODULE KeyOrderProofs ---------------------------
(***************************************************************************)
(* The numerals of strconv.Itoa are different for different numbers, so    *)
(* sort.Strings puts every key of a map at a place of its own.             *)
(***************************************************************************)
EXTENDS OidOrderProofs

(* The last digit and the others.                                          *)
LEMMA DigitsOf ==
    ASSUME NEW n \in Nat
    PROVE  /\ n \div Radix \in Nat /\ n % Radix \in Nat
           /\ n = Radix * (n \div Radix) + (n % Radix)
           /\ n >= Radix => n \div Radix < n
<1>1. Radix \in Nat /\ Radix > 1
  BY RadixAssumption
<1>2. /\ n \div Radix \in Int /\ n % Radix \in 0..(Radix - 1)
      /\ n = Radix * (n \div Radix) + (n % Radix)
  BY <1>1
<1> DEFINE q == n \div Radix
           r == n % Radix
<1>3. q \in Int /\ r \in 0..(Radix - 1) /\ n = Radix * q + r
  BY <1>2
<1> HIDE DEF q, r
<1>4. q >= 0
  <2> SUFFICES ASSUME q < 0 PROVE FALSE
    BY <1>3
  <2>1. Radix * q <= -Radix
    BY <1>1, <1>3
  <2> QED BY <1>1, <1>3, <2>1
<1>5. q > 0 => Radix * q > q
  BY <1>1, <1>3
<1>6. n >= Radix => q < n
  BY <1>1, <1>3, <1>4, <1>5
<1>7. r \in Nat
  BY <1>1, <1>3
<1> QED BY <1>3, <1>4, <1>6, <1>7 DEF q, r

-----------------------------------------------------------------------------
(* Itoa is defined by recursion; its prefixes are built one by one.        *)
Numeral(f, n) ==
    IF n < Radix THEN <<n>> ELSE Append(f[n \div Radix], n % Radix)
Prefix(f, n) == f = [i \in 0..n |-> Numeral(f, i)]

LEMMA PrefixesAgree ==
    ASSUME NEW m \in Nat, NEW n \in Nat, NEW f, NEW g, Prefix(f, m), Prefix(g, n),
           NEW i \in 0..m, i \in 0..n
    PROVE  f[i] = g[i]
<1> DEFINE D == {k \in 0..m : k \in 0..n /\ f[k] # g[k]}
<1> SUFFICES ASSUME D # {} PROVE FALSE
  OBVIOUS
<1>1. PICK k \in D : \A l \in D : k <= l
  <2>1. D \in SUBSET Nat
    OBVIOUS
  <2> QED BY <2>1, LeastNatural
<1>2. f[k] = Numeral(f, k) /\ g[k] = Numeral(g, k)
  BY DEF Prefix
<1>3. k \in Nat /\ Radix \in Nat
  BY RadixAssumption
<1>4. CASE k < Radix
  BY <1>2, <1>4 DEF Numeral
<1>5. CASE k >= Radix
  <2>1. k \div Radix \in Nat /\ k \div Radix < k
    BY <1>3, <1>5, DigitsOf
  <2>2. k \div Radix \in 0..m /\ k \div Radix \in 0..n /\ k \div Radix \notin D
    BY <1>1, <2>1
  <2>3. f[k \div Radix] = g[k \div Radix]
    BY <2>2
  <2> QED BY <1>2, <1>3, <1>5, <2>3 DEF Numeral
<1> QED BY <1>3, <1>4, <1>5

LEMMA PrefixExists ==
    ASSUME NEW n \in Nat PROVE \E f : Prefix(f, n)
<1> DEFINE B == {k \in Nat : ~\E f : Prefix(f, k)}
<1> SUFFICES ASSUME B # {} PROVE FALSE
  OBVIOUS
<1>1. PICK k \in B : \A l \in B : k <= l
  BY LeastNatural
<1>2. k \in Nat /\ Radix \in Nat /\ Radix > 1
  BY RadixAssumption
<1>3. CASE k = 0
  <2> DEFINE f == [i \in 0..0 |-> <<0>>]
  <2>1. \A i \in 0..0 : i = 0 /\ Numeral(f, i) = <<0>>
    BY <1>2 DEF Numeral
  <2>2. f = [i \in 0..0 |-> Numeral(f, i)]
    BY <2>1
  <2> HIDE DEF f
  <2> QED BY <1>3, <2>2 DEF Prefix
<1>4. CASE k # 0
  <2>1. k - 1 \in Nat /\ k - 1 \notin B
    BY <1>1, <1>2, <1>4
  <2>2. PICK f : Prefix(f, k - 1)
    BY <2>1
  <2> DEFINE g == [i \in 0..k |-> IF i < k THEN f[i] ELSE Numeral(f, k)]
  <2>3. ASSUME NEW i \in 0..k PROVE Numeral(g, i) = Numeral(f, i)
    <3>1. CASE i < Radix
      BY <3>1 DEF Numeral
    <3>2. CASE i >= Radix
      <4>1. i \div Radix \in Nat /\ i \div Radix < i /\ i \in Nat
        BY <3>2, DigitsOf
      <4>2. g[i \div Radix] = f[i \div Radix]
        BY <1>2, <4>1
      <4> HIDE DEF g
      <4> QED BY <4>2 DEF Numeral
    <3> QED BY <1>2, <3>1, <3>2
  <2>4. ASSUME NEW i \in 0..k PROVE g[i] = Numeral(f, i)
    <3>1. CASE i < k
      <4>1. i \in 0..(k - 1)
        BY <1>2, <3>1
      <4> QED BY <2>2, <3>1, <4>1 DEF Prefix
    <3>2. CASE i = k
      BY <3>2
    <3> QED BY <1>2, <3>1, <3>2
  <2>5. g = [i \in 0..k |-> g[i]]
    OBVIOUS
  <2> HIDE DEF g
  <2>6. g = [i \in 0..k |-> Numeral(g, i)]
    BY <2>3, <2>4, <2>5
  <2> QED BY <2>6 DEF Prefix
<1> QED BY <1>3, <1>4

LEMMA ItoaIs == Itoa = [n \in Nat |-> Numeral(Itoa, n)]
<1> DEFINE P(n) == CHOOSE f : Prefix(f, n)
           F == [n \in Nat |-> P(n)[n]]
<1>1. ASSUME NEW n \in Nat PROVE Prefix(P(n), n)
  BY PrefixExists
<1>2. ASSUME NEW n \in Nat PROVE F[n] = Numeral(F, n)
  <2>1. P(n)[n] = Numeral(P(n), n)
    <3> HIDE DEF P
    <3> QED BY <1>1 DEF Prefix
  <2>2. CASE n < Radix
    BY <2>1, <2>2 DEF Numeral
  <2>3. CASE n >= Radix
    <3> DEFINE q == n \div Radix
    <3>1. q \in Nat /\ q < n
      BY <2>3, DigitsOf
    <3>2. P(n)[q] = P(q)[q]
      <4>1. Prefix(P(n), n) /\ Prefix(P(q), q) /\ q \in 0..n /\ q \in 0..q
        BY <1>1, <3>1
      <4> HIDE DEF P, q
      <4> QED BY <3>1, <4>1, PrefixesAgree
    <3>3. F[q] = P(q)[q] /\ F[n] = P(n)[n]
      BY <3>1
    <3> HIDE DEF F, P
    <3> QED BY <2>1, <3>2, <3>3 DEF Numeral
  <2> QED BY <2>2, <2>3, RadixAssumption
<1>3. F = [n \in Nat |-> F[n]]
  OBVIOUS
<1> HIDE DEF F
<1>4. F = [n \in Nat |-> Numeral(F, n)]
  BY <1>2, <1>3
<1> DEFINE G(f) == f = [n \in Nat |-> Numeral(f, n)]
<1>5. \E f : G(f)
  BY <1>4
<1>6. Itoa = CHOOSE f : G(f)
  BY Zenon DEF Itoa, Numeral
<1> HIDE DEF G
<1>7. G(Itoa)
  BY <1>5, <1>6
<1> QED BY <1>7 DEF G

LEMMA NumeralOf ==
    ASSUME NEW n \in Nat
    PROVE  /\ n < Radix => Itoa[n] = <<n>>
           /\ n >= Radix => Itoa[n] = Append(Itoa[n \div Radix], n % Radix)
<1>1. Itoa[n] = Numeral(Itoa, n)
  BY ItoaIs
<1> QED BY <1>1, RadixAssumption DEF Numeral

(* A numeral is a sequence of at least one digit.                          *)
LEMMA NumeralType ==
    ASSUME NEW n \in Nat PROVE Itoa[n] \in Oid /\ Len(Itoa[n]) >= 1
<1> DEFINE B == {k \in Nat : ~(Itoa[k] \in Seq(Nat) /\ Len(Itoa[k]) >= 1)}
<1> SUFFICES ASSUME B # {} PROVE FALSE
  BY DEF Oid
<1>1. PICK k \in B : \A l \in B : k <= l
  BY LeastNatural
<1>2. k \in Nat /\ Radix \in Nat
  BY RadixAssumption
<1>3. CASE k < Radix
  <2>1. Itoa[k] = <<k>>
    BY <1>2, <1>3, NumeralOf
  <2>2. <<k>> \in Seq(Nat) /\ Len(<<k>>) >= 1
    BY <1>2
  <2> QED BY <1>1, <2>1, <2>2, Zenon
<1>4. CASE k >= Radix
  <2> DEFINE q == k \div Radix
  <2>1. q \in Nat /\ q < k /\ k % Radix \in Nat
    BY <1>2, <1>4, DigitsOf, Zenon
  <2>2. q \notin B
    BY <1>1, <1>2, <2>1
  <2>3. Itoa[q] \in Seq(Nat) /\ Len(Itoa[q]) >= 1
    BY <2>1, <2>2
  <2>4. Itoa[k] = Append(Itoa[q], k % Radix)
    BY <1>2, <1>4, NumeralOf
  <2>5. Itoa[k] \in Seq(Nat) /\ Len(Itoa[k]) >= 1
    <3> HIDE DEF q
    <3> QED BY <2>1, <2>3, <2>4
  <2> QED BY <1>1, <2>5
<1> QED BY <1>2, <1>3, <1>4

LEMMA NumeralLength ==
    ASSUME NEW n \in Nat PROVE Len(Itoa[n]) = 1 <=> n < Radix
<1>1. CASE n < Radix
  <2>1. Itoa[n] = <<n>> /\ Len(<<n>>) = 1
    BY <1>1, NumeralOf
  <2> QED BY <1>1, <2>1
<1>2. CASE n >= Radix
  <2> DEFINE q == n \div Radix
  <2>1. q \in Nat /\ n % Radix \in Nat
    BY <1>2, DigitsOf
  <2>2. Itoa[q] \in Seq(Nat) /\ Len(Itoa[q]) >= 1
    BY <2>1, NumeralType DEF Oid
  <2>3. Itoa[n] = Append(Itoa[q], n % Radix)
    BY <1>2, NumeralOf
  <2>4. Len(Itoa[n]) # 1
    <3> HIDE DEF q
    <3> QED BY <2>1, <2>2, <2>3
  <2> QED BY <1>2, <2>4, RadixAssumption
<1> QED BY <1>1, <1>2, RadixAssumption

LEMMA AppendKeeps ==
    ASSUME NEW s \in Seq(Nat), NEW x \in Nat, NEW i \in 1..Len(s)
    PROVE  Append(s, x)[i] = s[i]
OBVIOUS

LEMMA AppendIsInjective ==
    ASSUME NEW s \in Seq(Nat), NEW t \in Seq(Nat), NEW x \in Nat, NEW y \in Nat,
           Append(s, x) = Append(t, y)
    PROVE  s = t /\ x = y
<1>1. Len(s) + 1 = Len(Append(s, x)) /\ Len(t) + 1 = Len(Append(t, y))
  OBVIOUS
<1>2. Len(s) = Len(t)
  BY <1>1
<1>3. Append(s, x)[Len(s) + 1] = x /\ Append(t, y)[Len(t) + 1] = y
  OBVIOUS
<1>4. \A i \in 1..Len(s) : Append(s, x)[i] = s[i]
  BY AppendKeeps, Zenon
<1>5. \A i \in 1..Len(t) : Append(t, y)[i] = t[i]
  BY AppendKeeps, Zenon
<1>6. s = t
  BY SMTT(30), <1>2, <1>4, <1>5
<1> QED BY <1>2, <1>3, <1>6

(* strconv.Itoa: different numbers have different numerals, in any radix.  *)
THEOREM NumeralsDiffer ==
    ASSUME NEW m \in Nat, NEW n \in Nat, Itoa[m] = Itoa[n]
    PROVE  m = n
<1> DEFINE B == {k \in Nat : \E l \in Nat : Itoa[k] = Itoa[l] /\ k # l}
<1> SUFFICES ASSUME B # {} PROVE FALSE
  OBVIOUS
<1>1. PICK k \in B : \A i \in B : k <= i
  BY LeastNatural
<1>2. PICK l \in Nat : Itoa[k] = Itoa[l] /\ k # l
  BY <1>1
<1>3. k \in Nat /\ Radix \in Nat
  BY RadixAssumption
<1>4. k < Radix <=> l < Radix
  BY <1>2, <1>3, NumeralLength
<1>5. CASE k < Radix
  <2>1. <<k>> = <<l>>
    BY <1>2, <1>3, <1>4, <1>5, NumeralOf
  <2> QED BY <1>2, <2>1
<1>6. CASE k >= Radix
  <2> DEFINE p == k \div Radix
             q == l \div Radix
  <2>1. /\ p \in Nat /\ p < k /\ k % Radix \in Nat
        /\ k = Radix * p + (k % Radix)
    BY <1>3, <1>6, DigitsOf
  <2>2. /\ q \in Nat /\ l % Radix \in Nat
        /\ l = Radix * q + (l % Radix)
    BY <1>3, DigitsOf
  <2>3. Itoa[k] = Append(Itoa[p], k % Radix) /\ Itoa[l] = Append(Itoa[q], l % Radix)
    <3>1. l >= Radix
      BY <1>3, <1>4, <1>6
    <3> QED BY <1>3, <1>6, <3>1, NumeralOf, Zenon
  <2>4. Itoa[p] \in Seq(Nat) /\ Itoa[q] \in Seq(Nat)
    BY <2>1, <2>2, NumeralType DEF Oid
  <2>5. Itoa[p] = Itoa[q] /\ k % Radix = l % Radix
    <3>1. Append(Itoa[p], k % Radix) = Append(Itoa[q], l % Radix)
      BY <1>2, <2>3
    <3> DEFINE x == k % Radix
               y == l % Radix
    <3>2. x \in Nat /\ y \in Nat /\ Append(Itoa[p], x) = Append(Itoa[q], y)
      BY <2>1, <2>2, <3>1
    <3> HIDE DEF p, q, x, y
    <3> DEFINE s == Itoa[p]
               t == Itoa[q]
    <3>3. s \in Seq(Nat) /\ t \in Seq(Nat) /\ Append(s, x) = Append(t, y)
      BY <2>4, <3>2
    <3> HIDE DEF s, t
    <3>4. s = t /\ x = y
      BY <3>2, <3>3, AppendIsInjective
    <3> QED BY <3>4 DEF x, y, s, t
  <2> HIDE DEF p, q
  <2>6. p \notin B
    BY <1>1, <1>3, <2>1
  <2>7. p = q
    BY <2>1, <2>2, <2>5, <2>6
  <2> QED BY <1>2, <2>1, <2>2, <2>5, <2>7
<1> QED BY <1>3, <1>5, <1>6

-----------------------------------------------------------------------------
Numerals(K) == {Itoa[k] : k \in K}

LEMMA NumeralsCounted ==
    ASSUME NEW K \in SUBSET Nat, IsFiniteSet(K)
    PROVE  /\ Numerals(K) \in SUBSET Oid /\ IsFiniteSet(Numerals(K))
           /\ Cardinality(Numerals(K)) = Cardinality(K)
<1> DEFINE f == [k \in K |-> Itoa[k]]
<1>1. f \in Bijection(K, Numerals(K))
  <2>1. f \in [K -> Numerals(K)]
    BY DEF Numerals
  <2>2. \A k, l \in K : f[k] = f[l] => k = l
    BY NumeralsDiffer
  <2>3. \A t \in Numerals(K) : \E k \in K : f[k] = t
    BY DEF Numerals
  <2> HIDE DEF f
  <2> QED BY <2>1, <2>2, <2>3 DEF Bijection, Injection, Surjection, IsInjective
<1> HIDE DEF f
<1>2. IsFiniteSet(Numerals(K)) /\ Cardinality(Numerals(K)) = Cardinality(K)
  <2>1. ExistsBijection(K, Numerals(K))
    BY <1>1 DEF ExistsBijection
  <2> QED BY <2>1, FS_Bijection
<1>3. Numerals(K) \in SUBSET Oid
  BY NumeralType DEF Numerals
<1> QED BY <1>2, <1>3

(* The numerals below that of a key are those of the keys before it.       *)
LEMMA KeysBefore ==
    ASSUME NEW K \in SUBSET Nat, IsFiniteSet(K), NEW n \in K
    PROVE  Cardinality({k \in K : OIDLessThan(Itoa[k], Itoa[n])}) =
             Cardinality(SmallerOids(Numerals(K), Itoa[n]))
<1> DEFINE L == {k \in K : OIDLessThan(Itoa[k], Itoa[n])}
<1>1. L \in SUBSET Nat /\ IsFiniteSet(L)
  BY FS_Subset
<1>2. SmallerOids(Numerals(K), Itoa[n]) = Numerals(L)
  BY DEF SmallerOids, Numerals
<1> HIDE DEF L
<1>3. Cardinality(Numerals(L)) = Cardinality(L)
  BY <1>1, NumeralsCounted
<1> QED BY <1>2, <1>3 DEF L

(* sort.Strings of the keys of a map: every key once.                      *)
THEOREM SortKeysIsBijection ==
    ASSUME NEW K \in SUBSET Nat, IsFiniteSet(K)
    PROVE  SortKeys(K) \in Bijection(1..Cardinality(K), K)
<1> DEFINE N == Cardinality(K)
           S == Numerals(K)
           Before(n) == Cardinality({k \in K : OIDLessThan(Itoa[k], Itoa[n])})
           keys == SortKeys(K)
<1>1. S \in SUBSET Oid /\ IsFiniteSet(S) /\ Cardinality(S) = N /\ N \in Nat
  BY NumeralsCounted, FS_CardinalityType
<1>2. ASSUME NEW n \in K
      PROVE  Before(n) = Cardinality(SmallerOids(S, Itoa[n])) /\ Itoa[n] \in S
  BY <1>2, KeysBefore DEF Numerals
<1>3. ASSUME NEW i \in 1..N PROVE keys[i] \in K /\ Before(keys[i]) = i - 1
  <2>1. \E n \in K : Before(n) = i - 1
    <3>1. PICK t \in S : Cardinality(SmallerOids(S, t)) = i - 1
      <4> HIDE DEF S
      <4> QED BY <1>1, EveryPlaceIsTaken
    <3>2. PICK n \in K : t = Itoa[n]
      BY <3>1 DEF Numerals
    <3> QED BY <1>2, <3>1, <3>2
  <2>2. keys[i] = CHOOSE n \in K : Before(n) = i - 1
    BY DEF SortKeys
  <2> HIDE DEF keys, Before
  <2> QED BY <2>1, <2>2
<1>4. ASSUME NEW m \in K, NEW n \in K, m # n PROVE Before(m) # Before(n)
  <2>1. Itoa[m] # Itoa[n] /\ Itoa[m] \in S /\ Itoa[n] \in S
    BY <1>2, <1>4, NumeralsDiffer
  <2>2. /\ OIDLessThan(Itoa[m], Itoa[n]) => Before(m) < Before(n)
        /\ OIDLessThan(Itoa[n], Itoa[m]) => Before(n) < Before(m)
    <3> HIDE DEF S, Before
    <3> QED BY <1>1, <1>2, <2>1, SmallerGrows
  <2>3. Before(m) \in Nat /\ Before(n) \in Nat
    <3> HIDE DEF S, Before
    <3> QED BY <1>1, <1>2, <2>1, SmallerIsFinite, FS_CardinalityType
  <2>4. OIDLessThan(Itoa[m], Itoa[n]) \/ OIDLessThan(Itoa[n], Itoa[m])
    <3> HIDE DEF S
    <3> QED BY <1>1, <2>1, LessIsTotal
  <2> HIDE DEF Before
  <2> QED BY <2>2, <2>3, <2>4
<1>5. ASSUME NEW n \in K PROVE \E i \in 1..N : keys[i] = n
  <2> DEFINE i == Before(n) + 1
  <2>1. i \in 1..N
    <3>1. Cardinality(SmallerOids(S, Itoa[n])) \in 0..(N - 1)
      <4> HIDE DEF S
      <4> QED BY <1>1, <1>2, SmallerIsFinite
    <3> HIDE DEF S, Before
    <3> QED BY <1>1, <1>2, <3>1
  <2>2. keys[i] \in K /\ Before(keys[i]) = i - 1
    BY <1>3, <2>1
  <2>3. Before(n) = i - 1
    <3>1. Before(n) \in Nat
      BY <1>2, <1>1, SmallerIsFinite, FS_CardinalityType
    <3> HIDE DEF Before
    <3> QED BY <3>1
  <2> HIDE DEF Before, keys, i
  <2> QED BY <1>4, <2>1, <2>2, <2>3
<1> DEFINE Place(i) == CHOOSE n \in K : Before(n) = i - 1
<1>6. keys = [i \in 1..N |-> Place(i)]
  BY DEF SortKeys
<1> HIDE DEF keys, N, Before, Place
<1>7. keys \in [1..N -> K]
  BY <1>3, <1>6
<1>8. \A i, j \in 1..N : keys[i] = keys[j] => i = j
  BY <1>3
<1> QED BY <1>5, <1>7, <1>8 DEF keys, N, Bijection, Injection, Surjection, IsInjective
=============================================================================
