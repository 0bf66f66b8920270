--------------------------- MODULE OidValueProofs ---------------------------
(***************************************************************************)
(* Proofs about OidValue, for any widths of the integer types and any      *)
(* rounding that FloatAssumption allows.                                   *)
(***************************************************************************)
EXTENDS OidValue, TLAPS

(* The bounds of the types are integers, and all of them may be sent.      *)
LEMMA BoundsType ==
    /\ {MaxInt32, MaxUint32, MaxInt64, MaxUint64, Exact, Second} \subseteq Nat
    /\ MinInt32 \in Int /\ MinInt64 \in Int
    /\ Numbers \subseteq Int
    /\ {0, MinInt32, MaxInt32, MaxUint32, MaxUint32 + 1, MaxInt64, MaxUint64}
          \subseteq Numbers
BY WidthAssumption, SecondAssumption DEF Numbers, MinInt32, MinInt64

(* A body's fields.                                                        *)
LEMMA BodyType ==
    ASSUME NEW v \in Bodies
    PROVE  /\ v.form \in Forms /\ v.n \in Numbers /\ v.n \in Int
           /\ v.part \in -1..1
           /\ Float[v.n] \in Int
           /\ v = [form |-> v.form, n |-> v.n, part |-> v.part]
           /\ v.form = "numeral" => v.n >= 0
BY BoundsType, FloatAssumption DEF Bodies

LEMMA NothingIsBody == Nothing \in Bodies
BY BoundsType, WidthAssumption DEF Bodies, Nothing, Forms, Strings

(* A float between bounds that a float64 holds is the integer sent, and it *)
(* is refused exactly when the integer sent is out of the bounds.          *)
LEMMA FloatIsExact ==
    ASSUME NEW v \in Bodies, v.form = "number",
           NEW lo \in Numbers, NEW hi \in Numbers, lo <= hi, hi < Exact
    PROVE  /\ Within(v, lo, hi) <=> Means(v, lo, hi)
           /\ Within(v, lo, hi) => Float[v.n] = v.n
<1>1. v.n \in Numbers /\ v.n \in Int /\ Float[v.n] \in Int /\ lo \in Int
      /\ hi \in Int /\ Exact \in Int
  BY BodyType, BoundsType
<1>2. v.n <= Exact => Float[v.n] = v.n
  BY <1>1, FloatAssumption
<1>3. v.n > Exact => Float[v.n] > hi
  <2>1. Exact \in Numbers
    BY WidthAssumption DEF Numbers, MinInt32
  <2>2. Float[Exact] = Exact
    BY <1>1, <2>1, FloatAssumption
  <2>3. v.n > Exact => Float[Exact] <= Float[v.n]
    BY <1>1, <2>1, FloatAssumption
  <2>4. QED
    BY <1>1, <2>2, <2>3
<1>4. CASE v.n <= Exact
  BY <1>1, <1>2, <1>4 DEF Within, Means
<1>5. CASE v.n > Exact
  BY <1>1, <1>3, <1>5 DEF Within, Means
<1>6. QED
  BY <1>1, <1>4, <1>5

-----------------------------------------------------------------------------
(* What each integer type makes of a number.                               *)
LEMMA Signed32IsExact ==
    ASSUME NEW v \in Bodies
    PROVE  Signed32(v) = IF /\ v.form \in {"numeral", "signed", "number"}
                            /\ Means(v, MinInt32, MaxInt32)
                         THEN {v.n} ELSE {}
<1>1. MinInt32 <= MaxInt32 /\ MaxInt32 < Exact
  BY WidthAssumption, BoundsType DEF MinInt32
<1>2. CASE v.form = "number"
  BY <1>1, <1>2, FloatIsExact, BoundsType DEF Signed32, ParsesInt
<1>3. CASE v.form \in {"numeral", "signed"}
  <2>1. v.n \in Int /\ v.part = 0
    BY <1>3, BodyType DEF Bodies
  <2>2. ParsesInt(v, MinInt32, MaxInt32) <=> Means(v, MinInt32, MaxInt32)
    BY <1>3, <2>1, BoundsType DEF ParsesInt, Means
  <2>3. ~Within(v, MinInt32, MaxInt32)
    BY <1>3 DEF Within
  <2>4. QED
    BY <1>3, <2>2, <2>3 DEF Signed32
<1>4. CASE v.form \notin {"numeral", "signed", "number"}
  BY <1>4 DEF Signed32, ParsesInt, Within
<1>5. QED
  BY <1>2, <1>3, <1>4

LEMMA Unsigned32IsExact ==
    ASSUME NEW v \in Bodies
    PROVE  Unsigned32(v) = IF /\ v.form \in {"numeral", "number"}
                              /\ Means(v, 0, MaxUint32)
                           THEN {v.n} ELSE {}
<1>1. 0 <= MaxUint32 /\ MaxUint32 < Exact
  BY WidthAssumption, BoundsType
<1>2. CASE v.form = "number"
  BY <1>1, <1>2, FloatIsExact, BoundsType DEF Unsigned32, ParsesUint
<1>3. CASE v.form = "numeral"
  <2>1. v.n \in Int /\ v.n >= 0 /\ v.part = 0
    BY <1>3, BodyType DEF Bodies
  <2>2. ParsesUint(v, MaxUint32) <=> Means(v, 0, MaxUint32)
    BY <1>3, <2>1, BoundsType DEF ParsesUint, Means
  <2>3. ~Within(v, 0, MaxUint32)
    BY <1>3 DEF Within
  <2>4. QED
    BY <1>3, <2>2, <2>3 DEF Unsigned32
<1>4. CASE v.form \notin {"numeral", "number"}
  BY <1>4 DEF Unsigned32, ParsesUint, Within
<1>5. QED
  BY <1>2, <1>3, <1>4

(* A number is not negative exactly when its float64 passes the check      *)
(* against 0, whatever the upper bound; rounding makes none negative.      *)
LEMMA WithinFromZero ==
    ASSUME NEW v \in Bodies, v.form = "number",
           NEW hi \in Int, hi > Exact
    PROVE  /\ Within(v, 0, hi) <=> ~Negative(v) /\ Float[v.n] <= hi
           /\ ~Negative(v) => Float[v.n] >= 0
<1>1. /\ v.n \in Numbers /\ v.n \in Int /\ Float[v.n] \in Int /\ Exact \in Nat
      /\ v.part \in -1..1
  BY BodyType, BoundsType
<1>2. /\ v.n <= Exact => Float[v.n] = v.n
      /\ v.n > Exact => Float[v.n] >= Exact
  <2>1. Exact \in Numbers
    BY BoundsType, WidthAssumption DEF Numbers, MinInt32
  <2>2. Float[Exact] = Exact
    BY <1>1, <2>1, FloatAssumption
  <2>3. v.n > Exact => Float[Exact] <= Float[v.n]
    BY <1>1, <2>1, FloatAssumption
  <2>4. QED
    BY <1>1, <2>2, <2>3, FloatAssumption
<1>3. /\ v.n > 0 => v.part >= 0
      /\ v.n >= Exact => v.part = 0
      /\ 0 < Exact
  BY WidthAssumption DEF Bodies
<1>4. ~Negative(v) => v.n >= 0 /\ v.part >= 0
  BY <1>1, <1>3 DEF Negative
<1>5. CASE v.n <= Exact
  BY <1>1, <1>2, <1>3, <1>4, <1>5 DEF Within, Negative
<1>6. CASE v.n > Exact
  BY <1>1, <1>2, <1>3, <1>6 DEF Within, Negative
<1>7. QED
  BY <1>1, <1>5, <1>6

(* A string is parsed to its integer, and a number is what its float64     *)
(* holds, but for one that is rounded to the first integer beyond.         *)
LEMMA Unsigned64IsHeld ==
    ASSUME NEW v \in Bodies, ~SlipsCounter64(v)
    PROVE  Unsigned64(v) = IF /\ v.form \in {"numeral", "number"}
                              /\ ~Negative(v) /\ Held(v) <= MaxUint64
                           THEN {Held(v)} ELSE {}
<1>1. v.n \in Int /\ Float[v.n] \in Int /\ MaxUint64 \in Nat
      /\ Float[MaxUint64] = MaxUint64 + 1 /\ Exact \in Nat /\ Exact < MaxUint64
  BY BodyType, BoundsType, FloatAssumption, WidthAssumption
<1>2. CASE v.form = "number"
  <2>1. Within(v, 0, MaxUint64 + 1) <=> ~Negative(v) /\ Float[v.n] <= MaxUint64
    <3>1. Within(v, 0, MaxUint64 + 1) <=> ~Negative(v) /\ Float[v.n] <= MaxUint64 + 1
      BY <1>1, <1>2, WithinFromZero
    <3>2. Float[v.n] # MaxUint64 + 1
      BY <1>2 DEF SlipsCounter64
    <3>3. QED
      BY <1>1, <3>1, <3>2
  <2>2. Float[v.n] <= MaxUint64 => ToUint64(Float[v.n]) = {Float[v.n]}
    BY DEF ToUint64
  <2>3. Held(v) = Float[v.n]
    BY <1>2 DEF Held
  <2>4. QED
    BY <1>1, <1>2, <2>1, <2>2, <2>3 DEF Unsigned64, ParsesUint
<1>3. CASE v.form = "numeral"
  <2>1. v.n >= 0 /\ v.part = 0 /\ Held(v) = v.n
    BY <1>3, BodyType DEF Bodies, Held
  <2>2. ParsesUint(v, MaxUint64) <=> v.n <= MaxUint64
    BY <1>3 DEF ParsesUint
  <2>3. ~Within(v, 0, Float[MaxUint64]) /\ ~Negative(v)
    BY <1>1, <1>3, <2>1 DEF Within, Negative
  <2>4. QED
    BY <1>3, <2>1, <2>2, <2>3 DEF Unsigned64
<1>4. CASE v.form \notin {"numeral", "number"}
  BY <1>4 DEF Unsigned64, ParsesUint, Within
<1>5. QED
  BY <1>2, <1>3, <1>4

(* A time that 64 bits of nanoseconds can hold is not wrapped.             *)
LEMMA ShortTimes ==
    ASSUME NEW f \in Nat, f * Second <= MaxInt64
    PROVE  f <= MaxInt64 /\ Wrap64(f * Second) = f * Second
<1>1. Second \in Nat /\ Second >= 1 /\ MaxInt64 \in Nat /\ MinInt64 <= 0
  BY SecondAssumption, BoundsType DEF MinInt64
<1>2. f * Second \in Nat /\ f <= f * Second
  <2>1. \A a, b \in Nat : b >= 1 => a * b \in Nat /\ a <= a * b
    OBVIOUS
  <2>2. QED
    BY <1>1, <2>1
<1>3. f * Second \in MinInt64..MaxInt64
  BY <1>1, <1>2, BoundsType
<1>4. QED
  BY <1>1, <1>2, <1>3 DEF Wrap64

(* A number of seconds below 2^32 in a string is kept, and any other whose *)
(* float64 makes a time that does not wrap.                                *)
LEMMA SecondsAreHeld ==
    ASSUME NEW v \in Bodies, ~SlipsTimeTicks(v)
    PROVE  Seconds(v) = IF /\ v.form \in {"numeral", "number"}
                           /\ v.form = "numeral" => v.n <= MaxUint32
                           /\ ~Negative(v) /\ Held(v) <= MaxInt64
                        THEN {Held(v) * Second} ELSE {}
<1>1. v.n \in Int /\ Float[v.n] \in Int /\ MaxInt64 \in Nat /\ MaxUint32 \in Nat
      /\ Float[MaxInt64] = MaxInt64 + 1 /\ Exact \in Nat /\ Exact < MaxInt64
      /\ MaxUint32 < MaxInt64 /\ Second \in Nat
  BY BodyType, BoundsType, FloatAssumption, WidthAssumption
<1>2. CASE v.form = "number"
  <2>1. /\ Within(v, 0, MaxInt64 + 1) <=> ~Negative(v) /\ Float[v.n] <= MaxInt64 + 1
        /\ ~Negative(v) => Float[v.n] \in Nat
    BY <1>1, <1>2, WithinFromZero
  <2>2. Float[v.n] <= MaxInt64 + 1 => Float[v.n] * Second <= MaxInt64
    <3>1. Float[v.n] * Second \in Int
      BY <1>1
    <3>2. Float[v.n] <= MaxInt64 + 1 => ~(Float[v.n] * Second > MaxInt64)
      BY <1>2 DEF SlipsTimeTicks
    <3>3. QED
      BY <1>1, <3>1, <3>2
  <2>3. Held(v) = Float[v.n]
    BY <1>2 DEF Held
  <2>4. CASE ~Negative(v) /\ Float[v.n] <= MaxInt64 + 1
    <3>1. Float[v.n] <= MaxInt64 /\ Wrap64(Float[v.n] * Second) = Float[v.n] * Second
      BY <2>1, <2>2, <2>4, ShortTimes
    <3>2. ToInt64(Float[v.n]) = {Float[v.n]}
      BY <3>1 DEF ToInt64
    <3>3. QED
      BY <1>1, <1>2, <2>1, <2>3, <2>4, <3>1, <3>2 DEF Seconds, ParsesUint
  <2>5. CASE ~(~Negative(v) /\ Float[v.n] <= MaxInt64 + 1)
    <3>1. ~(~Negative(v) /\ Held(v) <= MaxInt64)
      BY <1>1, <2>3, <2>5
    <3>2. QED
      BY <1>1, <1>2, <2>1, <2>5, <3>1 DEF Seconds, ParsesUint
  <2>6. QED
    BY <2>4, <2>5
<1>3. CASE v.form = "numeral"
  <2>1. v.n >= 0 /\ v.part = 0 /\ Held(v) = v.n /\ ~Negative(v)
    BY <1>1, <1>3, BodyType DEF Bodies, Held, Negative
  <2>2. ParsesUint(v, MaxUint32) <=> v.n <= MaxUint32 /\ Held(v) <= MaxInt64
    BY <1>1, <1>3, <2>1 DEF ParsesUint
  <2>3. ~Within(v, 0, Float[MaxInt64])
    BY <1>3 DEF Within
  <2>4. QED
    BY <1>3, <2>1, <2>2, <2>3 DEF Seconds
<1>4. CASE v.form \notin {"numeral", "number"}
  BY <1>4 DEF Seconds, ParsesUint, Within
<1>5. QED
  BY <1>2, <1>3, <1>4

-----------------------------------------------------------------------------
(* The inductive invariant: the answer is one of the last body's, and the  *)
(* stored name is that of the type.                                        *)
IndInv ==
    /\ type \in Types \cup {None}
    /\ stored \in TypeNames \cup {None}
    /\ sent \in Bodies
    /\ stored # None => type = String2VariableType(stored)
    /\ type = None => sent = Nothing /\ answer = Nil
    /\ type # None => answer \in ProcessOidResponse(type, sent)

LEMMA NothingIsNotAnswered ==
    ASSUME NEW t \in Types
    PROVE  ProcessOidResponse(t, Nothing) = {Nil}
<1>1. Converted(t, Nothing) = {}
  BY DEF Converted, Types, TypeNames, Nothing, Strings, Signed32, Unsigned32,
         Unsigned64, Seconds, Within, ParsesInt, ParsesUint, ParseOID
<1>2. QED
  BY <1>1 DEF ProcessOidResponse

LEMMA NamesAreTypes ==
    /\ \A s \in TypeNames : String2VariableType(s) \in Types
    /\ \A t \in Types : /\ VariableType2String(t) \in TypeNames
                       /\ String2VariableType(VariableType2String(t)) = t
BY DEF TypeNames, Types, String2VariableType, VariableType2String

LEMMA IndInvInit == Init => IndInv
BY NothingIsBody DEF Init, IndInv

LEMMA IndInvStep == IndInv /\ [Next]_vars => IndInv'
<1> SUFFICES ASSUME IndInv, [Next]_vars
             PROVE  IndInv'
  OBVIOUS
<1>1. ASSUME NEW s \in TypeNames, Register(s)
      PROVE  IndInv'
  <2>1. type' \in Types /\ type' # None
    BY <1>1, NamesAreTypes, NoneAssumption DEF Register
  <2>2. sent' = Nothing /\ answer' = Nil /\ stored' = None
    BY <1>1 DEF Register, IndInv
  <2>3. QED
    BY <2>1, <2>2, NothingIsBody, NothingIsNotAnswered DEF IndInv
<1>2. CASE Save
  BY <1>2, NamesAreTypes DEF Save, IndInv
<1>3. CASE Restart
  <2>1. /\ sent' = Nothing /\ answer' = Nil
        /\ stored' = stored /\ stored \in TypeNames \cup {None}
        /\ type' = IF stored = None THEN None ELSE String2VariableType(stored)
    BY <1>3 DEF Restart, IndInv
  <2>2. type' # None => type' \in Types
    BY <2>1, NamesAreTypes
  <2>3. QED
    BY <2>1, <2>2, NothingIsBody, NothingIsNotAnswered DEF IndInv
<1>4. CASE Unregister
  BY <1>4, NothingIsBody DEF Unregister, IndInv
<1>5. ASSUME NEW v \in Bodies, Get(v)
      PROVE  IndInv'
  BY <1>5 DEF Get, IndInv
<1>6. CASE UNCHANGED vars
  BY <1>6 DEF vars, IndInv
<1>7. QED
  BY <1>1, <1>2, <1>3, <1>4, <1>5, <1>6 DEF Next

THEOREM IndInvHolds == Spec => []IndInv
BY IndInvInit, IndInvStep, PTL DEF Spec

-----------------------------------------------------------------------------
(* Answers are nil or of the Go type that the oid's type is encoded from.  *)
THEOREM TypeCorrect == Spec => []TypeOK
<1>1. IndInv => TypeOK
  <2> SUFFICES ASSUME IndInv, answer # Nil
               PROVE  type # None /\ answer.go = GoType(type)
    BY DEF IndInv, TypeOK
  <2>1. type # None /\ type \in Types /\ answer \in Converted(type, sent)
    BY DEF IndInv, ProcessOidResponse
  <2>2. answer.go = GoType(type)
    BY <2>1 DEF Converted, GoType, Types, TypeNames, Number, Text, To4
  <2>3. QED
    BY <2>1, <2>2
<1>2. QED
  BY <1>1, IndInvHolds, PTL

LEMMA NumbersAreKept == IndInv => NumberKept
<1> SUFFICES ASSUME IndInv PROVE NumberKept
  OBVIOUS
<1>1. sent \in Bodies
  BY DEF IndInv
<1>2. type \in Types => answer \in ProcessOidResponse(type, sent)
  BY NoneAssumption DEF IndInv
<1>4. ASSUME type = "Integer"
      PROVE  answer = IF /\ sent.form \in {"numeral", "signed", "number"}
                         /\ Means(sent, MinInt32, MaxInt32)
                      THEN Number("int32", sent.n) ELSE Nil
  <2>1. Converted(type, sent) = {Number("int32", i) : i \in Signed32(sent)}
    BY <1>4 DEF Converted
  <2>2. QED
    BY <1>1, <1>2, <1>4, <2>1, Signed32IsExact DEF ProcessOidResponse, Types, TypeNames
<1>5. ASSUME type \in {"Counter32", "Gauge32"}
      PROVE  answer = IF /\ sent.form \in {"numeral", "number"}
                         /\ Means(sent, 0, MaxUint32)
                      THEN Number("uint32", sent.n) ELSE Nil
  <2>1. Converted(type, sent) = {Number("uint32", i) : i \in Unsigned32(sent)}
    BY <1>5 DEF Converted
  <2>2. QED
    BY <1>1, <1>2, <1>5, <2>1, Unsigned32IsExact DEF ProcessOidResponse, Types, TypeNames
<1>6. ASSUME type = "Counter64", ~SlipsCounter64(sent)
      PROVE  answer = IF /\ sent.form \in {"numeral", "number"}
                         /\ ~Negative(sent) /\ Held(sent) <= MaxUint64
                      THEN Number("uint64", Held(sent)) ELSE Nil
  <2>1. Converted(type, sent) = {Number("uint64", i) : i \in Unsigned64(sent)}
    BY <1>6 DEF Converted
  <2>2. QED
    BY <1>1, <1>2, <1>6, <2>1, Unsigned64IsHeld DEF ProcessOidResponse, Types, TypeNames
<1>7. ASSUME type = "TimeTicks", ~SlipsTimeTicks(sent)
      PROVE  answer = IF /\ sent.form \in {"numeral", "number"}
                         /\ sent.form = "numeral" => sent.n <= MaxUint32
                         /\ ~Negative(sent) /\ Held(sent) <= MaxInt64
                      THEN Number("Duration", Held(sent) * Second) ELSE Nil
  <2>1. Converted(type, sent) = {Number("Duration", i) : i \in Seconds(sent)}
    BY <1>7 DEF Converted
  <2>2. QED
    BY <1>1, <1>2, <1>7, <2>1, SecondsAreHeld DEF ProcessOidResponse, Types, TypeNames
<1>8. QED
  BY <1>4, <1>5, <1>6, <1>7 DEF NumberKept

LEMMA TextsAreKept == IndInv => TextKept
<1> SUFFICES ASSUME IndInv, type \in TextTypes, answer # Nil
             PROVE  \/ sent.form \in Strings /\ answer = Text(GoType(type), sent)
                    \/ /\ type = "IPAddress" /\ sent.form = "ipv6"
                       /\ answer = Number("IP", 0)
  BY DEF TextKept
<1>1. type # None /\ answer \in Converted(type, sent)
  BY NoneAssumption DEF IndInv, ProcessOidResponse, TextTypes, Types, TypeNames
<1>2. CASE type \in {"OctetString", "Opaque"}
  BY <1>1, <1>2 DEF Converted, GoType
<1>3. CASE type = "ObjectIdentifier"
  BY <1>1, <1>3 DEF Converted, GoType, ParseOID, ParsesUint, Strings
<1>4. CASE type = "IPAddress"
  BY <1>1, <1>4 DEF Converted, GoType, To4, Strings
<1>5. QED
  BY <1>2, <1>3, <1>4 DEF TextTypes

(* processOidResponse answers the integer part of what was sent, as Get    *)
(* holds it, or the text, and nil when the oid's type cannot hold it; but  *)
(* for the three inputs that KeptOrRefused excepts.  For any widths, and   *)
(* any rounding beyond Exact.                                              *)
THEOREM KeptOrRefusedHolds == Spec => []KeptOrRefused
<1>1. IndInv => KeptOrRefused
  BY NumbersAreKept, TextsAreKept DEF KeptOrRefused
<1>2. QED
  BY <1>1, IndInvHolds, PTL

(* Where nothing is undefined, an integer is answered as it was sent in a  *)
(* string, or as the float64 of the number sent.                           *)
LEMMA IntegerAnswered ==
    ASSUME NEW v \in Bodies,
           NEW t \in {"Integer", "Counter32", "Gauge32", "Counter64"},
           NEW a \in ProcessOidResponse(t, v), a # Nil,
           Float[v.n] <= MaxUint64
    PROVE  \/ v.form \in {"numeral", "signed"} /\ a.n = v.n
           \/ v.form = "number" /\ a.n = Float[v.n]
<1>1. a \in Converted(t, v)
  BY DEF ProcessOidResponse
<1>2. CASE t = "Integer"
  BY <1>1, <1>2 DEF Converted, Signed32, ParsesInt, Within, Number
<1>3. CASE t \in {"Counter32", "Gauge32"}
  BY <1>1, <1>3 DEF Converted, Unsigned32, ParsesUint, Within, Number
<1>4. CASE t = "Counter64"
  <2>1. PICK n \in Unsigned64(v) : a = Number("uint64", n)
    BY <1>1, <1>4 DEF Converted
  <2>2. \/ n = v.n /\ v.form = "numeral"
        \/ n = Float[v.n] /\ v.form = "number"
    BY <2>1 DEF Unsigned64, ToUint64, ParsesUint, Within
  <2>3. QED
    BY <2>1, <2>2 DEF Number
<1>5. QED
  BY <1>2, <1>3, <1>4

(* The answers for a growing counter grow: rounding keeps their order, and *)
(* no range check lets a value wrap.                                       *)
THEOREM NeverRunsBackHolds == Spec => NeverRunsBack
<1> DEFINE Grows == /\ type' = type
                    /\ type \in {"Integer", "Counter32", "Gauge32", "Counter64"}
                    /\ sent'.form = sent.form /\ sent.n <= sent'.n
                    /\ Float[sent'.n] <= MaxUint64
                    /\ answer # Nil /\ answer' # Nil
<1>1. IndInv /\ IndInv' /\ Grows => answer.n <= answer'.n
  <2> SUFFICES ASSUME IndInv, IndInv', Grows
               PROVE  answer.n <= answer'.n
    OBVIOUS
  <2>1. /\ sent \in Bodies /\ sent' \in Bodies /\ type # None
        /\ answer \in ProcessOidResponse(type, sent)
        /\ answer' \in ProcessOidResponse(type, sent')
    BY NoneAssumption DEF IndInv, Types, TypeNames
  <2>2. /\ sent.n \in Numbers /\ sent'.n \in Numbers
        /\ sent.n \in Int /\ sent'.n \in Int
        /\ Float[sent.n] \in Int /\ Float[sent'.n] \in Int
    BY <2>1, BodyType
  <2>3. Float[sent.n] <= Float[sent'.n]
    BY <2>2, FloatAssumption
  <2>4. Float[sent.n] <= MaxUint64
    BY <2>2, <2>3, BoundsType
  <2>5. \/ sent.form \in {"numeral", "signed"} /\ answer.n = sent.n
        \/ sent.form = "number" /\ answer.n = Float[sent.n]
    BY <2>1, <2>4, IntegerAnswered
  <2>6. \/ sent'.form \in {"numeral", "signed"} /\ answer'.n = sent'.n
        \/ sent'.form = "number" /\ answer'.n = Float[sent'.n]
    BY <2>1, IntegerAnswered
  <2>7. QED
    BY <2>2, <2>3, <2>5, <2>6
<1>2. IndInv /\ IndInv' => [Grows => answer.n <= answer'.n]_vars
  BY <1>1
<1>3. QED
  BY <1>2, IndInvHolds, PTL DEF NeverRunsBack

(* A type survives any number of saves and restarts.                       *)
THEOREM RestartKeepsTypeHolds == Spec => RestartKeepsType
<1>1. IndInv /\ [Next]_vars
        => [type # None /\ stored # None => type' \in {type, None}]_vars
  BY DEF IndInv, Next, Register, Save, Restart, Unregister, Get, vars
<1>2. QED
  BY <1>1, IndInvHolds, PTL DEF Spec, RestartKeepsType
=============================================================================
