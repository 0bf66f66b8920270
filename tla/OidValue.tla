------------------------------ MODULE OidValue ------------------------------
(***************************************************************************)
(* What Application.Get answers for one oid: the type of the oid, given by *)
(* name at the registration and stored by name in the database, and the    *)
(* conversion of the application's JSON value to a value of that type,     *)
(* processOidResponse.  Integers are mathematical; the widths of the Go    *)
(* types are constants, so that every overflow is visible.                 *)
(*                                                                         *)
(* encoding/json decodes every number to a float64.  Float says which      *)
(* integer a decoded integer is: itself up to Exact (2^53), else one       *)
(* nearby.  MaxInt64 and MaxUint64 round up, also as bounds of a range     *)
(* check that compares floats.                                             *)
(***************************************************************************)
EXTENDS Integers

CONSTANTS
    MaxInt32, MaxUint32, MaxInt64, MaxUint64,
    Lowest, Highest,  \* the integers an application sends
    Exact,            \* up to here a float64 holds every integer
    Float,            \* the integer a float64 holds for an integer
    Second,           \* time.Second
    None              \* not registered, not stored

Numbers  == Lowest..Highest
MinInt32 == -MaxInt32 - 1
MinInt64 == -MaxInt64 - 1

ASSUME WidthAssumption ==
    /\ {MaxInt32, MaxUint32, MaxInt64, MaxUint64, Exact} \subseteq Nat
    /\ MaxInt32 < MaxUint32 /\ MaxUint32 < Exact
    /\ Exact < MaxInt64 /\ MaxUint64 = 2 * MaxInt64 + 1
    /\ Lowest \in Int /\ Highest \in Int
    /\ Lowest < MinInt32 /\ -Exact <= Lowest /\ MaxUint64 < Highest
ASSUME FloatAssumption ==
    /\ Float \in [Numbers -> Int]
    /\ \A n \in Numbers : n <= Exact => Float[n] = n
    /\ \A i, n \in Numbers : i <= n => Float[i] <= Float[n]
    /\ Float[MaxInt64] = MaxInt64 + 1
    /\ Float[MaxUint64] = MaxUint64 + 1
ASSUME SecondAssumption ==
    Second \in Nat \ {0} /\ MaxUint32 * Second <= MaxInt64

-----------------------------------------------------------------------------
(* oid_data.go: the names in a registration and in the database, the types *)
(* of go-agentx.                                                           *)
TypeNames == {"Integer", "OctetString", "ObjectIdentifier", "IpAddress",
              "Counter32", "Gauge32", "TimeTicks", "Opaque", "Counter64"}
Types == (TypeNames \ {"IpAddress"}) \cup {"IPAddress"}
ASSUME NoneAssumption == None \notin Types \cup TypeNames

String2VariableType(s) == IF s = "IpAddress" THEN "IPAddress" ELSE s

VariableType2String_Gauge(t) ==
    CASE t = "IPAddress" -> "IpAddress"
      [] t = "Gauge32"   -> "Counter32"
      [] OTHER           -> t
VariableType2String(t) == IF t = "IPAddress" THEN "IpAddress" ELSE t

-----------------------------------------------------------------------------
(* A body: a numeral in a string, without a sign or with one; another      *)
(* string; a number n, or one between n and the next integer away from     *)
(* zero (part); another JSON value; or what cannot be decoded, or has      *)
(* nothing at the jsonpath.  "dotted" is an oid after a ".".               *)
Strings == {"numeral", "signed", "oid", "dotted", "ipv4", "ipv6", "text"}
Forms   == Strings \cup {"number", "other", "malformed"}

Bodies ==
    {v \in [form : Forms, n : Numbers, part : -1..1] :
        /\ v.form \notin {"numeral", "signed", "number"} => v.n = 0
        /\ v.form = "numeral" => v.n >= 0
        /\ v.form # "number" => v.part = 0
        /\ v.n > 0 => v.part >= 0
        /\ v.n < 0 => v.part <= 0
        /\ v.n >= Exact => v.part = 0}
Nothing == [form |-> "malformed", n |-> 0, part |-> 0]

(* lo <= val && val <= hi, on floats.                                      *)
Within(v, lo, hi) ==
    /\ v.form = "number"
    /\ Float[v.n] >= lo /\ (Float[v.n] = lo => v.part >= 0)
    /\ Float[v.n] <= hi /\ (Float[v.n] = hi => v.part <= 0)

(* strconv.ParseInt takes a sign, strconv.ParseUint does not.              *)
ParsesInt(v, lo, hi) == v.form \in {"numeral", "signed"} /\ v.n \in lo..hi
ParsesUint(v, hi)    == v.form = "numeral" /\ v.n <= hi

(* value.ParseOID takes 32-bit numbers between dots.                       *)
ParseOID(v) == v.form \in {"oid", "dotted", "ipv4"} \/ ParsesUint(v, MaxUint32)

(* The conversion of a float64 that the integer type cannot hold is        *)
(* implementation-dependent: what amd64 and arm64 give.                    *)
ToInt64(f)  == IF f <= MaxInt64 THEN {f} ELSE {MinInt64, MaxInt64}
ToUint64(f) == IF f <= MaxUint64 THEN {f} ELSE {0, MaxInt64 + 1, MaxUint64}

Wrap64(n) ==
    IF n \in MinInt64..MaxInt64 THEN n
    ELSE ((n - MinInt64) % (MaxUint64 + 1)) + MinInt64

-----------------------------------------------------------------------------
(* The integers that may be answered, none if the value is refused.        *)
Signed32_UnsignedBound(v) ==
    {n \in {v.n} : ParsesInt(v, MinInt32, MaxInt32)} \cup
    {IF f > MaxInt32 THEN f - MaxUint32 - 1 ELSE f
        : f \in {Float[x] : x \in {y \in {v.n} : Within(v, MinInt32, MaxUint32)}}}
Signed32(v) ==
    {n \in {v.n} : ParsesInt(v, MinInt32, MaxInt32)} \cup
    {f \in {Float[v.n]} : Within(v, MinInt32, MaxInt32)}

Unsigned32_Unchecked(v) ==
    {n \in {v.n} : ParsesUint(v, MaxUint32)} \cup
    {f % (MaxUint32 + 1) : f \in {x \in {Float[v.n]} : v.form = "number"}}
Unsigned32(v) ==
    {n \in {v.n} : ParsesUint(v, MaxUint32)} \cup
    {f \in {Float[v.n]} : Within(v, 0, MaxUint32)}

Unsigned64(v) ==
    {n \in {v.n} : ParsesUint(v, MaxUint64)} \cup
    (IF Within(v, 0, Float[MaxUint64]) THEN ToUint64(Float[v.n]) ELSE {})

Seconds(v) ==
    {n * Second : n \in {i \in {v.n} : ParsesUint(v, MaxUint32)}} \cup
    (IF Within(v, 0, Float[MaxInt64])
     THEN {Wrap64(n * Second) : n \in ToInt64(Float[v.n])} ELSE {})

(* A Go value: its type and the integer or the text it holds.              *)
Number(go, n)  == [go |-> go, n |-> n, text |-> "none"]
Text(go, v)    == [go |-> go, n |-> v.n, text |-> v.form]
Nil            == Number("nil", 0)

(* net.IP.To4 is nil for an IPv6 address.                                  *)
To4(v) == IF v.form = "ipv4" THEN Text("IP", v) ELSE Number("IP", 0)

Converted_Float(t, v) ==
    IF t = "Integer" /\ Within(v, MinInt32, MaxInt32)
    THEN {Number("float64", Float[v.n])}
    ELSE {Number("int32", n) : n \in Signed32(v)}
Converted(t, v) ==
    CASE t = "Integer" ->
            {Number("int32", n) : n \in Signed32(v)}
      [] t \in {"Counter32", "Gauge32"} ->
            {Number("uint32", n) : n \in Unsigned32(v)}
      [] t = "Counter64" ->
            {Number("uint64", n) : n \in Unsigned64(v)}
      [] t = "TimeTicks" ->
            {Number("Duration", n) : n \in Seconds(v)}
      [] t = "OctetString" ->
            {x \in {Text("string", v)} : v.form \in Strings}
      [] t = "Opaque" ->
            {x \in {Text("[]byte", v)} : v.form \in Strings}
      [] t = "ObjectIdentifier" ->
            {x \in {Text("string", v)} : ParseOID(v)}
      [] t = "IPAddress" ->
            {x \in {To4(v)} : v.form \in {"ipv4", "ipv6"}}

(* An error is logged by Get, which then answers nil.                      *)
ProcessOidResponse(t, v) ==
    IF Converted(t, v) = {} THEN {Nil} ELSE Converted(t, v)

-----------------------------------------------------------------------------
VARIABLES
    type,    \* OIDData.Type, or None
    stored,  \* the column "type" of the oid's row, or None
    sent,    \* the body of the last response
    answer   \* what Get made of it
vars == <<type, stored, sent, answer>>

GoType(t) ==
    CASE t = "Integer"                          -> "int32"
      [] t \in {"Counter32", "Gauge32"}         -> "uint32"
      [] t = "Counter64"                        -> "uint64"
      [] t = "TimeTicks"                        -> "Duration"
      [] t \in {"OctetString", "ObjectIdentifier"} -> "string"
      [] t = "Opaque"                           -> "[]byte"
      [] t = "IPAddress"                        -> "IP"

(* An answer has the Go type that go-agentx encodes for the oid's type.    *)
TypeOK ==
    /\ type \in Types \cup {None}
    /\ stored \in TypeNames \cup {None}
    /\ sent \in Bodies
    /\ answer # Nil => type # None /\ answer.go = GoType(type)

Init == type = None /\ stored = None /\ sent = Nothing /\ answer = Nil

(* NewOIDData refuses any other name.                                      *)
Register(s) ==
    /\ type = None /\ stored = None
    /\ type' = String2VariableType(s)
    /\ UNCHANGED <<stored, sent, answer>>

Save ==
    /\ type # None
    /\ stored' = VariableType2String(type)
    /\ UNCHANGED <<type, sent, answer>>

Restart ==
    /\ type' = IF stored = None THEN None ELSE String2VariableType(stored)
    /\ sent' = Nothing /\ answer' = Nil
    /\ UNCHANGED stored

Unregister ==
    /\ type' = None /\ stored' = None
    /\ sent' = Nothing /\ answer' = Nil

Get(v) ==
    /\ type # None
    /\ sent' = v
    /\ answer' \in ProcessOidResponse(type, v)
    /\ UNCHANGED <<type, stored>>

Next ==
    \/ \E s \in TypeNames : Register(s)
    \/ Save
    \/ Restart
    \/ Unregister
    \/ \E v \in Bodies : Get(v)

Spec == Init /\ [][Next]_vars

-----------------------------------------------------------------------------
(* Whether the number a body means is between lo and hi.                   *)
Means(v, lo, hi) ==
    /\ v.n \in lo..hi
    /\ v.n = hi => v.part <= 0
    /\ v.n = lo => v.part >= 0

(* The integer that Get has in its hands: a float64 for a number.          *)
Held(v)     == IF v.form = "number" THEN Float[v.n] ELSE v.n
Negative(v) == v.n < 0 \/ (v.n = 0 /\ v.part < 0)

(* A number whose float64 is 2^64 passes the check of a Counter64, and one *)
(* of seconds that the product with time.Second makes too long that of a   *)
(* TimeTicks.                                                              *)
SlipsCounter64(v) == v.form = "number" /\ Float[v.n] = MaxUint64 + 1
SlipsTimeTicks(v) ==
    /\ v.form = "number" /\ Float[v.n] <= MaxInt64 + 1
    /\ Float[v.n] * Second > MaxInt64

NumberKept ==
  /\ type = "Integer" =>
        answer = IF /\ sent.form \in {"numeral", "signed", "number"}
                    /\ Means(sent, MinInt32, MaxInt32)
                 THEN Number("int32", sent.n) ELSE Nil
  /\ type \in {"Counter32", "Gauge32"} =>
        answer = IF /\ sent.form \in {"numeral", "number"}
                    /\ Means(sent, 0, MaxUint32)
                 THEN Number("uint32", sent.n) ELSE Nil
  /\ type = "Counter64" /\ ~SlipsCounter64(sent) =>
        answer = IF /\ sent.form \in {"numeral", "number"}
                    /\ ~Negative(sent) /\ Held(sent) <= MaxUint64
                 THEN Number("uint64", Held(sent)) ELSE Nil
  /\ type = "TimeTicks" /\ ~SlipsTimeTicks(sent) =>
        answer = IF /\ sent.form \in {"numeral", "number"}
                    /\ sent.form = "numeral" => sent.n <= MaxUint32
                    /\ ~Negative(sent) /\ Held(sent) <= MaxInt64
                 THEN Number("Duration", Held(sent) * Second) ELSE Nil

TextTypes == {"OctetString", "Opaque", "ObjectIdentifier", "IPAddress"}
TextKept ==
    type \in TextTypes =>
      \/ answer = Nil
      \/ sent.form \in Strings /\ answer = Text(GoType(type), sent)
      \/ type = "IPAddress" /\ sent.form = "ipv6" /\ answer = Number("IP", 0)

(* What is sent is answered, or nil if the type cannot hold it: a 32-bit   *)
(* type answers the integer part of just the numbers between its bounds,   *)
(* the 64-bit types that of a string, and of a number what its float64     *)
(* holds, and a type of text the string.  Three inputs are neither kept    *)
(* nor refused, whatever is answered: a Counter64 number that float64      *)
(* rounds to 2^64 (its conversion is undefined), a number of seconds that  *)
(* wraps as a TimeTicks (TimeTicksNonNegative), and an IPv6 address, which *)
(* is answered as an IP without an address.                                *)
KeptOrRefused == NumberKept /\ TextKept

(* While an application's counter only grows, the answers of Get never     *)
(* shrink, though large values are rounded: a query answers a value at     *)
(* least that of the last, or nothing.  Only a value that float64 rounds   *)
(* beyond 64 bits is excepted, for its conversion is undefined.            *)
NeverRunsBack ==
    [][ /\ type' = type
        /\ type \in {"Integer", "Counter32", "Gauge32", "Counter64"}
        /\ sent'.form = sent.form /\ sent.n <= sent'.n
        /\ Float[sent'.n] <= MaxUint64
        /\ answer # Nil /\ answer' # Nil
        => answer.n <= answer'.n ]_vars

(* An oid keeps its type over restarts, though it is stored by its name    *)
(* (variableType2String when it is saved, string2VariableType when it is   *)
(* loaded).                                                                *)
RestartKeepsType ==
    [][type # None /\ stored # None => type' \in {type, None}]_vars

(* application.go:238 says of TimeTicks that it "represents a non-negative *)
(* integer": for a number of seconds the product with time.Second wraps.   *)
TimeTicksNonNegative == answer.go = "Duration" => answer.n >= 0
=============================================================================
