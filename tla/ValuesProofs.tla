---------------------------- MODULE ValuesProofs ----------------------------
(***************************************************************************)
(* Proofs about the setters of libconfig.c for ranges of every size, about *)
(* the object of class Setting that the C++ library keeps for a setting,   *)
(* and about the lookup of paths of every length in every configuration.   *)
(***************************************************************************)
EXTENDS CppValues, Lookup, SequenceTheorems, WellFoundedInduction, TLAPS

-----------------------------------------------------------------------------
(* libconfig.c (Scalars).  What the proofs rest on is that the conversions *)
(* between numbers stay within the type converted to; only that an integer *)
(* as a float may round up to the next multiple of Grain needs the         *)
(* assumption on the largest double.                                       *)

\* The ranges as numbers.
LEMMA RangesAreNumbers ==
  /\ Max32 \in Nat /\ Max64 \in Nat /\ MaxDouble \in Nat /\ Exact \in Nat
  /\ Grain \in Nat /\ Grain > 0
  /\ Max32 < Max64 /\ 2 * (Max64 + 1) + Grain <= MaxDouble
BY RangesAssumption

\* A double as a float is off by at most one grain.
LEMMA SingleIsNear ==
  ASSUME NEW d \in Int
  PROVE  Single(d) \in Int /\ - Magnitude(d) - Grain <= Single(d)
                           /\ Single(d) <= Magnitude(d) + Grain
<1> DEFINE m == Magnitude(d)
           r == m % Grain
           low == m - r
           up == \/ m - low > low + Grain - m
                 \/ m - low = low + Grain - m /\ (low \div Grain) % 2 = 1
           s == IF m <= Exact THEN m ELSE IF up THEN low + Grain ELSE low
<1>1. m \in Nat
  BY DEF Magnitude
<1>2. r \in 0 .. Grain - 1
  BY <1>1, RangesAreNumbers
<1>3. s \in Int /\ 0 - Grain <= s /\ s <= m + Grain
  <2> HIDE DEF m, r, up
  <2>1. low \in Int /\ low > 0 - Grain /\ low <= m
    BY <1>1, <1>2, RangesAreNumbers
  <2> QED
    BY <1>1, <2>1, RangesAreNumbers
<1>4. Single(d) = IF d < 0 THEN - s ELSE s
  BY DEF Single
<1> HIDE DEF s, m
<1>5. Single(d) \in Int /\ - m - Grain <= Single(d) /\ Single(d) <= m + Grain
  BY <1>1, <1>3, <1>4, RangesAreNumbers
<1> QED
  BY <1>5 DEF m

\* An integer of either kind is a double, and so is the float nearest to it.
LEMMA IntegersAreDoubles ==
  ASSUME NEW v \in Int64
  PROVE  2 * v \in Doubles /\ Single(2 * v) \in Doubles
<1>1. v \in Int /\ - Max64 - 1 <= v /\ v <= Max64
  BY RangesAreNumbers DEF Int64
<1>2. 2 * v \in Int /\ Magnitude(2 * v) <= 2 * (Max64 + 1) /\ Magnitude(2 * v) \in Nat
  BY <1>1, RangesAreNumbers DEF Magnitude
<1>3. Single(2 * v) \in Int /\ - Magnitude(2 * v) - Grain <= Single(2 * v)
                            /\ Single(2 * v) <= Magnitude(2 * v) + Grain
  BY <1>2, SingleIsNear
<1>4. Single(2 * v) \in Doubles
  BY <1>2, <1>3, RangesAreNumbers DEF Doubles
<1>5. 2 * v \in Doubles
  BY <1>1, RangesAreNumbers DEF Doubles
<1> QED
  BY <1>4, <1>5

LEMMA ShortIsLong == Int32 \subseteq Int64
BY RangesAreNumbers DEF Int32, Int64

\* What a conversion to an integer may give is in the integer's range.
LEMMA ConversionsStayInRange ==
  ASSUME NEW d, NEW range
  PROVE  ToInt(d, range) \subseteq range
BY DEF ToInt

LEMMA NarrowedStaysInRange ==
  ASSUME NEW v
  PROVE  Narrowed32(v) \in Int32
BY RangesAreNumbers DEF Narrowed32, Int32
-----------------------------------------------------------------------------
\* What a setting of type t holds.
Fits(t, v) ==
  \/ t = "NONE" /\ v = 0
  \/ t = "INT" /\ v \in Int32
  \/ t = "INT64" /\ v \in Int64
  \/ t = "FLOAT" /\ v \in Doubles
  \/ t = "BOOL" /\ v \in {0, 1}
  \/ t = "STRING" /\ v \in Strings \cup {Nil}

LEMMA FitsIsTyped ==
  ASSUME NEW t \in Types, NEW v
  PROVE  Fits(t, v) <=> v \in CASE t = "NONE" -> {0}
                 [] t = "INT" -> Int32
                 [] t = "INT64" -> Int64
                 [] t = "FLOAT" -> Doubles
                 [] t = "BOOL" -> {0, 1}
                 [] t = "STRING" -> Strings \cup {Nil}
BY DEF Fits, Types

\* The inductive invariant: the format of what is no integer was never set.
IInv ==
  /\ type \in Types /\ format \in Formats
  /\ auto \in BOOLEAN /\ deflt \in Formats
  /\ Fits(type, value)
  /\ Faithful
  /\ format = "HEX" => type \in {"INT", "INT64"}

LEMMA InitInv == Init => IInv
<1> SUFFICES ASSUME Init PROVE IInv
  OBVIOUS
<1>1. type \in Types /\ format \in Formats /\ auto \in BOOLEAN /\ deflt \in Formats
  BY DEF Init, Formats
<1>2. /\ type \in {"NONE", "INT", "INT64", "FLOAT", "BOOL"} => value = 0
      /\ type = "STRING" => value = Nil
  BY <1>1 DEF Init, Types
<1>3. 0 \in Int32 /\ 0 \in Int64 /\ 0 \in Doubles
  BY RangesAreNumbers DEF Int32, Int64, Doubles
<1>4. Fits(type, value)
  BY <1>1, <1>2, <1>3 DEF Fits, Types
<1>5. Faithful
  BY <1>2 DEF Faithful, Init
<1> QED
  BY <1>1, <1>4, <1>5 DEF IInv, Init

\* A setter that succeeds keeps the invariant if what it stores fits the type, which
\* changes only from NONE, and is what it was told.
LEMMA StoredInv ==
  ASSUME IInv, NEW t \in Types, NEW v, NEW halves, NEW conv,
         Stored(t, v, halves, conv), type \in {"NONE", t}, Fits(t, v),
         t \in {"INT", "INT64", "FLOAT"} /\ ~ conv =>
           \/ halves = IF t = "FLOAT" THEN v ELSE 2 * v
           \/ t = "INT" /\ v = 0 /\ halves \notin {2 * i : i \in Int32}
  PROVE  IInv'
<1>1. Fits(type, value)' /\ (type \in Types)'
  BY DEF Stored, Fits
<1>2. Faithful'
  BY DEF Stored, Faithful
<1>3. (format = "HEX" => type \in {"INT", "INT64"})'
  BY DEF IInv, Stored
<1> QED
  BY <1>1, <1>2, <1>3 DEF IInv, Stored, config

LEMMA SetIntInv ==
  ASSUME IInv, NEW v \in Int32, SetInt(v)
  PROVE  IInv'
<1>1. CASE type \in {"NONE", "INT"} /\ Stored("INT", v, 2 * v, FALSE)
  BY <1>1, StoredInv DEF Fits, Types
<1>2. CASE type = "FLOAT" /\ auto /\ Stored("FLOAT", Single(2 * v), 2 * v, TRUE)
  <2>1. Fits("FLOAT", Single(2 * v))
    BY IntegersAreDoubles, ShortIsLong DEF Fits
  <2> QED
    BY <1>2, <2>1, StoredInv DEF Types
<1> QED
  BY <1>1, <1>2 DEF SetInt

LEMMA SetInt64Inv ==
  ASSUME IInv, NEW v \in Int64, SetInt64(v)
  PROVE  IInv'
<1>1. CASE type \in {"NONE", "INT64"} /\ Stored("INT64", v, 2 * v, FALSE)
  BY <1>1, StoredInv DEF Fits, Types
<1>2. CASE type = "INT" /\ Stored("INT", Narrowed32(v), 2 * v, FALSE)
  <2>1. Fits("INT", Narrowed32(v))
    BY NarrowedStaysInRange DEF Fits
  <2>2. \/ Narrowed32(v) = v
        \/ Narrowed32(v) = 0 /\ v \notin Int32
    BY DEF Narrowed32
  <2>3. ASSUME v \notin Int32 PROVE 2 * v \notin {2 * i : i \in Int32}
    <3>1. v \in Int /\ \A i \in Int32 : i \in Int /\ i # v
      BY <2>3, RangesAreNumbers DEF Int32, Int64
    <3> QED
      BY <3>1
  <2> QED
    BY <1>2, <2>1, <2>2, <2>3, StoredInv DEF Types
<1>3. CASE type = "FLOAT" /\ auto /\ Stored("FLOAT", Single(2 * v), 2 * v, TRUE)
  <2>1. Fits("FLOAT", Single(2 * v))
    BY IntegersAreDoubles DEF Fits
  <2> QED
    BY <1>3, <2>1, StoredInv DEF Types
<1> QED
  BY <1>1, <1>2, <1>3 DEF SetInt64

LEMMA SetFloatInv ==
  ASSUME IInv, NEW d \in Doubles, SetFloat(d)
  PROVE  IInv'
<1>1. CASE type \in {"NONE", "FLOAT"} /\ Stored("FLOAT", d, d, FALSE)
  BY <1>1, StoredInv DEF Fits, Types
<1>2. CASE type = "INT" /\ \E i \in ToInt(d, Int32) : Stored("INT", i, d, TRUE)
  <2>1. PICK i \in ToInt(d, Int32) : Stored("INT", i, d, TRUE)
    BY <1>2
  <2>2. Fits("INT", i)
    BY <2>1, ConversionsStayInRange DEF Fits
  <2> QED
    BY <1>2, <2>1, <2>2, StoredInv DEF Types
<1>3. CASE type = "INT64" /\ \E i \in ToInt(d, Int64) : Stored("INT64", i, d, TRUE)
  <2>1. PICK i \in ToInt(d, Int64) : Stored("INT64", i, d, TRUE)
    BY <1>3
  <2>2. Fits("INT64", i)
    BY <2>1, ConversionsStayInRange DEF Fits
  <2> QED
    BY <1>3, <2>1, <2>2, StoredInv DEF Types
<1> QED
  BY <1>1, <1>2, <1>3 DEF SetFloat

LEMMA SetOthersInv ==
  ASSUME IInv
  PROVE  /\ \A b \in {0, 1} : SetBool(b) => IInv'
         /\ \A s \in Strings \cup {Nil} : SetString(s) => IInv'
<1>1. ASSUME NEW b \in {0, 1}, SetBool(b) PROVE IInv'
  <2>1. Fits("BOOL", b)
    BY DEF Fits
  <2> QED
    BY <1>1, <2>1, StoredInv DEF SetBool, Types
<1>2. ASSUME NEW s \in Strings \cup {Nil}, SetString(s) PROVE IInv'
  <2>1. Fits("STRING", s)
    BY DEF Fits
  <2> QED
    BY <1>2, <2>1, StoredInv DEF SetString, Types
<1> QED
  BY <1>1, <1>2

\* The setters of formats and options leave the value alone.
LEMMA SettersInv ==
  ASSUME IInv
  PROVE  /\ \A f \in Formats : SetFormat(f) \/ SetDefaultFormat(f) => IInv'
         /\ \A flag \in BOOLEAN : SetAutoConvert(flag) => IInv'
<1>1. ASSUME UNCHANGED <<type, value, told, converted>>
      PROVE  Faithful' /\ Fits(type, value)' /\ (type \in Types)'
  BY <1>1 DEF Faithful, Fits, IInv
<1>2. ASSUME NEW f \in Formats, SetFormat(f) PROVE IInv'
  BY <1>1, <1>2 DEF SetFormat, IInv, config
<1>3. ASSUME NEW f \in Formats, SetDefaultFormat(f) PROVE IInv'
  BY <1>1, <1>3 DEF SetDefaultFormat, IInv
<1>4. ASSUME NEW flag \in BOOLEAN, SetAutoConvert(flag) PROVE IInv'
  BY <1>1, <1>4 DEF SetAutoConvert, IInv
<1> QED
  BY <1>2, <1>3, <1>4

LEMMA NextInv == IInv /\ [Next]_vars => IInv'
<1>1. ASSUME IInv, Next PROVE IInv'
  BY <1>1, SetIntInv, SetInt64Inv, SetFloatInv, SetOthersInv, SettersInv DEF Next
<1>2. ASSUME IInv, UNCHANGED vars PROVE IInv'
  BY <1>2 DEF IInv, vars, Faithful, Fits, config
<1> QED
  BY <1>1, <1>2

LEMMA InvHolds == Spec => []IInv
BY InitInv, NextInv, PTL DEF Spec
-----------------------------------------------------------------------------
\* A setting holds a value of its type, whatever setters are called with whatever
\* numbers, for every width of the integers and every precision of the floats.
THEOREM ScalarTypes == Spec => []TypeOK
<1>1. IInv => TypeOK
  BY FitsIsTyped DEF IInv, TypeOK
<1> QED
  BY <1>1, InvHolds, PTL

\* Without auto-conversion a number is held as given, or it was a long long that an
\* int setting took as 0.
THEOREM NumbersAreFaithful == Spec => []Faithful
<1>1. IInv => Faithful
  BY DEF IInv
<1> QED
  BY <1>1, InvHolds, PTL

\* The hexadecimal format is told only of integers or by the configuration's default.
THEOREM HexIsForIntegers == Spec => []HexOnIntegers
<1>1. IInv => HexOnIntegers
  BY DEF IInv, HexOnIntegers, GetFormat, Formats
<1> QED
  BY <1>1, InvHolds, PTL

\* No setter changes the type a first value has given to a setting.
THEOREM TypesStay == Spec => TypeStays
<1>1. [Next]_vars => (type # "NONE" => type' = type) \/ UNCHANGED vars
  <2>1. ASSUME NEW t, NEW v, NEW h, NEW c, Stored(t, v, h, c) PROVE type' = t
    BY <2>1 DEF Stored
  <2> SUFFICES ASSUME Next, type # "NONE" PROVE type' = type
    OBVIOUS
  <2>2. ASSUME NEW v, SetInt(v) \/ SetInt64(v) \/ SetFloat(v) PROVE type' = type
    BY <2>1, <2>2 DEF SetInt, SetInt64, SetFloat
  <2>3. ASSUME NEW v, SetBool(v) \/ SetString(v) PROVE type' = type
    BY <2>1, <2>3 DEF SetBool, SetString
  <2>4. ASSUME NEW v, SetFormat(v) \/ SetDefaultFormat(v) \/ SetAutoConvert(v)
        PROVE  type' = type
    BY <2>4 DEF SetFormat, SetDefaultFormat, SetAutoConvert
  <2> QED
    BY <2>2, <2>3, <2>4 DEF Next
<1> QED
  BY <1>1, PTL DEF Spec, TypeStays
-----------------------------------------------------------------------------
\* Twice an integer truncates to that integer.
LEMMA TruncationOfIntegers ==
  ASSUME NEW v \in Int
  PROVE  Truncated(2 * v) = v
BY DEF Truncated

\* There is always something a conversion gives, and it is the truncated number if
\* that is in range.
LEMMA ConversionsGive ==
  ASSUME NEW d, NEW range, range # {}
  PROVE  /\ ToInt(d, range) # {}
         /\ Truncated(d) \in range => ToInt(d, range) = {Truncated(d)}
BY DEF ToInt

\* The getters of one setting never disagree on a number both can hold, and those for
\* int and long long fail together.
THEOREM GettersMeet == Spec => []GettersAgree
<1>1. ASSUME IInv PROVE GettersAgree
  <2> USE <1>1 DEF GettersAgree
  <2>1. type \in Types /\ Fits(type, value)
    BY DEF IInv
  <2>2. Int32 # {} /\ Int64 # {} /\ 0 \in Int32
    BY RangesAreNumbers DEF Int32, Int64
  <2>3. CASE type = "INT"
    <3>1. value \in Int32 /\ value \in Int
      BY <2>1, <2>3, RangesAreNumbers DEF Fits, Int32
    <3>2. GetInt = {value} /\ GetInt64 = {value} /\ GetFloat \subseteq {2 * value}
      BY <2>3 DEF GetInt, GetInt64, GetFloat
    <3> QED
      BY <3>1, <3>2, TruncationOfIntegers
  <2>4. CASE type = "INT64"
    <3>1. value \in Int
      BY <2>1, <2>4, RangesAreNumbers DEF Fits, Int64
    <3>2. /\ GetInt = {Narrowed32(value)} /\ GetInt64 = {value}
          /\ GetFloat \subseteq {2 * value}
      BY <2>4 DEF GetInt, GetInt64, GetFloat
    <3>3. value \in Int32 => Narrowed32(value) = value
      BY DEF Narrowed32
    <3> QED
      BY <3>1, <3>2, <3>3, TruncationOfIntegers
  <2>5. CASE type = "FLOAT"
    <3>1. GetFloat = {value}
      BY <2>5 DEF GetFloat
    <3>2. CASE auto
      <4>1. GetInt = ToInt(value, Int32) /\ GetInt64 = ToInt(value, Int64)
        BY <2>5, <3>2 DEF GetInt, GetInt64
      <4> QED
        BY <2>2, <2>5, <3>1, <4>1, ConversionsGive
    <3>3. CASE ~ auto
      <4>1. GetInt = {} /\ GetInt64 = {}
        BY <2>5, <3>3 DEF GetInt, GetInt64
      <4> QED
        BY <4>1
    <3> QED
      BY <3>2, <3>3
  <2>6. CASE type \in {"NONE", "BOOL", "STRING"}
    <3>1. GetInt = {} /\ GetInt64 = {}
      BY <2>6 DEF GetInt, GetInt64
    <3> QED
      BY <3>1
  <2> QED
    BY <2>1, <2>3, <2>4, <2>5, <2>6 DEF Types
<1> QED
  BY <1>1, InvHolds, PTL

-----------------------------------------------------------------------------
(* libconfigcpp.c++ (CppValues).  The object, which keeps the type and the *)
(* format it was made with, never disagrees with its setting.  A setter    *)
(* cannot change the type of a setting that has one, and one that has none *)
(* passes no assertion; what does change the type destroys the object.     *)

\* The inductive invariant.  A format other than the default is an integer's (IInv),
\* so an object whose setFormat the C function ignored had no format to tell of.
CInv ==
  /\ IInv
  /\ kept \in [type: Types, format: Formats] \cup {NoObject}
  /\ crashed \in BOOLEAN
  /\ last.call \in {"none", "cast", "lookup", "assign"}
  /\ last.kind \in Kinds \cup {"none"} /\ last.thrown \in BOOLEAN
  /\ KeptTypeTrue
  /\ FormatTold

\* The conjuncts of CInv on the last call
LastOK ==
  /\ last.call \in {"none", "cast", "lookup", "assign"}
  /\ last.kind \in Kinds \cup {"none"} /\ last.thrown \in BOOLEAN

LEMMA NoObjectHasNoType == \A k : k = NoObject => k.type \notin Types
BY ObjectAssumption DEF NoObject

LEMMA FormatsToldAreFormats == IInv => GetFormat \in Formats
BY DEF IInv, GetFormat, Formats

LEMMA CInitInv == CInit => CInv
<1> SUFFICES ASSUME CInit PROVE CInv
  OBVIOUS
<1>1. IInv
  BY InitInv DEF CInit
<1>2. LastOK
  BY DEF CInit, NoCall, LastOK
<1> QED
  BY <1>1, <1>2 DEF CInv, LastOK, CInit, KeptTypeTrue, FormatTold

\* A step that leaves the setting and its object alone
LEMMA OnlyCalled ==
  ASSUME CInv, UNCHANGED <<vars, kept>>, crashed' \in BOOLEAN, LastOK'
  PROVE  CInv'
<1>1. IInv'
  BY NextInv DEF CInv
<1> QED
  BY <1>1 DEF CInv, LastOK, KeptTypeTrue, FormatTold, vars

LEMMA WrapInv == ASSUME CInv, Wrap PROVE CInv'
<1>1. IInv' /\ GetFormat \in Formats
  BY NextInv, FormatsToldAreFormats DEF CInv, Wrap
<1>2. kept' \in [type: Types, format: Formats]
  BY <1>1 DEF Wrap, CInv, IInv
<1>3. KeptTypeTrue'
  BY DEF Wrap, KeptTypeTrue, vars
<1>4. FormatTold'
  BY DEF Wrap, FormatTold, vars, GetFormat
<1> QED
  BY <1>1, <1>2, <1>3, <1>4 DEF CInv, Wrap

LEMMA CastInv == ASSUME CInv, NEW kind \in Kinds, Cast(kind) PROVE CInv'
<1>1. last'.call = "cast" /\ last'.kind = kind /\ last'.thrown \in BOOLEAN
  <2>1. CASE last' = Threw("cast", kind)
    BY <2>1 DEF Threw
  <2>2. ASSUME NEW w, last' = [call |-> "cast", kind |-> kind, thrown |-> FALSE,
                               given |-> NoValue, got |-> w]
        PROVE  last'.call = "cast" /\ last'.kind = kind /\ last'.thrown \in BOOLEAN
    BY <2>2
  <2> QED
    BY <2>1, <2>2 DEF Cast
<1>2. UNCHANGED <<vars, kept>> /\ crashed' \in BOOLEAN
  BY DEF Cast, object, CInv
<1> QED
  BY <1>1, <1>2, OnlyCalled DEF LastOK

LEMMA LookupInv == ASSUME CInv, NEW kind \in Kinds, LookupValue(kind) PROVE CInv'
<1>1. LastOK'
  BY DEF LookupValue, NoCall, LastOK
<1>2. crashed' \in BOOLEAN
  BY DEF LookupValue, CInv
<1> QED
  BY <1>1, <1>2, OnlyCalled DEF LookupValue

\* A setter of a wrapped setting changes neither its type nor its format.
LEMMA SettersKeepObject ==
  ASSUME CInv, kept # NoObject, NEW kind \in Kinds, NEW v \in Given(kind),
         AssertType(TypeOfKind(kind)), Setter(kind, v)
  PROVE  Next /\ type' = type /\ format' = format
<1>1. type # "NONE"
  <2>1. kept.type = type
    BY DEF CInv, KeptTypeTrue
  <2>2. TypeOfKind(kind) # "NONE"
    BY DEF TypeOfKind, Kinds
  <2> QED
    BY <2>1, <2>2 DEF AssertType, Numbers
<1>2. ASSUME NEW t, NEW w, NEW h, NEW c, Stored(t, w, h, c)
      PROVE  type' = t /\ format' = format
  BY <1>2 DEF Stored
<1>3. CASE kind = "bool"
  BY <1>1, <1>2, <1>3 DEF Given, Setter, SetBool, Next
<1>4. CASE kind = "int"
  BY <1>1, <1>2, <1>4 DEF Given, Setter, SetInt, Next
<1>5. CASE kind = "int64"
  BY <1>1, <1>2, <1>5 DEF Given, Setter, SetInt64, Next
<1>6. CASE kind \in {"float", "double"}
  <2>1. v \in Doubles /\ SetFloat(v)
    BY <1>6 DEF Given, Setter
  <2>2. type' = type /\ format' = format
    BY <1>1, <1>2, <2>1 DEF SetFloat
  <2> QED
    BY <2>1, <2>2 DEF Next
<1>7. CASE kind \in {"cstring", "string"}
  <2>1. v \in Strings \cup {Nil} /\ SetString(v)
    BY <1>7 DEF Given, Setter
  <2>2. type' = type /\ format' = format
    BY <1>1, <1>2, <2>1 DEF SetString
  <2> QED
    BY <2>1, <2>2 DEF Next
<1>8. CASE kind \in {"uint", "uint64"}
  BY <1>8 DEF Given
<1> QED
  BY <1>3, <1>4, <1>5, <1>6, <1>7, <1>8 DEF Kinds

LEMMA AssignInv ==
  ASSUME CInv, NEW kind \in Kinds, NEW v \in Given(kind), Assign(kind, v)
  PROVE  CInv'
<1>1. LastOK' /\ kept # NoObject /\ UNCHANGED object
  <2>1. CASE last' = Threw("assign", kind)
    BY <2>1 DEF Assign, Threw, LastOK, Wrapped
  <2>2. CASE last' = [NoCall EXCEPT !.call = "assign", !.kind = kind, !.given = v]
    BY <2>2 DEF Assign, NoCall, LastOK, Wrapped
  <2> QED
    BY <2>1, <2>2 DEF Assign
<1>2. CASE UNCHANGED vars
  <2>1. UNCHANGED <<vars, kept>> /\ crashed' \in BOOLEAN
    BY <1>1, <1>2 DEF object, CInv
  <2> QED
    BY <1>1, <2>1, OnlyCalled
<1>3. CASE AssertType(TypeOfKind(kind)) /\ Setter(kind, v)
  <2>1. Next /\ type' = type /\ format' = format
    BY <1>1, <1>3, SettersKeepObject
  <2>2. IInv'
    BY <2>1, NextInv DEF CInv
  <2>3. KeptTypeTrue' /\ FormatTold'
    BY <1>1, <2>1 DEF CInv, KeptTypeTrue, FormatTold, object
  <2> QED
    BY <1>1, <2>2, <2>3 DEF CInv, LastOK, object
<1> QED
  BY <1>2, <1>3 DEF Assign

LEMMA SetObjectFormatInv ==
  ASSUME CInv, NEW f \in Formats, SetObjectFormat(f)
  PROVE  CInv'
<1>1. LastOK' /\ kept # NoObject /\ UNCHANGED crashed
  BY DEF SetObjectFormat, NoCall, LastOK, Wrapped
<1>2. kept.type = type /\ kept \in [type: Types, format: Formats]
  BY <1>1 DEF CInv, KeptTypeTrue
<1>3. ObjectFormat(f) \in Formats
  BY DEF ObjectFormat, Formats
<1>4. kept' = [kept EXCEPT !.format = ObjectFormat(f)]
  BY DEF SetObjectFormat
<1>5. /\ kept' \in [type: Types, format: Formats]
      /\ kept'.type = type /\ kept'.format = ObjectFormat(f)
  BY <1>2, <1>3, <1>4
<1>6. CASE SetFormat(ObjectFormat(f))
  <2>1. IInv'
    BY <1>3, <1>6, NextInv DEF Next, CInv
  <2>2. type' = type /\ format' = ObjectFormat(f)
    BY <1>6 DEF SetFormat
  <2>3. KeptTypeTrue' /\ FormatTold'
    BY <1>5, <2>2 DEF KeptTypeTrue, FormatTold
  <2> QED
    BY <1>1, <1>5, <2>1, <2>3 DEF CInv, LastOK
<1>7. CASE type \notin {"INT", "INT64"} /\ UNCHANGED vars
  <2>1. IInv'
    BY <1>7, NextInv DEF CInv
  <2>2. format' = "DEFAULT" /\ type' = type
    BY <1>7 DEF CInv, IInv, Formats, vars
  <2>3. KeptTypeTrue' /\ FormatTold'
    BY <1>5, <2>2 DEF KeptTypeTrue, FormatTold
  <2> QED
    BY <1>1, <1>5, <2>1, <2>3 DEF CInv, LastOK
<1> QED
  BY <1>6, <1>7 DEF SetObjectFormat

LEMMA ConfigInv ==
  ASSUME CInv
  PROVE  /\ \A f \in Formats : SetConfigFormat(f) => CInv'
         /\ \A flag \in BOOLEAN : SetConfigConvert(flag) => CInv'
<1>1. ASSUME NEW f \in Formats, SetConfigFormat(f) PROVE CInv'
  <2>1. IInv'
    BY <1>1, NextInv DEF SetConfigFormat, Next, CInv
  <2>2. LastOK' /\ UNCHANGED object /\ UNCHANGED <<type, format>>
    BY <1>1 DEF SetConfigFormat, SetDefaultFormat, NoCall, LastOK
  <2> QED
    BY <2>1, <2>2 DEF CInv, LastOK, object, KeptTypeTrue, FormatTold
<1>2. ASSUME NEW flag \in BOOLEAN, SetConfigConvert(flag) PROVE CInv'
  <2>1. IInv'
    BY <1>2, NextInv DEF SetConfigConvert, Next, CInv
  <2>2. LastOK' /\ UNCHANGED object /\ UNCHANGED <<type, format>>
    BY <1>2 DEF SetConfigConvert, SetAutoConvert, NoCall, LastOK
  <2> QED
    BY <2>1, <2>2 DEF CInv, LastOK, object, KeptTypeTrue, FormatTold
<1> QED
  BY <1>1, <1>2

\* What a read or an addition leaves is a setting no setter has been told a number of.
LEMMA RereadInv == ASSUME CInv, Reread PROVE CInv'
<1>1. LastOK' /\ kept' = NoObject /\ UNCHANGED crashed
  BY DEF Reread, NoCall, LastOK
<1>2. type' \in Types /\ format' \in Formats /\ auto' \in BOOLEAN /\ deflt' \in Formats
  BY DEF Reread, Fresh, CInv, IInv, Formats
<1>3. /\ type' = "STRING" => value' = Nil
      /\ type' # "STRING" => value' = 0
  BY DEF Reread, Fresh
<1>4. 0 \in Int32 /\ 0 \in Int64 /\ 0 \in Doubles
  BY RangesAreNumbers DEF Int32, Int64, Doubles
<1>5. Fits(type, value)'
  BY <1>2, <1>3, <1>4 DEF Fits, Types
<1>6. Faithful'
  BY <1>3 DEF Reread, Fresh, Faithful
<1>7. (format = "HEX" => type \in {"INT", "INT64"})'
  BY DEF Reread, Fresh
<1>8. IInv'
  BY <1>2, <1>5, <1>6, <1>7 DEF IInv
<1> QED
  BY <1>1, <1>8 DEF CInv, LastOK, KeptTypeTrue, FormatTold

LEMMA CNextInv == CInv /\ [CNext]_cvars => CInv'
<1>1. ASSUME CInv, UNCHANGED cvars PROVE CInv'
  BY <1>1, OnlyCalled DEF cvars, CInv, LastOK
<1>2. ASSUME CInv, CNext PROVE CInv'
  <2>1. CASE Stopped
    BY <1>1, <1>2, <2>1 DEF Stopped
  <2> QED
    BY <1>2, <2>1, WrapInv, RereadInv, CastInv, LookupInv, AssignInv,
       SetObjectFormatInv, ConfigInv DEF CNext
<1> QED
  BY <1>1, <1>2

LEMMA CInvHolds == CSpec => []CInv
BY CInitInv, CNextInv, PTL DEF CSpec
-----------------------------------------------------------------------------
\* The object and its setting are well typed in every reachable state.
THEOREM ObjectsAreTyped == CSpec => []CTypeOK
<1>1. CInv => CTypeOK
  <2>1. IInv => TypeOK
    BY FitsIsTyped DEF IInv, TypeOK
  <2> QED
    BY <2>1 DEF CInv, CTypeOK
<1> QED
  BY <1>1, CInvHolds, PTL

\* The type a Setting object asserts is the type its setting has, through every
\* assignment, conversion and read.
THEOREM KeptTypesAreTrue == CSpec => []KeptTypeTrue
<1>1. CInv => KeptTypeTrue
  BY DEF CInv
<1> QED
  BY <1>1, CInvHolds, PTL

\* A format chosen for a setting is the one its object tells of.
THEOREM FormatsAreTold == CSpec => []FormatTold
<1>1. CInv => FormatTold
  BY DEF CInv
<1> QED
  BY <1>1, CInvHolds, PTL
-----------------------------------------------------------------------------
\* What is below a number by its remainder, and the next such number, leave none.
LEMMA MultiplesOfGrain ==
  ASSUME NEW m \in Nat
  PROVE  LET low == m - (m % Grain) IN
         low \in Nat /\ low % Grain = 0 /\ (low + Grain) % Grain = 0
<1> DEFINE q == m \div Grain
           r == m % Grain
<1>1. q \in Nat /\ r \in 0 .. Grain - 1 /\ m = Grain * q + r
  BY RangesAreNumbers
<1>2. m - r = Grain * q /\ m - r + Grain = Grain * (q + 1)
  <2> HIDE DEF q, r
  <2> QED
    BY <1>1, RangesAreNumbers
<1>3. \A k \in Nat : Grain * k \in Nat /\ (Grain * k) % Grain = 0
  BY RangesAreNumbers
<1> HIDE DEF q, r
<1>4. q + 1 \in Nat
  BY <1>1
<1> QED
  BY <1>1, <1>2, <1>3, <1>4 DEF r

\* A number a float holds is its own float.
LEMMA SinglesAreFloats ==
  ASSUME NEW d \in Int
  PROVE  Single(Single(d)) = Single(d)
<1> DEFINE m == Magnitude(d)
           low == m - (m % Grain)
           up == \/ m - low > low + Grain - m
                 \/ m - low = low + Grain - m /\ (low \div Grain) % 2 = 1
           s == IF m <= Exact THEN m ELSE IF up THEN low + Grain ELSE low
<1>1. m \in Nat
  BY DEF Magnitude
<1>2. low \in Nat /\ low % Grain = 0 /\ (low + Grain) % Grain = 0
  BY <1>1, MultiplesOfGrain
<1>3. s \in Nat /\ (s <= Exact \/ s % Grain = 0)
  <2> HIDE DEF m, low, up
  <2> QED
    BY <1>1, <1>2, RangesAreNumbers
<1>4. Single(d) = IF d < 0 THEN - s ELSE s
  BY DEF Single
<1> HIDE DEF s, m
<1>5. \A e \in Int : Magnitude(e) = s => Single(e) = IF e < 0 THEN - s ELSE s
  <2> SUFFICES ASSUME NEW e \in Int, Magnitude(e) = s
               PROVE  Single(e) = IF e < 0 THEN - s ELSE s
    OBVIOUS
  <2>1. CASE s <= Exact
    BY <2>1 DEF Single
  <2>2. CASE ~ (s <= Exact) /\ s % Grain = 0
    <3>1. s - (s % Grain) = s /\ ~ (s - s > s + Grain - s) /\ ~ (s - s = s + Grain - s)
      BY <1>3, <2>2, RangesAreNumbers
    <3> QED
      BY <2>2, <3>1 DEF Single
  <2> QED
    BY <1>3, <2>1, <2>2
<1>6. Single(d) \in Int /\ Magnitude(Single(d)) = s
  BY <1>3, <1>4 DEF Magnitude
<1>7. s = 0 \/ (Single(d) < 0 <=> d < 0)
  BY <1>3, <1>4
<1> QED
  BY <1>3, <1>4, <1>5, <1>6, <1>7

\* What a cast gives of a number the setting holds
Gives(kind, v) ==
  LET halves == IF kind \in {"float", "double"} THEN v ELSE 2 * v IN
  /\ Held \in RangeOf(kind) => halves = Held
  /\ kind \in {"uint", "uint64"} /\ Held < 0 /\ Truncated(Held) \in Int32 => halves = 0

\* An integer getter gives the number held, truncated, if that is in its range.
LEMMA IntegerGetters ==
  ASSUME IInv, type \in Numbers
  PROVE  /\ Held \in Int
         /\ \A v \in GetInt : v \in Int /\ (Truncated(Held) \in Int32 => v = Truncated(Held))
         /\ \A v \in GetInt64 : v \in Int /\ (Truncated(Held) \in Int64 => v = Truncated(Held))
<1> USE DEF Held
<1>1. Fits(type, value)
  BY DEF IInv
<1>2. Int32 # {} /\ Int64 # {} /\ Int32 \subseteq Int /\ Int64 \subseteq Int
  BY RangesAreNumbers DEF Int32, Int64
<1>3. CASE type = "INT"
  <2>1. value \in Int32 /\ value \in Int /\ Held = 2 * value
    BY <1>1, <1>2, <1>3 DEF Fits
  <2>2. GetInt = {value} /\ GetInt64 = {value}
    BY <1>3 DEF GetInt, GetInt64
  <2> QED
    BY <2>1, <2>2, TruncationOfIntegers
<1>4. CASE type = "INT64"
  <2>1. value \in Int /\ Held = 2 * value
    BY <1>1, <1>2, <1>4 DEF Fits
  <2>2. GetInt = {Narrowed32(value)} /\ GetInt64 = {value}
    BY <1>4 DEF GetInt, GetInt64
  <2>3. Narrowed32(value) \in Int /\ (value \in Int32 => Narrowed32(value) = value)
    BY <2>1 DEF Narrowed32
  <2> QED
    BY <2>1, <2>2, <2>3, TruncationOfIntegers
<1>5. CASE type = "FLOAT"
  <2>1. value \in Int /\ Held = value
    BY <1>1, <1>5, RangesAreNumbers DEF Fits, Doubles
  <2>2. GetInt \subseteq ToInt(value, Int32) /\ GetInt64 \subseteq ToInt(value, Int64)
    BY <1>5 DEF GetInt, GetInt64
  <2>3. ToInt(value, Int32) \subseteq Int /\ ToInt(value, Int64) \subseteq Int
    BY <1>2, ConversionsStayInRange
  <2> QED
    BY <1>2, <2>1, <2>2, <2>3, ConversionsGive
<1> QED
  BY <1>3, <1>4, <1>5 DEF Numbers

LEMMA ResultsAreFaithful ==
  ASSUME IInv, type \in Numbers, NEW kind \in Kinds, NEW v \in Results(kind)
  PROVE  Gives(kind, v)
<1>1. Held \in Int
  BY IntegerGetters
<1>2. /\ \A i : 2 * i = Held /\ i \in Int => Truncated(Held) = i
      /\ Held < 0 => Truncated(Held) <= 0
  BY <1>1, TruncationOfIntegers DEF Truncated
<1>3. Int32 \subseteq Int /\ Int64 \subseteq Int
  BY RangesAreNumbers DEF Int32, Int64
<1>4. CASE kind \in {"bool", "cstring", "string"}
  BY <1>4 DEF Results, GetBool, GetString, Numbers
<1>5. CASE kind \in {"int", "int64"}
  <2>1. /\ v \in Int
        /\ Held \in RangeOf(kind) => \E i \in Int : 2 * i = Held /\ v = i
    <3>1. CASE kind = "int"
      BY <1>2, <1>3, <3>1, IntegerGetters DEF Results, RangeOf
    <3>2. CASE kind = "int64"
      BY <1>2, <1>3, <3>2, IntegerGetters DEF Results, RangeOf
    <3> QED
      BY <1>5, <3>1, <3>2
  <2> QED
    BY <1>5, <2>1 DEF Gives
<1>6. CASE kind \in {"uint", "uint64"}
  <2>1. PICK w \in Int : /\ v = AtLeast0(w)
                         /\ Truncated(Held) \in Int32 => w = Truncated(Held)
                         /\ kind = "uint64" /\ Truncated(Held) \in Int64 => w = Truncated(Held)
    <3>1. CASE kind = "uint"
      BY <3>1, IntegerGetters DEF Results
    <3>2. CASE kind = "uint64"
      BY <3>2, IntegerGetters, ShortIsLong DEF Results
    <3> QED
      BY <1>6, <3>1, <3>2
  <2>2. Held \in RangeOf(kind) => 2 * v = Held
    <3>1. CASE kind = "uint"
      BY <1>2, <1>3, <2>1, <3>1 DEF RangeOf, AtLeast0
    <3>2. CASE kind = "uint64"
      BY <1>2, <1>3, <2>1, <3>2 DEF RangeOf, AtLeast0
    <3> QED
      BY <1>6, <3>1, <3>2
  <2>3. Held < 0 /\ Truncated(Held) \in Int32 => v = 0
    BY <1>2, <2>1 DEF AtLeast0
  <2> QED
    BY <1>6, <2>2, <2>3 DEF Gives
<1>7. GetFloat \subseteq {Held}
  BY DEF GetFloat, Held, Numbers
<1>8. CASE kind = "double"
  BY <1>7, <1>8 DEF Results, Gives
<1>9. CASE kind = "float"
  <2>1. v = Single(Held)
    BY <1>7, <1>9 DEF Results
  <2>2. ASSUME Held \in RangeOf(kind) PROVE Single(Held) = Held
    <3>1. PICK d \in Doubles : Held = Single(d)
      BY <1>9, <2>2 DEF RangeOf
    <3>2. d \in Int
      BY RangesAreNumbers DEF Doubles
    <3> QED
      BY <3>1, <3>2, SinglesAreFloats
  <2> QED
    BY <1>9, <2>1, <2>2 DEF Gives
<1> QED
  BY <1>4, <1>5, <1>6, <1>8, <1>9 DEF Kinds

\* A successful cast or lookup is the last call until something else is called.
LEMMA CastGives ==
  ASSUME IInv, NEW kind \in Kinds, Cast(kind) \/ LookupValue(kind)
  PROVE  CastsFaithful'
<1>1. UNCHANGED vars
  BY DEF Cast, LookupValue
<1>2. UNCHANGED Held /\ UNCHANGED type
  BY <1>1 DEF vars, Held
<1>3. SUFFICES ASSUME last'.got # NoValue, type \in Numbers
               PROVE  Gives(kind, last'.got) /\ last'.kind = kind
  BY <1>2, <1>3 DEF CastsFaithful, Gives
<1>4. GetString = {}
  BY <1>3 DEF GetString, Numbers
<1>5. ASSUME NEW v \in Results(kind) PROVE kind # "string" /\ Gives(kind, v)
  BY <1>3, <1>4, <1>5, ResultsAreFaithful DEF Results
<1>6. CASE Cast(kind)
  <2>1. last' # Threw("cast", kind)
    BY <1>3 DEF Threw
  <2>2. PICK v \in Results(kind) :
          last' = [call |-> "cast", kind |-> kind, thrown |-> FALSE, given |-> NoValue,
                   got |-> IF kind = "string" /\ v = Nil THEN "" ELSE v]
    BY <1>6, <2>1 DEF Cast
  <2> QED
    BY <1>5, <2>2
<1>7. CASE LookupValue(kind)
  <2>1. last' # [NoCall EXCEPT !.call = "lookup", !.kind = kind]
    BY <1>3 DEF NoCall
  <2>2. PICK v \in Results(kind) :
          last' = [NoCall EXCEPT !.call = "lookup", !.kind = kind, !.got = v]
    BY <1>7, <2>1 DEF LookupValue
  <2>3. last'.got = v /\ last'.kind = kind
    BY <2>2 DEF NoCall
  <2> QED
    BY <1>5, <2>2, <2>3
<1> QED
  BY <1>6, <1>7

\* Every step but a cast or a lookup changes neither the setting nor the last call, or
\* makes the last call one that gives no number.
LEMMA OthersGiveNothing ==
  ASSUME CNext
  PROVE  \/ \E kind \in Kinds : Cast(kind) \/ LookupValue(kind)
         \/ UNCHANGED <<vars, last>>
         \/ last'.call \in {"none", "assign"}
<1>1. CASE Stopped \/ Wrap
  BY <1>1 DEF Stopped, Wrap, cvars
<1>2. CASE Reread
  BY <1>2 DEF Reread, NoCall
<1>3. ASSUME NEW kind \in Kinds, NEW v, Assign(kind, v)
      PROVE  last'.call = "assign"
  <2>1. CASE last' = Threw("assign", kind)
    BY <2>1 DEF Threw
  <2>2. CASE last' = [NoCall EXCEPT !.call = "assign", !.kind = kind, !.given = v]
    BY <2>2 DEF NoCall
  <2> QED
    BY <1>3, <2>1, <2>2 DEF Assign
<1>4. ASSUME NEW f, SetObjectFormat(f) \/ SetConfigFormat(f) \/ SetConfigConvert(f)
      PROVE  last'.call = "none"
  BY <1>4 DEF SetObjectFormat, SetConfigFormat, SetConfigConvert, NoCall
<1> QED
  BY <1>1, <1>2, <1>3, <1>4 DEF CNext

\* What a cast or a lookup gives is the number the setting holds wherever the C++ type
\* has it, and never a negative number turned into a large unsigned one.
THEOREM CastsAreFaithful == CSpec => []CastsFaithful
<1>1. CInit => CastsFaithful
  BY DEF CInit, NoCall, CastsFaithful
<1>2. ASSUME IInv, CastsFaithful, [CNext]_cvars PROVE CastsFaithful'
  <2>1. CASE UNCHANGED <<vars, last>>
    BY <1>2, <2>1 DEF CastsFaithful, Held, vars
  <2>2. CASE last'.call \in {"none", "assign"}
    BY <2>2 DEF CastsFaithful
  <2>3. CASE UNCHANGED cvars
    BY <2>1, <2>3 DEF cvars
  <2>4. CASE CNext
    BY <1>2, <2>1, <2>2, <2>4, CastGives, OthersGiveNothing
  <2> QED
    BY <1>2, <2>3, <2>4
<1>3. CInv => IInv
  BY DEF CInv
<1> QED
  BY <1>1, <1>2, <1>3, CInvHolds, PTL DEF CSpec

-----------------------------------------------------------------------------
(* Paths (Lookup).  A path that consists of names and indices with a dot   *)
(* between any two is walked by loops over its characters.  What they stop *)
(* at are the ends of its segments, so every round of config_lookup        *)
(* follows one segment, as LeadsTo does.  First, numbers.                  *)

\* The order of the natural numbers, without an operator as its parameter
LEMMA NatLess == IsWellFoundedOn({q \in Nat \X Nat : q[1] < q[2]}, Nat)
  BY NatLessThanWellFounded DEF OpToRel

\* A set of natural numbers that is not empty has a least element.
LEMMA LeastOf ==
  ASSUME NEW S \in SUBSET Nat, S # {}
  PROVE  \E m \in S : \A k \in S : m <= k
<1> DEFINE R == {q \in Nat \X Nat : q[1] < q[2]}
<1>1. IsWellFoundedOn(R, Nat)
  BY NatLess
<1>2. \A y, x \in S : <<y, x>> \in R <=> y < x
  OBVIOUS
<1> HIDE DEF R
<1>3. PICK m \in S : \A y \in S : ~ (<<y, m>> \in R)
  BY <1>1, WFMin
<1>4. \A y \in S : ~ (y < m)
  BY <1>2, <1>3
<1> QED
  BY <1>4

LEMMA SetInduction ==
  ASSUME NEW S \in SUBSET Nat, 0 \in S, \A n \in S : n + 1 \in S
  PROVE  S = Nat
<1> SUFFICES ASSUME Nat \ S # {} PROVE FALSE
  OBVIOUS
<1>1. PICK x \in Nat \ S : \A y \in Nat \ S : x <= y
  BY LeastOf
<1>2. x - 1 \in Nat /\ x - 1 < x /\ (x - 1) + 1 = x
  BY <1>1
<1>3. x - 1 \in S
  BY <1>1, <1>2
<1> QED
  BY <1>1, <1>2, <1>3

-----------------------------------------------------------------------------
\* Where the loops over the pointer into the path end

SkipsBy(s, i, set, j) ==
  /\ j \in i .. Len(s) + 1 /\ At(s, j) \notin set
  /\ \A k \in i .. j - 1 : At(s, k) \in set

LEMMA SkipsTo ==
  ASSUME NEW s \in Seq(Chars), NEW i \in 1 .. Len(s) + 1, NEW set, NEW j,
         SkipsBy(s, i, set, j)
  PROVE  SkipOver(s, i, set) = j
<1>1. \A l \in i .. Len(s) + 1 :
        At(s, l) \notin set /\ (\A k \in i .. l - 1 : At(s, k) \in set) => l = j
  <2> SUFFICES ASSUME NEW l \in i .. Len(s) + 1, At(s, l) \notin set,
                      \A k \in i .. l - 1 : At(s, k) \in set, l # j
               PROVE  FALSE
    OBVIOUS
  <2>1. l \in Int /\ j \in Int /\ i \in Int
    BY DEF SkipsBy
  <2>2. CASE l < j
    <3>1. l \in i .. j - 1
      BY <2>1, <2>2
    <3> QED
      BY <3>1 DEF SkipsBy
  <2>3. CASE j < l
    <3>1. j \in i .. l - 1
      BY <2>1, <2>3 DEF SkipsBy
    <3> QED
      BY <3>1 DEF SkipsBy
  <2> QED
    BY <2>1, <2>2, <2>3
<1> QED
  BY <1>1 DEF SkipOver, SkipsBy

LEMMA Skips ==
  ASSUME NEW s \in Seq(Chars), NEW i \in 1 .. Len(s) + 1, NEW set, "NUL" \notin set
  PROVE  SkipsBy(s, i, set, SkipOver(s, i, set))
<1> DEFINE S == {j \in i .. Len(s) + 1 : At(s, j) \notin set}
<1>0. Len(s) \in Nat
  BY LenProperties
<1> HIDE DEF S
<1>1. i \in Nat /\ i >= 1 /\ i <= Len(s) + 1
  BY <1>0
<1> USE DEF S
<1>2. Len(s) + 1 \in S /\ S \in SUBSET Nat
  <2>1. Len(s) + 1 \in i .. Len(s) + 1 /\ ~ (Len(s) + 1 <= Len(s))
    BY <1>0, <1>1
  <2>2. At(s, Len(s) + 1) = "NUL"
    BY <2>1 DEF At
  <2>3. i .. Len(s) + 1 \subseteq Nat
    BY <1>0, <1>1
  <2> QED
    BY <2>1, <2>2, <2>3
<1> HIDE DEF S
<1>3. PICK j \in S : \A k \in S : j <= k
  BY <1>2, LeastOf
<1>4. SkipsBy(s, i, set, j)
  <2>1. j \in i .. Len(s) + 1 /\ At(s, j) \notin set
    BY DEF S
  <2>2. ASSUME NEW k \in i .. j - 1 PROVE At(s, k) \in set
    <3>1. k \in Int /\ j \in Int /\ k >= i /\ k <= j - 1 /\ j <= Len(s) + 1
      BY <1>0, <1>1, <2>1
    <3>2. k \in i .. Len(s) + 1 /\ ~ (j <= k)
      BY <1>0, <1>1, <3>1
    <3> QED
      BY <1>3, <3>2 DEF S
  <2> QED
    BY <2>1, <2>2 DEF SkipsBy
<1> QED
  BY <1>4, SkipsTo

-----------------------------------------------------------------------------
\* Segments

LEMMA PathBasics ==
  ASSUME NEW s \in Seq(Chars)
  PROVE  /\ Len(s) \in Nat
         /\ \A i \in 1 .. Len(s) : At(s, i) = s[i] /\ s[i] \in Chars /\ s[i] # "NUL"
         /\ At(s, Len(s) + 1) = "NUL"
<1>1. Len(s) \in Nat /\ s \in [1 .. Len(s) -> Chars]
  BY LenProperties
<1>2. ~ (Len(s) + 1 <= Len(s)) /\ \A i \in 1 .. Len(s) : i <= Len(s)
  BY <1>1
<1> QED
  BY <1>1, <1>2, LookupAssumption DEF At, CharsAssumption

\* A segment begins wherever one may.
LEMMA SegmentAt ==
  ASSUME NEW s \in Seq(Chars), NEW b \in 1 .. Len(s), s[b] # ".",
         b = 1 \/ At(s, b - 1) = "."
  PROVE  \E e \in 1 .. Len(s) : <<b, e>> \in Segments(s)
<1> DEFINE rest == Chars \ {"."}
           j == SkipOver(s, b, rest)
<1>1. "NUL" \notin rest
  BY LookupAssumption DEF CharsAssumption
<1>2. Len(s) \in Nat /\ b \in Nat /\ b \in 1 .. Len(s) + 1
  OBVIOUS
<1>3. SkipsBy(s, b, rest, j)
  <2> HIDE DEF rest
  <2> QED
    BY <1>1, <1>2, Skips
<1> HIDE DEF j
<1>4. j # b /\ j \in b .. Len(s) + 1
  BY <1>3, PathBasics DEF SkipsBy
<1>5. j - 1 \in b .. Len(s) /\ j - 1 \in 1 .. Len(s) /\ (j - 1) + 1 = j
  BY <1>2, <1>4
<1>6. \A k \in b .. j - 1 : s[k] # "."
  <2> TAKE k \in b .. j - 1
  <2>1. k \in 1 .. Len(s)
    BY <1>2, <1>5
  <2>2. At(s, k) # "."
    BY <1>3 DEF SkipsBy
  <2> QED
    BY <2>1, <2>2, PathBasics
<1>7. j - 1 = Len(s) \/ At(s, j) = "."
  <2> SUFFICES ASSUME j - 1 # Len(s) PROVE At(s, j) = "."
    OBVIOUS
  <2>1. j \in 1 .. Len(s)
    BY <1>2, <1>4, <1>5
  <2> QED
    BY <1>3, <2>1, PathBasics DEF SkipsBy
<1>8. <<b, j - 1>> \in Segments(s)
  BY <1>2, <1>5, <1>6, <1>7 DEF Segments
<1> QED
  BY <1>5, <1>8

\* No two segments end at one place.
LEMMA OneSegmentEnds ==
  ASSUME NEW s \in Seq(Chars), NEW t \in Segments(s), NEW u \in Segments(s), t[2] = u[2]
  PROVE  t = u
<1>1. /\ t[1] \in 1 .. Len(s) /\ u[1] \in 1 .. Len(s) /\ t[2] \in 1 .. Len(s)
      /\ t = <<t[1], t[2]>> /\ u = <<u[1], u[2]>>
      /\ t[1] <= t[2] /\ u[1] <= u[2]
  BY DEF Segments
<1>2. ASSUME NEW v \in Segments(s), NEW w \in Segments(s), v[2] = w[2] PROVE ~ (v[1] < w[1])
  <2> SUFFICES ASSUME v[1] < w[1] PROVE FALSE
    OBVIOUS
  <2>1. /\ v[1] \in 1 .. Len(s) /\ w[1] \in 1 .. Len(s) /\ w[1] <= w[2] /\ w[2] \in 1 .. Len(s)
        /\ \A k \in v[1] .. v[2] : s[k] # "."
        /\ w[1] = 1 \/ At(s, w[1] - 1) = "."
    BY DEF Segments
  <2>2. w[1] - 1 \in v[1] .. v[2] /\ w[1] - 1 \in 1 .. Len(s) /\ w[1] # 1
    BY <1>2, <2>1
  <2> QED
    BY <2>1, <2>2, PathBasics
<1> QED
  BY <1>1, <1>2

\* What a segment looks like: a name, or an index
NameAt(s, t) == \A k \in t[1] .. t[2] : s[k] \in Letters \cup Digits
IndexAt(s, t) ==
  /\ t[1] + 2 <= t[2] /\ s[t[1]] = "[" /\ s[t[2]] = "]"
  /\ \A k \in t[1] + 1 .. t[2] - 1 : s[k] \in Digits

LEMMA SegmentText ==
  ASSUME NEW s \in Seq(Chars), NEW t \in Segments(s)
  PROVE  /\ t[1] \in 1 .. Len(s) /\ t[2] \in 1 .. Len(s) /\ t[1] <= t[2]
         /\ Len(s) \in Nat
         /\ Text(s, t) \in Seq(Chars) /\ Len(Text(s, t)) = t[2] - t[1] + 1
         /\ \A k \in 1 .. t[2] - t[1] + 1 : Text(s, t)[k] = s[t[1] + k - 1]
<1>1. /\ t[1] \in 1 .. Len(s) /\ t[2] \in 1 .. Len(s) /\ t[1] <= t[2]
      /\ Len(s) \in Nat
  BY DEF Segments
<1> QED
  BY <1>1, SubSeqProperties DEF Text

LEMMA SegmentLooks ==
  ASSUME NEW s \in Seq(Chars), WellFormed(s), NEW t \in Segments(s)
  PROVE  \/ NameAt(s, t) /\ s[t[1]] \in Letters
         \/ IndexAt(s, t)
<1> DEFINE b == t[1]
           e == t[2]
           text == Text(s, t)
<1>1. /\ b \in 1 .. Len(s) /\ e \in 1 .. Len(s) /\ b <= e /\ Len(s) \in Nat
      /\ text \in Seq(Chars) /\ Len(text) = e - b + 1
      /\ \A k \in 1 .. e - b + 1 : text[k] = s[b + k - 1]
  BY SegmentText
<1>2. ValidName(text) \/ IndexText(text)
  BY DEF WellFormed
<1> HIDE DEF text, b, e
<1>3. \A k \in b .. e : k - b + 1 \in 1 .. e - b + 1 /\ s[k] = text[k - b + 1]
  <2> TAKE k \in b .. e
  <2>1. k - b + 1 \in 1 .. e - b + 1 /\ b + (k - b + 1) - 1 = k
    BY <1>1
  <2> QED
    BY <1>1, <2>1
<1>4. CASE ValidName(text)
  <2>1. ASSUME NEW k \in b .. e PROVE s[k] \in Letters \cup Digits
    <3>1. k - b + 1 \in 1 .. e - b + 1 /\ s[k] = text[k - b + 1]
      BY <1>3
    <3>2. DOMAIN text = 1 .. e - b + 1
      BY <1>1
    <3> QED
      BY <1>4, <3>1, <3>2 DEF ValidName
  <2>2. b \in b .. e /\ b - b + 1 = 1
    BY <1>1
  <2>3. s[b] \in Letters
    BY <1>3, <1>4, <2>2 DEF ValidName
  <2> QED
    BY <2>1, <2>3 DEF NameAt, b, e
<1>5. CASE IndexText(text)
  <2>1. b + 2 <= e
    BY <1>1, <1>5 DEF IndexText
  <2>2. b \in b .. e /\ b - b + 1 = 1 /\ e \in b .. e
    BY <1>1
  <2>3. text # <<>> /\ Last(text) = text[e - b + 1]
    BY <1>1 DEF Last
  <2>4. s[b] = "[" /\ s[e] = "]"
    BY <1>3, <1>5, <2>2, <2>3 DEF IndexText
  <2>5. ASSUME NEW k \in b + 1 .. e - 1 PROVE s[k] \in Digits
    <3>1. k \in b .. e /\ k - b + 1 \in 2 .. (e - b + 1) - 1
      BY <1>1
    <3> QED
      BY <1>1, <1>3, <1>5, <3>1 DEF IndexText
  <2> QED
    BY <2>1, <2>4, <2>5 DEF IndexAt, b, e
<1> QED
  BY <1>2, <1>4, <1>5

\* Neither holds a character that ends a name.
LEMMA NoTokens ==
  ASSUME NEW s \in Seq(Chars), WellFormed(s), NEW t \in Segments(s), NEW k \in t[1] .. t[2]
  PROVE  s[k] \in Chars \ Tokens /\ ~ Ended(At(s, k))
<1>1. t[1] \in 1 .. Len(s) /\ t[2] \in 1 .. Len(s) /\ t[1] <= t[2] /\ Len(s) \in Nat
  BY SegmentText
<1>2. k \in 1 .. Len(s)
  BY <1>1
<1>3. s[k] \notin Tokens
  <2>1. (Letters \cup Digits) \cap Tokens = {} /\ "[" \notin Tokens /\ "]" \notin Tokens
    BY LookupAssumption DEF CharsAssumption, Tokens
  <2>2. CASE NameAt(s, t)
    BY <2>1, <2>2 DEF NameAt
  <2>3. CASE IndexAt(s, t)
    <3>1. k = t[1] \/ k = t[2] \/ k \in t[1] + 1 .. t[2] - 1
      BY <1>1
    <3> QED
      BY <2>1, <2>3, <3>1 DEF IndexAt
  <2> QED
    BY <2>2, <2>3, SegmentLooks
<1> QED
  BY <1>2, <1>3, PathBasics DEF Ended

-----------------------------------------------------------------------------
\* What a name finds

LEMMA SameNameIs ==
  ASSUME NEW s \in Seq(Chars), WellFormed(s), NEW t \in Segments(s),
         NEW name \in Seq(Chars \ Tokens)
  PROVE  SameName(s, t[1], name) <=> name = Text(s, t)
<1> DEFINE b == t[1]
           e == t[2]
           text == Text(s, t)
<1>1. /\ b \in 1 .. Len(s) /\ e \in 1 .. Len(s) /\ b <= e /\ Len(s) \in Nat
      /\ text \in Seq(Chars) /\ Len(text) = e - b + 1
      /\ \A k \in 1 .. e - b + 1 : text[k] = s[b + k - 1]
  BY SegmentText
<1>2. \A k \in b .. e : ~ Ended(At(s, k))
  BY NoTokens
<1>3. At(s, e + 1) \in {"NUL", "."}
  BY PathBasics DEF Segments
<1>4. Len(name) \in Nat /\ \A k \in 1 .. Len(name) : name[k] \in Chars \ Tokens /\ name[k] # "NUL"
  BY LenProperties, ElementOfSeq, LookupAssumption DEF CharsAssumption
<1> HIDE DEF b, e, text
<1>5. ASSUME SameName(s, b, name) PROVE name = text
  <2>1. /\ \A k \in 1 .. Len(name) : At(s, b + k - 1) = name[k]
        /\ Ended(At(s, b + Len(name)))
    BY <1>5 DEF SameName
  <2>2. b + Len(name) > e
    <3> SUFFICES ASSUME b + Len(name) <= e PROVE FALSE
      BY <1>1, <1>4
    <3>1. b + Len(name) \in b .. e
      BY <1>1, <1>4
    <3> QED
      BY <1>2, <2>1, <3>1
  <2>3. b + Len(name) <= e + 1
    <3> SUFFICES ASSUME b + Len(name) > e + 1 PROVE FALSE
      BY <1>1, <1>4
    <3>1. e - b + 2 \in 1 .. Len(name) /\ b + (e - b + 2) - 1 = e + 1
      BY <1>1, <1>4
    <3>2. At(s, e + 1) = name[e - b + 2]
      BY <2>1, <3>1
    <3> QED
      BY <1>3, <1>4, <3>1, <3>2 DEF Tokens
  <2>4. Len(name) = e - b + 1
    BY <1>1, <1>4, <2>2, <2>3
  <2>5. ASSUME NEW k \in 1 .. Len(name) PROVE name[k] = text[k]
    <3>1. b + k - 1 \in 1 .. Len(s) /\ k \in 1 .. e - b + 1
      BY <1>1, <2>4
    <3> QED
      BY <1>1, <2>1, <3>1, PathBasics
  <2> QED
    BY <1>1, <2>4, <2>5, SeqEqual
<1>6. ASSUME name = text PROVE SameName(s, b, name)
  <2>1. Len(name) = e - b + 1 /\ b + Len(name) = e + 1
    BY <1>1, <1>6
  <2>2. ASSUME NEW k \in 1 .. Len(name) PROVE At(s, b + k - 1) = name[k]
    <3>1. b + k - 1 \in 1 .. Len(s) /\ k \in 1 .. e - b + 1
      BY <1>1, <2>1
    <3> QED
      BY <1>1, <1>6, <3>1, PathBasics
  <2>3. Ended(At(s, b + Len(name)))
    BY <1>3, <2>1 DEF Ended, Tokens
  <2> QED
    BY <2>2, <2>3 DEF SameName
<1> QED
  BY <1>5, <1>6 DEF b, text

\* What a step leads to: the setting found, or none
Found(r) == IF r = Null THEN {} ELSE {r}

LEMMA MemberFinds ==
  ASSUME NEW s \in Seq(Chars), WellFormed(s), NEW t \in Segments(s), s[t[1]] # "[",
         NEW n \in Nodes
  PROVE  Named(n, s, t) = Found(Member(n, s, t[1])) /\ Member(n, s, t[1]) \in Nodes \cup {Null}
<1> DEFINE same == {k \in DOMAIN Elems[n] : SameName(s, t[1], Name[Elems[n][k]])}
           least == CHOOSE k \in same : \A j \in same : k <= j
<1>1. /\ Null \notin Nodes /\ Elems[n] \in Seq(Nodes)
      /\ Name \in [Nodes -> Seq(Chars \ Tokens)]
      /\ Type[n] = "GROUP" =>
           \A j, k \in DOMAIN Elems[n] : Name[Elems[n][j]] = Name[Elems[n][k]] => j = k
  BY LookupAssumption DEF ConfigAssumption
<1>2. \A k \in DOMAIN Elems[n] : Elems[n][k] \in Nodes /\ k \in Nat
  BY <1>1, LenProperties, ElementOfSeq
<1>3. \A k \in DOMAIN Elems[n] :
        SameName(s, t[1], Name[Elems[n][k]]) <=> Name[Elems[n][k]] = Text(s, t)
  BY <1>1, <1>2, SameNameIs
<1>4. Member(n, s, t[1])
        = IF Type[n] = "GROUP" /\ same # {} THEN Elems[n][least] ELSE Null
  BY DEF Member
<1>5. Named(n, s, t) = {Elems[n][k] : k \in {j \in same : Type[n] = "GROUP"}}
  <2>1. Named(n, s, t) = {Elems[n][k] : k \in {j \in DOMAIN Elems[n] :
                            Type[n] = "GROUP" /\ Name[Elems[n][j]] = Text(s, t)}}
    BY DEF Named
  <2>2. {j \in DOMAIN Elems[n] : Type[n] = "GROUP" /\ Name[Elems[n][j]] = Text(s, t)}
          = {j \in same : Type[n] = "GROUP"}
    BY <1>3
  <2> QED
    BY <2>1, <2>2
<1>6. CASE Type[n] = "GROUP" /\ same # {}
  <2>1. PICK k \in same : TRUE
    BY <1>6
  <2>2. \A j \in same : j = k
    BY <1>1, <1>3, <1>6, <2>1
  <2>3. k \in DOMAIN Elems[n] /\ same = {k} /\ k <= k
    BY <1>2, <2>1, <2>2
  <2> HIDE DEF same
  <2>4. least = k
    BY <2>3
  <2> HIDE DEF least
  <2>5. Member(n, s, t[1]) = Elems[n][k]
    BY <1>4, <1>6, <2>4
  <2>6. Named(n, s, t) = {Elems[n][k]}
    BY <1>5, <1>6, <2>3
  <2> QED
    BY <1>1, <1>2, <2>3, <2>5, <2>6 DEF Found
<1>7. CASE ~ (Type[n] = "GROUP" /\ same # {})
  <2> HIDE DEF same, least
  <2>1. {j \in same : Type[n] = "GROUP"} = {}
    BY <1>7
  <2>2. Member(n, s, t[1]) = Null
    BY <1>4, <1>7
  <2> QED
    BY <1>5, <2>1, <2>2 DEF Found
<1> QED
  BY <1>6, <1>7

-----------------------------------------------------------------------------
\* What an index finds

Decimal(f, s, i, d) ==
  \A k \in 0 .. d : f[k] = IF k = 0 THEN 0 ELSE 10 * f[k - 1] + DigitValue[s[i + k - 1]]

LEMMA NumberIsNatural ==
  ASSUME NEW s \in Seq(Chars), NEW i \in 1 .. Len(s) + 1
  PROVE  Number(s, i) \in Nat
<1> DEFINE d == SkipOver(s, i, Digits) - i
           Body(f) == [k \in 0 .. d |->
                         IF k = 0 THEN 0 ELSE 10 * f[k - 1] + DigitValue[s[i + k - 1]]]
           number == CHOOSE f : f = Body(f)
<1>1. "NUL" \notin Digits
  BY LookupAssumption DEF CharsAssumption
<1>2. Len(s) \in Nat
  BY LenProperties
<1>3. i \in Nat /\ i >= 1
  BY <1>2
<1>4. SkipsBy(s, i, Digits, SkipOver(s, i, Digits))
  BY <1>1, Skips
<1>5. d \in Nat
  <2>1. SkipOver(s, i, Digits) \in i .. Len(s) + 1
    BY <1>4 DEF SkipsBy
  <2> HIDE DEF Body, number
  <2> QED
    BY <1>2, <1>3, <2>1
<1>6. \A k \in 1 .. d : DigitValue[s[i + k - 1]] \in Nat
  <2> TAKE k \in 1 .. d
  <2>0. SkipOver(s, i, Digits) \in i .. Len(s) + 1
    BY <1>4 DEF SkipsBy
  <2>1. i + k - 1 \in i .. SkipOver(s, i, Digits) - 1 /\ i + k - 1 \in 1 .. Len(s)
    BY <1>2, <1>3, <2>0
  <2>2. s[i + k - 1] \in Digits
    BY <1>4, <2>1, PathBasics DEF SkipsBy
  <2> QED
    BY <2>2, LookupAssumption DEF CharsAssumption
<1> HIDE DEF d
<1> DEFINE T == {m \in Nat : \E f \in [0 .. m -> Nat] : m <= d => Decimal(f, s, i, m)}
<1>7. 0 \in T
  <2>1. [k \in 0 .. 0 |-> 0] \in [0 .. 0 -> Nat]
    OBVIOUS
  <2>2. Decimal([k \in 0 .. 0 |-> 0], s, i, 0)
    BY DEF Decimal
  <2> QED
    BY <2>1, <2>2
<1>8. ASSUME NEW m \in T PROVE m + 1 \in T
  <2>1. PICK f \in [0 .. m -> Nat] : m <= d => Decimal(f, s, i, m)
    OBVIOUS
  <2>2. m \in Nat
    OBVIOUS
  <2> HIDE DEF T
  <2>3. CASE m + 1 <= d
    <3> DEFINE g == [k \in 0 .. m + 1 |->
                       IF k = m + 1 THEN 10 * f[m] + DigitValue[s[i + m]] ELSE f[k]]
    <3>1. m + 1 \in 1 .. d /\ m <= d /\ m \in 0 .. m /\ i + (m + 1) - 1 = i + m
      BY <1>3, <1>5, <2>2, <2>3
    <3>2. DigitValue[s[i + m]] \in Nat /\ f[m] \in Nat
      BY <1>6, <3>1
    <3>3. g \in [0 .. m + 1 -> Nat]
      <4>1. 10 * f[m] + DigitValue[s[i + m]] \in Nat
        BY <3>2
      <4>2. \A k \in 0 .. m + 1 : k # m + 1 => k \in 0 .. m
        BY <2>2
      <4> QED
        BY <4>1, <4>2
    <3>4. /\ g[m + 1] = 10 * f[m] + DigitValue[s[i + m]]
          /\ \A k \in 0 .. m : g[k] = f[k]
      BY <2>2
    <3> HIDE DEF g
    <3>5. ASSUME NEW k \in 0 .. m + 1
          PROVE  g[k] = IF k = 0 THEN 0 ELSE 10 * g[k - 1] + DigitValue[s[i + k - 1]]
      <4>1. CASE k = m + 1
        <5>1. k # 0 /\ k - 1 = m /\ i + k - 1 = i + m
          BY <1>3, <2>2, <4>1
        <5> QED
          BY <3>1, <3>4, <4>1, <5>1
      <4>2. CASE k # m + 1
        <5>1. k \in 0 .. m /\ (k # 0 => k - 1 \in 0 .. m)
          BY <2>2, <4>2
        <5>2. f[k] = IF k = 0 THEN 0 ELSE 10 * f[k - 1] + DigitValue[s[i + k - 1]]
          BY <2>1, <3>1, <5>1 DEF Decimal
        <5> QED
          BY <3>4, <5>1, <5>2
      <4> QED
        BY <4>1, <4>2
    <3>6. Decimal(g, s, i, m + 1)
      BY <3>5 DEF Decimal
    <3>7. \E h \in [0 .. m + 1 -> Nat] : m + 1 <= d => Decimal(h, s, i, m + 1)
      BY <3>3, <3>6
    <3>8. m + 1 \in Nat
      BY <2>2
    <3> QED
      BY <3>7, <3>8 DEF T
  <2>4. CASE ~ (m + 1 <= d)
    <3> DEFINE g == [k \in 0 .. m + 1 |-> 0]
    <3>1. g \in [0 .. m + 1 -> Nat] /\ m + 1 \in Nat
      BY <2>2
    <3> HIDE DEF g
    <3>2. \E h \in [0 .. m + 1 -> Nat] : m + 1 <= d => Decimal(h, s, i, m + 1)
      BY <2>4, <3>1
    <3> QED
      BY <3>1, <3>2 DEF T
  <2> QED
    BY <2>3, <2>4
<1>9. T \in SUBSET Nat
  OBVIOUS
<1>10. T = Nat
  <2> HIDE DEF T
  <2> QED
    BY <1>7, <1>8, <1>9, SetInduction
<1>11. d \in T
  <2> HIDE DEF T
  <2> QED
    BY <1>5, <1>10
<1>12. PICK f \in [0 .. d -> Nat] : Decimal(f, s, i, d)
  <2>1. d <= d
    BY <1>5
  <2> QED
    BY <1>11, <2>1
<1>13. f = Body(f)
  <2>1. f = [k \in 0 .. d |-> f[k]]
    OBVIOUS
  <2> QED
    BY <1>12, <2>1 DEF Decimal
<1>14. number = Body(number)
  <2> HIDE DEF Body
  <2> QED
    BY <1>13
<1>15. Number(s, i) = number[d]
  BY DEF Number, d
<1> HIDE DEF number
<1>16. \A k \in 0 .. d : number[k] = IF k = 0 THEN 0 ELSE 10 * number[k - 1] + DigitValue[s[i + k - 1]]
  BY <1>14
<1> DEFINE U == {m \in Nat : m <= d => number[m] \in Nat}
<1>17. 0 \in U
  BY <1>5, <1>16
<1>18. ASSUME NEW m \in U PROVE m + 1 \in U
  <2>1. m \in Nat /\ (m <= d => number[m] \in Nat)
    OBVIOUS
  <2> SUFFICES ASSUME m + 1 <= d PROVE number[m + 1] \in Nat
    BY <2>1
  <2>2. m + 1 \in 0 .. d /\ m + 1 \in 1 .. d /\ m <= d /\ (m + 1) - 1 = m /\ m + 1 # 0
    BY <1>5, <2>1
  <2>3. number[m + 1] = 10 * number[m] + DigitValue[s[i + (m + 1) - 1]]
    BY <1>16, <2>2
  <2> QED
    BY <1>6, <2>1, <2>2, <2>3
<1>19. U \in SUBSET Nat
  OBVIOUS
<1>20. U = Nat
  <2> HIDE DEF U
  <2> QED
    BY <1>17, <1>18, <1>19, SetInduction
<1>21. d <= d
  BY <1>5
<1> QED
  BY <1>5, <1>15, <1>20, <1>21

LEMMA ElemFinds ==
  ASSUME NEW s \in Seq(Chars), NEW t \in Segments(s), s[t[1]] = "[", NEW n \in Nodes
  PROVE  /\ Named(n, s, t) = Found(Elem(n, Number(s, t[1] + 1)))
         /\ Elem(n, Number(s, t[1] + 1)) \in Nodes \cup {Null}
<1> DEFINE m == Number(s, t[1] + 1)
<1>1. t[1] + 1 \in 1 .. Len(s) + 1
  BY SegmentText
<1>2. m \in Nat
  BY <1>1, NumberIsNatural
<1>3. /\ Null \notin Nodes /\ Elems[n] \in Seq(Nodes)
      /\ Type[n] \notin Aggregates => Elems[n] = <<>>
  BY LookupAssumption DEF ConfigAssumption
<1>4. Len(Elems[n]) \in Nat /\ DOMAIN Elems[n] = 1 .. Len(Elems[n])
  BY <1>3, LenProperties
<1>5. Named(n, s, t) = {Elems[n][k] : k \in {j \in DOMAIN Elems[n] : m = j - 1}}
  BY DEF Named
<1> HIDE DEF m
<1>6. CASE m < Len(Elems[n])
  <2>1. m + 1 \in 1 .. Len(Elems[n]) /\ {j \in DOMAIN Elems[n] : m = j - 1} = {m + 1}
    BY <1>2, <1>4, <1>6
  <2>2. Type[n] \in Aggregates
    <3>1. Len(<<>>) = 0
      BY EmptySeq
    <3> QED
      BY <1>2, <1>3, <1>6, <3>1
  <2>3. Elem(n, m) = Elems[n][m + 1] /\ Elems[n][m + 1] \in Nodes
    BY <1>3, <1>6, <2>1, <2>2, ElementOfSeq DEF Elem
  <2>4. Named(n, s, t) = {Elems[n][m + 1]}
    BY <1>5, <2>1
  <2> QED
    BY <1>3, <2>3, <2>4 DEF Found, m
<1>7. CASE ~ (m < Len(Elems[n]))
  <2>1. {j \in DOMAIN Elems[n] : m = j - 1} = {}
    BY <1>2, <1>4, <1>7
  <2>2. Elem(n, m) = Null
    BY <1>7 DEF Elem
  <2> QED
    BY <1>5, <2>1, <2>2 DEF Found, m
<1> QED
  BY <1>6, <1>7

-----------------------------------------------------------------------------
\* What a path leads to, place by place

\* Where the segment before one ended
Before(b) == IF b = 1 THEN 0 ELSE b - 2

Row(f, s, i) ==
  IF i = 0 THEN {Root}
  ELSE UNION {UNION {Named(n, s, t) : n \in f[Before(t[1])]} :
                t \in {u \in Segments(s) : u[2] = i}}

RowsTo(f, s, m) == \A i \in 0 .. m : f[i] = Row(f, s, i)

LEMMA RowLooksDown ==
  ASSUME NEW s \in Seq(Chars), NEW i \in Nat, NEW f, NEW g, \A k \in 0 .. i - 1 : f[k] = g[k]
  PROVE  Row(f, s, i) = Row(g, s, i)
<1>1. ASSUME NEW t \in {u \in Segments(s) : u[2] = i} PROVE f[Before(t[1])] = g[Before(t[1])]
  <2>1. t \in Segments(s) /\ t[2] = i
    BY <1>1
  <2>2. t[1] \in 1 .. Len(s) /\ t[1] <= i /\ Len(s) \in Nat
    BY <2>1, SegmentText
  <2>3. Before(t[1]) \in 0 .. i - 1
    BY <2>2 DEF Before
  <2> QED
    BY <2>3
<1> DEFINE ends == {u \in Segments(s) : u[2] = i}
           Below(h, t) == UNION {Named(n, s, t) : n \in h[Before(t[1])]}
<1>2. \A t \in ends : Below(f, t) = Below(g, t)
  BY <1>1
<1>3. /\ Row(f, s, i) = IF i = 0 THEN {Root} ELSE UNION {Below(f, t) : t \in ends}
      /\ Row(g, s, i) = IF i = 0 THEN {Root} ELSE UNION {Below(g, t) : t \in ends}
  BY DEF Row
<1> HIDE DEF ends, Below
<1> QED
  BY <1>2, <1>3

LEMMA RowsExist ==
  ASSUME NEW s \in Seq(Chars), NEW m \in Nat
  PROVE  \E f : RowsTo(f, s, m)
<1> DEFINE T == {k \in Nat : \E f : RowsTo(f, s, k)}
<1>1. 0 \in T
  <2> DEFINE f == [d \in {0} |-> {Root}]
  <2>1. f[0] = Row(f, s, 0)
    BY DEF Row
  <2>2. RowsTo(f, s, 0)
    BY <2>1 DEF RowsTo
  <2> QED
    BY <2>2
<1>2. ASSUME NEW k \in T PROVE k + 1 \in T
  <2>1. k \in Nat /\ k + 1 \in Nat
    OBVIOUS
  <2>2. PICK f : RowsTo(f, s, k)
    OBVIOUS
  <2> HIDE DEF T
  <2> DEFINE h == [d \in 0 .. k + 1 |-> IF d = k + 1 THEN Row(f, s, k + 1) ELSE f[d]]
  <2>3. \A d \in 0 .. k : h[d] = f[d]
    BY <2>1
  <2>4. h[k + 1] = Row(f, s, k + 1)
    BY <2>1
  <2> HIDE DEF h
  <2>5. ASSUME NEW d \in 0 .. k + 1 PROVE h[d] = Row(h, s, d)
    <3>1. d \in Nat /\ \A l \in 0 .. d - 1 : l \in 0 .. k
      BY <2>1
    <3>2. Row(h, s, d) = Row(f, s, d)
      BY <2>3, <3>1, RowLooksDown
    <3>3. CASE d = k + 1
      BY <2>4, <3>2, <3>3
    <3>4. CASE d # k + 1
      <4>1. d \in 0 .. k
        BY <2>1, <3>4
      <4> QED
        BY <2>2, <2>3, <3>2, <4>1 DEF RowsTo
    <3> QED
      BY <3>3, <3>4
  <2>6. RowsTo(h, s, k + 1)
    BY <2>5 DEF RowsTo
  <2> QED
    BY <2>1, <2>6 DEF T
<1>3. T \in SUBSET Nat
  OBVIOUS
<1> HIDE DEF T
<1>4. m \in T
  BY <1>1, <1>2, <1>3, SetInduction
<1> QED
  BY <1>4 DEF T

LEMMA LeadsToRows ==
  ASSUME NEW s \in Seq(Chars)
  PROVE  RowsTo(LeadsTo(s), s, Len(s))
<1> DEFINE Body(f) == [i \in 0 .. Len(s) |->
             IF i = 0 THEN {Root}
             ELSE UNION {UNION {Named(n, s, t) : n \in f[IF t[1] = 1 THEN 0 ELSE t[1] - 2]} :
                           t \in {u \in Segments(s) : u[2] = i}}]
           e == CHOOSE f : f = Body(f)
<1>1. \A f : Body(f) = [i \in 0 .. Len(s) |-> Row(f, s, i)]
  BY DEF Row, Before
<1>2. Len(s) \in Nat
  BY LenProperties
<1>3. PICK f : RowsTo(f, s, Len(s))
  BY <1>2, RowsExist
<1> DEFINE g == [i \in 0 .. Len(s) |-> f[i]]
<1>4. g = Body(g)
  <2>1. ASSUME NEW i \in 0 .. Len(s) PROVE g[i] = Row(g, s, i)
    <3>1. i \in Nat /\ g[i] = f[i] /\ \A k \in 0 .. i - 1 : g[k] = f[k]
      BY <1>2
    <3> HIDE DEF g
    <3>2. Row(g, s, i) = Row(f, s, i)
      BY <3>1, RowLooksDown
    <3> QED
      BY <1>3, <3>1, <3>2 DEF RowsTo
  <2>2. g = [i \in 0 .. Len(s) |-> Row(g, s, i)]
    <3>1. g = [i \in 0 .. Len(s) |-> g[i]]
      OBVIOUS
    <3> HIDE DEF g
    <3> QED
      BY <2>1, <3>1
  <2> HIDE DEF Body, g
  <2> QED
    BY <1>1, <2>2
<1>5. e = Body(e)
  <2> HIDE DEF Body, g
  <2> QED
    BY <1>4
<1>6. LeadsTo(s) = e
  BY DEF LeadsTo
<1> HIDE DEF e
<1>7. e = [i \in 0 .. Len(s) |-> Row(e, s, i)]
  <2> HIDE DEF Body
  <2> QED
    BY <1>1, <1>5
<1>8. \A i \in 0 .. Len(s) : e[i] = Row(e, s, i)
  BY <1>7
<1> QED
  BY <1>6, <1>8 DEF RowsTo

\* Where a segment ends, the path leads to what the segment names below the settings it
\* led to before.
LEMMA SegmentLeadsTo ==
  ASSUME NEW s \in Seq(Chars), NEW t \in Segments(s), NEW n,
         LeadsTo(s)[Before(t[1])] = {n}
  PROVE  LeadsTo(s)[t[2]] = Named(n, s, t)
<1>1. t[2] \in 0 .. Len(s) /\ t[2] # 0
  BY SegmentText
<1>2. {u \in Segments(s) : u[2] = t[2]} = {t}
  BY OneSegmentEnds
<1>3. LeadsTo(s)[t[2]] = Row(LeadsTo(s), s, t[2])
  BY <1>1, LeadsToRows DEF RowsTo
<1>4. Row(LeadsTo(s), s, t[2])
        = UNION {UNION {Named(m, s, u) : m \in LeadsTo(s)[Before(u[1])]} : u \in {t}}
  BY <1>1, <1>2 DEF Row
<1>5. UNION {Named(m, s, t) : m \in {n}} = Named(n, s, t)
  OBVIOUS
<1> QED
  BY <1>3, <1>4, <1>5

\* What leads nowhere leads nowhere to the end.
LEMMA NowhereToTheEnd ==
  ASSUME NEW s \in Seq(Chars), NEW t \in Segments(s), LeadsTo(s)[t[2]] = {}
  PROVE  LeadsTo(s)[Len(s)] = {}
<1> DEFINE e == t[2]
           T == {m \in Nat : \A i \in e .. e + m : i <= Len(s) => LeadsTo(s)[i] = {}}
<1>1. e \in 1 .. Len(s) /\ Len(s) \in Nat /\ t[1] \in 1 .. Len(s) /\ t[1] <= e
  BY SegmentText
<1>2. e = Len(s) \/ At(s, e + 1) = "."
  BY DEF Segments
<1>3. s[e] # "."
  BY <1>1 DEF Segments
<1> HIDE DEF e
<1>4. 0 \in T
  <2>1. \A i \in e .. e + 0 : i = e
    BY <1>1
  <2> QED
    BY <2>1 DEF e
<1>5. ASSUME NEW m \in T PROVE m + 1 \in T
  <2>1. m \in Nat /\ \A i \in e .. e + m : i <= Len(s) => LeadsTo(s)[i] = {}
    OBVIOUS
  <2> HIDE DEF T
  <2>2. ASSUME e + (m + 1) <= Len(s) PROVE LeadsTo(s)[e + (m + 1)] = {}
    <3> DEFINE i == e + (m + 1)
    <3>1. i \in 0 .. Len(s) /\ i # 0 /\ e < i
      BY <1>1, <2>1, <2>2
    <3> HIDE DEF i
    <3>2. ASSUME NEW u \in Segments(s), u[2] = i PROVE LeadsTo(s)[Before(u[1])] = {}
      <4>1. /\ u[1] \in 1 .. Len(s) /\ u[1] <= i
            /\ \A k \in u[1] .. i : s[k] # "."
            /\ u[1] = 1 \/ At(s, u[1] - 1) = "."
        BY <3>2 DEF Segments
      <4>2. s[e + 1] = "." /\ e + 1 \in 1 .. Len(s)
        BY <1>1, <1>2, <3>1, PathBasics
      <4>3. e + 1 < u[1]
        <5> SUFFICES ASSUME u[1] <= e + 1 PROVE FALSE
          BY <1>1, <4>1
        <5>1. e + 1 \in u[1] .. i
          BY <1>1, <3>1, <4>1
        <5> QED
          BY <4>1, <4>2, <5>1
      <4>4. Before(u[1]) \in e .. e + m /\ Before(u[1]) <= Len(s)
        BY <1>1, <2>1, <3>1, <4>1, <4>3 DEF Before, i
      <4> QED
        BY <2>1, <4>4
    <3>3. Row(LeadsTo(s), s, i) = {}
      <4>1. Row(LeadsTo(s), s, i)
              = UNION {UNION {Named(n, s, u) : n \in LeadsTo(s)[Before(u[1])]} :
                         u \in {v \in Segments(s) : v[2] = i}}
        BY <3>1 DEF Row
      <4> QED
        BY <3>2, <4>1
    <3> QED
      BY <3>1, <3>3, LeadsToRows DEF RowsTo, i
  <2>3. \A i \in e .. e + (m + 1) : i \in e .. e + m \/ i = e + (m + 1)
    BY <1>1, <2>1
  <2> QED
    BY <2>1, <2>2, <2>3 DEF T
<1>6. T \in SUBSET Nat
  OBVIOUS
<1>7. Len(s) - e \in T
  <2>1. Len(s) - e \in Nat
    BY <1>1
  <2> HIDE DEF T
  <2> QED
    BY <1>4, <1>5, <1>6, <2>1, SetInduction
<1>8. Len(s) \in e .. e + (Len(s) - e)
  BY <1>1
<1> QED
  BY <1>7, <1>8

-----------------------------------------------------------------------------
(* config_lookup finds what a path names.                                  *)

\* What is known of a well-formed path: between two steps of the loop, what it has led
\* to is the setting reached, or nothing, and then it leads nowhere to its end.
Trail ==
  LET leads == LeadsTo(path)
      end == Len(path)
  IN  /\ pc \in {"skip", "find", "walk", "return", "typed", "done"}
      /\ pc = "skip" =>
           \/ p = 1 /\ setting = Root
           \/ p = end + 1 /\ setting \in Nodes /\ leads[end] = {setting}
           \/ /\ p \in 1 .. end /\ path[p] = "."
              /\ setting \in Nodes /\ leads[p - 1] = {setting}
      /\ pc = "find" =>
           /\ \E t \in Segments(path) : t[1] = p
           /\ setting \in Nodes /\ leads[Before(p)] = {setting}
      /\ pc = "walk" =>
           /\ found \in Nodes
           /\ \E t \in Segments(path) : p \in t[1] .. t[2] /\ leads[t[2]] = {found}
      /\ pc = "return" =>
           \/ p = end + 1 /\ setting \in Nodes /\ leads[end] = {setting}
           \/ p \in 1 .. end /\ leads[end] = {}
      /\ pc = "typed" => wanted # Null /\ leads[end] = Found(result)
      /\ pc = "done" => {n \in leads[end] : Suits(n)} = Found(result)

TrailInv ==
  /\ path \in Seq(Chars) /\ wanted \in {Null} \cup DOMAIN Gotten
  /\ WellFormed(path) => Trail

LEMMA TrailBegins == LookupInit => TrailInv
<1> SUFFICES ASSUME LookupInit PROVE TrailInv
  OBVIOUS
<1>1. PICK n \in 0 .. MaxPath : path \in [1 .. n -> Chars]
  BY DEF LookupInit
<1>2. n \in Nat
  BY LookupAssumption DEF CharsAssumption
<1>3. path \in Seq(Chars)
  BY <1>1, <1>2, IsASeq
<1> QED
  BY <1>3 DEF LookupInit, TrailInv, Trail

\* Where a segment may begin, one does, and no token is skipped.
LEMMA BeginsHere ==
  ASSUME NEW s \in Seq(Chars), WellFormed(s), NEW i \in 1 .. Len(s), s[i] # ".",
         i = 1 \/ At(s, i - 1) = "."
  PROVE  /\ \E t \in Segments(s) : t[1] = i
         /\ At(s, i) \notin Tokens /\ At(s, i) # "NUL"
<1>1. PICK e \in 1 .. Len(s) : <<i, e>> \in Segments(s)
  BY SegmentAt
<1>2. i <= e
  BY <1>1 DEF Segments
<1>3. i \in i .. e
  BY <1>2
<1>4. ~ Ended(At(s, i))
  BY <1>1, <1>3, NoTokens
<1> QED
  BY <1>1, <1>4 DEF Ended

LEMMA TrailSkips ==
  ASSUME TrailInv, WellFormed(path), SkipTokens
  PROVE  Trail'
<1> DEFINE end == Len(path)
           leads == LeadsTo(path)
<1>1. /\ path \in Seq(Chars) /\ end \in Nat /\ path' = path
      /\ p' = SkipOver(path, p, Tokens) /\ setting' = setting
      /\ pc' = IF At(path, p') = "NUL" THEN "return" ELSE "find"
      /\ pc = "skip" /\ Trail
  BY LenProperties DEF TrailInv, SkipTokens, asked
<1>2. At(path, end + 1) = "NUL" /\ "NUL" \notin Tokens
  BY <1>1, PathBasics DEF Tokens
<1>3. setting \in Nodes
  BY <1>1, LookupAssumption DEF Trail, ConfigAssumption
<1>4. SUFFICES \/ p' = end + 1 /\ leads[end] = {setting}
               \/ /\ At(path, p') # "NUL" /\ \E t \in Segments(path) : t[1] = p'
                  /\ leads[Before(p')] = {setting}
  <2>1. CASE p' = end + 1 /\ leads[end] = {setting}
    <3>1. pc' = "return"
      BY <1>1, <1>2, <2>1
    <3> QED
      BY <1>1, <1>3, <2>1, <3>1 DEF Trail
  <2>2. CASE /\ At(path, p') # "NUL" /\ \E t \in Segments(path) : t[1] = p'
             /\ leads[Before(p')] = {setting}
    <3>1. pc' = "find"
      BY <1>1, <2>2
    <3> QED
      BY <1>1, <1>3, <2>2, <3>1 DEF Trail
  <2> QED
    BY <1>4, <2>1, <2>2
<1>5. CASE p = end + 1 /\ leads[end] = {setting}
  <2>1. SkipsBy(path, end + 1, Tokens, end + 1)
    BY <1>1, <1>2 DEF SkipsBy
  <2>2. p' = end + 1
    BY <1>1, <1>5, <2>1, SkipsTo
  <2> QED
    BY <1>5, <2>2
<1>6. CASE p = 1 /\ setting = Root
  <2>1. leads[0] = {setting}
    <3>1. 0 \in 0 .. end
      BY <1>1
    <3>2. leads[0] = Row(leads, path, 0)
      BY <1>1, <3>1, LeadsToRows DEF RowsTo
    <3> QED
      BY <1>6, <3>2 DEF Row
  <2>2. CASE end = 0
    BY <1>5, <1>6, <2>1, <2>2
  <2>3. CASE end # 0
    <3>1. 1 \in 1 .. end /\ path[1] # "."
      BY <1>1, <2>3 DEF WellFormed
    <3>2. /\ \E t \in Segments(path) : t[1] = 1
          /\ At(path, 1) \notin Tokens /\ At(path, 1) # "NUL"
      BY <1>1, <3>1, BeginsHere
    <3>3. SkipsBy(path, 1, Tokens, 1)
      BY <1>1, <3>2 DEF SkipsBy
    <3>4. p' = 1
      BY <1>1, <1>6, <3>1, <3>3, SkipsTo
    <3> QED
      BY <2>1, <3>2, <3>4 DEF Before
  <2> QED
    BY <2>2, <2>3
<1>7. CASE p \in 1 .. end /\ path[p] = "." /\ leads[p - 1] = {setting}
  <2>1. p \notin {1, end} /\ At(path, p + 1) # "."
    BY <1>7 DEF WellFormed
  <2>2. p + 1 \in 1 .. end /\ p + 1 # 1 /\ (p + 1) - 1 = p /\ (p + 1) - 2 = p - 1
    BY <1>1, <1>7, <2>1
  <2>3. At(path, p) = "." /\ path[p + 1] # "."
    BY <1>1, <1>7, <2>1, <2>2, PathBasics
  <2>4. /\ \E t \in Segments(path) : t[1] = p + 1
        /\ At(path, p + 1) \notin Tokens /\ At(path, p + 1) # "NUL"
    BY <1>1, <2>2, <2>3, BeginsHere
  <2>5. SkipsBy(path, p, Tokens, p + 1)
    <3>1. p + 1 \in p .. end + 1 /\ \A k \in p .. (p + 1) - 1 : k = p
      BY <1>1, <1>7, <2>2
    <3> QED
      BY <2>3, <2>4, <3>1 DEF SkipsBy, Tokens
  <2>6. p' = p + 1
    BY <1>1, <1>7, <2>5, SkipsTo
  <2> QED
    BY <1>7, <2>2, <2>4, <2>6 DEF Before
<1> QED
  BY <1>1, <1>5, <1>6, <1>7 DEF Trail

LEMMA TrailFinds ==
  ASSUME TrailInv, WellFormed(path), FindElem \/ FindMember
  PROVE  Trail'
<1> DEFINE end == Len(path)
           leads == LeadsTo(path)
<1>1. /\ path \in Seq(Chars) /\ path' = path /\ setting' = setting
      /\ pc = "find" /\ Trail /\ end \in Nat
      /\ pc' = IF found' = Null THEN "return" ELSE "walk"
  BY LenProperties DEF TrailInv, FindElem, FindMember, asked
<1>2. PICK t \in Segments(path) : t[1] = p
  BY <1>1 DEF Trail
<1>3. setting \in Nodes /\ leads[Before(t[1])] = {setting}
  BY <1>1, <1>2 DEF Trail
<1>4. leads[t[2]] = Named(setting, path, t)
  BY <1>1, <1>3, SegmentLeadsTo
<1>5. t[1] \in 1 .. end /\ t[2] \in 1 .. end /\ t[1] <= t[2] /\ At(path, p) = path[p]
  BY <1>1, <1>2, SegmentText, PathBasics
<1>6. /\ found' \in Nodes \cup {Null} /\ leads[t[2]] = Found(found')
      /\ p' \in t[1] .. t[2]
  <2>1. CASE FindElem
    <3>1. path[t[1]] = "[" /\ p' = t[1] + 1 /\ found' = Elem(setting, Number(path, t[1] + 1))
      BY <1>2, <1>5, <2>1 DEF FindElem
    <3>2. IndexAt(path, t)
      <4>1. "[" \notin Letters
        BY LookupAssumption DEF CharsAssumption
      <4> QED
        BY <1>1, <3>1, <4>1, SegmentLooks
    <3>3. p' \in t[1] .. t[2]
      BY <1>5, <3>1, <3>2 DEF IndexAt
    <3>4. /\ Named(setting, path, t) = Found(Elem(setting, Number(path, t[1] + 1)))
          /\ Elem(setting, Number(path, t[1] + 1)) \in Nodes \cup {Null}
      BY <1>1, <1>3, <3>1, ElemFinds
    <3> QED
      BY <1>4, <3>1, <3>3, <3>4
  <2>2. CASE FindMember
    <3>1. path[t[1]] # "[" /\ p' = p /\ found' = Member(setting, path, t[1])
      BY <1>2, <1>5, <2>2 DEF FindMember
    <3>2. /\ Named(setting, path, t) = Found(Member(setting, path, t[1]))
          /\ Member(setting, path, t[1]) \in Nodes \cup {Null}
      BY <1>1, <1>3, <3>1, MemberFinds
    <3>3. p' \in t[1] .. t[2]
      BY <1>2, <1>5, <3>1
    <3> QED
      BY <1>4, <3>1, <3>2, <3>3
  <2> QED
    BY <2>1, <2>2
<1>7. CASE found' = Null
  <2>1. leads[t[2]] = {}
    BY <1>6, <1>7 DEF Found
  <2>2. leads[end] = {}
    BY <1>1, <2>1, NowhereToTheEnd
  <2>3. p' \in 1 .. end /\ pc' = "return"
    BY <1>1, <1>5, <1>6, <1>7
  <2> QED
    BY <1>1, <2>2, <2>3 DEF Trail
<1>8. CASE found' # Null
  <2>1. pc' = "walk" /\ found' \in Nodes /\ leads[t[2]] = {found'}
    BY <1>1, <1>6, <1>8 DEF Found
  <2> QED
    BY <1>1, <1>6, <2>1 DEF Trail
<1> QED
  BY <1>7, <1>8

LEMMA TrailWalks ==
  ASSUME TrailInv, WellFormed(path), Walk
  PROVE  Trail'
<1> DEFINE end == Len(path)
           leads == LeadsTo(path)
           rest == Chars \ Tokens
<1>1. /\ path \in Seq(Chars) /\ path' = path /\ setting' = found
      /\ pc = "walk" /\ Trail /\ end \in Nat /\ pc' = "skip"
      /\ p' = SkipOver(path, p, Chars \ Tokens)
  BY LenProperties DEF TrailInv, Walk, asked
<1>2. PICK t \in Segments(path) : p \in t[1] .. t[2] /\ leads[t[2]] = {found}
  BY <1>1 DEF Trail
<1>3. found \in Nodes
  BY <1>1 DEF Trail
<1>4. t[1] \in 1 .. end /\ t[2] \in 1 .. end /\ t[1] <= t[2]
  BY <1>1, SegmentText
<1>5. t[2] = end \/ At(path, t[2] + 1) = "."
  BY DEF Segments
<1>6. p \in 1 .. end /\ p <= t[2]
  BY <1>1, <1>2, <1>4
<1>7. SkipsBy(path, p, rest, t[2] + 1)
  <2>1. t[2] + 1 \in p .. end + 1
    BY <1>1, <1>4, <1>6
  <2>2. At(path, t[2] + 1) \notin rest
    <3>1. CASE t[2] = end
      BY <1>1, <3>1, PathBasics, LookupAssumption DEF CharsAssumption
    <3>2. CASE At(path, t[2] + 1) = "."
      BY <3>2 DEF Tokens
    <3> QED
      BY <1>5, <3>1, <3>2
  <2>3. ASSUME NEW k \in p .. (t[2] + 1) - 1 PROVE At(path, k) \in rest
    <3>1. k \in t[1] .. t[2] /\ k \in 1 .. end
      BY <1>1, <1>2, <1>4, <1>6
    <3> QED
      BY <1>1, <3>1, NoTokens, PathBasics
  <2> HIDE DEF rest
  <2> QED
    BY <2>1, <2>2, <2>3 DEF SkipsBy
<1>8. p' = t[2] + 1
  <2>1. p \in 1 .. end + 1
    BY <1>1, <1>6
  <2> QED
    BY <1>1, <1>7, <2>1, SkipsTo
<1>9. CASE t[2] = end
  BY <1>1, <1>2, <1>3, <1>8, <1>9 DEF Trail
<1>10. CASE t[2] # end
  <2>1. p' \in 1 .. end /\ p' - 1 = t[2]
    BY <1>1, <1>4, <1>8, <1>10
  <2>2. path[p'] = "."
    BY <1>1, <1>5, <1>8, <1>10, <2>1, PathBasics
  <2> QED
    BY <1>1, <1>2, <1>3, <2>1, <2>2 DEF Trail
<1> QED
  BY <1>9, <1>10

\* The getter of a type takes what suits the type.
LEMMA SuitsIsGotten ==
  ASSUME NEW n, wanted \in DOMAIN Gotten, wanted # Null
  PROVE  Suits(n) <=> Type[n] \in Gotten[wanted]
<1>1. wanted \in {"INT", "INT64", "FLOAT", "BOOL", "STRING"}
  BY DEF Gotten
<1> QED
  BY <1>1 DEF Suits, Gotten

LEMMA TrailReturns ==
  ASSUME TrailInv, WellFormed(path), LookupReturn \/ ReadValue
  PROVE  Trail'
<1> DEFINE end == Len(path)
           leads == LeadsTo(path)
<1>1. /\ path \in Seq(Chars) /\ path' = path /\ Trail /\ end \in Nat
      /\ wanted' = wanted /\ convert' = convert
  BY LenProperties DEF TrailInv, LookupReturn, ReadValue, asked
<1>2. Null \notin Nodes
  BY LookupAssumption DEF ConfigAssumption
<1>3. CASE LookupReturn
  <2>1. /\ pc = "return" /\ pc' = IF wanted = Null THEN "done" ELSE "typed"
        /\ result' = IF At(path, p) = "NUL" THEN setting ELSE Null
    BY <1>3 DEF LookupReturn
  <2>2. leads[end] = Found(result')
    <3>1. CASE p = end + 1 /\ setting \in Nodes /\ leads[end] = {setting}
      BY <1>1, <1>2, <2>1, <3>1, PathBasics DEF Found
    <3>2. CASE p \in 1 .. end /\ leads[end] = {}
      BY <1>1, <2>1, <3>2, PathBasics DEF Found
    <3> QED
      BY <1>1, <2>1, <3>1, <3>2 DEF Trail
  <2>3. wanted = Null => {n \in leads[end] : Suits(n)} = leads[end]
    BY DEF Suits
  <2> HIDE DEF leads, end
  <2>4. pc' = "done" => {n \in leads[end] : Suits(n)} = Found(result')
    BY <2>1, <2>2, <2>3
  <2> QED
    BY <1>1, <2>1, <2>2, <2>4 DEF Trail, Suits, leads, end
<1>4. CASE ReadValue
  <2>1. /\ pc = "typed" /\ pc' = "done"
        /\ result' = IF result # Null
                       THEN (IF Type[result] \in Gotten[wanted] THEN result ELSE Null) ELSE Null
    BY <1>4 DEF ReadValue
  <2>2. wanted # Null /\ leads[end] = Found(result)
    BY <1>1, <2>1 DEF Trail
  <2>3. wanted \in DOMAIN Gotten
    BY <2>2 DEF TrailInv
  <2> HIDE DEF leads, end
  <2>4. {n \in leads[end] : Suits(n)} = Found(result')
    <3>1. CASE result = Null
      BY <2>1, <2>2, <3>1 DEF Found
    <3>2. CASE result # Null
      <4>1. leads[end] = {result}
        BY <2>2, <3>2 DEF Found
      <4>2. Suits(result) <=> Type[result] \in Gotten[wanted]
        BY <2>2, <2>3, SuitsIsGotten
      <4> QED
        BY <2>1, <3>2, <4>1, <4>2 DEF Found
    <3> QED
      BY <3>1, <3>2
  <2> QED
    BY <1>1, <2>1, <2>4 DEF Trail, Suits, leads, end
<1> QED
  BY <1>3, <1>4

LEMMA TrailStays == TrailInv /\ [LookupNext]_walk => TrailInv'
<1> SUFFICES ASSUME TrailInv, [LookupNext]_walk PROVE TrailInv'
  OBVIOUS
<1>1. UNCHANGED asked
  BY DEF LookupNext, walk, asked, SkipTokens, FindElem, FindMember, Walk, LookupReturn,
         ReadValue
<1>2. (path \in Seq(Chars))' /\ (wanted \in {Null} \cup DOMAIN Gotten)'
  BY <1>1 DEF TrailInv, asked, Gotten
<1>3. ASSUME WellFormed(path) PROVE Trail'
  <2>1. CASE UNCHANGED walk
    BY <1>3, <2>1 DEF TrailInv, Trail, walk, Suits
  <2> QED
    BY <1>3, <2>1, TrailSkips, TrailFinds, TrailWalks, TrailReturns DEF LookupNext
<1>4. WellFormed(path)' = WellFormed(path)
  BY <1>1 DEF asked
<1> QED
  BY <1>2, <1>3, <1>4 DEF TrailInv

\* config_lookup and the lookups of values find the setting that a well-formed path names
\* segment by segment, and none when one of its segments names nothing
\* (libconfig.c:1139-1243).
THEOREM PathsAreFollowed == LookupSpec => []FindsWhatIsNamed
<1>1. TrailInv => FindsWhatIsNamed
  <2> SUFFICES ASSUME TrailInv, pc = "done", WellFormed(path)
               PROVE  LET there == {n \in LeadsTo(path)[Len(path)] : Suits(n)}
                      IN IF there = {} THEN result = Null ELSE there = {result}
    BY DEF FindsWhatIsNamed
  <2> DEFINE there == {n \in LeadsTo(path)[Len(path)] : Suits(n)}
  <2>1. there = Found(result)
    BY DEF TrailInv, Trail
  <2> HIDE DEF there
  <2>2. IF there = {} THEN result = Null ELSE there = {result}
    BY <2>1 DEF Found
  <2> QED
    BY <2>2 DEF there
<1> QED
  BY <1>1, TrailBegins, TrailStays, PTL DEF LookupSpec
=============================================================================
