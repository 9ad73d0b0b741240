------------------------------- MODULE Scalars -------------------------------
(***************************************************************************)
(* The value of one setting of libconfig.c, the functions that set it and  *)
(* those that get it, with the conversions between numbers.  Numbers are   *)
(* written in halves, so that 2 * i is the integer i and odd numbers are   *)
(* doubles between integers.  The ranges are as much smaller than the      *)
(* program's as TLC needs, and keep their order: a float holds fewer       *)
(* integers than an int, an int fewer than a long long.                    *)
(***************************************************************************)
EXTENDS Integers

CONSTANTS
  Max32, Max64,     \* INT32_MAX and the largest long long
  MaxDouble,        \* the largest double, in halves
  Exact,            \* a float holds the doubles up to here, in halves ...
  Grain,            \* ... and above them the multiples of this
  Strings, Nil

ASSUME RangesAssumption ==
  /\ {Max32, Max64, MaxDouble, Exact, Grain} \subseteq Nat \ {0}
  /\ Max32 < Max64 /\ 2 * (Max64 + 1) + Grain <= MaxDouble /\ Exact < 2 * Max32
  /\ Nil \notin Strings

Int32 == (- Max32 - 1) .. Max32
Int64 == (- Max64 - 1) .. Max64
Doubles == (- MaxDouble) .. MaxDouble
Types == {"NONE", "INT", "INT64", "FLOAT", "BOOL", "STRING"}
Formats == {"DEFAULT", "HEX"}

VARIABLES
  type, value, format,      \* of the setting
  auto, deflt,              \* CONFIG_OPTION_AUTOCONVERT, config->default_format
  told,                     \* history: the number the last successful setter was given
  converted                 \* history: and whether auto-conversion was needed for it

vars == <<type, value, format, auto, deflt, told, converted>>
config == <<auto, deflt>>

Magnitude(d) == IF d < 0 THEN - d ELSE d

\* (float)d: the nearest float, the even multiple in the middle.
Single(d) ==
  LET m == Magnitude(d)
      low == m - (m % Grain)
      up == \/ m - low > low + Grain - m
            \/ m - low = low + Grain - m /\ (low \div Grain) % 2 = 1
      s == IF m <= Exact THEN m ELSE IF up THEN low + Grain ELSE low
  IN IF d < 0 THEN - s ELSE s

Truncated(d) == IF d < 0 THEN - ((- d) \div 2) ELSE d \div 2

\* (int)d and (long long)d, which C leaves undefined where d is out of range
ToInt(d, range) == IF Truncated(d) \in range THEN {Truncated(d)} ELSE range

\* Mutant: a long long is cast to an int.
Narrowed32Cast(v) == ((v + Max32 + 1) % (2 * (Max32 + 1))) - Max32 - 1

\* A long long for an int: 0 if it is out of range.
Narrowed32(v) == IF v \in Int32 THEN v ELSE 0

Init ==
  /\ type \in Types
  /\ value = CASE type \in {"NONE", "INT", "INT64", "FLOAT", "BOOL"} -> 0
               [] type = "STRING" -> Nil
  /\ format = "DEFAULT"
  /\ auto = FALSE /\ deflt = "DEFAULT"
  /\ told = 0 /\ converted = FALSE

Stored(t, v, halves, conv) ==
  /\ type' = t /\ value' = v
  /\ told' = halves /\ converted' = conv
  /\ UNCHANGED <<format, config>>

\* config_setting_set_int: no long long is set by an int.
SetInt(v) ==
  \/ type \in {"NONE", "INT"} /\ Stored("INT", v, 2 * v, FALSE)
  \/ type = "FLOAT" /\ auto /\ Stored("FLOAT", Single(2 * v), 2 * v, TRUE)

SetInt64(v) ==
  \/ type \in {"NONE", "INT64"} /\ Stored("INT64", v, 2 * v, FALSE)
  \/ type = "INT" /\ Stored("INT", Narrowed32(v), 2 * v, FALSE)
  \/ type = "FLOAT" /\ auto /\ Stored("FLOAT", Single(2 * v), 2 * v, TRUE)

SetFloat(d) ==
  \/ type \in {"NONE", "FLOAT"} /\ Stored("FLOAT", d, d, FALSE)
  \/ type = "INT" /\ auto /\ \E i \in ToInt(d, Int32) : Stored("INT", i, d, TRUE)
  \/ type = "INT64" /\ auto /\ \E i \in ToInt(d, Int64) : Stored("INT64", i, d, TRUE)

SetBool(b) == type \in {"NONE", "BOOL"} /\ Stored("BOOL", b, 2 * b, FALSE)

SetString(s) == type \in {"NONE", "STRING"} /\ Stored("STRING", s, 0, FALSE)

SetFormat(f) ==
  /\ type \in {"INT", "INT64"}
  /\ format' = f
  /\ UNCHANGED <<type, value, config, told, converted>>

SetAutoConvert(flag) == auto' = flag /\ UNCHANGED <<type, value, format, deflt, told, converted>>

SetDefaultFormat(f) == deflt' = f /\ UNCHANGED <<type, value, format, auto, told, converted>>

Next ==
  \/ \E v \in Int32 : SetInt(v)
  \/ \E v \in Int64 : SetInt64(v)
  \/ \E d \in Doubles : SetFloat(d)
  \/ \E b \in {0, 1} : SetBool(b)
  \/ \E s \in Strings \cup {Nil} : SetString(s)
  \/ \E f \in Formats : SetFormat(f) \/ SetDefaultFormat(f)
  \/ \E flag \in BOOLEAN : SetAutoConvert(flag)

Spec == Init /\ [][Next]_vars
-----------------------------------------------------------------------------
(* The getters and lookups: the values they may store; none on failure.    *)

GetInt ==
  CASE type = "INT" -> {value}
    [] type = "INT64" -> {Narrowed32(value)}
    [] type = "FLOAT" /\ auto -> ToInt(value, Int32)
    [] OTHER -> {}

GetInt64 ==
  CASE type \in {"INT", "INT64"} -> {value}
    [] type = "FLOAT" /\ auto -> ToInt(value, Int64)
    [] OTHER -> {}

GetFloat ==
  CASE type = "FLOAT" -> {value}
    [] type \in {"INT", "INT64"} /\ auto -> {2 * value}
    [] OTHER -> {}

GetBool == IF type = "BOOL" THEN {value} ELSE {}
GetString == IF type = "STRING" THEN {value} ELSE {}

GetFormat == IF format # "DEFAULT" THEN format ELSE deflt
-----------------------------------------------------------------------------
(* Properties.                                                             *)

\* A setting holds a value of its type.
TypeOK ==
  /\ type \in Types /\ format \in Formats
  /\ auto \in BOOLEAN /\ deflt \in Formats
  /\ value \in CASE type = "NONE" -> {0}
                 [] type = "INT" -> Int32
                 [] type = "INT64" -> Int64
                 [] type = "FLOAT" -> Doubles
                 [] type = "BOOL" -> {0, 1}
                 [] type = "STRING" -> Strings \cup {Nil}

\* The first value decides the type of a setting for good.
TypeStays == [][type # "NONE" => type' = type]_vars

\* A number is stored as it was given, unless auto-conversion was on and needed or
\* it was a long long too large for the int setting it was given to.
Faithful ==
  type \in {"INT", "INT64", "FLOAT"} /\ ~ converted =>
    \/ told = IF type = "FLOAT" THEN value ELSE 2 * value
    \/ type = "INT" /\ value = 0 /\ told \notin {2 * i : i \in Int32}

\* What one kind of getter reads as a number, the other kinds read as the same
\* number or not at all, or they lose the part it has beyond their range.
GettersAgree ==
  /\ \A i \in GetInt, l \in GetInt64 : l \in Int32 /\ type # "FLOAT" => i = l
  /\ \A l \in GetInt64, d \in GetFloat :
       Truncated(d) \in Int64 => l = Truncated(d)
  /\ GetInt = {} <=> GetInt64 = {}

\* A setting is written as hexadecimal only if it holds an integer, or if that is
\* the configuration's default.
HexOnIntegers == GetFormat = "HEX" /\ deflt = "DEFAULT" => type \in {"INT", "INT64"}
=============================================================================
