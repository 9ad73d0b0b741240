------------------------------ MODULE CppValues ------------------------------
(***************************************************************************)
(* A scalar setting as the C++ class Setting shows it.  The object is made *)
(* when the setting is first looked at and keeps the type and the format   *)
(* the setting had then; casts and assignments check the type they kept    *)
(* and leave the rest to the C functions of Scalars.                       *)
(*                                                                         *)
(* Kinds are the C++ types a program casts to and assigns from.  long is   *)
(* long long where both have eight bytes.                                  *)
(***************************************************************************)
EXTENDS Scalars

CONSTANT NoType, NoValue

Kinds == {"bool", "int", "uint", "int64", "uint64", "float", "double", "cstring", "string"}

ASSUME ObjectAssumption == NoType \notin Types /\ NoValue \notin Strings \cup Int \cup {Nil}

VARIABLES
  kept,     \* _type and _format of the object; NoType if there is none
  last,     \* history: the last cast, lookup or assignment and what came of it
  crashed

cvars == <<vars, kept, last, crashed>>
object == <<kept, crashed>>

NoCall == [call |-> "none", kind |-> "none", thrown |-> FALSE, given |-> NoValue,
           got |-> NoValue]

NoObject == [type |-> NoType, format |-> "DEFAULT"]

CInit ==
  /\ Init
  /\ kept = NoObject
  /\ last = NoCall /\ crashed = FALSE

Wrapped == ~ crashed /\ kept # NoObject

\* wrapSetting and the constructor of Setting
Wrap ==
  /\ ~ crashed /\ kept = NoObject
  /\ kept' = [type |-> type, format |-> GetFormat]
  /\ UNCHANGED <<vars, last, crashed>>

Numbers == {"INT", "INT64", "FLOAT"}

\* The type an operator of Setting asserts.
TypeOfKind(kind) ==
  CASE kind = "bool" -> "BOOL"
    [] kind \in {"int", "uint"} -> "INT"
    [] kind \in {"int64", "uint64"} -> "INT64"
    [] kind \in {"float", "double"} -> "FLOAT"
    [] kind \in {"cstring", "string"} -> "STRING"

AssertType(t) == t = kept.type \/ (auto /\ {t, kept.type} \subseteq Numbers)

AtLeast0(v) == IF v < 0 THEN 0 ELSE v

\* Mutant: a negative number wraps around.
ResultsWrapped(kind) ==
  CASE kind = "bool" -> GetBool
    [] kind = "int" -> GetInt
    [] kind = "uint" -> {IF v < 0 THEN v + 2 * (Max32 + 1) ELSE v : v \in GetInt}
    [] kind = "int64" -> GetInt64
    [] kind = "uint64" -> {AtLeast0(v) : v \in GetInt64}
    [] kind = "float" -> {Single(d) : d \in GetFloat}
    [] kind = "double" -> GetFloat
    [] kind \in {"cstring", "string"} -> GetString

\* What the cast operators make of what the getters return.
Results(kind) ==
  CASE kind = "bool" -> GetBool
    [] kind = "int" -> GetInt
    [] kind = "uint" -> {AtLeast0(v) : v \in GetInt}
    [] kind = "int64" -> GetInt64
    [] kind = "uint64" -> {AtLeast0(v) : v \in GetInt64}
    [] kind = "float" -> {Single(d) : d \in GetFloat}
    [] kind = "double" -> GetFloat
    [] kind \in {"cstring", "string"} -> GetString

Threw(call, kind) == [call |-> call, kind |-> kind, thrown |-> TRUE,
                      given |-> NoValue, got |-> NoValue]

Cast(kind) ==
  /\ Wrapped
  /\ \/ /\ ~ AssertType(TypeOfKind(kind))
        /\ last' = Threw("cast", kind)
     \/ /\ AssertType(TypeOfKind(kind))
        /\ \E v \in Results(kind) :
             last' = [call |-> "cast", kind |-> kind, thrown |-> FALSE, given |-> NoValue,
                      got |-> IF kind = "string" /\ v = Nil THEN "" ELSE v]
  /\ UNCHANGED <<vars, object>>

\* lookupValue catches what the cast throws.  A std::string is cast to const char *
\* and assigned from it, NULL or not.
LookupValue(kind) ==
  /\ Wrapped
  /\ \/ /\ ~ AssertType(TypeOfKind(kind))
        /\ last' = [NoCall EXCEPT !.call = "lookup", !.kind = kind]
        /\ UNCHANGED crashed
     \/ /\ AssertType(TypeOfKind(kind))
        /\ \E v \in Results(kind) :
             /\ last' = [NoCall EXCEPT !.call = "lookup", !.kind = kind, !.got = v]
             /\ crashed' = (kind = "string" /\ v = Nil)
  /\ UNCHANGED <<vars, kept>>

Given(kind) ==
  CASE kind = "bool" -> {0, 1}
    [] kind = "int" -> Int32
    [] kind = "int64" -> Int64
    [] kind = "float" -> {d \in Doubles : Single(d) = d}
    [] kind = "double" -> Doubles
    [] kind = "cstring" -> Strings \cup {Nil}
    [] kind = "string" -> Strings
    [] OTHER -> {}

\* The C function an assignment calls
Setter(kind, v) ==
  CASE kind = "bool" -> SetBool(v)
    [] kind = "int" -> SetInt(v)
    [] kind = "int64" -> SetInt64(v)
    [] kind \in {"float", "double"} -> SetFloat(v)
    [] kind \in {"cstring", "string"} -> SetString(v)

\* What that function does not take, it refuses with CONFIG_FALSE.
Takes(kind) ==
  CASE kind = "bool" -> type \in {"NONE", "BOOL"}
    [] kind = "int" -> type \in {"NONE", "INT"} \/ (type = "FLOAT" /\ auto)
    [] kind = "int64" -> type \in {"NONE", "INT64", "INT"} \/ (type = "FLOAT" /\ auto)
    [] kind \in {"float", "double"} ->
         type \in {"NONE", "FLOAT"} \/ (type \in {"INT", "INT64"} /\ auto)
    [] kind \in {"cstring", "string"} -> type \in {"NONE", "STRING"}

\* operator=: nobody looks at what the C function returns.
Assign(kind, v) ==
  /\ Wrapped
  /\ \/ /\ ~ AssertType(TypeOfKind(kind))
        /\ last' = Threw("assign", kind)
        /\ UNCHANGED vars
     \/ /\ AssertType(TypeOfKind(kind))
        /\ Setter(kind, v) \/ (~ Takes(kind) /\ UNCHANGED vars)
        /\ last' = [NoCall EXCEPT !.call = "assign", !.kind = kind, !.given = v]
  /\ UNCHANGED object

ObjectFormat(f) == IF kept.type \in {"INT", "INT64"} THEN f ELSE "DEFAULT"

\* Setting::setFormat
SetObjectFormat(f) ==
  /\ Wrapped
  /\ kept' = [kept EXCEPT !.format = ObjectFormat(f)]
  /\ SetFormat(ObjectFormat(f)) \/ (type \notin {"INT", "INT64"} /\ UNCHANGED vars)
  /\ last' = NoCall
  /\ UNCHANGED crashed

\* Config::setDefaultFormat and Config::setAutoConvert
SetConfigFormat(f) ==
  /\ ~ crashed
  /\ SetDefaultFormat(f)
  /\ last' = NoCall
  /\ UNCHANGED object

SetConfigConvert(flag) ==
  /\ ~ crashed
  /\ SetAutoConvert(flag)
  /\ last' = NoCall
  /\ UNCHANGED object

\* A setting a read or the program added, of any type and before any assignment
Fresh ==
  /\ type' \in Types \ {"NONE"}
  /\ value' = IF type' = "STRING" THEN Nil ELSE 0
  /\ format' \in IF type' \in {"INT", "INT64"} THEN Formats ELSE {"DEFAULT"}
  /\ deflt' \in {"DEFAULT", deflt}
  /\ told' = 0 /\ converted' = FALSE
  /\ UNCHANGED auto

\* Mutant: the object outlives the setting.
RereadKeepsObject ==
  /\ ~ crashed
  /\ Fresh
  /\ last' = NoCall
  /\ UNCHANGED object

\* A read, which also takes the default format back, or the removal of the setting
\* and the addition of another by its name: its object goes too (ConfigDestructor).
Reread ==
  /\ ~ crashed
  /\ Fresh
  /\ kept' = NoObject /\ last' = NoCall
  /\ UNCHANGED crashed

Stopped == crashed /\ UNCHANGED cvars

CNext ==
  \/ Stopped
  \/ Wrap \/ Reread
  \/ \E kind \in Kinds : Cast(kind) \/ LookupValue(kind)
  \/ \E kind \in Kinds : \E v \in Given(kind) : Assign(kind, v)
  \/ \E f \in Formats : SetObjectFormat(f) \/ SetConfigFormat(f)
  \/ \E flag \in BOOLEAN : SetConfigConvert(flag)

CSpec == CInit /\ [][CNext]_cvars
-----------------------------------------------------------------------------
(* Properties.                                                             *)

CTypeOK ==
  /\ TypeOK
  /\ kept \in [type: Types, format: Formats] \cup {NoObject}
  /\ crashed \in BOOLEAN
  /\ last.call \in {"none", "cast", "lookup", "assign"}
  /\ last.kind \in Kinds \cup {"none"} /\ last.thrown \in BOOLEAN

\* Every check is made on the type the object kept when it was made: it is the
\* setting's whatever was assigned, converted or read since.
KeptTypeTrue == kept # NoObject => kept.type = type

\* The number a setting holds, in halves
Held == IF type = "FLOAT" THEN value ELSE 2 * value

RangeOf(kind) ==
  CASE kind = "int" -> {2 * i : i \in Int32}
    [] kind = "uint" -> {2 * i : i \in Int32 \cap Nat}
    [] kind = "int64" -> {2 * i : i \in Int64}
    [] kind = "uint64" -> {2 * i : i \in Int64 \cap Nat}
    [] kind = "float" -> {Single(d) : d \in Doubles}
    [] kind = "double" -> Doubles

\* A cast or a lookup that succeeds on a number gives that very number if the C++
\* type has it, and a negative one as unsigned is 0.
CastsFaithful ==
  last.call \in {"cast", "lookup"} /\ last.got # NoValue /\ type \in Numbers =>
    LET halves == IF last.kind \in {"float", "double"} THEN last.got ELSE 2 * last.got IN
    /\ Held \in RangeOf(last.kind) => halves = Held
    /\ last.kind \in {"uint", "uint64"} /\ Held < 0 /\ Truncated(Held) \in Int32 => halves = 0

\* A format chosen for a setting is the one its object tells of.
FormatTold == kept # NoObject /\ format # "DEFAULT" => kept.format = format
=============================================================================
