------------------------------- MODULE Lookup -------------------------------
(***************************************************************************)
(* config_lookup of libconfig.c and the lookups of values built on it: a   *)
(* path is walked through the settings, character by character, for what   *)
(* ends a name and what an index looks like is decided there.              *)
(***************************************************************************)
EXTENDS Integers, SequencesExt

CONSTANTS
  Chars,        \* the characters of the paths
  Letters, Digits,
  DigitValue,
  Nodes, Root,
  Null,         \* NULL, no setting and no type
  Type,         \* Type[n]
  Name,         \* Name[n]: a sequence of characters, << >> for an element of a vector
  Elems,        \* Elems[n]: the sequence of its children
  MaxPath       \* bound: characters of a path

Tokens == {":", ".", "/"}
Aggregates == {"GROUP", "ARRAY", "LIST"}

CharsAssumption ==
  /\ Letters \cup Digits \subseteq Chars
  /\ (Letters \cup Digits) \cap (Tokens \cup {"[", "]"}) = {}
  /\ DigitValue \in [Digits -> 0..9]
  /\ "NUL" \notin Chars /\ MaxPath \in Nat

\* A configuration (Settings, CppWrapper): only aggregates have elements, and the
\* members of a group have names of their own, which hold nothing that ends a name.
ConfigAssumption ==
  /\ Root \in Nodes /\ Null \notin Nodes
  /\ Elems \in [Nodes -> Seq(Nodes)] /\ Name \in [Nodes -> Seq(Chars \ Tokens)]
  /\ \A n \in Nodes :
       /\ Type[n] \notin Aggregates => Elems[n] = << >>
       /\ Type[n] = "GROUP" =>
            \A j, k \in DOMAIN Elems[n] : Name[Elems[n][j]] = Name[Elems[n][k]] => j = k

ASSUME LookupAssumption == CharsAssumption /\ ConfigAssumption

VARIABLES
  path, wanted,         \* the arguments: wanted is the type to be read, Null for config_lookup
  convert,              \* CONFIG_OPTION_AUTOCONVERT
  pc, p, setting, found,
  result                \* the setting returned; Null is NULL

walk == <<path, wanted, convert, pc, p, setting, found, result>>
asked == <<path, wanted, convert>>

\* The character at a place, "NUL" for the terminating one.
At(s, i) == IF i <= Len(s) THEN s[i] ELSE "NUL"

\* The first place from i on that is not in a set of characters: the end of one of
\* the loops over p.
SkipOver(s, i, set) ==
  CHOOSE j \in i..(Len(s) + 1) :
    At(s, j) \notin set /\ \A k \in i..(j - 1) : At(s, k) \in set

Ended(c) == c = "NUL" \/ c \in Tokens

\* Mutant: names are compared up to the end of the shorter one.
SameNamePrefix(s, i, name) ==
  \A k \in 1..Len(name) : At(s, i + k - 1) = name[k] \/ Ended(At(s, i + k - 1))

\* __config_name_compare(s + i, name) = 0
SameName(s, i, name) ==
  /\ \A k \in 1..Len(name) : At(s, i + k - 1) = name[k]
  /\ Ended(At(s, i + Len(name)))

\* __config_validate_name, but for the signs that are neither letters nor digits
ValidName(s) ==
  /\ s # << >>
  /\ s[1] \in Letters
  /\ \A k \in DOMAIN s : s[k] \in Letters \cup Digits

\* config_setting_get_member and __config_list_search
Member(n, s, i) ==
  LET same == {k \in DOMAIN Elems[n] : SameName(s, i, Name[Elems[n][k]])} IN
    IF Type[n] = "GROUP" /\ same # {}
      THEN Elems[n][CHOOSE k \in same : \A j \in same : k <= j]
      ELSE Null

\* config_setting_get_elem, where indices start from 0
Elem(n, k) ==
  IF Type[n] \in Aggregates /\ k < Len(Elems[n]) THEN Elems[n][k + 1] ELSE Null

\* atoi, from i on: 0 where there is no digit
Number(s, i) ==
  LET digits == SkipOver(s, i, Digits) - i
      value[k \in 0..digits] ==
        IF k = 0 THEN 0 ELSE 10 * value[k - 1] + DigitValue[s[i + k - 1]]
  IN  value[digits]

\* The types of settings whose value the lookup of a type takes, converted where need be
\* (Scalars has the values).
Gotten ==
  LET floats == IF convert THEN {"FLOAT"} ELSE {}
      integers == IF convert THEN {"INT", "INT64"} ELSE {}
  IN  [INT |-> {"INT", "INT64"} \cup floats, INT64 |-> {"INT", "INT64"} \cup floats,
       FLOAT |-> {"FLOAT"} \cup integers, BOOL |-> {"BOOL"}, STRING |-> {"STRING"}]

LookupInit ==
  /\ path \in UNION {[1..n -> Chars] : n \in 0..MaxPath}
  /\ convert \in BOOLEAN /\ wanted \in {Null} \cup DOMAIN Gotten
  /\ pc = "skip" /\ p = 1 /\ setting = Root
  /\ found = Null /\ result = Null

SkipTokens ==
  /\ pc = "skip"
  /\ p' = SkipOver(path, p, Tokens)
  /\ pc' = IF At(path, p') = "NUL" THEN "return" ELSE "find"
  /\ UNCHANGED <<asked, setting, found, result>>

\* atoi(++p): the index begins behind the bracket.
FindElem ==
  /\ pc = "find" /\ At(path, p) = "["
  /\ p' = p + 1
  /\ found' = Elem(setting, Number(path, p'))
  /\ pc' = IF found' = Null THEN "return" ELSE "walk"
  /\ UNCHANGED <<asked, setting, result>>

FindMember ==
  /\ pc = "find" /\ At(path, p) # "["
  /\ found' = Member(setting, path, p)
  /\ pc' = IF found' = Null THEN "return" ELSE "walk"
  /\ UNCHANGED <<asked, p, setting, result>>

\* Whatever stands between the name or the index and the next token is skipped;
\* strchr finds the terminating character too.
Walk ==
  /\ pc = "walk"
  /\ setting' = found
  /\ p' = SkipOver(path, p, Chars \ Tokens)
  /\ pc' = "skip"
  /\ UNCHANGED <<asked, found, result>>

LookupReturn ==
  /\ pc = "return"
  /\ result' = IF At(path, p) = "NUL" THEN setting ELSE Null
  /\ pc' = IF wanted = Null THEN "done" ELSE "typed"
  /\ UNCHANGED <<asked, p, setting, found>>

\* config_lookup_int and its like, each with the getter of its type
ReadValue ==
  /\ pc = "typed"
  /\ result' = IF result # Null THEN (IF Type[result] \in Gotten[wanted] THEN result ELSE Null) ELSE Null
  /\ pc' = "done"
  /\ UNCHANGED <<asked, p, setting, found>>

LookupNext == SkipTokens \/ FindElem \/ FindMember \/ Walk \/ LookupReturn \/ ReadValue

LookupSpec == LookupInit /\ [][LookupNext]_walk
-----------------------------------------------------------------------------
(* Properties.                                                             *)

\* A path of the form libconfig.texi:414 describes: names and indices in brackets,
\* with a dot between any two of them.
Segments(s) ==
  {t \in (1..Len(s)) \X (1..Len(s)) :
     /\ t[1] <= t[2] /\ \A k \in t[1]..t[2] : s[k] # "."
     /\ t[1] = 1 \/ At(s, t[1] - 1) = "."
     /\ t[2] = Len(s) \/ At(s, t[2] + 1) = "."}

Text(s, t) == SubSeq(s, t[1], t[2])

IndexText(s) ==
  /\ Len(s) >= 3 /\ s[1] = "[" /\ Last(s) = "]"
  /\ \A k \in 2..(Len(s) - 1) : s[k] \in Digits
  /\ Len(s) > 3 => DigitValue[s[2]] # 0

WellFormed(s) ==
  /\ \A i \in 1..Len(s) : s[i] = "." => i \notin {1, Len(s)} /\ At(s, i + 1) # "."
  /\ \A t \in Segments(s) : ValidName(Text(s, t)) \/ IndexText(Text(s, t))

\* The elements of n that a segment names
Named(n, s, t) ==
  {Elems[n][k] : k \in {j \in DOMAIN Elems[n] :
     IF s[t[1]] = "[" THEN Number(s, t[1] + 1) = j - 1
     ELSE Type[n] = "GROUP" /\ Name[Elems[n][j]] = Text(s, t)}}

\* The settings that a path leads to, up to each of its places, read segment by
\* segment: none where no segment ends.
LeadsTo(s) ==
  LET upTo[i \in 0..Len(s)] ==
        IF i = 0 THEN {Root}
        ELSE UNION {UNION {Named(n, s, t) : n \in upTo[IF t[1] = 1 THEN 0 ELSE t[1] - 2]} :
                      t \in {u \in Segments(s) : u[2] = i}}
  IN  upTo

\* A setting suits if config_lookup is asked for it, or its type is the one wanted, or both
\* are numbers and either both are integers or numbers are converted (libconfig.texi:772).
Suits(n) ==
  \/ wanted \in {Null, Type[n]}
  \/ /\ {wanted, Type[n]} \subseteq {"INT", "INT64", "FLOAT"}
     /\ convert \/ "FLOAT" \notin {wanted, Type[n]}

\* A well-formed path leads config_lookup to the setting it names, or to none, and the
\* lookups of values to that setting where it suits (libconfig.c:1139-1243).
FindsWhatIsNamed ==
  pc = "done" /\ WellFormed(path) =>
    LET there == {n \in LeadsTo(path)[Len(path)] : Suits(n)}
    IN IF there = {} THEN result = Null ELSE there = {result}
=============================================================================
