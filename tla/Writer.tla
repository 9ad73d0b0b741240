------------------------------- MODULE Writer -------------------------------
(***************************************************************************)
(* What config_write makes of a configuration, character by character.     *)
(* The configuration is the tree of paths of ConfigTree, each setting with *)
(* its name (Nil in arrays and lists), type, format and value.             *)
(***************************************************************************)
EXTENDS Integers, SequencesExt, FiniteSets

CONSTANTS Nil, tab_width

Spaces(k) == [i \in 1..k |-> " "]

\* printf of "%*s" pads one blank to the width.
Indent(depth) ==
  IF tab_width # 0
    THEN Spaces(IF (depth - 1) * tab_width = 0 THEN 1 ELSE (depth - 1) * tab_width)
    ELSE [i \in 1..depth - 1 |-> "\t"]

\* printf of "%d" and "%X", of the small numbers -16 to 15.
Digits == <<"0", "1", "2", "3", "4", "5", "6", "7", "8", "9", "A", "B", "C", "D", "E", "F">>
Decimal(v) ==
  LET abs == IF v < 0 THEN 0 - v ELSE v IN
    (IF v < 0 THEN <<"-">> ELSE << >>)
      \o (IF abs > 9 THEN <<"1", Digits[abs - 9]>> ELSE <<Digits[abs + 1]>>)
Hex(v, width) ==
  IF v < 0 THEN [i \in 1..width - 1 |-> "F"] \o <<Digits[v + 17]>> ELSE <<Digits[v + 1]>>

Has(s, c) == c \in Range(s)

\* Mutant: a number without a point gets none.
FloatBare(s) == s

\* s is what printf made of the value by "%.10g".
Float(s) ==
  LET kept == {i \in 2..Len(s) : s[i] # "0"} IN
    IF Has(s, "e") THEN s
    ELSE IF ~ Has(s, ".") THEN s \o <<".", "0">>
    ELSE IF kept = {} THEN s ELSE SubSeq(s, 1, CHOOSE i \in kept : \A j \in kept : j <= i)

\* Mutant: a backslash is written as it is.
EscapedBare(c) ==
  CASE c = "\"" -> <<"\\", "\"">>
    [] c = "\n" -> <<"\\", "n">> [] c = "\r" -> <<"\\", "r">>
    [] c = "\f" -> <<"\\", "f">> [] c = "\t" -> <<"\\", "t">>
    [] Len(c) = 2 -> <<"\\", "x", SubSeq(c, 1, 1), SubSeq(c, 2, 2)>>
    [] OTHER -> <<c>>

\* A control character without an escape of its own is its two hexadecimal digits.
Escaped(c) ==
  CASE c \in {"\"", "\\"} -> <<"\\", c>>
    [] c = "\n" -> <<"\\", "n">> [] c = "\r" -> <<"\\", "r">>
    [] c = "\f" -> <<"\\", "f">> [] c = "\t" -> <<"\\", "t">>
    [] Len(c) = 2 -> <<"\\", "x", SubSeq(c, 1, 1), SubSeq(c, 2, 2)>>
    [] OTHER -> <<c>>

\* __config_write_value of a scalar.
Scalar(s) ==
  CASE s.type = "BOOL" -> IF s.value THEN <<"t", "r", "u", "e">> ELSE <<"f", "a", "l", "s", "e">>
    [] s.type = "INT" -> IF s.hex THEN <<"0", "x">> \o Hex(s.value, 8) ELSE Decimal(s.value)
    [] s.type = "INT64" ->
         (IF s.hex THEN <<"0", "x">> \o Hex(s.value, 16) ELSE Decimal(s.value)) \o <<"L">>
    [] s.type = "FLOAT" -> Float(s.value)
    [] s.type = "STRING" ->
         <<"\"">> \o FlattenSeq([i \in DOMAIN s.value |-> Escaped(s.value[i])]) \o <<"\"">>
    [] s.type = "NONE" -> <<"?", "?", "?">>

\* Mutant: elements of arrays and lists are not told apart.
SeparatorMissing(i, len) == <<" ">>

\* Behind element i of len
Separator(i, len) == IF i < len THEN <<",", " ">> ELSE <<" ">>

\* The text of the setting at p of a tree, with and without its name.
Written(tree) ==
  LET Elems(p) == Cardinality({q \in DOMAIN tree : q # << >> /\ Front(q) = p})
      setting(p, text) ==
        LET depth == Len(p)
            name == IF tree[p].name = Nil THEN << >>
                    ELSE tree[p].name
                           \o (IF tree[p].type = "GROUP" THEN <<" ", ":", " ">>
                               ELSE <<" ", "=", " ">>)
        IN (IF depth > 1 THEN Indent(depth) ELSE << >>)
             \o name \o text \o (IF depth > 0 THEN <<";", "\n">> ELSE << >>)
      value[p \in DOMAIN tree] ==
        LET depth == Len(p)
            len == Elems(p)
            elements == FlattenSeq([i \in 1..len |-> value[Append(p, i)] \o Separator(i, len)])
            settings == FlattenSeq([i \in 1..len |-> setting(Append(p, i), value[Append(p, i)])])
            indent == IF depth > 1 THEN Indent(depth) ELSE << >>
        IN CASE tree[p].type = "LIST" -> <<"(", " ">> \o elements \o <<")">>
             [] tree[p].type = "ARRAY" -> <<"[", " ">> \o elements \o <<"]">>
             [] tree[p].type = "GROUP" ->
                  (IF depth > 0 THEN <<"\n">> \o indent \o <<"{", "\n">> ELSE << >>)
                    \o settings \o indent \o (IF depth > 0 THEN <<"}">> ELSE << >>)
             [] OTHER -> Scalar(tree[p])
  IN setting(<< >>, value[<< >>])
=============================================================================
