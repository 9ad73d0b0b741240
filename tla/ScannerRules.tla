---------------------------- MODULE ScannerRules ----------------------------
(***************************************************************************)
(* The rules of scanner.l, as regular patterns; and the rules as flex's    *)
(* automaton has them: what each of its states knows of the patterns.      *)
(***************************************************************************)
EXTENDS ScannerTables, SequencesExt

\* BEGIN and YY_AT_BOL choose the state a match begins in.
INITIAL == 1
IN_COMMENT == 3
IN_STRING == 5
IN_INCLUDE == 7
Conditions == {INITIAL, IN_COMMENT, IN_STRING, IN_INCLUDE}

\* A piece of a pattern: characters of a set, or not of it (but), one (few = 1, ~ many), one
\* or none, one or more, or any number.
Piece(chars, few, many) == [chars |-> chars, but |-> FALSE, few |-> few, many |-> many]
One(chars) == Piece(chars, 1, FALSE)
Opt(chars) == Piece(chars, 0, FALSE)
Plus(chars) == Piece(chars, 1, TRUE)
Star(chars) == Piece(chars, 0, TRUE)
But(piece) == [piece EXCEPT !.but = TRUE]
Word(sets) == [i \in DOMAIN sets |-> One(sets[i])]
Text(chars) == [i \in DOMAIN chars |-> One({chars[i]})]

Digit == {"0", "1", "2", "3", "4", "5", "6", "7", "8", "9"}
HexDigit == Digit \cup {"A", "B", "C", "D", "E", "F", "a", "b", "c", "d", "e", "f"}
Letter ==
  {"A", "B", "C", "D", "E", "F", "G", "H", "I", "J", "K", "L", "M", "N", "O", "P", "Q", "R",
   "S", "T", "U", "V", "W", "X", "Y", "Z", "a", "b", "c", "d", "e", "f", "g", "h", "i", "j",
   "k", "l", "m", "n", "o", "p", "q", "r", "s", "t", "u", "v", "w", "x", "y", "z"}
Sign == {"+", "-"}
Blanks == {" ", "\t"}

true == Word(<<{"T", "t"}, {"R", "r"}, {"U", "u"}, {"E", "e"}>>)
false == Word(<<{"F", "f"}, {"A", "a"}, {"L", "l"}, {"S", "s"}, {"E", "e"}>>)
name == <<One(Letter \cup {"*"}), Star(Letter \cup Digit \cup {"-", "_", "*"})>>
integer == <<Opt(Sign), Plus(Digit)>>
hex == <<One({"0"}), One({"X", "x"}), Plus(HexDigit)>>
hexchar == <<One({"\\"}), One({"X", "x"}), One(HexDigit), One(HexDigit)>>
point == <<Opt(Sign), Star(Digit), One({"."}), Star(Digit)>>
exponent == <<One({"e", "E"}), Opt(Sign), Plus(Digit)>>
long == <<One({"L"}), Opt({"L"})>>
restOfLine == <<But(Star({"\n"})), One({"\n"})>>
include_open ==
  <<Star(Blanks)>> \o Text(<<"@", "i", "n", "c", "l", "u", "d", "e">>)
    \o <<Plus(Blanks), One({"\""})>>

\* The alternatives of every rule.  Rule 41 is flex's default.
Rule(rule, conditions, pieces) == [rule |-> rule, conditions |-> conditions, pieces |-> pieces]
patterns ==
  LET Code(r, c) == Rule(r, {INITIAL}, <<One({c})>>)
      Escape(r, c) == Rule(r, {IN_STRING}, Text(<<"\\", c>>))
  IN << Rule(1, {INITIAL}, Text(<<"/", "*">>)),
        Rule(2, {IN_COMMENT}, Text(<<"*", "/">>)), Rule(3, {IN_COMMENT}, <<But(One({"\n"}))>>),
        Rule(4, {IN_COMMENT}, <<One({"\n"})>>),
        Code(5, "\""), Rule(6, {IN_STRING}, <<But(Plus({"\"", "\\"}))>>),
        Escape(7, "n"), Escape(8, "r"), Escape(9, "t"), Escape(10, "f"), Escape(11, "\\"),
        Escape(12, "\""), Rule(13, {IN_STRING}, hexchar), Rule(14, {IN_STRING}, <<One({"\""})>>),
        Rule(15, {INITIAL}, include_open),
        Rule(16, {IN_INCLUDE}, <<But(Plus({"\"", "\\"}))>>),
        Rule(17, {IN_INCLUDE}, Text(<<"\\", "\\">>)), Rule(18, {IN_INCLUDE}, Text(<<"\\", "\"">>)),
        Rule(19, {IN_INCLUDE}, <<One({"\""})>>),
        Rule(20, {INITIAL}, <<One({"\n", "\r", "\f"})>>), Rule(21, {INITIAL}, <<Plus(Blanks)>>),
        Rule(22, {INITIAL}, <<One({"=", ":"})>>), Code(23, ","), Code(24, "{"), Code(25, "}"),
        Rule(26, {INITIAL}, true), Rule(27, {INITIAL}, false), Rule(28, {INITIAL}, name),
        Rule(29, {INITIAL}, point), Rule(29, {INITIAL}, point \o exponent),
        Rule(29, {INITIAL}, integer \o exponent),
        Rule(29, {INITIAL}, integer \o <<One({"."}), Star(Digit)>> \o exponent),
        Rule(30, {INITIAL}, integer), Rule(31, {INITIAL}, integer \o long),
        Rule(32, {INITIAL}, hex), Rule(33, {INITIAL}, hex \o long),
        Code(34, "["), Code(35, "]"), Code(36, "("), Code(37, ")"), Code(38, ";"),
        Rule(39, {INITIAL}, <<One({"#"})>> \o restOfLine),
        Rule(39, {INITIAL}, Text(<<"/", "/">>) \o restOfLine),
        Rule(40, {INITIAL}, <<But(One({"\n"}))>>), Rule(41, Conditions, <<But(One({}))>>) >>

\* Rule 15 is only for the beginning of a line.
Applying(condition, bol) ==
  {p \in DOMAIN patterns :
     condition \in patterns[p].conditions /\ (patterns[p].rule = 15 => bol)}
-----------------------------------------------------------------------------
(* What they match.                                                        *)

Fits(piece, c) == piece.but # (c \in piece.chars)

\* Whether s between the lengths m and n is what the piece says.
Spans(piece, s, m, n) ==
  /\ m <= n /\ piece.few <= n - m /\ (piece.many \/ n - m <= 1)
  /\ \A i \in m + 1..n : Fits(piece, s[i])

\* The lengths at which the i first pieces of a pattern match the beginning of s.
Reach(pieces, s) ==
  LET reach[i \in 0..Len(pieces)] ==
        IF i = 0 THEN {0}
        ELSE LET before == reach[i - 1]
             IN {n \in 0..Len(s) : \E m \in before : Spans(pieces[i], s, m, n)}
  IN reach

\* The matches, length and rule, there are at the beginning of s.
Matches(condition, bol, s) ==
  UNION {Reach(patterns[p].pieces, s)[Len(patterns[p].pieces)] \X {patterns[p].rule} :
           p \in Applying(condition, bol)}
-----------------------------------------------------------------------------
(* What the automaton knows of a match: the places <<p, i>> in the         *)
(* patterns, behind the i first pieces of the p-th, it may have come to.    *)

Skips(pieces, i, k) == \A l \in i + 1..k : pieces[l].few = 0

Beginning(condition, bol) ==
  UNION {{p} \X {k \in 0..Len(patterns[p].pieces) : Skips(patterns[p].pieces, 0, k)} :
           p \in Applying(condition, bol)}

ClassFits(piece, k) == piece.but # (k # 1 /\ yy_classes[k] \cap piece.chars # {})

\* Where a character of class c leads from a place: on in its piece, or to the next one.
Follow(place, c) ==
  LET pieces == patterns[place[1]].pieces
      i == place[2]
  IN {place[1]} \X
       {k \in 1..Len(pieces) :
          \E j \in {i, i + 1} :
            /\ 1 <= j /\ j <= k /\ (j = i => pieces[j].many)
            /\ ClassFits(pieces[j], c) /\ Skips(pieces, j, k)}

Onwards(places, c) == UNION {Follow(q, c) : q \in places}

Complete(places) ==
  {patterns[q[1]].rule : q \in {q \in places : q[2] = Len(patterns[q[1]].pieces)}}

\* A bound on the length of the shortest match that leads to what a state may know.
MaxWord == 16

\* The states with what they know, by the lengths of matches.
explored[n \in 0..MaxWord] ==
  IF n = 0
    THEN [old |-> {},
          new |-> {<<condition + (IF bol THEN 1 ELSE 0), Beginning(condition, bol)>> :
                     condition \in Conditions, bol \in BOOLEAN}]
    ELSE LET e == explored[n - 1]
         IN [old |-> e.old \cup e.new,
             new |-> {<<next[q[1]][c + 1], Onwards(q[2], c)>> : q \in e.new, c \in Class \ {0}}
                       \ (e.old \cup e.new)]

Knowledge == explored[MaxWord].old
-----------------------------------------------------------------------------
(* That the tables are those of the rules.  Tables and rules are           *)
(* constants, so TLC's evaluation of these facts is complete.              *)

Pieces ==
  [chars : SUBSET DOMAIN yy_ec, but : BOOLEAN, few : {0, 1}, many : BOOLEAN]

\* The classes tell apart what the rules do.
ASSUME PiecesAssumption ==
  \A p \in DOMAIN patterns :
    /\ patterns[p].rule \in Nat \ {0} /\ patterns[p].pieces \in Seq(Pieces)
    /\ \A i \in DOMAIN patterns[p].pieces : \A c \in DOMAIN yy_ec :
         ClassFits(patterns[p].pieces[i], yy_ec[c]) <=> Fits(patterns[p].pieces[i], c)

\* A state accepts the first of the rules that are complete, and stops when none can go on.
ASSUME KnowledgeAssumption ==
  /\ \A condition \in Conditions, bol \in BOOLEAN :
       <<condition + (IF bol THEN 1 ELSE 0), Beginning(condition, bol)>> \in Knowledge
  /\ \A q \in Knowledge : \A c \in Class \ {0} :
       /\ <<next[q[1]][c + 1], Onwards(q[2], c)>> \in Knowledge
       /\ Stops(q[1]) => Onwards(q[2], c) = {}
  /\ \A q \in Knowledge :
       yy_accept[q[1] + 1] = IF Complete(q[2]) = {} THEN 0 ELSE Min(Complete(q[2]))

\* Every character begins a match, and the empty text is none.
ASSUME BeginningsAssumption ==
  \A condition \in Conditions, bol \in BOOLEAN :
    LET s == condition + (IF bol THEN 1 ELSE 0) IN
      /\ yy_accept[s + 1] = 0 /\ ~ Stops(s)
      /\ \A c \in Class \ {0} : yy_accept[next[s][c + 1] + 1] # 0
=============================================================================
