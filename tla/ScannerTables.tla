---------------------------- MODULE ScannerTables ----------------------------
(***************************************************************************)
(* The automaton flex made of scanner.l, as its compressed tables in       *)
(* scanner.c.  The entry of index i is at i + 1.                           *)
(***************************************************************************)
EXTENDS Integers, Sequences, TLC

\* yy_ec by its classes: characters that are in none of these are of class 1, and the
\* end of the buffer is of class 0.
yy_classes ==
  << {}, {"\t", " "}, {"\n"}, {"\f"}, {"\r"}, {"\""}, {"#"}, {"("}, {")"}, {"*"}, {"+"},
     {","}, {"-"}, {"."}, {"/"}, {"0"}, {"1", "2", "3", "4", "5", "6", "7", "8", "9"},
     {":"}, {";"}, {"="}, {"@"}, {"A", "a"}, {"B", "C", "D", "b"}, {"E"}, {"F"},
     {"G", "H", "I", "J", "K", "M", "N", "O", "P", "Q", "V", "W",
      "Y", "Z", "g", "h", "j", "k", "m", "o", "p", "q", "v", "w", "y", "z"},
     {"L"}, {"R"}, {"S", "s"}, {"T"}, {"U"}, {"X", "x"}, {"["}, {"\\"}, {"]"}, {"_"},
     {"c"}, {"d"}, {"e"}, {"f"}, {"i"}, {"l"}, {"n"}, {"r"}, {"t"}, {"u"}, {"{"}, {"}"} >>

yy_accept ==
  <<0, 0, 0, 0, 0, 0, 0, 0, 0, 42, 40, 21, 20, 20, 5, 40, 36, 37, 28, 40, 23, 29, 40, 30,
    30, 22, 38, 28, 28, 34, 35, 24, 25, 21, 40, 3, 4, 3, 6, 14, 41, 16, 19, 41, 21, 0, 39,
    28, 29, 30, 29, 0, 1, 0, 29, 0, 31, 0, 28, 28, 21, 0, 0, 2, 6, 12, 0, 11, 10, 7, 8, 9,
    16, 18, 17, 0, 29, 29, 0, 0, 29, 31, 32, 28, 28, 0, 0, 0, 29, 33, 28, 26, 0, 13, 33,
    27, 0, 0, 0, 0, 0, 15, 0>>

yy_meta ==
  <<0, 1, 1, 1, 1, 1, 2, 1, 1, 1, 3, 1, 1, 3, 1, 1, 4, 4, 1, 1, 1, 1, 4, 4, 4, 4, 3, 3, 3,
    3, 3, 3, 3, 1, 2, 1, 3, 4, 4, 4, 4, 3, 3, 3, 3, 3, 3, 1, 1>>

yy_base ==
  <<0, 0, 47, 47, 48, 46, 47, 48, 49, 203, 204, 200, 204, 204, 204, 198, 204, 204, 0, 45,
    204, 47, 50, 60, 74, 204, 204, 178, 28, 204, 204, 204, 204, 64, 158, 204, 204, 183, 0,
    204, 63, 0, 204, 83, 195, 193, 204, 0, 88, 102, 98, 62, 204, 190, 104, 119, 162, 0, 67,
    65, 121, 127, 124, 204, 0, 204, 0, 204, 204, 204, 204, 204, 0, 204, 204, 108, 117, 122,
    134, 132, 136, 204, 139, 136, 116, 126, 0, 140, 142, 135, 130, 0, 102, 204, 204, 0, 85,
    72, 63, 98, 158, 204, 204, 169, 173, 177, 181, 183, 187, 191, 89, 66, 63>>

yy_def ==
  <<0, 102, 1, 103, 103, 104, 104, 105, 105, 102, 102, 102, 102, 102, 102, 106, 102, 102,
    107, 102, 102, 102, 102, 102, 102, 102, 102, 107, 107, 102, 102, 102, 102, 102, 102,
    102, 102, 102, 108, 102, 102, 109, 102, 102, 102, 106, 102, 107, 102, 102, 102, 102,
    102, 106, 102, 102, 102, 110, 107, 107, 102, 102, 102, 102, 108, 102, 111, 102, 102,
    102, 102, 102, 109, 102, 102, 102, 102, 102, 102, 102, 102, 102, 110, 107, 107, 102,
    112, 102, 102, 102, 107, 107, 102, 102, 102, 107, 102, 102, 102, 102, 102, 102, 0, 102,
    102, 102, 102, 102, 102, 102, 102, 102, 102>>

yy_nxt ==
  <<0, 10, 11, 12, 13, 13, 14, 15, 16, 17, 18, 19, 20, 19, 21, 22, 23, 24, 25, 26, 25, 10,
    18, 18, 18, 27, 18, 18, 18, 18, 28, 18, 18, 29, 10, 30, 10, 18, 18, 18, 27, 18, 18, 18,
    18, 28, 18, 31, 32, 33, 36, 36, 39, 39, 42, 42, 59, 37, 37, 48, 52, 49, 49, 50, 50, 53,
    60, 93, 34, 65, 86, 51, 59, 75, 54, 75, 49, 49, 76, 76, 40, 40, 43, 43, 55, 61, 51, 56,
    54, 73, 49, 49, 57, 82, 83, 66, 84, 67, 55, 55, 100, 56, 99, 68, 50, 50, 69, 70, 71,
    83, 98, 84, 51, 55, 50, 50, 54, 74, 49, 49, 77, 77, 51, 60, 76, 76, 55, 51, 78, 56, 79,
    97, 79, 76, 76, 80, 80, 51, 77, 77, 91, 55, 61, 78, 96, 87, 78, 87, 80, 80, 88, 88, 80,
    80, 95, 91, 88, 88, 88, 88, 100, 78, 94, 92, 101, 90, 89, 85, 62, 95, 35, 35, 35, 35,
    38, 38, 38, 38, 41, 41, 41, 41, 45, 45, 45, 45, 47, 47, 64, 81, 64, 64, 72, 46, 72, 72,
    46, 44, 63, 62, 58, 46, 44, 102, 9, 102, 102, 102, 102, 102, 102, 102, 102, 102, 102,
    102, 102, 102, 102, 102, 102, 102, 102, 102, 102, 102, 102, 102, 102, 102, 102, 102,
    102, 102, 102, 102, 102, 102, 102, 102, 102, 102, 102, 102, 102, 102, 102, 102, 102,
    102, 102, 102, 102>>

yy_chk ==
  <<0, 1, 1, 1, 1, 1, 1, 1, 1, 1, 1, 1, 1, 1, 1, 1, 1, 1, 1, 1, 1, 1, 1, 1, 1, 1, 1, 1, 1,
    1, 1, 1, 1, 1, 1, 1, 1, 1, 1, 1, 1, 1, 1, 1, 1, 1, 1, 1, 1, 2, 3, 4, 5, 6, 7, 8, 28, 3,
    4, 19, 22, 19, 19, 21, 21, 22, 33, 112, 2, 40, 111, 21, 28, 51, 23, 51, 23, 23, 51, 51,
    5, 6, 7, 8, 23, 33, 21, 23, 24, 43, 24, 24, 23, 110, 58, 40, 59, 40, 24, 23, 99, 24,
    98, 40, 48, 48, 40, 40, 40, 58, 97, 59, 48, 24, 50, 50, 49, 43, 49, 49, 54, 54, 50, 60,
    75, 75, 49, 48, 54, 49, 55, 96, 55, 76, 76, 55, 55, 50, 77, 77, 84, 49, 60, 54, 92, 78,
    77, 78, 79, 79, 78, 78, 80, 80, 90, 84, 87, 87, 88, 88, 100, 77, 89, 85, 100, 83, 82,
    62, 61, 90, 103, 103, 103, 103, 104, 104, 104, 104, 105, 105, 105, 105, 106, 106, 106,
    106, 107, 107, 108, 56, 108, 108, 109, 53, 109, 109, 45, 44, 37, 34, 27, 15, 11, 9,
    102, 102, 102, 102, 102, 102, 102, 102, 102, 102, 102, 102, 102, 102, 102, 102, 102,
    102, 102, 102, 102, 102, 102, 102, 102, 102, 102, 102, 102, 102, 102, 102, 102, 102,
    102, 102, 102, 102, 102, 102, 102, 102, 102, 102, 102, 102, 102, 102, 102>>

yy_rule_can_match_eol ==
  <<0, 0, 0, 0, 1, 0, 1, 0, 0, 0, 0, 0, 0, 0, 0, 0, 1, 0, 0, 0, 1, 0, 0, 0, 0, 0, 0, 0, 0,
    0, 0, 0, 0, 0, 0, 0, 0, 0, 0, 0, 0, 0>>

\* yy_ec, of the characters that have a class of their own.
yy_ec ==
  [c \in UNION {yy_classes[k] : k \in 2..Len(yy_classes)} |->
     CHOOSE k \in 2..Len(yy_classes) : c \in yy_classes[k]] @@ << >>

ClassOf(c) == IF c \in DOMAIN yy_ec THEN yy_ec[c] ELSE 1

State == 1..112
Class == 0..48

\* From state s, on a character of class c, by the compressed tables.
unpacked[s \in State, c \in Class] ==
  IF yy_chk[yy_base[s + 1] + c + 1] = s THEN yy_nxt[yy_base[s + 1] + c + 1]
  ELSE unpacked[yy_def[s + 1], IF yy_def[s + 1] >= 103 THEN yy_meta[c + 1] ELSE c]

\* The same, as tuples: next[s][c + 1].
Row(s) == SubSeq([c \in 1..49 |-> unpacked[s, c - 1]], 1, 49)
next == SubSeq([s \in State |-> Row(s)], 1, 112)

\* Nothing leads out of s: the match is over.
Stops(s) == yy_base[s + 1] = 204

CanMatchEol(rule) == yy_rule_can_match_eol[rule + 1] = 1
-----------------------------------------------------------------------------
(* What the scanner relies on in its tables.  The tables are constants, so *)
(* TLC's evaluation of these facts is complete.                            *)

EndOfBufferState == 9
Jam == 102
AutomatonStates == 1..102    \* the others are the templates of yy_def
Going == {s \in AutomatonStates : ~ Stops(s)}

\* The states of a match that has met a newline, and of one that has gone on behind it.
AfterNewline == {12, 36, 38, 41, 46, 64, 72, 102}
PastNewline == {64, 72, 102}

ASSUME ClassesAssumption == \A c \in DOMAIN yy_ec : yy_ec[c] \in Class \ {0}

\* The end of the buffer, and nothing else, leads any match to the state that accepts it; from
\* there nothing leads on.
ASSUME TransitionsAssumption ==
  /\ \A s \in AutomatonStates, c \in Class : next[s][c + 1] \in AutomatonStates
  /\ \A s \in Going :
       /\ next[s][1] = IF s = EndOfBufferState THEN Jam ELSE EndOfBufferState
       /\ \A c \in Class \ {0} : next[s][c + 1] # EndOfBufferState

ASSUME AcceptingAssumption ==
  /\ \A s \in AutomatonStates : yy_accept[s + 1] \in Nat
  /\ \A s \in AutomatonStates : yy_accept[s + 1] = 42 <=> s = EndOfBufferState
  /\ Stops(Jam) /\ yy_accept[Jam + 1] = 0

\* A rule of which the tables say that it matches no newline does not; the one with trailing
\* context matches one at most, as the last character.
ASSUME NewlinesAssumption ==
  /\ \A s \in Going : next[s][ClassOf("\n") + 1] \in AfterNewline
  /\ \A s \in Going \cap AfterNewline, c \in Class \ {0} : next[s][c + 1] \in PastNewline
  /\ PastNewline \subseteq AfterNewline
  /\ \A s \in AfterNewline : yy_accept[s + 1] \in {0, 39} \/ CanMatchEol(yy_accept[s + 1])
  /\ \A s \in PastNewline : yy_accept[s + 1] # 39
=============================================================================
