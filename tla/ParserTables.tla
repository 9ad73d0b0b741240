---------------------------- MODULE ParserTables ----------------------------
(***************************************************************************)
(* The tables of grammar.c, what they say, and what a state of the         *)
(* automaton knows of the tokens that have led to it.                      *)
(***************************************************************************)
EXTENDS Integers, Sequences, SequencesExt, FiniteSets

\* Internal token numbers.
yytranslate ==
  [EOF |-> 0, BOOLEAN |-> 3, INTEGER |-> 4, HEX |-> 5, INTEGER64 |-> 6, HEX64 |-> 7,
   FLOAT |-> 8, STRING |-> 9, NAME |-> 10, EQUALS |-> 11, ARRAY_START |-> 13,
   ARRAY_END |-> 14, LIST_START |-> 15, LIST_END |-> 16, COMMA |-> 17,
   GROUP_START |-> 18, GROUP_END |-> 19, SEMICOLON |-> 20, GARBAGE |-> 21, ERROR |-> 22]

(* The tables; the entry of state, rule, nonterminal or index n is at n + 1. *)
yyr1 ==
  <<0, 23, 24, 24, 25, 25, 26, 26, 27, 27, 27, 29, 28, 31, 30, 33, 32, 34, 34, 34, 34, 35,
    35, 36, 36, 36, 36, 36, 36, 36, 37, 37, 38, 38, 39, 39, 40, 40, 42, 41>>
yyr2 ==
  <<0, 2, 0, 1, 1, 2, 0, 1, 0, 1, 1, 0, 5, 0, 4, 0, 4, 1, 1, 1, 1, 1,
    2, 1, 1, 1, 1, 1, 1, 1, 1, 3, 0, 1, 1, 3, 0, 1, 0, 4>>
yydefact ==
  <<2, 11, 0, 3, 4, 0, 1, 5, 0, 23, 24, 26, 25, 27, 28, 21, 13, 15, 38, 18, 19, 8, 29, 17,
    20, 36, 32, 6, 10, 9, 12, 22, 34, 37, 0, 30, 33, 0, 7, 0, 0, 14, 0, 16, 39, 35, 31>>
yydefgoto ==
  <<-1, 2, 3, 39, 30, 4, 5, 19, 25, 20, 26, 21, 22, 23, 36, 37, 33, 34, 24, 27>>
YYPACT_NINF == -26
yypact ==
  <<-8, -26, 12, -8, -26, 5, -26, -26, 0, -26, -26, -26, -26, -26, -26, -26, -26, -26, -26,
    -26, -26, -6, 10, -26, -26, 23, 0, -8, -26, -26, -26, -26, -26, 3, 7, -26, 6, 8, -8, 14,
    23, -26, 0, -26, -26, -26, -26>>
yypgoto ==
  <<-26, -26, -5, -26, -26, -3, -26, -26, -26, -26, -26, -25, -26, -15, -26, -26, -26, -26,
    -26, -26>>
yytable ==
  <<7, 35, 1, 9, 10, 11, 12, 13, 14, 15, 32, 28, 6, 16, 29, 17, 8, 46, 18, 31, 40, 41, 38,
    42, 43, 45, 9, 10, 11, 12, 13, 14, 15, 44, 0, 7>>
yycheck ==
  <<3, 26, 10, 3, 4, 5, 6, 7, 8, 9, 25, 17, 0, 13, 20, 15, 11, 42, 18, 9, 17, 14, 27, 17,
    16, 40, 3, 4, 5, 6, 7, 8, 9, 19, -1, 38>>
yystos ==
  <<0, 10, 24, 25, 28, 29, 0, 28, 11, 3, 4, 5, 6, 7, 8, 9, 13, 15, 18, 30, 32, 34, 35, 36, 41,
    31, 33, 42, 17, 20, 27, 9, 36, 39, 40, 34, 37, 38, 25, 26, 17, 14, 17, 16, 19, 36, 34>>
YYLAST == 35
YYFINAL == 6
YYNTOKENS == 23
YYTERROR == 1

\* No rule of grammar.y has the error token: an error pops every state and ends
\* the parse (yyerrlab1).
ASSUME NoRecovery == YYTERROR \notin Range(yycheck)

\* What yytable has for the row at base, 0 if it has nothing of its own.
Entry(base, n) ==
  IF base + n \in 0..YYLAST /\ yycheck[base + n + 1] = n THEN yytable[base + n + 1] ELSE 0

\* State s does the same with whatever token comes.
Decides(s) == yypact[s + 1] = YYPACT_NINF
ShiftOn(s, kind) == IF Decides(s) THEN 0 ELSE Entry(yypact[s + 1], yytranslate[kind])
GotoOn(s, nonterminal) ==
  LET to == Entry(yypgoto[nonterminal + 1], s)
  IN IF to # 0 THEN to ELSE yydefgoto[nonterminal + 1]
-----------------------------------------------------------------------------
(* The language of libconfig.texi, by what may stand next to what: between *)
(* the brackets that w opens, or outside all of them, and behind b.        *)

TokenKinds == DOMAIN yytranslate
OpenKinds == {"ARRAY_START", "LIST_START", "GROUP_START"}
CloseKinds == {"ARRAY_END", "LIST_END", "GROUP_END"}
ScalarKinds == {"BOOLEAN", "INTEGER", "HEX", "INTEGER64", "HEX64", "FLOAT", "STRING"}
Contexts == OpenKinds \cup {"TOP"}

Ender == [TOP |-> "EOF", ARRAY_START |-> "ARRAY_END", LIST_START |-> "LIST_END",
          GROUP_START |-> "GROUP_END"]

Can(w, b, kind) ==
  LET grouped == w \in {"TOP", "GROUP_START"}
      ends == kind = Ender[w]
      starts == kind \in ScalarKinds \cup IF w = "ARRAY_START" THEN {} ELSE OpenKinds
      valued == b \in ScalarKinds \cup CloseKinds
  IN \/ grouped /\ (valued \/ b \in {"START", "COMMA", "SEMICOLON"}) /\ (kind = "NAME" \/ ends)
     \/ grouped /\ valued /\ kind \in {"COMMA", "SEMICOLON"}
     \/ grouped /\ b = "NAME" /\ kind = "EQUALS"
     \/ grouped /\ b = "EQUALS" /\ starts
     \/ ~ grouped /\ b \in {"START", "COMMA"} /\ starts
     \/ ~ grouped /\ b = "START" /\ ends
     \/ ~ grouped /\ valued /\ (kind = "COMMA" \/ ends)
     \/ b = "STRING" /\ kind = "STRING"
-----------------------------------------------------------------------------
(* What the tables make of a stack and the tokens it stands for.           *)

States == 0..46
Lhs(r) == yyr1[r + 1] - YYNTOKENS
IsToken(s) == yystos[s + 1] < YYNTOKENS
IsKind(s, kinds) == yystos[s + 1] \in {yytranslate[k] : k \in kinds}

\* The states that may lie k below t, on a stack whose neighbours are in edges.
Under(edges, t, k) ==
  LET under[i \in 0..k] ==
        IF i = 0 THEN {t}
        ELSE LET above == under[i - 1]
             IN {s \in States : \E u \in above : <<s, u>> \in edges}
  IN under[k]

\* Where a reduction in state t leads, from where.
Reduced(edges, t) ==
  LET r == yydefact[t + 1]
  IN IF r = 0 \/ t = YYFINAL THEN {}
     ELSE {<<s, GotoOn(s, Lhs(r))>> : s \in Under(edges, t, yyr2[r + 1])}

\* A bound on the rounds in which all that can be known is found.
Rounds == 24

edgesAfter[i \in 0..Rounds] ==
  IF i = 0
    THEN {<<s, ShiftOn(s, k)>> : s \in States, k \in TokenKinds} \ (States \X {0})
    ELSE LET edges == edgesAfter[i - 1]
         IN edges \cup UNION {Reduced(edges, t) : t \in States}

\* The states next to each other on a stack.
Edges == edgesAfter[Rounds]

\* The brackets a state may be in, if e leads to it, and what is known of e's other end.
Enters(e, known) ==
  IF IsKind(e[2], OpenKinds) THEN {w \in OpenKinds : IsKind(e[2], {w})}
  ELSE IF IsKind(e[2], CloseKinds) THEN Contexts
  ELSE {w \in Contexts : <<e[1], w>> \in known}

contextsAfter[i \in 0..Rounds] ==
  IF i = 0 THEN {<<0, "TOP">>}
  ELSE LET known == contextsAfter[i - 1]
       IN known \cup UNION {{e[2]} \X Enters(e, known) : e \in Edges}

\* The states, with the brackets they may be in.
Around == contextsAfter[Rounds]

Unread == "none"
LeftBy(kind) == IF kind \in OpenKinds THEN "START" ELSE kind

\* What a step leads to from what is known: a state, what is behind it, and the
\* lookahead.
Steps(q) ==
  LET s == q[1]
      to == IF q[3] = Unread THEN 0 ELSE ShiftOn(s, q[3])
  IN IF ~ Decides(s) /\ q[3] = Unread THEN {<<s, q[2], k>> : k \in TokenKinds}
     ELSE IF to # 0 THEN {<<to, LeftBy(q[3]), Unread>>}
     ELSE {<<e[2], q[2], q[3]>> : e \in Reduced(Edges, s)}

reachedIn[i \in 0..Rounds] ==
  IF i = 0 THEN [old |-> {}, new |-> {<<0, "START", Unread>>}]
  ELSE LET e == reachedIn[i - 1]
       IN [old |-> e.old \cup e.new,
           new |-> UNION {Steps(q) : q \in e.new} \ (e.old \cup e.new)]

Situations == reachedIn[Rounds].old
-----------------------------------------------------------------------------
(* That the tables are those of the language.  They are constants, so      *)
(* TLC's evaluation of these facts is complete.                            *)

ASSUME UnderAssumption ==
  \A t \in States :
    /\ Under(Edges, t, 0) = {t}
    /\ \A k \in 1..5 :
         Under(Edges, t, k) = {s \in States : \E u \in Under(Edges, t, k - 1) : <<s, u>> \in Edges}

\* Every step keeps to the edges, and a reduction finds what it pops.
ASSUME EdgesAssumption ==
  /\ Edges \subseteq States \X (States \ {0})
  /\ \A s \in States, k \in TokenKinds :
       ShiftOn(s, k) # 0 => /\ <<s, ShiftOn(s, k)>> \in Edges
                            /\ yystos[ShiftOn(s, k) + 1] = yytranslate[k]
  /\ \A s \in States : Decides(s) => yydefact[s + 1] # 0
  /\ \A t \in States \ {YYFINAL} : yydefact[t + 1] # 0 =>
       LET r == yydefact[t + 1] IN
         /\ r \in 2..39 /\ yyr2[r + 1] \in 0..5
         /\ \A k \in 0..yyr2[r + 1] - 1 : 0 \notin Under(Edges, t, k)
         /\ \A s \in Under(Edges, t, yyr2[r + 1]) :
              /\ <<s, GotoOn(s, Lhs(r))>> \in Edges
              /\ yystos[GotoOn(s, Lhs(r)) + 1] = yyr1[r + 1]

\* What a reduction pops has no bracket, or one from beginning to end.
ASSUME BracketsAssumption ==
  \A t \in States \ {YYFINAL} : yydefact[t + 1] # 0 =>
    LET len == yyr2[yydefact[t + 1] + 1] IN
      IF IsKind(t, CloseKinds)
        THEN /\ len = 4
             /\ \A u \in Under(Edges, t, 1) \cup Under(Edges, t, 2) : ~ IsToken(u)
             /\ \A u \in Under(Edges, t, 3) : IsKind(u, OpenKinds)
        ELSE \A k \in 0..len - 1 : \A u \in Under(Edges, t, k) :
               ~ IsKind(u, OpenKinds \cup CloseKinds)

\* A string begins with a token, and goes on with one.
ASSUME StringsAssumption ==
  \A t \in States : yydefact[t + 1] \in {21, 22} =>
    \A u \in Under(Edges, t, yyr2[yydefact[t + 1] + 1] - 1) :
      IsToken(u) \/ yystos[u + 1] = yyr1[22]

ASSUME ContextsAssumption ==
  /\ <<0, "TOP">> \in Around
  /\ \A e \in Edges : {e[2]} \X Enters(e, Around) \subseteq Around

\* A token is shifted only where it may stand, and refused only where it may not.
ASSUME SituationsAssumption ==
  /\ <<0, "START", Unread>> \in Situations
  /\ \A q \in Situations : Steps(q) \subseteq Situations
  /\ \A q \in Situations, w \in Contexts : q[3] # Unread /\ <<q[1], w>> \in Around =>
       /\ ShiftOn(q[1], q[3]) # 0 => Can(w, q[2], q[3])
       /\ ~ Decides(q[1]) /\ ShiftOn(q[1], q[3]) = 0 /\ yydefact[q[1] + 1] = 0 =>
            ~ Can(w, q[2], q[3])

\* The tokens that something is done about before any other is read, and the rules that
\* do it; for a string there are two, of which the second joins.
ActsOn ==
  [NAME |-> {11}, BOOLEAN |-> {23}, INTEGER |-> {24}, INTEGER64 |-> {25}, HEX |-> {26},
   HEX64 |-> {27}, FLOAT |-> {28}, STRING |-> {21, 22}, ARRAY_START |-> {13},
   ARRAY_END |-> {14}, LIST_START |-> {15}, LIST_END |-> {16}, GROUP_START |-> {38},
   GROUP_END |-> {39}]
ActingKinds == DOMAIN ActsOn
StringSymbol == 35   \* the symbol of a string that is put together

\* Every action is run where its token is on top of the stack, except that a string
\* waits for what is no string.
ASSUME ActionsAssumption ==
  /\ \A s \in States, k \in ActingKinds :
       /\ IsKind(s, {k}) <=> yydefact[s + 1] \in ActsOn[k]
       /\ IsKind(s, {k}) => Decides(s)
  /\ \A s \in States :
       /\ yydefact[s + 1] = 21 <=> s = 15
       /\ yydefact[s + 1] = 22 <=> s = 31
       /\ yydefact[s + 1] = 29 <=> s = 22
       /\ yystos[s + 1] = StringSymbol <=> s = 22
       /\ \A k \in TokenKinds : ShiftOn(s, k) = 31 => s = 22
  /\ \A k \in TokenKinds : ShiftOn(22, k) = IF k = "STRING" THEN 31 ELSE 0
  /\ \A r \in 1..39 : yyr1[r + 1] >= YYNTOKENS /\ (yyr1[r + 1] = StringSymbol <=> r \in {21, 22})
  /\ \A q \in Situations :
       /\ IsKind(q[1], ActingKinds) => q[3] = Unread
       /\ q[3] # Unread => (ShiftOn(q[1], q[3]) = 15 => q[2] # "STRING")
=============================================================================
