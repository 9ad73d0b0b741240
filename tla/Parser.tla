------------------------------- MODULE Parser -------------------------------
(***************************************************************************)
(* The parser bison made of grammar.y: the engine of grammar.c, and the    *)
(* semantic actions that build the configuration while it runs.  The       *)
(* scanner is whatever stream of tokens it may hand over; a token is known *)
(* by its place in that stream.  The configuration is the tree of paths of *)
(* ConfigTree.                                                             *)
(***************************************************************************)
EXTENDS ParserTables

CONSTANTS
  Kinds,        \* kinds of tokens the scanner hands over
  Names,        \* texts of TOK_NAME
  InitDepth,    \* YYINITDEPTH
  MaxDepth,     \* YYMAXDEPTH
  MaxTokens,    \* bound: the input ends after this many tokens
  Nil

Symbol(kind, name) == [kind |-> kind, name |-> name]
Tokens == {t \in [kind : Kinds, name : Names \cup {Nil}] : t.kind = "NAME" <=> t.name # Nil}
EOF == Symbol("EOF", Nil)

\* There is room for the first state.
ASSUME DepthAssumption == InitDepth \in Nat \ {0, 1} /\ MaxDepth \in Nat \ {0}
ASSUME KindsAssumption == Kinds \subseteq TokenKinds
\* No setting is "none".
ASSUME NilAssumption == Nil \notin Seq(Nat)

VARIABLES
  states, vals, size,   \* yyss, yyvs and yystacksize
  look,                 \* yychar and yylval: <<>>, or the lookahead
  read,                 \* what yylex has returned
  tree, parent, setting,  \* config and ctx
  joined,               \* ctx->string, as the tokens it was put together from
  owned,                \* strings of tokens that are allocated
  yyresult, error

engine == <<states, vals, size, look>>
ctx == <<tree, parent, setting>>
parserVars == <<engine, read, ctx, joined, owned, yyresult, error>>

Setting(name, type, pos) ==
  [name |-> name, type |-> type, hex |-> FALSE, value |-> << >>, pos |-> pos]

ParserInit ==
  /\ states = <<0>> /\ vals = <<0>> /\ size = InitDepth /\ look = << >>
  /\ read = << >>
  /\ tree = [p \in {<< >>} |-> Setting(Nil, "GROUP", 0)]
  /\ parent = << >> /\ setting = << >>
  /\ joined = << >> /\ owned = {}
  /\ yyresult = "running" /\ error = Nil
-----------------------------------------------------------------------------
(* The engine.                                                             *)

Top == Last(states)
\* Mutant: the state after a name waits for the token behind it.
DecidedEager == Decides(Top) /\ Top # 1
Decided == Decides(Top)   \* without the lookahead
Shifts == IF look = << >> THEN 0 ELSE ShiftOn(Top, read[look[1]].kind)
Ready == yyresult = "running" /\ (Decided \/ look # << >>)

\* yyerror: the first error stays.
Report(text) == error' = IF error = Nil THEN <<text, Len(read)>> ELSE error

\* yynewstate: push, grow the stacks if that filled them, and see whether that is all.
Push(state, val, below, belowVals) ==
  LET full == Len(below) + 1 >= size
      grown == IF full THEN IF 2 * size > MaxDepth THEN MaxDepth ELSE 2 * size ELSE size
  IN /\ states' = Append(below, state)
     /\ vals' = Append(belowVals, val)
     /\ IF full /\ MaxDepth <= size
          THEN /\ yyresult' = "exhausted"
               /\ Report("memory exhausted")
               /\ UNCHANGED size
          ELSE /\ size' = grown
               /\ yyresult' = IF Len(below) + 1 >= grown THEN "error"
                            ELSE IF state = YYFINAL THEN "ok" ELSE "running"
               /\ UNCHANGED error

Abort(text) ==
  /\ yyresult' = "error"
  /\ Report(text)
  /\ UNCHANGED <<engine, read, ctx>>

\* yylex, called only where the state does not settle what to do, returns t.
Receive(t) ==
  /\ yyresult = "running" /\ ~ Decided /\ look = << >>
  /\ read' = Append(read, t)
  /\ owned' = IF t.kind = "STRING" THEN owned \cup {Len(read) + 1} ELSE owned
  /\ error' = IF t.kind = "ERROR" THEN <<"include", Len(read) + 1>> ELSE error
  /\ look' = <<Len(read) + 1>>
  /\ UNCHANGED <<states, vals, size, ctx, joined, yyresult>>

Lex == \E t \in IF Len(read) < MaxTokens THEN Tokens \cup {EOF} ELSE {EOF} : Receive(t)

Shift ==
  /\ Ready /\ Shifts # 0
  /\ look' = << >>
  /\ Push(Shifts, look[1], states, vals)
  /\ UNCHANGED <<read, ctx, joined, owned>>

yyn == yydefact[Top + 1]
Reduces(rules) == Ready /\ Shifts = 0 /\ yyn \in rules \ {0}

\* The rule's symbols are popped, and what it makes is pushed as a shift would; its
\* value is that of its first symbol (garbage, 0 here, if it has none).
Goto ==
  LET len == yyr2[yyn + 1]
      below == SubSeq(states, 1, Len(states) - len)
  IN /\ Push(GotoOn(Last(below), Lhs(yyn)), IF len = 0 THEN 0 ELSE vals[Len(vals) + 1 - len],
             below, SubSeq(vals, 1, Len(vals) - len))
     /\ UNCHANGED <<look, read>>

SyntaxError ==
  /\ Ready /\ Shifts = 0 /\ yyn = 0
  /\ Abort("syntax error")
  /\ UNCHANGED <<joined, owned>>
-----------------------------------------------------------------------------
(* The semantic actions.                                                   *)

InArray == parent # Nil /\ tree[parent].type = "ARRAY"
InList == parent # Nil /\ tree[parent].type = "LIST"

Children(p) == {q \in DOMAIN tree : q # << >> /\ Front(q) = p}
NextOf(p) == Append(p, Cardinality(Children(p)) + 1)
With(p, s) == [q \in DOMAIN tree \cup {p} |-> IF q = p THEN s ELSE tree[q]]

\* The text of a name is the scanner's yytext: that of the token read last.
NameText(v) == read[Len(read)].name

Taken(name) == \E q \in Children(parent) : tree[q].name = name

Declare ==
  /\ Reduces({11}) /\ ~ Taken(NameText(Last(vals)))
  /\ setting' = NextOf(parent)
  /\ tree' = With(NextOf(parent), Setting(NameText(Last(vals)), "NONE", Len(read)))
  /\ Goto
  /\ UNCHANGED <<parent, joined, owned>>

DuplicateName ==
  /\ Reduces({11}) /\ Taken(NameText(Last(vals)))
  /\ Abort("duplicate setting name")
  /\ UNCHANGED <<joined, owned>>

\* A new element of the list, or the value of the setting at hand.
Start(type) ==
  IF InList
    THEN /\ tree' = With(NextOf(parent), Setting(Nil, type, Len(read)))
         /\ parent' = NextOf(parent)
         /\ UNCHANGED setting
    ELSE /\ tree' = [tree EXCEPT ![setting].type = type]
         /\ parent' = setting
         /\ setting' = Nil

StartAggregate ==
  /\ Reduces({13, 15, 38})
  /\ Start([r \in {13, 15, 38} |-> IF r = 13 THEN "ARRAY" ELSE IF r = 15 THEN "LIST"
                                   ELSE "GROUP"][yyn])
  /\ Goto
  /\ UNCHANGED <<joined, owned>>

\* ctx->parent->parent; above the root there is none.
Up == IF parent \in {Nil, << >>} THEN Nil ELSE Front(parent)

EndAggregate ==
  /\ Reduces({14, 16, 39})
  /\ parent' = Up
  /\ Goto
  /\ UNCHANGED <<tree, setting, joined, owned>>

\* Strings next to each other become one.
JoinString ==
  /\ Reduces({21, 22})
  /\ joined' = Append(joined, Last(vals))
  /\ owned' = owned \ {Last(vals)}
  /\ Goto
  /\ UNCHANGED ctx

\* Mutant: any type goes.
FitsAny(type) == TRUE

\* config_setting_set_*_elem: the first element decides the type of an array.
FitsArray(type) ==
  InArray /\ Children(parent) # {} => tree[Append(parent, 1)].type = type

Value(type, hex, value) ==
  IF InArray \/ InList
    THEN tree' = With(NextOf(parent),
                      [Setting(Nil, type, Len(read)) EXCEPT !.value = value, !.hex = hex])
    ELSE tree' = [tree EXCEPT ![setting] =
                    [@ EXCEPT !.type = type, !.value = value, !.hex = hex]]

scalarType == [r \in 23..29 |-> <<"BOOL", "INT", "INT64", "INT", "INT64", "FLOAT",
                                  "STRING">>[r - 22]]

ScalarValue ==
  /\ Reduces(23..28) /\ FitsArray(scalarType[yyn])
  /\ Value(scalarType[yyn], yyn \in {26, 27}, <<Last(vals)>>)
  /\ Goto
  /\ UNCHANGED <<parent, setting, joined, owned>>

StringValue ==
  /\ Reduces({29}) /\ FitsArray("STRING")
  /\ Value("STRING", FALSE, joined)
  /\ joined' = << >>
  /\ Goto
  /\ UNCHANGED <<parent, setting, owned>>

\* What was joined for a refused element is deleted.
Mismatch ==
  /\ Reduces(23..29) /\ ~ FitsArray(scalarType[yyn])
  /\ joined' = IF yyn = 29 THEN << >> ELSE joined
  /\ Abort("mismatched element type in array")
  /\ UNCHANGED owned

NoAction ==
  /\ Reduces((1..39) \ ({11, 13, 14, 15, 16, 38, 39} \cup 21..29))
  /\ Goto
  /\ UNCHANGED <<ctx, joined, owned>>

ParserDone == yyresult # "running" /\ UNCHANGED parserVars

Step ==
  \/ Shift \/ SyntaxError \/ Declare \/ DuplicateName
  \/ StartAggregate \/ EndAggregate \/ JoinString \/ ScalarValue \/ StringValue
  \/ Mismatch \/ NoAction

ParserNext == Lex \/ Step \/ ParserDone

ParserSpec == ParserInit /\ [][ParserNext]_parserVars
-----------------------------------------------------------------------------
(* The language: i is the place of a token, n the number of tokens read.   *)

n == Len(read)
Kind(i) == read[i].kind

\* The brackets open before token i, outermost first.
opens[i \in 1..n + 1] ==
  IF i = 1 THEN << >>
  ELSE IF Kind(i - 1) \in OpenKinds THEN Append(opens[i - 1], i - 1)
  ELSE IF Kind(i - 1) \in CloseKinds /\ opens[i - 1] # << >> THEN Front(opens[i - 1])
  ELSE opens[i - 1]

Opener(i) == IF opens[i] = << >> THEN 0 ELSE Last(opens[i])
Within(i) == IF Opener(i) = 0 THEN "TOP" ELSE Kind(Opener(i))
Before(i) == IF i - 1 = Opener(i) THEN "START" ELSE Kind(i - 1)

May(i) == Can(Within(i), Before(i), Kind(i))

\* The tokens that bring a setting of their own.
Bears(i) ==
  \/ Kind(i) = "NAME"
  \/ /\ Within(i) \in {"ARRAY_START", "LIST_START"}
     /\ Kind(i) \in OpenKinds \cup ScalarKinds
     /\ ~ (Kind(i) = "STRING" /\ Before(i) = "STRING")

\* What the token brings that the bracket o, or the text if o is 0, has its elements for.
Owner(o) == IF o = 0 \/ Within(o) = "LIST_START" THEN o ELSE o - 2
Elements(o, i) == {j \in 1..i : Bears(j) /\ Opener(j) = o}

pathOf[i \in 0..n] ==
  IF i = 0 THEN << >>
  ELSE Append(pathOf[Owner(Opener(i))], Cardinality(Elements(Opener(i), i)))

\* The setting that token i brings; its value is at token v, and up to the last-th.
ValueAt(i) == IF Kind(i) = "NAME" THEN i + 2 ELSE i
TypeOf(kind) ==
  [BOOLEAN |-> "BOOL", INTEGER |-> "INT", HEX |-> "INT", INTEGER64 |-> "INT64",
   HEX64 |-> "INT64", FLOAT |-> "FLOAT", STRING |-> "STRING",
   ARRAY_START |-> "ARRAY", LIST_START |-> "LIST", GROUP_START |-> "GROUP"][kind]
SettingUpTo(i, last) ==
  LET v == ValueAt(i)
  IN [name |-> read[i].name,
      type |-> TypeOf(Kind(v)),
      hex |-> Kind(v) \in {"HEX", "HEX64"},
      value |-> IF Kind(v) \in OpenKinds THEN << >>
                ELSE IF Kind(v) = "STRING" THEN [k \in 1..last - v + 1 |-> v + k - 1]
                ELSE <<v>>,
      pos |-> IF Kind(i) = "STRING" THEN last + 1 ELSE i]

\* The last of the strings from the v-th token on.
RunEnds(v, j) == Kind(j + 1) # "STRING" /\ \A k \in v..j : Kind(k) = "STRING"
SettingOf(i) ==
  SettingUpTo(i, CHOOSE j \in ValueAt(i)..n : RunEnds(ValueAt(i), j))

Bearers == {i \in 1..n : Bears(i)}
TreeOf ==
  [p \in {pathOf[i] : i \in Bearers \cup {0}} |->
     IF p = << >> THEN Setting(Nil, "GROUP", 0)
     ELSE SettingOf(CHOOSE i \in Bearers : pathOf[i] = p)]
-----------------------------------------------------------------------------
(* Properties.                                                             *)

\* bison's tables are the documented grammar: the parser reads on while what it has
\* read may be the beginning of a configuration, accepts those that are one, and
\* reports a syntax error at the token that cannot follow.
Language ==
  /\ \A i \in 1..n - 1 : May(i)
  /\ yyresult = "ok" => May(n) /\ Kind(n) = "EOF"
  /\ error # Nil /\ error[1] = "syntax error" => ~ May(n) /\ error[2] = n

\* The configuration has the settings of the text, nested as its brackets are, with the
\* names, types, formats and values of their own tokens, although names are looked up
\* in the scanner's buffer and actions run before or after a lookahead was read.
BuildsTheTree == yyresult = "ok" => tree = TreeOf

\* A name used twice, and elements of an array of different types, in the text; and in
\* the configuration.
Twins == \E i, j \in 1..n : i < j /\ Kind(i) = "NAME" /\ read[i] = read[j] /\ Opener(i) = Opener(j)
Odd ==
  \E i, j \in Bearers : /\ i < j /\ Opener(i) = Opener(j) /\ Within(i) = "ARRAY_START"
                         /\ SettingOf(i).type # SettingOf(j).type
Mixed ==
  \E p \in DOMAIN tree :
    tree[p].type = "ARRAY" /\ \E q, r \in Children(p) : tree[q].type # tree[r].type

\* A text is refused for its first token that cannot follow in the language of the
\* manual, for a name used twice, or for an element of another type, exactly if it has
\* one.
RefusesForCause ==
  /\ Language
  /\ ~ Mixed
  /\ yyresult = "ok" => ~ Twins /\ ~ Odd
  /\ yyresult = "error" => CASE error[1] = "duplicate setting name" -> Twins
                             [] error[1] = "mismatched element type in array" -> Odd
                             [] OTHER -> TRUE
=============================================================================
