----------------------------- MODULE RoundTrip -----------------------------
(***************************************************************************)
(* config_write, and config_read of what it wrote: a configuration is      *)
(* built by config_setting_add and the setters, its text is read by the    *)
(* scanner, and the scanner is called by the parser, which builds the      *)
(* configuration anew.                                                     *)
(***************************************************************************)
EXTENDS Writer

CONSTANTS
  SettingNames,     \* names config_setting_add is given
  Values,           \* [type, hex, value] of the scalars
  Aggregates,       \* types of the others
  MaxSettings, MaxNesting,
  BufSize, ReadSize, InitDepth, MaxDepth

VARIABLES
  original,         \* the configuration that is written
  writing,          \* whether it is still being built
  delivered,        \* yylex has returned, and the parser has the token
  texts,            \* texts of the tokens read
  \* the scanner's
  buffers, current, nChars, pos, start, atEnd, stack, string, token, result,
  \* the parser's
  states, vals, size, look, read, tree, parent, setting, joined, owned, yyresult, error

S == INSTANCE Scanner WITH
       Texts <- {}, Included <- {}, MaxIncludeDepth <- 10, Strings <- {}, Terminals <- {FALSE}

P == INSTANCE Parser WITH
       Kinds <- (Range(S!tokenOf) \cup {"STRING", "ERROR"}) \ {"NONE"},
       Names <- SettingNames, MaxTokens <- 0

scanner == <<buffers, current, nChars, pos, start, atEnd, stack, string, token, result>>
parser == <<states, vals, size, look, read, tree, parent, setting, joined, owned, yyresult, error>>
vars == <<original, writing, delivered, texts, scanner, parser>>

Setting0(name, v) == [name |-> name, type |-> v.type, hex |-> v.hex, value |-> v.value]
Aggregate(type) == [type |-> type, hex |-> FALSE, value |-> << >>]

Init ==
  /\ original = [p \in {<< >>} |-> Setting0(Nil, Aggregate("GROUP"))]
  /\ writing = TRUE /\ delivered = TRUE /\ texts = << >>
  /\ buffers = << >> /\ current = 0 /\ nChars = 0 /\ pos = 1 /\ start = S!INITIAL
  /\ atEnd = FALSE /\ stack = << >> /\ string = << >> /\ token = S!NoToken
  /\ result = "destroyed"
  /\ P!ParserInit

\* config_setting_add and config_setting_set_*, where they refuse nothing
Add ==
  /\ writing /\ Cardinality(DOMAIN original) <= MaxSettings
  /\ \E p \in DOMAIN original, name \in SettingNames \cup {Nil},
        v \in Values \cup {Aggregate(t) : t \in Aggregates} :
       LET elems == {q \in DOMAIN original : q # << >> /\ Front(q) = p}
           new == Append(p, Cardinality(elems) + 1)
       IN /\ original[p].type \in {"GROUP", "LIST", "ARRAY"} /\ Len(p) < MaxNesting
          /\ original[p].type = "GROUP" <=> name # Nil
          /\ \A q \in elems : name # Nil => original[q].name # name
          /\ original[p].type = "ARRAY" =>
               v \in Values /\ v.type # "NONE" /\ \A q \in elems : original[q].type = v.type
          /\ \A q \in DOMAIN original : Len(q) <= Len(new)   \* in one order only
          /\ original' = [q \in DOMAIN original \cup {new} |->
                            IF q = new THEN Setting0(name, v) ELSE original[q]]
  /\ UNCHANGED <<writing, delivered, texts, scanner, parser>>

\* config_write, and the beginning of config_read
Write ==
  /\ writing
  /\ writing' = FALSE
  /\ buffers' = [k \in {1} |-> S!Buffer(Written(original), TRUE, FALSE)]
  /\ current' = 1 /\ result' = "running"
  /\ UNCHANGED <<original, delivered, texts, nChars, pos, start, atEnd, stack, string,
                 token, parser>>

Waits == ~ writing /\ yyresult = "running" /\ ~ P!Ready

\* yylex goes on until it has a token.
Scan ==
  /\ Waits /\ delivered
  /\ S!Scanning /\ S!Scan
  /\ delivered' = (token'.kind = "NONE")
  /\ UNCHANGED <<original, writing, texts, parser>>

Deliver ==
  /\ Waits /\ ~ delivered
  /\ P!Receive(P!Symbol(token.kind, IF token.kind = "NAME" THEN token.text ELSE Nil))
  /\ texts' = Append(texts, token.text)
  /\ delivered' = TRUE
  /\ UNCHANGED <<original, writing, scanner>>

Parse ==
  /\ ~ writing /\ P!Step
  /\ UNCHANGED <<original, writing, delivered, texts, scanner>>

Done == yyresult # "running" /\ UNCHANGED vars

Next == Add \/ Write \/ Scan \/ Deliver \/ Parse \/ Done

Spec == Init /\ [][Next]_vars
-----------------------------------------------------------------------------
(* Properties.                                                             *)

\* What has no text of its own in the language: a setting without a type is written as ???,
\* a name may be a keyword, and printf writes inf and nan.
Keyword(name) ==
  \E rule \in {26, 27} : <<Len(name), rule>> \in S!Matches(S!INITIAL, FALSE, name)
Readable ==
  \A p \in DOMAIN original :
    /\ original[p].type # "NONE"
    /\ original[p].name # Nil => ~ Keyword(original[p].name)
    /\ original[p].type = "FLOAT" => ~ Has(original[p].value, "n")

TextOf(indices) == FlattenSeq([i \in DOMAIN indices |-> texts[indices[i]]])
SameAt(p) ==
  LET s == original[p] IN
    /\ tree[p].name = s.name /\ tree[p].type = s.type /\ tree[p].hex = s.hex
    /\ IF s.type = "STRING" THEN TextOf(tree[p].value) = s.value
       ELSE tree[p].value # << >> => TextOf(tree[p].value) = Scalar(s)

\* A configuration that was written is read back, with every setting at its place and of its
\* name, type, format and value, unless it holds something the language cannot say; then the
\* file is refused as a whole (config_write, __config_read).
ReadsBack ==
  yyresult # "running" =>
    /\ yyresult = "ok" <=> Readable
    /\ yyresult = "ok" => /\ DOMAIN tree = DOMAIN original
                        /\ \A p \in DOMAIN original : SameAt(p)
=============================================================================
