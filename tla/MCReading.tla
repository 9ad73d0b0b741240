------------------------------ MODULE MCReading ------------------------------
(***************************************************************************)
(* Reading and writing configurations for TLC.  In a behaviour, either the *)
(* scanner alone gets a text that is put together from some pieces, in a   *)
(* buffer of a few characters (Scanner); or the parser alone gets a        *)
(* sequence of tokens (Parser), with little room on its stacks, which grow *)
(* twice and can be exhausted, or with every type of value; or a           *)
(* configuration is built, written and read back (RoundTrip), with many    *)
(* kinds of values or with much nesting.                                   *)
(***************************************************************************)
EXTENDS Scanner, Parser

CONSTANTS
  MaxPieces,
  x, y,         \* names
  TypedKinds, MaxTypedTokens,
  MaxSettings,
  MaxNested     \* settings of a configuration that is nested deeply

\* A piece of more than one character, by its name.
Spelled(piece) ==
  CASE piece = "true" -> <<"t", "R", "u", "E">>
    [] piece = "open" -> <<" ", "@", "i", "n", "c", "l", "u", "d", "e", "\t", "\"">>
    [] OTHER -> <<piece>>

TextsOf(pieces) == {FlattenSeq([i \in DOMAIN s |-> Spelled(s[i])]) : s \in SeqOf(pieces, MaxPieces)}

Numbers == {"a", "L", "0", "5", ".", "e", "-", "x"}
Quoted == {"\"", "\\", "x", "4", "n", "/", "*", "\n", "NUL"}
Including == {"open", "a", "\"", "\n", "#", "true"}

MCTexts == TextsOf(Numbers) \cup TextsOf(Quoted) \cup TextsOf(Including)
MCIncluded == {<< >>, <<"a", "\n">>, <<"\"", "b">>, Spelled("open") \o <<"c", "\"", ";">>}

V(type, inHex, value) == [type |-> type, hex |-> inHex, value |-> value]

SomeNames == {<<"a">>, <<"b", "-", "1">>, <<"T", "r", "u", "e">>}

\* One for every way a value is written.
Scalars ==
  {V("BOOL", FALSE, TRUE), V("BOOL", FALSE, FALSE), V("INT", FALSE, -16), V("INT", TRUE, -2),
   V("INT64", FALSE, 7), V("INT64", TRUE, 10), V("INT64", TRUE, -1), V("NONE", FALSE, << >>),
   V("FLOAT", FALSE, <<"2">>), V("FLOAT", FALSE, <<"-", "1", ".", "5">>),
   V("FLOAT", FALSE, <<"1", "e", "+", "2", "0">>), V("FLOAT", FALSE, <<"i", "n", "f">>),
   V("STRING", FALSE, << >>), V("STRING", FALSE, <<"\"", "\\", "n">>),
   V("STRING", FALSE, <<"01", "4", "\n", "\t">>), V("STRING", FALSE, <<"/", "/", "#">>)}

VARIABLES
  what,
  original, writing, delivered, texts

TypedParser == INSTANCE Parser WITH
                 Kinds <- TypedKinds, Names <- {x}, InitDepth <- 10, MaxDepth <- 20,
                 MaxTokens <- MaxTypedTokens

Many == INSTANCE RoundTrip WITH
          SettingNames <- SomeNames, Values <- Scalars, Aggregates <- {"LIST", "ARRAY", "GROUP"},
          MaxNesting <- 2, tab_width <- 2, BufSize <- 8, ReadSize <- 5,
          InitDepth <- 20, MaxDepth <- 40

Nesting == INSTANCE RoundTrip WITH
             SettingNames <- {<<"a">>, <<"b">>}, Values <- {V("INT", FALSE, 3)},
             Aggregates <- {"LIST", "ARRAY", "GROUP"}, MaxSettings <- MaxNested,
             MaxNesting <- 3, tab_width <- 0, BufSize <- 8, ReadSize <- 5,
             InitDepth <- 20, MaxDepth <- 40

ASSUME /\ TypedParser!KindsAssumption /\ TypedParser!DepthAssumption
       /\ Many!P!KindsAssumption /\ Many!P!DepthAssumption /\ Many!P!NilAssumption
-----------------------------------------------------------------------------
building == <<original, writing, delivered, texts>>

NothingBuilt == original = << >> /\ writing = FALSE /\ delivered = TRUE /\ texts = << >>

\* The scanner has no text yet.
NoText ==
  /\ buffers = << >> /\ current = 0 /\ nChars = 0 /\ pos = 1 /\ start = INITIAL
  /\ atEnd = FALSE /\ stack = << >> /\ string = << >> /\ token = NoToken
  /\ result = "destroyed"

MCInit ==
  \/ what = "scanning" /\ Init /\ ParserInit /\ NothingBuilt
  \/ what = "nested" /\ ParserInit /\ NoText /\ NothingBuilt
  \/ what = "typed" /\ TypedParser!ParserInit /\ NoText /\ NothingBuilt
  \/ what \in {"values", "nesting"} /\ Many!Init

MCNext ==
  /\ what' = what
  /\ \/ what = "scanning" /\ Next /\ UNCHANGED <<building, parserVars>>
     \/ what = "nested" /\ ParserNext /\ UNCHANGED <<building, vars>>
     \/ what = "typed" /\ TypedParser!ParserNext /\ UNCHANGED <<building, vars>>
     \/ what = "values" /\ Many!Next
     \/ what = "nesting" /\ Nesting!Next

MCSpec == MCInit /\ [][MCNext]_<<what, building, parserVars, vars>>
-----------------------------------------------------------------------------
\* What was written is read back, setting by setting, or it holds what the language
\* cannot say (libconfig.c, config_write and __config_read).
WrittenIsReadBack == what \in {"values", "nesting"} => Many!ReadsBack
=============================================================================
