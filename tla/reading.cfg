SPECIFICATION MCSpec
CONSTANTS
  Texts <- MCTexts
  Included <- MCIncluded
  BufSize = 2
  ReadSize = 2
  MaxIncludeDepth = 2
  Strings = {TRUE, FALSE}
  Terminals = {TRUE, FALSE}
  MaxPieces = 4
  Kinds = {"ARRAY_START", "ARRAY_END", "LIST_START", "LIST_END", "GROUP_START", "GROUP_END", "NAME", "EQUALS", "INTEGER", "STRING", "COMMA", "SEMICOLON"}
  TypedKinds = {"ARRAY_START", "ARRAY_END", "LIST_START", "LIST_END", "NAME", "EQUALS", "BOOLEAN", "INTEGER", "HEX", "INTEGER64", "HEX64", "FLOAT", "STRING", "COMMA", "GARBAGE", "ERROR"}
  x = x
  y = y
  Names = {x, y}
  Nil = Nil
  InitDepth = 4
  MaxDepth = 11
  MaxTokens = 9
  MaxTypedTokens = 8
  MaxSettings = 2
  MaxNested = 3
INVARIANTS LongestMatch InputKept BuildsTheTree RefusesForCause WrittenIsReadBack
