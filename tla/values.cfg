SPECIFICATION MCSpec
CONSTANTS
  Max32 = 2
  Max64 = 3
  MaxDouble = 12
  Exact = 3
  Grain = 4
  Strings = {"s"}
  Nil = Nil
  NoType = NoType
  NoValue = NoValue
  Chars <- SomeChars
  Letters <- SomeLetters
  Digits <- SomeDigits
  DigitValue <- ValueOf
  Nodes <- SomeNodes
  Root = "root"
  Null = Null
  Type <- TypeOf
  Name <- NameOf
  Elems <- Children
  MaxPath = 5
INVARIANTS Faithful KeptTypeTrue CastsFaithful FindsWhatIsNamed
CHECK_DEADLOCK FALSE
