SPECIFICATION Spec
CONSTANTS
  n1 = n1
  n2 = n2
  n3 = n3
  a = a
  b = b
  c = c
  Root = Root
  Nil = Nil
  Nodes <- SomeNodes
  Names <- SomeNames
  Paths <- SomePaths
  Member <- UpToDot
  Scalars = {"INT"}
  Hooks = {"h"}
  Chunk = 2
  AddToArrays = FALSE
SYMMETRY Alike
INVARIANTS RoomForAll Tree NamesUnique HooksAlive
PROPERTY ImplementsTree
