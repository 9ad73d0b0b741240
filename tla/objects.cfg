SPECIFICATION WSpec
CONSTANTS
  n1 = n1
  n2 = n2
  n3 = n3
  w1 = w1
  w2 = w2
  w3 = w3
  w4 = w4
  Root = Root
  Nil = Nil
  Nodes <- SomeNodes
  Names <- TheNames
  Paths <- TheNames
  Member <- ItsOwn
  Scalars = {"INT", "STRING"}
  Hooks <- Objects
  Chunk = 2
  AddToArrays = FALSE
SYMMETRY Addresses
INVARIANTS WrappersMatch Homogeneous PathsLeadBack
