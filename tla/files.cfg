SPECIFICATION HalfSpec
CONSTANTS
  Threads <- SomeThreads
  Objects <- SomeObjects
  main = main
  part = part
  etc = etc
  k1 = k1
  k2 = k2
  t1 = t1
  t2 = t2
  o1 = o1
  o2 = o2
  o3 = o3
  o4 = o4
  Global = Global
  None = None
  NoDir = NoDir
  NoName = NoName
  Names = {main, part}
  Dirs = {etc}
  Keys = {k1, k2}
  Texts <- MCTexts
  Disks <- MCDisks
  Depth = 2
  Chunk = 1
  MaxOps = 3
SYMMETRY Alike
INVARIANTS NamesOwned StreamsClosed FailureReported LocaleOfTheCall
PROPERTIES ReadsWhatItIncludes
