SPECIFICATION PartSpec
CONSTANTS
  MaxLevel = 3
  Contents <- SmallContents
  Mixed = "mixed"
  Empty = "empty"
  Absent = "absent"
  Bodies = {"a", "b", "absent"}
  Digest <- SmallDigest
  First <- SmallFirst
  None = None
  MaxVer = 3
  MaxMishaps = 1
  Configs <- SmallConfigs
  MaxSweeps = 5
  Missing = "-"
  Junk = "junk"
  MaxFd = 6
  Lines <- SomeLines
  Sections = {"file_1", "file_10"}
  Keys = {"filename", "script"}
  MaxLines = 3
  NoKey = NoKey
  Nothing = Nothing
INVARIANTS GrowsEverySweep CascadeBounded OutputStaysOut StaleIsPredecessor ResultFromFile
CHECK_DEADLOCK FALSE
