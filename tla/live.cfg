SPECIFICATION FairSpec
CONSTANTS
  f1 = f1
  f2 = f2
  Absent = Absent
  NoSidecar = NoSidecar
  Empty = Empty
  None = None
  Files = {f1, f2}
  Dirs = {}
  ReadOnly = {f2}
  Missing = {}
  Contents <- Numbers
  Mixed = 0
  Bodies <- Fresh
  Digest <- LeadDiffers
  NumFolders = 1
  Match <- TwoFiles
  GrepHits <- Neighbours
  FreeFds = 6
  MaxVer = 2
  MaxMishaps = 1
PROPERTIES LastVersionHandled FallsSilent RunsEverySweep
