SPECIFICATION Spec
CONSTANTS
  f1 = f1
  f2 = f2
  Absent = Absent
  NoSidecar = NoSidecar
  Empty = Empty
  None = None
  Files = {f1}
  Dirs = {}
  ReadOnly = {}
  Missing = {}
  Contents <- Numbers
  Mixed = 0
  Bodies <- Recurring
  Digest <- LeadShared
  NumFolders = 3
  Match <- Overlapping
  GrepHits <- OneFile
  FreeFds = 4
  MaxVer = 3
  MaxMishaps = 0
PROPERTY NewDigestNoticed
