SPECIFICATION TwoFairSpec
CONSTANTS
  f1 = f1
  Absent = Absent
  NoSidecar = NoSidecar
  Empty = Empty
  None = None
  Files = {f1}
  Dirs = {}
  ReadOnly = {}
  Missing = {}
  Contents <- Numbers
  Mixed = 0
  Bodies <- Fresh
  Digest <- LeadDiffers
  NumFolders = 1
  Match <- OneFolder
  GrepHits <- OneFile
  FreeFds = 4
  MaxVer = 2
  MaxMishaps = 0
INVARIANT OneOfThemSaw
PROPERTY SilentUnlessProvoked
