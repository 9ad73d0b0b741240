SPECIFICATION Spec
CONSTANTS
  f1 = f1
  f2 = f2
  Absent = Absent
  NoSidecar = NoSidecar
  Empty = Empty
  None = None
  Files = {f1, f2}
  Dirs = {f2}
  ReadOnly = {}
  Missing = {3}
  Contents <- Numbers
  Mixed = 0
  Bodies <- Recurring
  Digest <- LeadDiffers
  NumFolders = 3
  Match <- AndDirectory
  GrepHits <- Apart
  FreeFds = 4
  MaxVer = 3
  MaxMishaps = 2
INVARIANTS NoChangeSwallowed LeakStopsShort ExhaustedIsMute AtMostTwice
PROPERTY ImplementsNotifier
