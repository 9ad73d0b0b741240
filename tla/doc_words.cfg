SPECIFICATION MCSpec
CONSTANTS
  Data <- Numbered
  Lengths <- Boundaries
  Sizes = {}
  ChunkLen = 128
  Radix = 8
  Word <- FourByteWord
  Junk = Junk
  Halves = {"words"}
  WordBits = 64
INVARIANTS DigestIsMD5
CHECK_DEADLOCK FALSE
