SPECIFICATION MCSpec
CONSTANTS
  Data <- Numbered
  Lengths <- Boundaries
  Sizes = {0, 1, 64, 100}
  ChunkLen = 128
  Radix = 8
  Word <- FourByteWord
  Junk = Junk
  Halves = {"stream", "words"}
  WordBits = 32
INVARIANTS MessageDigested LengthAppended DigestIsMD5
CHECK_DEADLOCK FALSE
