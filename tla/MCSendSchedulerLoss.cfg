SPECIFICATION SendSpec
CONSTANTS
  a = a
  b = b
  c = c
  Streams = {a, b, c}
  Programs <- DroppingPrograms
  Sizes = {1}
  MaxFrames = 2
  MaxStreamBytes = 2
  MaxTotalBytes = 4
  NumModulus = 4
INVARIANTS
  ZeroSilentLoss
