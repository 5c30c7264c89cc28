SPECIFICATION FairSendSpec
CONSTANTS
  a = a
  b = b
  c = c
  Streams = {a, b, c}
  Programs <- ThreeStreams
  Sizes = {1}
  MaxFrames = 2
  MaxStreamBytes = 2
  MaxTotalBytes = 6
  NumModulus = 4
PROPERTIES
  NoStarvation
