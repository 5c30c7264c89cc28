SPECIFICATION PartSpec
CONSTANTS
  Nodes = {n1}
  n1 = n1
  Epochs = {0, 1}
  Seqs = {0, 1, 2, 3}
  Caps = {c1, c2}
  c1 = c1
  c2 = c2
  Reports <- MCReports
  StaleTimeout = 1
  OfflineTimeout = 2
  MaxLeases = 2
  MaxOutbound = 2
  a = a
  b = b
  c = c
  Streams = {a, b, c}
  Programs <- SoundPrograms
  Sizes = {1, 2}
  MaxFrames = 2
  MaxStreamBytes = 3
  MaxTotalBytes = 5
  NumModulus = 4
INVARIANTS
  TypeOK
  LeasesAreGranted
  FramesArriveInOrder
  QueuesAreConsistent
PROPERTIES
  AdvancesOnlyByFreshTraffic
  LeaseContractHolds
  NoStarvation
