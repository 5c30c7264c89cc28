SPECIFICATION PartSpec
CONSTANTS
  s1 = s1
  s2 = s2
  s3 = s3
  Streams = {s1, s2, s3}
  ExecutionOf <- MCExecutionOf
  MaxInflight = 2
  MaxBuffered = 2
  RequireLease = TRUE
  RequireSl1 = FALSE
  Seqs = {1, 2}
  Sizes = {1, 2}
  Drains = {1, 2}
  Offsets = {1, 2, 3}
  OffsetModulus = 16
  Binds <- OneBind
  MaxAuthSeq = 1
  MaxProduced = 3
  MaxGeneration = 2
  LeaseRows <- TwoLeases
  Repeats = FALSE
  LastSeq = 4
  MaxSends = 3
  MaxAnswers = 2
  i1 = i1
  i2 = i2
  r1 = r1
  r2 = r2
  e1 = e1
  e2 = e2
  Initiators = {i1, i2}
  Responders = {r1, r2}
  OfferOf <- MCOffers
  PolicyOf <- MCPolicies
  Garbled <- MCGarbled
  SessionIdOf <- MCIds
  Nodes = {"a", "b", "c"}
  Expiry = 2
  Rotating = {"b"}
  MaxEpoch = 2
  WordBits = 2
  MaxSeq = 8
  MaxEvents = 2
  MaxFragments = 2
  LastEpoch = 2
SYMMETRY StreamSymmetry
CHECK_DEADLOCK FALSE
INVARIANTS
  TypeOK
  StreamTableSound
  TrunkAgrees
  SessionsAreSound
  NoReplay
  GenuineIsAccepted
  DeliveredAsSigned
PROPERTIES
  StreamsOnlyAdvance
  SessionsOnlyEnd
