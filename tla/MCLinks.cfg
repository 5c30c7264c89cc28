SPECIFICATION PartSpec
CONSTANTS
  c1 = c1
  c2 = c2
  r1 = r1
  r2 = r2
  Calls = {c1, c2}
  CallsOf <- TwoTasksOneStream
  SilentCalls = {c2}
  MaxChunks = 3
  MaxRuns = 1
  Streams = {r1, r2}
  MaxInflight = 1
  MaxBuffered = 2
  Configs <- MCConfigs
  Leases <- OneLease
  MaxInbound = 3
  Radix = 16
  MaxText = 4
  MaxDimensions = 2
  MaxListed = 2
  StandardLabels <- LabelSets
  CanEncode <- Encodable
  Encode <- Framed
  Decode <- Decoded
  Inputs <- MCInputs
  Receivers <- MCReceivers
  Signer <- MCSigner
  Garbage <- MCGarbage
CHECK_DEADLOCK FALSE
INVARIANTS
  ResultIsTheWorkers
  RefusedOnlyWhenOverlapped
  AnswersAreSound
  FramesSayWhatWasSent
  AcceptedIsCanonical
  SignedIsUntouched
PROPERTIES
  CallsAndStopReturn
  TrunkEnds
