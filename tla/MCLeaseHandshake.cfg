SPECIFICATION FairSpec
CONSTANTS
  n1 = n1
  Nodes = {n1}
  MaxAttempts = 2
  Probes = TRUE
  MaxLost = 1
  MaxRepeated = 1
  MaxLate = 1
  MaxFaults = 2
  MaxEpoch = 2
  MaxSeq = 2
  MaxLeases = 2
  MaxInvites = 30
INVARIANTS
  LeaseAgreement
PROPERTIES
  CallsReturn
  AcquireSucceeds
CHECK_DEADLOCK FALSE
