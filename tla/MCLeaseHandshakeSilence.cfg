SPECIFICATION Spec
CONSTANTS
  n1 = n1
  Nodes = {n1}
  MaxAttempts = 3
  Probes = TRUE
  MaxLost = 2
  MaxRepeated = 0
  MaxLate = 0
  MaxFaults = 2
  MaxEpoch = 1
  MaxSeq = 4
  MaxLeases = 4
  MaxInvites = 6
INVARIANTS
  SilenceMeansActive
CHECK_DEADLOCK FALSE
