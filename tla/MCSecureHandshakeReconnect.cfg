SPECIFICATION HsSpec
CONSTANTS
  i1 = i1
  i2 = i2
  r1 = r1
  r2 = r2
  Initiators = {i1, i2}
  Responders = {r1, r2}
  OfferOf <- TwoConnects
  PolicyOf <- MCPolicies
  Garbled <- MCGarbled
  SessionIdOf <- MCIds
  Nodes = {"a", "b"}
  Expiry = 2
  Rotating = {"b"}
  MaxEpoch = 2
CHECK_DEADLOCK FALSE
INVARIANTS
  ReconnectEstablishes
