SPECIFICATION FairLinkSpec
CONSTANTS
  c1 = c1
  Calls = {c1}
  CallsOf <- OneTask
  SilentCalls = {c1}
  MaxChunks = 1
  MaxRuns = 1
CHECK_DEADLOCK FALSE
PROPERTIES
  SendTaskReturns
