SPECIFICATION SecureSpec
CONSTANTS
  LeaseRows <- OneLeaseOnly
  Repeats = TRUE
  LastSeq = 6
  MaxSends = 2
  MaxAnswers = 0
CHECK_DEADLOCK FALSE
INVARIANTS
  HonestFramesAreServed
