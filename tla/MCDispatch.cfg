SPECIFICATION PartSpec
CONSTANTS
  t1 = t1
  t2 = t2
  s1 = s1
  s2 = s2
  p1 = p1
  p2 = p2
  Tasks = {t1, t2}
  PendingCapacity = 1
  Slots = {s1, s2}
  WorkerOf <- TwoWorkers
  Silent = {s1}
  FirstSlots <- MCFirstSlots
  MaxAttempts <- OneRetries
  Fanout = 3
  MaxEvents = 1
  MaxStarts = 1
  Producers = {p1, p2}
  Capacity = 2
  Modulus = 12
  FirstPositions = {0}
CHECK_DEADLOCK FALSE
INVARIANTS
  VerdictsAreSound
  QuietAfterStop
PROPERTIES
  QueueIsFifo
  SubmissionsAnswered
