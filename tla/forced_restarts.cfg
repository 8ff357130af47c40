CONSTANTS
  s1 = s1  s2 = s2  w1 = w1  w2 = w2  k1 = k1  k2 = k2
  Submissions = {s1}
  Workers = {w1}
  Slots = {k1}
  WorkerOf <- SingleSlot
  MaxStalls = 1
  FaultKinds <- ForcedRestarts
  MaxFaults = 6
  NoSub = NoSub
  NoSlot = NoSlot
SPECIFICATION FairSpec
PROPERTY RestartNeverStrands
CHECK_DEADLOCK FALSE
