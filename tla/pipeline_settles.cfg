CONSTANTS
  s1 = s1  s2 = s2  w1 = w1  w2 = w2  k1 = k1  k2 = k2
  Submissions = {s1}
  Workers = {w1, w2}
  Slots = {k1, k2}
  WorkerOf <- TwoProcesses
  MaxStalls = 1
  FaultKinds <- EveryFault
  MaxFaults = 3
  NoSub = NoSub
  NoSlot = NoSlot
SPECIFICATION FairSpec
PROPERTY AcceptedSettles
CHECK_DEADLOCK FALSE
