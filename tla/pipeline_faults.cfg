CONSTANTS
  s1 = s1  s2 = s2  w1 = w1  w2 = w2  k1 = k1  k2 = k2
  Submissions = {s1, s2}
  Workers = {w1, w2}
  Slots = {k1, k2}
  WorkerOf <- TwoProcesses
  MaxStalls = 1
  FaultKinds <- EveryFault
  MaxFaults = 2
  NoSub = NoSub
  NoSlot = NoSlot
SPECIFICATION Spec
SYMMETRY Symmetric
INVARIANT TypeOK
INVARIANT DeliveryInv
INVARIANT SoleGrader
INVARIANT AnnouncedIsStored
INVARIANT FailureIsRecorded
PROPERTY ResultIsFinal
PROPERTY FollowsLifecycle
CHECK_DEADLOCK FALSE
