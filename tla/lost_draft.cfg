CONSTANTS
  MaxActs = 4  MaxCalls = 2
  Waiting = Waiting  Failed = Failed
SPECIFICATION Spec
INVARIANT WrittenSinceSubmitIsKept
CHECK_DEADLOCK FALSE
