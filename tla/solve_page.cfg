CONSTANTS
  MaxActs = 4  MaxCalls = 2
  Waiting = Waiting  Failed = Failed
SPECIFICATION FairSpec
INVARIANT TypeOK
INVARIANT ShownIsStored
INVARIANT WorkIsKept
PROPERTY SubmitIsAnswered
CHECK_DEADLOCK FALSE
