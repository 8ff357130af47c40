CONSTANTS
  Tests = 2
  Compilers = {"right", "crash", "flood", "stubborn"}
  Programs = {"right", "wrong", "crash", "memory", "loop", "flood", "stubborn", "burst"}
  Modes = {"docker", "host", "auto"}
  FaultKinds = {"slow", "spawn", "prepare", "daemon"}
  MaxFaults = 2
  Texts <- ShortTexts
  LaterTexts <- PostedTexts
  CheckersUsed <- EveryChecker
  Weights = {1, 2}
  Tolerance <- HalfTolerance
  MaxCasesKept = 2
  MaxChanges = 2
  Tokens = {0, 1}
  K = 2  W = 2
  MinPrints = 2
  MaxLength = 5
SPECIFICATION GradingSpec
INVARIANT GradingTypeOK
INVARIANT VerdictIsDeserved
INVARIANT NothingLeftBehind
INVARIANT JudgedAsWritten
INVARIANT ScreeningIsSound
PROPERTY GradingsEnd
CHECK_DEADLOCK FALSE
