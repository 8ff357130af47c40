CONSTANTS
  r1 = r1  r2 = r2  light = light  heavy = heavy
  Requests = {r1, r2}
  Horizon = 2
  Schedules <- OneTimetable
  Extras = {0}
  Cases = {light, heavy}
  Weight <- Equal
  Overrides = {}
  MaxEdits = 0
  DoublesAbove <- Above
SPECIFICATION Spec
INVARIANT LateNeverDocks
CHECK_DEADLOCK FALSE
