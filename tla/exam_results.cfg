CONSTANTS
  r1 = r1  r2 = r2  light = light  heavy = heavy
  Requests = {r1, r2}
  Horizon = 3
  Schedules <- Timetables
  Extras = {0, 1}
  Cases = {light, heavy}
  Weight <- Unequal
  Overrides <- Marks
  MaxEdits = 2
  DoublesAbove <- Above
  Owner = "owner"  Assistants = {"assistant"}  Students = {"student"}
  Problems = {"p1", "p2"}
  Slots = {"first", "second"}  Idle = Idle
  Desks = {"d1", "d2"}  Cells = {"cell"}  ExtraRows = {"extra"}
  Full = 1  MaxTouches = 3
  MaxRequests = 4  MaxCodes = 2  MaxCases = 1
SPECIFICATION ClassroomSpec
SYMMETRY Interchangeable
INVARIANT ClassroomTypeOK
INVARIANT HeldToDeadline
INVARIANT MarkIsFair
INVARIANT MarksStand
INVARIANT NoSecondWayIn
INVARIANT StaffAreNotStudents
PROPERTY GradesDoNotMove
PROPERTY ClosedTakesNothing
CHECK_DEADLOCK FALSE
