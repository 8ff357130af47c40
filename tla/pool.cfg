CONSTANTS
  Min = 2  Max = 4  PerWorker = 2  ScaleDownAfter = 2
  MaxBacklog = 9  MaxTicks = 3  MaxDeaths = 3  MaxLeaving = 2
  Runners = {"m1", "m2", "m3"}  Files = 3  MaxRuns = 2
  Passwords = {"pw"}  TeacherCode = "code"
  Handlers = {h1, h2}  Free = Free  MaxTokens = 3
  People = {"ann", "bob"}  Tabs = {"t1", "t2"}  Nobody = "nobody"  MaxCalls = 4
  Owners = {"o1", "o2"}  Courses = {"c1"}  Students = {"s1", "s2"}
  Codes = {"code", "blank"}  Blank = "blank"
  Connections = {"x", "y"}  Quiet = Quiet  MaxRequests = 4
SPECIFICATION OperationsSpec
INVARIANT OperationsTypeOK
INVARIANT WithinBounds
INVARIANT MigrationsKeepData
INVARIANT LinksDieInTime
INVARIANT TabShowsItsUser
INVARIANT CohortsAreWhole
PROPERTY OnlyLateTicksFork
PROPERTY RecoversMin
CHECK_DEADLOCK FALSE
