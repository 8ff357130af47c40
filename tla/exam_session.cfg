CONSTANTS
  s1 = s1  s2 = s2  r1 = r1  r2 = r2
  Students = {s1}
  Problems = {1, 2, 3}
  Requests = {r1, r2}
  Papers = {{1, 2, 3}, {1, 2}}
  Rosters = {{}, {s1}, {s2}}
  Sizes = {0, 2}
  Phases = {"before", "open"}
  MaxEdits = 1
  MaxFailures = 1
  Viewing = Viewing
  CoursesOf = {"c1", "c2"}  Candidates = {"s1", "s2"}
  Questions = {"q1", "q2", "q3", "q4"}
  NoCourse = "none"
  HandMarks = {7}
  MaxTouches = 5
  Tabs = {"t1", "t2"}
  Fields = {"title", "starter"}  Required = {"title"}
  MaxTyped = 3  MaxCases = 3  MaxClicks = 4
  ListPages = {"l1"}  RosterPages = {"r1"}  Pupils = {"s3"}  Helpers = {"h1"}
  MaxTitles = 2  MaxDeeds = 3
SPECIFICATION TeachingSpec
SYMMETRY Interchangeable
INVARIANT TypeOK
INVARIANT NothingDealtEarly
INVARIANT DealsFollowEdits
INVARIANT ShownAndHandedIn
INVARIANT FormStands
INVARIANT TeachersEditsStand
CHECK_DEADLOCK FALSE
