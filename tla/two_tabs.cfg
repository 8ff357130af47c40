CONSTANTS
  s1 = s1  s2 = s2  r1 = r1  r2 = r2
  Students = {s1}
  Problems = {1, 2, 3}
  Requests = {r1, r2}
  Papers = {{1, 2, 3}, {1, 2}}
  Rosters = {{}, {s1}, {s2}}
  Sizes = {0, 2}
  Phases = {"before", "open"}
  MaxEdits = 0
  MaxFailures = 0
  Viewing = Viewing
SPECIFICATION Spec
SYMMETRY Interchangeable
INVARIANT FirstDealWins
CHECK_DEADLOCK FALSE
