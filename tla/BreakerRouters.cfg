SPECIFICATION RouterSpec
CONSTANTS
  p1 = p1 p2 = p2 q1 = q1 q2 = q2 None = None
  Routers = {p1, p2}
  Requests = {q1, q2}
  RouterOf <- Apart
  MaxVersion = 1
  MaxNow = 3
  MinRequests = 1
  MaxWindow = 1
  WindowTicks = 0
  BaseOpen = 1
  MaxOpen = 2
  ProbeLease = 1
  PollTicks = 1
  Punctual = TRUE
  Tokens = {t1, t2, t3}
SYMMETRY SymmetricApart
INVARIANT ProbeExclusive
PROPERTIES AdmitsRecentlyClosed StreakKept ClosesForAReason
