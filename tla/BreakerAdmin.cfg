SPECIFICATION FairSpec
CONSTANTS
  p1 = p1 p2 = p2 q1 = q1 q2 = q2 None = None
  Routers = {p1}
  Requests = {q1}
  RouterOf <- Alone
  MaxVersion = 2
  MaxNow = 4
  MinRequests = 1
  MaxWindow = 1
  WindowTicks = 0
  BaseOpen = 1
  MaxOpen = 2
  ProbeLease = 1
  PollTicks = 1
  Punctual = TRUE
  Tokens = {t1, t2}
INVARIANTS TypeOK AuthOfActive
PROPERTIES ClosesForAReason ResetClears
