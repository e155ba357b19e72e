CONSTANTS
  s1 = s1
  s2 = s2
  c1 = c1
  c2 = c2
  r1 = r1
  r2 = r2
  r3 = r3
  None = None
  Cleaner = Cleaner
  Convs = {s1, s2}
  Conns = {c1, c2}
  Reqs = {r1, r2, r3}
  MaxConversations = 1
  Slow = {c1}
  Scenarios <- MCScenarios
SPECIFICATION Spec
INVARIANT ClosedMeansReleased
CHECK_DEADLOCK FALSE
