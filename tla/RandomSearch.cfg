SPECIFICATION SearchFairSpec
CONSTANTS
  a = a  b = b  x = x
  a1 = a1  a2 = a2  b1 = b1  x1 = x1
  c1 = c1  c2 = c2  c3 = c3
  n1 = n1
  None = None
  User <- People
  Socket <- Tabs
  Owner <- TabOwner
  CallId = {c1, c2, c3}
  DirectCall = {c1}
  Session = {n1}
  RateConfigs <- StandardRate
  MaxDiamonds = 1
  MaxHalf = 2
  MaxAttempts = 2
INVARIANTS
    NeverStranded
PROPERTIES
    SearchEnds
CHECK_DEADLOCK FALSE
