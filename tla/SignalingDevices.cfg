SPECIFICATION SignalingFairSpec
CONSTANTS
  a = a  b = b  x = x
  a1 = a1  a2 = a2  b1 = b1  b2 = b2  x1 = x1
  c1 = c1  c2 = c2
  None = None
  User <- ThreeUsers
  Socket <- TwoTabsOneUser
  Owner <- TwoTabsOneUserOwner
  CallId = {c1, c2}
  IceCap = 1
INVARIANTS
    RingsSomewhere
    AnsweredOnOneDevice
    LoggedOnce
PROPERTIES
    AbandonedCallsEnd
CHECK_DEADLOCK FALSE
