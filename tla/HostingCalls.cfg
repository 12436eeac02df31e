SPECIFICATION HostingFairSpec
CONSTANTS
  a = a  b = b  a1 = a1  a2 = a2  b1 = b1  c1 = c1
  None = None
  User <- TwoUsers
  Socket <- Tabs
  Owner <- TabOwner
  CallId = {c1}
  RateConfigs <- AllRates
  MaxDiamonds = 2
  MaxHalf = 4
INVARIANTS
    BusyConsistent
    PausedOrBilled
    NeverOverbilled
    LoggedOnceAsCharged
PROPERTIES
    AbandonedCallsEnd
