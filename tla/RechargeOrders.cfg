SPECIFICATION RechargeSpec
CONSTANTS
  t1 = t1  t2 = t2  u1 = u1  u2 = u2
  r1 = r1  r2 = r2  upi = upi  gpay = gpay
  None = None
  Txn = {t1, t2}
  User = {u1, u2}
  Utr = {r1, r2}
  Method = {upi}
  DiskMayFail = FALSE
  MaxCrashes = 3
SYMMETRY RequestSymmetry
INVARIANTS
    CreditedOnce
    LedgerIsBacked
PROPERTIES
    ImplementsOrder
