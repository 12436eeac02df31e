SPECIFICATION PayoutSpec
CONSTANTS
  u1 = u1  u2 = u2  w1 = w1  w2 = w2  b1 = b1  b2 = b2
  None = None
  User = {u1,u2}
  Wd = {w1, w2}
  BankAccount = {b1,b2}
  Settings <- TwoPolicies
  MaxBeans = 2
  MaxCents = 4
SYMMETRY PayoutSymmetry
INVARIANTS
    MoneyConserved
    PaidToVerifiedAccount
