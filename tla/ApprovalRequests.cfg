SPECIFICATION ApprovalSpec
CONSTANTS
  u1 = u1  r1 = r1  r2 = r2  owner = owner  staff = staff  foreign = foreign
  None = None
  User = {u1}
  Request = {r1, r2}
  Admin = {owner, staff, foreign}
  Owner = owner
  Can <- Permissions
  Sees <- Territory
  CountryOf <- Countries
  Domain = {"recharge", "withdraw", "agency", "gifts", "frames", "namefx", "vip", "seller", "ban"}
  Rates = {0, 25}
  SaleAmount = 4
  Start = 1
  Ceiling = 5
  MaxTimes = 3
  MaxSales = 1
SYMMETRY ApprovalSymmetry
INVARIANTS
    AppliedAgainOnlyByOwner
    DiamondsAreDecided
    OneRecordPerUser
