SPECIFICATION LoginSpec
CONSTANTS
  m1 = m1  o1 = o1  o2 = o2  u1 = u1  u2 = u2  t1 = t1  t2 = t2
  None = None
  Mobile = {m1}
  Otp = {o1, o2}
  Account = {u1, u2}
  Token = {t1, t2}
  MaxAttempts = 2
  Threshold = 1
  MaxCrashes = 1
  MaxLoad = 3
SYMMETRY Fresh
INVARIANTS
  DeliveredOtpWorks
  OtpIsSpentOnce
  LoginsSurvive
CHECK_DEADLOCK FALSE
