CONSTANTS
  e1 = e1
  r1 = r1
  r2 = r2
  CodesPerDay = 2
  AttemptsPerCode = 1
  StartsPerNetwork = 2
  SignupsPerNetwork = 1
  MaxCodes = 3
  MaxSessions = 2
  MaxDays = 2
  Email <- OneEmail
  Request <- TwoRequests
SPECIFICATION Spec
SYMMETRY LoginSymmetry
CHECK_DEADLOCK FALSE
INVARIANT BalanceReturns
