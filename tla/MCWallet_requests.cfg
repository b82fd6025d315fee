CONSTANTS
  p1 = p1
  j1 = j1
  j2 = j2
  c1 = c1
  c2 = c2
  c3 = c3
  FeeNum = 1
  FeeDen = 2
  Credit = 6
  MinBalance = 2
  Guard = 5
  MaxRequests = 2
  MaxAdjusts = 1
  Payment <- OnePayment
  Job <- TwoJobs
  Call <- ThreeCalls
  AdjustAmount <- DebitOrGift
  HoldAmount <- OneOrTwo
  CostAmount <- UpToThree
SPECIFICATION SpecNoBackup
SYMMETRY WalletSymmetry
INVARIANTS LedgerOK HoldsExact NothingOverspent MoneyConserved
