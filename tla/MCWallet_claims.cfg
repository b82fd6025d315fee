CONSTANTS
  p1 = p1
  j1 = j1
  j2 = j2
  c1 = c1
  c2 = c2
  c3 = c3
  FeeNum = 1
  FeeDen = 2
  Credit = 6
  MinBalance = 2
  Guard = 5
  MaxRequests = 3
  MaxAdjusts = 0
  Payment <- OnePayment
  Job <- OneJob
  Call <- ThreeCalls
  AdjustAmount <- DebitOrGift
  HoldAmount <- OneOrTwo
  CostAmount <- UpToThree
SPECIFICATION Spec
SYMMETRY WalletSymmetry
\* Each of these is violated; TLC looks at the one that is not a comment.
INVARIANT NeverOverspent
\* INVARIANT IdleHoldsNothing
\* INVARIANT ClosedIsBooked
\* INVARIANT RefundTakenBack
