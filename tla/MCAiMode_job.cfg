SPECIFICATION AiSpec
CONSTANTS
  r1 = r1  r2 = r2  o1 = o1  o2 = o2  o3 = o3
  None = None
  Caller = {r1, r2}
  Cloud = {r1}
  Pages = 2
  Object = {o1, o2, o3}
  PageOf <- MCPageOf
  Concurrency = 2
  Batch = 1
  Rounds = 1
  Budget = 2
  MaxCost = 1
  Earlier = {0, 1}
  Setups <- MCSetups
INVARIANTS JobOK BudgetKept NoneForgotten DismissedOnEvidence
PROPERTIES TypedKept RequestEnds
CHECK_DEADLOCK FALSE
