SPECIFICATION AiSpec
CONSTANTS
  r1 = r1  r2 = r2  o1 = o1  o2 = o2  o3 = o3
  None = None
  Caller = {r1, r2}
  Cloud = {r1}
  Pages = 2
  Object = {o1, o2, o3}
  PageOf <- MCPageOf
  Concurrency = 2
  Batch = 1
  Rounds = 1
  Budget = 2
  MaxCost = 1
  Earlier = {0, 3}
  Setups <- MCSetups
CHECK_DEADLOCK FALSE
\* Each of these is violated; TLC looks at the one that is not a comment.
INVARIANT BlocksUntilTranslated
\* INVARIANT BlanksDoNotBlock
\* INVARIANT MovedDoNotBlock
\* INVARIANT DroppedDoNotBlock
\* PROPERTY OnlyPolishRewrites
\* INVARIANT JobWithinBudget
