\* One crash may fall between checkpoint.pt and status.json of the final save.
CONSTANTS
  Tokens <- StreamOfSix
  Loss <- FallRiseFall
  Budgets <- OnlySix
  MaxSteps = 6
  SaveEvery = 2
  EvalEvery = 2
  EmptyLimit = 2
  None = None
  Torn = Torn
  MaxFaults = 1
  MaxRequests = 0
SPECIFICATION Spec
INVARIANT FinishedIsReported
CHECK_DEADLOCK FALSE
