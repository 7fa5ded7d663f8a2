\* Crashes, refused writes, a pause and two budgets of one pretraining phase.
\* A run that dies before its first checkpoint stays down: no deadlock check.
CONSTANTS
  Tokens <- StreamOfSix
  Loss <- FallRiseFall
  Budgets <- Reachable
  MaxSteps = 6
  SaveEvery = 2
  EvalEvery = 2
  EmptyLimit = 2
  None = None
  Torn = Torn
  MaxFaults = 3
  MaxRequests = 2
SPECIFICATION FairSpec
INVARIANTS ExactContinuation LedgerExact StatusBehindCheckpoint PublishedIsFinal MilestonesValidated BestSelected
PROPERTIES NeverGoesBack PauseKeepsWork SavedRunFinishes
CHECK_DEADLOCK FALSE
