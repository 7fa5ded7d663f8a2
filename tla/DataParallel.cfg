\* Two ranks, pauses seen by one of them, failures and restarts.
CONSTANTS
  World = 2
  Streams <- MixedFullEmpty
  Capacities <- OneOrThree
  SequenceLength = 2
  InputTarget = 6
  MaxMicrobatches = 4
  Steps = 3
  SaveEvery = 2
  StopPoints <- FirstOrNever
  MaxAttempts = 3
  MaxFaults = 2
  MaxRequests = 2
SPECIFICATION FairSpec
INVARIANTS ExactStream LeavesWithItsWork LockstepUntilRequest
PROPERTIES EveryAttemptEnds
CHECK_DEADLOCK FALSE
