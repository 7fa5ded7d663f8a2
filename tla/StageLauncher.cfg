\* A kill of the controller, a crash of a training, a pause.
CONSTANTS
  Stages = 2
  Steps = 2
  SaveEvery = 1
  Slots = {w1, w2}
  NoSlot = none
  MaxKills = 1
  MaxCrashes = 1
  MaxRequests = 1
SPECIFICATION FairSpec
INVARIANT StagesInOrder
PROPERTY PipelineCompletes
CHECK_DEADLOCK FALSE
