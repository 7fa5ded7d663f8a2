SPECIFICATION FairSpec
CONSTANTS
  d1 = d1  d2 = d2  x = x  g0 = g0  g1 = g1
  NoParent = NoParent  Ctl = Ctl  Peer = Peer
  Jobs <- TwoJobs
  Adopted = {x}
  Gpus = {g0, g1}
  Order <- PlanOrder
  GpuOf <- TwoDevices
  ParentOf <- TwoSuccessors
  MaxStarts = 2
  MaxExternal = 1
INVARIANTS OneTaskPerDevice IntentBeforeLaunch CompleteIsFinal ParentFirst LeaseReturned
PROPERTIES SettledStays ImplementsDevices ReadyIsSettled
CHECK_DEADLOCK FALSE
