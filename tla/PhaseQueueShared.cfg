SPECIFICATION FairSpec
CONSTANTS
  d1 = d1  d2 = d2  x = x  g0 = g0  g1 = g1
  NoParent = NoParent  Ctl = Ctl  Peer = Peer
  Jobs <- TwoJobs
  Adopted = {}
  Gpus = {g0}
  Order <- PlanOrder
  GpuOf <- SharedDevice
  ParentOf <- NoParents
  MaxStarts = 1
  MaxExternal = 0
PROPERTY ReadyIsSettled
CHECK_DEADLOCK FALSE
