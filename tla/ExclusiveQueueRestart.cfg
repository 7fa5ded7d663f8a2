SPECIFICATION Spec
CONSTANTS
  a = a  b = b  x = x  g0 = g0  g1 = g1
  NoGate = NoGate  NoGpu = NoGpu  Ctl = Ctl  Peer = Peer
  Jobs = {a, b}
  Gpus = {g0, g1}
  Rank <- PlanOrder
  Allowed <- EitherDevice
  GateOf <- BAfterA
  Adopted = {}
  AdoptedOn <- NoAdopted
  MaxStarts = 2
  MaxExternal = 0
INVARIANT RestartRecognisesWorkers
CHECK_DEADLOCK FALSE
