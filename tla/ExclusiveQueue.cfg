SPECIFICATION FairSpec
CONSTANTS
  a = a  b = b  x = x  g0 = g0  g1 = g1
  NoGate = NoGate  NoGpu = NoGpu  Ctl = Ctl  Peer = Peer
  Jobs = {a, b}
  Gpus = {g0, g1}
  Rank <- PlanOrder
  Allowed <- FirstThenBoth
  GateOf <- BAfterA
  Adopted = {x}
  AdoptedOn <- XOnSecond
  MaxStarts = 2
  MaxExternal = 1
INVARIANTS OneTaskPerDevice CompleteIsFinal GateRespected LocksAreOwned
PROPERTIES ImplementsDevices OpenGateSettles
CHECK_DEADLOCK FALSE
