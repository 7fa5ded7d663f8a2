---------------------------- MODULE MCPhaseQueue ----------------------------
(* Small plans for PhaseQueue. *)
EXTENDS PhaseQueue, TLC

CONSTANTS d1, d2, x, g0, g1

TwoJobs == {d1, d2}
PlanOrder == <<d1, d2>>

\* Two phases that continue one adopted parent, the first on its device.
TwoDevices == [p \in {d1, d2, x} |-> IF p = d2 THEN g1 ELSE g0]
TwoSuccessors == [j \in TwoJobs |-> x]

\* Two first phases on one device.
SharedDevice == [p \in TwoJobs |-> g0]
NoParents == [j \in TwoJobs |-> NoParent]
=============================================================================
