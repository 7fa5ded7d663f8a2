-------------------------- MODULE MCExclusiveQueue --------------------------
(* Small plans for ExclusiveQueue. *)
EXTENDS ExclusiveQueue, TLC

CONSTANTS a, b, x, g0, g1

\* The second job waits for the first's result, and may then run on either.
FirstThenBoth == [j \in {a, b} |-> IF j = a THEN {g0} ELSE {g0, g1}]
EitherDevice == [j \in {a, b} |-> {g0, g1}]
BAfterA == [j \in {a, b} |-> IF j = b THEN a ELSE NoGate]

PlanOrder == [j \in {a, b} |-> IF j = a THEN 1 ELSE 2]

\* A process of an earlier queue on one of the devices, or none at all.
XOnSecond == [p \in {x} |-> {g1}]
NoAdopted == [p \in {} |-> {}]
=============================================================================
