--------------------------- MODULE MCTrainingRun ---------------------------
(* Small training runs: a stream with windows of no, one and two targets.  *)
EXTENDS TrainingRun

\* Windows without targets, once one and once two in a row.
StreamOfSix == <<1, 0, 2, 0, 0, 1>>

\* The validation loss falls, rises and falls again.
FallRiseFall == <<5, 3, 4, 2, 6, 1>>

\* One budget that is reached with a surplus, one beyond --steps.
Reachable == {6, 9}
OnlySix == {6}

=============================================================================
