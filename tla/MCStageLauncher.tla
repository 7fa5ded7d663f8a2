--------------------------- MODULE MCStageLauncher ---------------------------
(* Two stages, and room for the training of a killed controller.           *)
EXTENDS StageLauncher

=============================================================================
