---------------------------- MODULE MCDataEvents ----------------------------
(* A small service: one task with a hook. *)
EXTENDS DataEvents, TLC

CONSTANTS t1, h1

OneOnFirst == [h \in {h1} |-> t1]
=============================================================================
