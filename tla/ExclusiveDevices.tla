-------------------------- MODULE ExclusiveDevices --------------------------
(***************************************************************************)
(* What a queue of scripts/run_exclusive_gpu_queue.py promises, whatever   *)
(* its controller does: "one project task per physical GPU", and no task   *)
(* of the plan is ever started twice.  Controllers, locks, records, passes *)
(* and crashes are not visible here.                                       *)
(***************************************************************************)
CONSTANTS Tasks,    \* the tasks of the plan, each run at most once
          Foreign,  \* any task of another cooperating controller
          Gpus

VARIABLES holder,   \* the tasks that run on each device
          begun     \* the tasks that were ever started

\* A task taken over from an earlier controller may run on several devices.
Init ==
  /\ begun \subseteq Tasks
  /\ holder \in [Gpus -> {{}} \cup {{t} : t \in begun}]

Begin(g, t) ==
  /\ holder[g] = {}
  /\ t \in (Tasks \ begun) \cup {Foreign}
  /\ holder' = [holder EXCEPT ![g] = {t}]
  /\ begun' = begun \cup ({t} \cap Tasks)

\* A task leaves all its devices at once.
End(t) ==
  /\ \E g \in Gpus : holder[g] = {t}
  /\ holder' = [g \in Gpus |-> holder[g] \ {t}]
  /\ UNCHANGED begun

EndForeign(g) ==
  /\ holder[g] = {Foreign}
  /\ holder' = [holder EXCEPT ![g] = {}]
  /\ UNCHANGED begun

Next ==
  \/ \E g \in Gpus : EndForeign(g) \/ \E t \in Tasks \cup {Foreign} : Begin(g, t)
  \/ \E t \in Tasks : End(t)

vars == <<holder, begun>>

Spec == Init /\ [][Next]_vars
=============================================================================
