-------------------------- MODULE PhaseQueueProofs --------------------------
(***************************************************************************)
(* What PhaseQueue guarantees for every plan, every set of devices and any *)
(* number of crashes and restarts.                                         *)
(*                                                                         *)
(* OneTaskPerDevice speaks of processes; the code keeps it by locks.  The  *)
(* invariant that carries the proof says who holds each lock, and what the *)
(* controller has established about the job it is about to launch.         *)
(***************************************************************************)
EXTENDS PhaseQueue, TLAPS

Launching == ctl \in {"leased", "intent"}

\* A live worker holds its device's lock, at most one worker does, and a
\* foreign task excludes every other holder.
WorkersHold == \A j \in Jobs : Alive(j) => j \in lease[GpuOf[j]]
OneWorker   == \A g \in Gpus : \A h, k \in lease[g] : h # Ctl /\ k # Ctl => h = k
PeerAlone   == \A g \in Gpus : peer[g] # "none" => lease[g] = {Peer}

\* Adopted parents hold no lock: they are resident from the start, so the
\* device reads busy until they are gone.
AdoptedSeen     == \A p \in Adopted : proc[p] \in {"resident", "exited"}
AdoptedUnleased == \A p \in Adopted : Alive(p) => lease[GpuOf[p]] \subseteq {Ctl}

\* The controller's own share of the locks, and the launch in progress.
OwnedLeased == \A j \in owned : Ctl \in lease[GpuOf[j]]
OwnedApart  == \A j, k \in owned : GpuOf[j] = GpuOf[k] => j = k
LaunchLeased ==
  Launching => /\ cursor \in 1 .. Len(Order)
               /\ lease[GpuOf[Current]] = {Ctl}
               /\ \A k \in owned : GpuOf[k] # GpuOf[Current]
IntentClear ==
  ctl = "intent" => \A p \in Adopted : GpuOf[p] = GpuOf[Current] => ~Alive(p)

Ownership ==
  /\ WorkersHold /\ OneWorker /\ PeerAlone
  /\ AdoptedSeen /\ AdoptedUnleased
  /\ OwnedLeased /\ OwnedApart /\ LaunchLeased /\ IntentClear

\* What the launch in progress has checked is still true when it starts.
LaunchChecked ==
  /\ ctl = "leased" => mem[Current] = "waiting"
  /\ ctl = "intent" => mem[Current] = "launching" /\ disk[Current] = "launching"
  /\ ctl = "intent" => status[Current] = "absent"
  /\ Launching => Ready(Current) /\ ParentGone(Current)

\* The first controller starts with nothing on record, and holds the process
\* handle of every job it finds running, so it knows how each of them exits.
FirstController ==
  /\ starts = 0 => ctl = "down" /\ \A j \in Jobs : mem[j] = "waiting" /\ disk[j] = "waiting"
  /\ starts = 1 /\ ctl # "down" => \A j \in Jobs : mem[j] = "running" => j \in owned

\* What the records say of a job that was started, finished or settled.
RecordsTruthful ==
  /\ FirstController
  /\ \A j \in Jobs : launches[j] > 0 => mem[j] # "waiting" /\ j \in logFile
  /\ \A p \in Procs : status[p] = "complete" => proc[p] \in {"resident", "exited"}
  /\ ctl # "down" => \A j \in Jobs : disk[j] \in Terminal => mem[j] = disk[j]
  /\ IntentBeforeLaunch
  /\ CompleteIsFinal
  /\ ParentFirst

IInv == TypeOK /\ Ownership /\ LaunchChecked /\ RecordsTruthful

-----------------------------------------------------------------------------
(* Types.                                                                  *)

LEMMA PlanTypes ==
  /\ Order \in Seq(Jobs) /\ Len(Order) \in Nat
  /\ MaxStarts \in Nat /\ MaxExternal \in Nat
BY PhaseQueueAssumption

LEMMA PlanNames ==
  /\ Procs = Jobs \cup Adopted /\ Jobs \cap Adopted = {}
  /\ Ctl \notin Procs /\ Peer \notin Procs /\ Peer # Ctl
  /\ \A p \in Procs : GpuOf[p] \in Gpus
BY PhaseQueueAssumption DEF Procs

LEMMA CurrentIsJob ==
  ASSUME ControllerTypes, cursor <= Len(Order)
  PROVE  cursor \in 1 .. Len(Order) /\ Current \in Jobs
BY PlanTypes DEF ControllerTypes, Current

LEMMA TypeInit == Init => TypeOK
<1> SUFFICES ASSUME Init PROVE TypeOK
  OBVIOUS
<1>1. ControllerTypes
  BY PlanTypes DEF Init, ControllerTypes, JobState, Terminal
<1>2. WorkerTypes
  BY DEF Init, WorkerTypes
<1>3. DeviceTypes
  BY PlanTypes DEF Init, DeviceTypes
<1>4. FlagTypes
  BY DEF Init, FlagTypes
<1> QED
  BY <1>1, <1>2, <1>3, <1>4 DEF TypeOK

LEMMA TypeStep == TypeOK /\ [Next]_vars => TypeOK'
<1> SUFFICES ASSUME ControllerTypes, WorkerTypes, DeviceTypes, FlagTypes, [Next]_vars
             PROVE  TypeOK'
  BY DEF TypeOK
<1>1. CASE Start
  <2>1. ControllerTypes'
    BY <1>1, PlanTypes DEF ControllerTypes, Start, Restored, devVars, workVars, JobState, Terminal, Procs
  <2>2. WorkerTypes'
    BY <1>1 DEF WorkerTypes, Start, devVars, workVars
  <2>3. DeviceTypes'
    BY <1>1 DEF DeviceTypes, Start, devVars, workVars
  <2>4. FlagTypes'
    BY <1>1 DEF FlagTypes, Start, devVars, workVars
  <2> QED
    BY <2>1, <2>2, <2>3, <2>4 DEF TypeOK
<1>2. CASE EndPass \/ Wake \/ Stop \/ Crash
  <2>1. ControllerTypes'
    BY <1>2, PlanTypes DEF ControllerTypes, EndPass, Save, Wake, Stop, Crash, Leave, devVars, workVars
  <2>2. WorkerTypes'
    BY <1>2 DEF WorkerTypes, EndPass, Save, Wake, Stop, Crash, Leave, devVars, workVars
  <2>3. DeviceTypes'
    BY <1>2 DEF DeviceTypes, EndPass, Save, Wake, Stop, Crash, Leave, devVars, workVars
  <2>4. FlagTypes'
    BY <1>2 DEF FlagTypes, EndPass, Save, Wake, Stop, Crash, Leave, devVars, workVars
  <2> QED
    BY <2>1, <2>2, <2>3, <2>4 DEF TypeOK
<1>3. ASSUME NEW j \in Jobs, SkipSettled(j) \/ Reap(j) \/ RejectBinding(j) \/ KeepWaiting(j)
      PROVE  TypeOK'
  <2>1. ControllerTypes'
    BY <1>3, PlanTypes DEF ControllerTypes, SkipSettled, Reap, Outcome, RejectBinding, KeepWaiting,
            Handling, Advance, devVars, workVars, JobState, Terminal
  <2>2. WorkerTypes'
    BY <1>3 DEF WorkerTypes, SkipSettled, Reap, Outcome, RejectBinding, KeepWaiting,
            Handling, Advance, devVars, workVars
  <2>3. DeviceTypes'
    BY <1>3 DEF DeviceTypes, SkipSettled, Reap, Outcome, RejectBinding, KeepWaiting,
            Handling, Advance, devVars, workVars
  <2>4. FlagTypes'
    BY <1>3 DEF FlagTypes, SkipSettled, Reap, Outcome, RejectBinding, KeepWaiting,
            Handling, Advance, devVars, workVars
  <2> QED
    BY <2>1, <2>2, <2>3, <2>4 DEF TypeOK
<1>4. ASSUME NEW j \in Jobs, QueryFails(j) \/ TakeLease(j) \/ AbandonLease(j) \/ RefuseLaunch(j) \/ PersistIntent(j)
      PROVE  TypeOK'
  <2>1. ControllerTypes'
    BY <1>4, PlanTypes DEF ControllerTypes, QueryFails, TakeLease, AbandonLease, RefuseLaunch, PersistIntent, Save,
            Handling, Holding, DropLease, Advance, devVars, workVars, JobState, Terminal
  <2>2. WorkerTypes'
    BY <1>4 DEF WorkerTypes, QueryFails, TakeLease, AbandonLease, RefuseLaunch, PersistIntent, Save,
            Handling, Holding, DropLease, Advance, devVars, workVars
  <2>3. DeviceTypes'
    BY <1>4 DEF DeviceTypes, QueryFails, TakeLease, AbandonLease, RefuseLaunch, PersistIntent, Save,
            Handling, Holding, DropLease, Advance, devVars, workVars, Holders
  <2>4. FlagTypes'
    BY <1>4 DEF FlagTypes, QueryFails, TakeLease, AbandonLease, RefuseLaunch, PersistIntent, Save,
            Handling, Holding, DropLease, Advance, devVars, workVars
  <2> QED
    BY <2>1, <2>2, <2>3, <2>4 DEF TypeOK
<1>5. ASSUME NEW j \in Jobs, Spawn(j) \/ SpawnUnrecorded(j) \/ SpawnFails(j)
      PROVE  TypeOK'
  <2>1. ControllerTypes'
    BY <1>5, PlanTypes DEF ControllerTypes, Spawn, SpawnUnrecorded, Started, LeaseInherited, SpawnFails, Holding, DropLease, Advance,
            devVars, workVars, JobState, Terminal, Procs
  <2>2. WorkerTypes'
    BY <1>5 DEF WorkerTypes, Spawn, SpawnUnrecorded, Started, LeaseInherited, SpawnFails, Holding, DropLease, Advance,
            devVars, workVars, Procs
  <2>3. DeviceTypes'
    BY <1>5 DEF DeviceTypes, Spawn, SpawnUnrecorded, Started, LeaseInherited, SpawnFails, Holding, DropLease, Advance,
            devVars, workVars, Holders, Procs
  <2>4. FlagTypes'
    BY <1>5 DEF FlagTypes, Spawn, SpawnUnrecorded, Started, LeaseInherited, SpawnFails, Holding, DropLease, Advance,
            devVars, workVars
  <2> QED
    BY <2>1, <2>2, <2>3, <2>4 DEF TypeOK
<1>6. ASSUME NEW p \in Procs, Worker(p)
      PROVE  TypeOK'
  <2>1. ControllerTypes'
    BY <1>6 DEF ControllerTypes, Worker, BecomeResident, WriteFinalStatus, Exit,
            ctlVars, devVars
  <2>2. WorkerTypes'
    BY <1>6 DEF WorkerTypes, Worker, BecomeResident, WriteFinalStatus, Exit,
            ctlVars, devVars
  <2>3. DeviceTypes'
    BY <1>6 DEF DeviceTypes, Worker, BecomeResident, WriteFinalStatus, Exit,
            ctlVars, devVars
  <2>4. FlagTypes'
    BY <1>6 DEF FlagTypes, Worker, BecomeResident, WriteFinalStatus, Exit,
            ctlVars, devVars
  <2> QED
    BY <2>1, <2>2, <2>3, <2>4 DEF TypeOK
<1>7. CASE Environment
  <2>1. ControllerTypes'
    BY <1>7 DEF ControllerTypes, Environment, Publish, Hinder, ClearAndWakeup,
            PeerLaunch, PeerResident, PeerExit, ctlVars, devVars, workVars
  <2>2. WorkerTypes'
    BY <1>7 DEF WorkerTypes, Environment, Publish, Hinder, ClearAndWakeup,
            PeerLaunch, PeerResident, PeerExit, ctlVars, devVars, workVars
  <2>3. DeviceTypes'
    BY <1>7, PlanTypes DEF DeviceTypes, Environment, Publish, Hinder, ClearAndWakeup,
            PeerLaunch, PeerResident, PeerExit, ctlVars, devVars, workVars, Holders
  <2>4. FlagTypes'
    BY <1>7 DEF FlagTypes, Environment, Publish, Hinder, ClearAndWakeup,
            PeerLaunch, PeerResident, PeerExit, ctlVars, devVars, workVars
  <2> QED
    BY <2>1, <2>2, <2>3, <2>4 DEF TypeOK
<1>8. CASE UNCHANGED vars
  BY <1>8 DEF TypeOK, ControllerTypes, WorkerTypes, DeviceTypes, FlagTypes, vars
<1> QED
  BY <1>1, <1>2, <1>3, <1>4, <1>5, <1>6, <1>7, <1>8 DEF Next, Controller

-----------------------------------------------------------------------------
(* Who holds the locks.  Each step below is an effect on the locks; the   *)
(* steps after them say which actions have it.                            *)

LEMMA OwnershipInit == Init => Ownership
BY PhaseQueueAssumption
DEF Init, Ownership, WorkersHold, OneWorker, PeerAlone, AdoptedSeen, AdoptedUnleased,
    OwnedLeased, OwnedApart, LaunchLeased, IntentClear, Launching, Alive, Procs

LEMMA OwnershipStep ==
  ASSUME TypeOK, Ownership, [Next]_vars
  PROVE  Ownership'
<1> USE PlanNames DEF Ownership, Launching, Current, Alive
<1>0. /\ proc \in [Procs -> {"none", "starting", "resident", "exited"}]
      /\ lease \in [Gpus -> SUBSET Holders]
      /\ peer \in [Gpus -> {"none", "starting", "resident"}]
      /\ owned \subseteq Jobs
      /\ cursor \in 1 .. Len(Order) + 1
      /\ cursor <= Len(Order) => cursor \in 1 .. Len(Order) /\ Current \in Jobs
  BY CurrentIsJob DEF TypeOK, ControllerTypes, WorkerTypes, DeviceTypes
\* Nothing is taken or given up, and no launch is in progress.
<1>1. ASSUME UNCHANGED <<lease, proc, peer, owned>>, ctl' \in {"pass", "wait"}
     PROVE  Ownership'
  BY <1>0, <1>1
  DEF WorkersHold, OneWorker, PeerAlone, AdoptedSeen, AdoptedUnleased,
      OwnedLeased, OwnedApart, LaunchLeased, IntentClear
\* Nothing the locks depend on changes.
<1>2. ASSUME UNCHANGED <<lease, proc, peer, owned, ctl, cursor>>
     PROVE  Ownership'
  BY <1>0, <1>2
  DEF WorkersHold, OneWorker, PeerAlone, AdoptedSeen, AdoptedUnleased,
      OwnedLeased, OwnedApart, LaunchLeased, IntentClear
\* The controller ends: its share of every lock goes, the workers' stays.
<1>3. ASSUME UNCHANGED <<proc, peer>>, ctl' = "down", owned' = {},
            lease' = [g \in Gpus |-> lease[g] \ {Ctl}]
     PROVE  Ownership'
  BY <1>0, <1>3
  DEF WorkersHold, OneWorker, PeerAlone, AdoptedSeen, AdoptedUnleased,
      OwnedLeased, OwnedApart, LaunchLeased, IntentClear
\* A launch is given up.
<1>4. ASSUME Launching, ctl' = "pass", UNCHANGED <<proc, peer, owned>>,
            lease' = [lease EXCEPT ![GpuOf[Current]] = @ \ {Ctl}]
     PROVE  Ownership'
  BY <1>0, <1>4
  DEF WorkersHold, OneWorker, PeerAlone, AdoptedSeen, AdoptedUnleased,
      OwnedLeased, OwnedApart, LaunchLeased, IntentClear
\* A finished job is reaped.
<1>5. ASSUME NEW j \in Jobs, ctl = "pass", ctl' = "pass", UNCHANGED <<proc, peer>>,
            owned' = owned \ {j},
            lease' = IF j \in owned
                     THEN [lease EXCEPT ![GpuOf[j]] = @ \ {Ctl}] ELSE lease
     PROVE  Ownership'
  BY <1>0, <1>5
  DEF WorkersHold, OneWorker, PeerAlone, AdoptedSeen, AdoptedUnleased,
      OwnedLeased, OwnedApart, LaunchLeased, IntentClear
\* A free lock is taken.
<1>6. ASSUME NEW j \in Jobs, cursor \in 1 .. Len(Order), j = Current,
            lease[GpuOf[j]] = {}, lease' = [lease EXCEPT ![GpuOf[j]] = {Ctl}],
            ctl' = "leased", UNCHANGED <<proc, peer, owned, cursor>>
     PROVE  Ownership'
  BY <1>0, <1>6
  DEF WorkersHold, OneWorker, PeerAlone, AdoptedSeen, AdoptedUnleased,
      OwnedLeased, OwnedApart, LaunchLeased, IntentClear
\* Asked again under the lock, the device shows no resident process.
<1>7. ASSUME ctl = "leased", ctl' = "intent",
            UNCHANGED <<lease, proc, peer, owned, cursor>>,
            \A p \in Adopted : GpuOf[p] = GpuOf[Current] => proc[p] # "resident"
     PROVE  Ownership'
  BY <1>0, <1>7
  DEF WorkersHold, OneWorker, PeerAlone, AdoptedSeen, AdoptedUnleased,
      OwnedLeased, OwnedApart, LaunchLeased, IntentClear
\* The worker starts and shares the lock.
<1>8. ASSUME NEW j \in Jobs, j = Current, ctl = "intent", ctl' = "pass",
            UNCHANGED peer, owned' = owned \cup {j},
            proc' = [proc EXCEPT ![j] = "starting"],
            lease' = [lease EXCEPT ![GpuOf[j]] = @ \cup {j}]
     PROVE  Ownership'
  BY <1>0, <1>8
  DEF WorkersHold, OneWorker, PeerAlone, AdoptedSeen, AdoptedUnleased,
      OwnedLeased, OwnedApart, LaunchLeased, IntentClear
\* A process creates its context.
<1>9. ASSUME NEW p \in Procs, proc[p] = "starting",
            proc' = [proc EXCEPT ![p] = "resident"],
            UNCHANGED <<lease, peer, owned, ctl, cursor>>
     PROVE  Ownership'
  BY <1>0, <1>9
  DEF WorkersHold, OneWorker, PeerAlone, AdoptedSeen, AdoptedUnleased,
      OwnedLeased, OwnedApart, LaunchLeased, IntentClear
\* A process ends and lets go of its lock.
<1>10. ASSUME NEW p \in Procs, proc' = [proc EXCEPT ![p] = "exited"],
            lease' = [g \in Gpus |-> lease[g] \ {p}],
            UNCHANGED <<peer, owned, ctl, cursor>>
     PROVE  Ownership'
  BY <1>0, <1>10
  DEF WorkersHold, OneWorker, PeerAlone, AdoptedSeen, AdoptedUnleased,
      OwnedLeased, OwnedApart, LaunchLeased, IntentClear
\* Another controller launches on a free device, sees its task and ends it.
<1>11. ASSUME NEW g \in Gpus, lease[g] = {},
            \A p \in Adopted : GpuOf[p] = g => proc[p] # "resident",
            lease' = [lease EXCEPT ![g] = {Peer}],
            peer' = [peer EXCEPT ![g] = "starting"],
            UNCHANGED <<proc, owned, ctl, cursor>>
     PROVE  Ownership'
  BY <1>0, <1>11
  DEF WorkersHold, OneWorker, PeerAlone, AdoptedSeen, AdoptedUnleased,
      OwnedLeased, OwnedApart, LaunchLeased, IntentClear
<1>12. ASSUME NEW g \in Gpus, peer[g] # "none", peer' = [peer EXCEPT ![g] = "resident"],
            UNCHANGED <<lease, proc, owned, ctl, cursor>>
     PROVE  Ownership'
  BY <1>0, <1>12
  DEF WorkersHold, OneWorker, PeerAlone, AdoptedSeen, AdoptedUnleased,
      OwnedLeased, OwnedApart, LaunchLeased, IntentClear
<1>13. ASSUME NEW g \in Gpus, peer[g] # "none", peer' = [peer EXCEPT ![g] = "none"],
            lease' = [lease EXCEPT ![g] = @ \ {Peer}],
            UNCHANGED <<proc, owned, ctl, cursor>>
     PROVE  Ownership'
  BY <1>0, <1>13
  DEF WorkersHold, OneWorker, PeerAlone, AdoptedSeen, AdoptedUnleased,
      OwnedLeased, OwnedApart, LaunchLeased, IntentClear
<1>14. CASE Start \/ Wake
  BY <1>0, <1>14, <1>1
  DEF Start, Wake, devVars, workVars
<1>15. CASE EndPass
  BY <1>0, <1>15, <1>1, <1>3
  DEF EndPass, Save, Leave, devVars, workVars
<1>16. CASE Stop \/ Crash
  BY <1>0, <1>16, <1>3
  DEF Stop, Crash, Leave, devVars, workVars
<1>17. ASSUME NEW j \in Jobs, SkipSettled(j) \/ RejectBinding(j) \/ KeepWaiting(j)
      PROVE  Ownership'
  BY <1>0, <1>17, <1>1
  DEF SkipSettled, RejectBinding, KeepWaiting, Handling, Advance,
      devVars, workVars
<1>18. ASSUME NEW j \in Jobs, Reap(j)
      PROVE  Ownership'
  BY <1>0, <1>18, <1>5
  DEF Reap, Outcome, Handling, Advance, devVars, workVars
<1>19. ASSUME NEW j \in Jobs, TakeLease(j)
      PROVE  Ownership'
  BY <1>0, <1>19, <1>6
  DEF TakeLease, CanLease, Handling, devVars, workVars
<1>20. ASSUME NEW j \in Jobs, AbandonLease(j) \/ RefuseLaunch(j) \/ SpawnFails(j) \/ QueryFails(j)
      PROVE  Ownership'
  BY <1>0, <1>20, <1>1, <1>4
  DEF QueryFails, Handling, AbandonLease, RefuseLaunch, SpawnFails, Holding, DropLease, Advance,
      devVars, workVars
<1>21. ASSUME NEW j \in Jobs, PersistIntent(j)
      PROVE  Ownership'
  BY <1>0, <1>21, <1>7
  DEF PersistIntent, Eligible, DeviceIdle, Holding, devVars, workVars
<1>22. ASSUME NEW j \in Jobs, Spawn(j) \/ SpawnUnrecorded(j)
      PROVE  Ownership'
  BY <1>0, <1>22, <1>8
  DEF Spawn, SpawnUnrecorded, Started, LeaseInherited, Holding, Advance, devVars
<1>23. ASSUME NEW p \in Procs, Worker(p)
      PROVE  Ownership'
  BY <1>0, <1>23, <1>2, <1>9, <1>10
  DEF Worker, BecomeResident, WriteFinalStatus, Exit, ctlVars, devVars
<1>24. CASE Environment
  BY <1>0, <1>24, <1>2, <1>11, <1>12, <1>13
  DEF Environment, Publish, Hinder, ClearAndWakeup, PeerLaunch, PeerResident,
      PeerExit, DeviceIdle, ctlVars, devVars, workVars
<1>25. CASE UNCHANGED vars
  BY <1>0, <1>25, <1>2
  DEF vars
<1> QED
  BY <1>14, <1>15, <1>16, <1>17, <1>18, <1>19, <1>20, <1>21, <1>22, <1>23, <1>24, <1>25
  DEF Next, Controller

-----------------------------------------------------------------------------
(* What the records say.                                                   *)

LEMMA RecordsInit == Init => LaunchChecked /\ RecordsTruthful
BY PlanNames
DEF Init, LaunchChecked, RecordsTruthful, IntentBeforeLaunch, CompleteIsFinal, ParentFirst,
    FirstController, PhaseFinished, Terminal, Launching

LEMMA RecordsStep ==
  ASSUME TypeOK, Ownership, LaunchChecked, RecordsTruthful, [Next]_vars
  PROVE  LaunchChecked' /\ RecordsTruthful'
<1>a. Launching => cursor <= Len(Order) /\ Current \in Jobs /\ ~Alive(Current)
  <2>1. cursor <= Len(Order) => Current \in Jobs
    BY CurrentIsJob DEF TypeOK
  <2> QED
    BY <2>1, PlanNames DEF TypeOK, ControllerTypes, Ownership, WorkersHold, LaunchLeased
<1> USE PlanNames DEF Launching, Current, Alive, Ready, ParentFinished, ParentGone,
        PhaseFinished, Terminal, IntentBeforeLaunch, CompleteIsFinal, ParentFirst, FirstController
<1>b. cursor <= Len(Order) => Current \in Jobs
  BY CurrentIsJob DEF TypeOK
<1>c. /\ mem \in [Jobs -> JobState] /\ disk \in [Jobs -> JobState]
      /\ proc \in [Procs -> {"none", "starting", "resident", "exited"}]
      /\ status \in [Procs -> {"absent", "running", "complete"}]
      /\ launches \in [Jobs -> Nat] /\ logFile \subseteq Jobs
      /\ binding \in [Jobs -> {"none"} \cup Publication]
      /\ cursor \in 1 .. Len(Order) + 1 /\ starts \in Nat
      /\ exitCode \in [Procs -> {0, 1}] /\ owned \subseteq Jobs
  BY PlanTypes DEF TypeOK, ControllerTypes, WorkerTypes
<1>d. ParentOf \in [Jobs -> Procs \cup {NoParent}]
  BY PhaseQueueAssumption
<1>1. CASE Start
  <2>1. LaunchChecked'
    BY <1>a, <1>b, <1>c, <1>d, <1>1 DEF LaunchChecked, RecordsTruthful, Start, Restored, devVars, workVars
  <2>2. RecordsTruthful'
    BY <1>a, <1>b, <1>c, <1>d, <1>1 DEF LaunchChecked, RecordsTruthful, Start, Restored, devVars, workVars
  <2> QED
    BY <2>1, <2>2
<1>2. CASE EndPass
  <2>1. LaunchChecked'
    BY <1>a, <1>b, <1>c, <1>d, <1>2 DEF LaunchChecked, RecordsTruthful, EndPass, Save, Leave, devVars, workVars
  <2>2. RecordsTruthful'
    BY <1>a, <1>b, <1>c, <1>d, <1>2 DEF LaunchChecked, RecordsTruthful, EndPass, Save, Leave, devVars, workVars
  <2> QED
    BY <2>1, <2>2
<1>3. CASE Wake \/ Stop \/ Crash
  <2>1. LaunchChecked'
    BY <1>a, <1>b, <1>c, <1>d, <1>3 DEF LaunchChecked, RecordsTruthful, Wake, Stop, Crash, Leave, devVars, workVars
  <2>2. RecordsTruthful'
    BY <1>a, <1>b, <1>c, <1>d, <1>3 DEF LaunchChecked, RecordsTruthful, Wake, Stop, Crash, Leave, devVars, workVars
  <2> QED
    BY <2>1, <2>2
<1>4. ASSUME NEW j \in Jobs, SkipSettled(j) \/ KeepWaiting(j) \/ RejectBinding(j)
      PROVE  LaunchChecked' /\ RecordsTruthful'
  <2>1. LaunchChecked'
    BY <1>a, <1>b, <1>c, <1>d, <1>4 DEF LaunchChecked, RecordsTruthful, SkipSettled, KeepWaiting, RejectBinding, Handling, Advance,
      devVars, workVars
  <2>2. RecordsTruthful'
    BY <1>a, <1>b, <1>c, <1>d, <1>4 DEF LaunchChecked, RecordsTruthful, SkipSettled, KeepWaiting, RejectBinding, Handling, Advance,
      devVars, workVars
  <2> QED
    BY <2>1, <2>2
<1>5. ASSUME NEW j \in Jobs, Reap(j)
      PROVE  LaunchChecked' /\ RecordsTruthful'
  <2>1. LaunchChecked'
    BY <1>a, <1>b, <1>c, <1>d, <1>5 DEF LaunchChecked, RecordsTruthful, Reap, Outcome, ExitedCleanly,
        Handling, Advance, devVars, workVars
  <2>2. RecordsTruthful'
    BY <1>a, <1>b, <1>c, <1>d, <1>5 DEF LaunchChecked, RecordsTruthful, Reap, Outcome, ExitedCleanly,
        Handling, Advance, devVars, workVars
  <2> QED
    BY <2>1, <2>2
<1>6. ASSUME NEW j \in Jobs, TakeLease(j)
      PROVE  LaunchChecked' /\ RecordsTruthful'
  <2>1. LaunchChecked'
    BY <1>a, <1>b, <1>c, <1>d, <1>6 DEF LaunchChecked, RecordsTruthful, TakeLease, CanLease, Handling, devVars, workVars
  <2>2. RecordsTruthful'
    BY <1>a, <1>b, <1>c, <1>d, <1>6 DEF LaunchChecked, RecordsTruthful, TakeLease, CanLease, Handling, devVars, workVars
  <2> QED
    BY <2>1, <2>2
<1>7. ASSUME NEW j \in Jobs, AbandonLease(j) \/ RefuseLaunch(j) \/ SpawnFails(j) \/ QueryFails(j)
      PROVE  LaunchChecked' /\ RecordsTruthful'
  <2>1. LaunchChecked'
    BY <1>a, <1>b, <1>c, <1>d, <1>7 DEF LaunchChecked, RecordsTruthful, AbandonLease, RefuseLaunch, SpawnFails, QueryFails,
      Handling, Holding, Advance, devVars, workVars
  <2>2. RecordsTruthful'
    BY <1>a, <1>b, <1>c, <1>d, <1>7 DEF LaunchChecked, RecordsTruthful, AbandonLease, RefuseLaunch, SpawnFails, QueryFails,
      Handling, Holding, Advance, devVars, workVars
  <2> QED
    BY <2>1, <2>2
<1>8. ASSUME NEW j \in Jobs, PersistIntent(j)
      PROVE  LaunchChecked' /\ RecordsTruthful'
  <2>1. LaunchChecked'
    BY <1>a, <1>b, <1>c, <1>d, <1>8 DEF LaunchChecked, RecordsTruthful, PersistIntent, Save, Holding, devVars, workVars
  <2>2. RecordsTruthful'
    BY <1>a, <1>b, <1>c, <1>d, <1>8 DEF LaunchChecked, RecordsTruthful, PersistIntent, Save, Holding, devVars, workVars
  <2> QED
    BY <2>1, <2>2
<1>9. ASSUME NEW j \in Jobs, Spawn(j) \/ SpawnUnrecorded(j)
      PROVE  LaunchChecked' /\ RecordsTruthful'
  <2>1. LaunchChecked'
    BY <1>a, <1>b, <1>c, <1>d, <1>9 DEF LaunchChecked, RecordsTruthful, Spawn, SpawnUnrecorded, Started, LeaseInherited, Holding, Advance, devVars
  <2>2. /\ ctl = "intent" /\ ctl' = "pass" /\ j = Current /\ cursor <= Len(Order)
        /\ j \notin logFile /\ logFile' = logFile \cup {j} /\ owned' = owned \cup {j}
        /\ launches' = [launches EXCEPT ![j] = @ + 1]
        /\ proc' = [proc EXCEPT ![j] = "starting"]
        /\ \/ mem' = [mem EXCEPT ![j] = "running"]
           \/ mem' = [mem EXCEPT ![j] = "needs_attention"]
        /\ UNCHANGED <<disk, starts, exitCode, status>>
    BY <1>9 DEF Spawn, SpawnUnrecorded, Started, Holding, Advance
  <2>3. /\ mem[j] = "launching" /\ disk[j] = "launching" /\ status[j] = "absent"
        /\ launches[j] = 0 /\ ParentFinished(j) /\ ParentGone(j)
    BY <1>c, <2>2 DEF LaunchChecked, RecordsTruthful
  <2>4. FirstController'
    BY <1>c, <2>2 DEF RecordsTruthful
  <2>5. IntentBeforeLaunch'
    BY <1>c, <2>2, <2>3 DEF RecordsTruthful
  <2>6. CompleteIsFinal'
    BY <1>c, <2>2, <2>3 DEF RecordsTruthful
  <2>7. ParentFirst'
    BY <1>c, <1>d, <2>2, <2>3 DEF RecordsTruthful
  <2>8. RecordsTruthful'
    BY <1>c, <2>2, <2>3, <2>4, <2>5, <2>6, <2>7 DEF RecordsTruthful
  <2> QED
    BY <2>1, <2>8
<1>10. ASSUME NEW p \in Procs, Worker(p)
      PROVE  LaunchChecked' /\ RecordsTruthful'
  <2>1. LaunchChecked'
    BY <1>a, <1>b, <1>c, <1>d, <1>10 DEF LaunchChecked, RecordsTruthful, Worker, BecomeResident, WriteFinalStatus, Exit,
      ctlVars, devVars
  <2>2. RecordsTruthful'
    BY <1>a, <1>b, <1>c, <1>d, <1>10 DEF LaunchChecked, RecordsTruthful, Worker, BecomeResident, WriteFinalStatus, Exit,
      ctlVars, devVars
  <2> QED
    BY <2>1, <2>2
<1>11. CASE Environment
  <2>1. LaunchChecked'
    BY <1>a, <1>b, <1>c, <1>d, <1>11 DEF LaunchChecked, RecordsTruthful, Environment, Publish, Hinder, ClearAndWakeup, PeerLaunch,
      PeerResident, PeerExit, ctlVars, devVars, workVars
  <2>2. RecordsTruthful'
    BY <1>a, <1>b, <1>c, <1>d, <1>11 DEF LaunchChecked, RecordsTruthful, Environment, Publish, Hinder, ClearAndWakeup, PeerLaunch,
      PeerResident, PeerExit, ctlVars, devVars, workVars
  <2> QED
    BY <2>1, <2>2
<1>12. CASE UNCHANGED vars
  <2>1. LaunchChecked'
    BY <1>a, <1>b, <1>c, <1>d, <1>12 DEF LaunchChecked, RecordsTruthful, vars
  <2>2. RecordsTruthful'
    BY <1>a, <1>b, <1>c, <1>d, <1>12 DEF LaunchChecked, RecordsTruthful, vars
  <2> QED
    BY <2>1, <2>2
<1> QED
  BY <1>1, <1>2, <1>3, <1>4, <1>5, <1>6, <1>7, <1>8, <1>9, <1>10, <1>11, <1>12 DEF Next, Controller

-----------------------------------------------------------------------------
(* The theorems.                                                           *)

LEMMA Invariant == Spec => []IInv
<1>1. Init => IInv
  BY TypeInit, OwnershipInit, RecordsInit DEF IInv
<1>2. IInv /\ [Next]_vars => IInv'
  BY TypeStep, OwnershipStep, RecordsStep DEF IInv
<1> QED
  BY <1>1, <1>2, PTL DEF Spec

LEMMA ExclusiveNow == IInv => OneTaskPerDevice
<1> SUFFICES ASSUME IInv PROVE OneTaskPerDevice
  OBVIOUS
<1> USE PlanNames, PhaseQueueAssumption
    DEF Alive, IInv, Ownership, WorkersHold, OneWorker, PeerAlone, AdoptedUnleased
<1>1. ASSUME NEW p \in Procs, NEW q \in Procs, GpuOf[p] = GpuOf[q], Alive(p), Alive(q)
      PROVE  p = q
  BY <1>1
<1>2. ASSUME NEW g \in Gpus, peer[g] # "none", NEW p \in Procs, GpuOf[p] = g
      PROVE  ~Alive(p)
  BY <1>2
<1> QED
  BY <1>1, <1>2 DEF OneTaskPerDevice

\* Every variable of the queue keeps its type.
THEOREM TypeCorrect == Spec => []TypeOK
BY Invariant, PTL DEF IInv

\* One project task per GPU: locks shared with the workers keep it through
\* crashes and restarts of the controller, for any number of them.
THEOREM Exclusive == Spec => []OneTaskPerDevice
BY ExclusiveNow, Invariant, PTL

\* No launch is replayed: a started job is past "waiting" in queue.json and
\* was started once.
THEOREM NoReplay == Spec => []IntentBeforeLaunch
BY Invariant, PTL DEF IInv, RecordsTruthful

\* A job recorded complete has exited with its budget spent; one of the first
\* controller has exited cleanly.
THEOREM Finality == Spec => []CompleteIsFinal
BY Invariant, PTL DEF IInv, RecordsTruthful

\* A started job's parent has spent its budget and, when adopted, has exited.
THEOREM Lineage == Spec => []ParentFirst
BY Invariant, PTL DEF IInv, RecordsTruthful

\* A settled record of queue.json is never taken back.
THEOREM Settled == Spec => SettledStays
<1>1. IInv /\ [Next]_vars =>
        [\A j \in Jobs : disk[j] \in Terminal => disk'[j] = disk[j]]_vars
  <2> SUFFICES ASSUME IInv, Next, NEW j \in Jobs, disk[j] \in Terminal
               PROVE  disk'[j] = disk[j]
    OBVIOUS
  <2>1. ctl # "down" => mem[j] = disk[j]
    BY DEF IInv, RecordsTruthful
  <2>2. ASSUME NEW k \in Jobs, PersistIntent(k)
        PROVE  disk'[j] = disk[j]
    BY <2>1, <2>2 DEF PersistIntent, Save, Holding, IInv, TypeOK, ControllerTypes, LaunchChecked, Terminal
  <2>3. CASE EndPass
    BY <2>1, <2>3 DEF EndPass, Save
  <2>4. CASE UNCHANGED disk
    BY <2>4
  <2> QED
    BY <2>2, <2>3, <2>4
    DEF Next, Controller, Environment, Worker, Start, Wake, Stop, Crash, Leave, SkipSettled,
        Reap, RejectBinding, KeepWaiting, TakeLease, AbandonLease, RefuseLaunch, QueryFails,
        Spawn, SpawnUnrecorded, Started, SpawnFails, BecomeResident, WriteFinalStatus, Exit, Publish, Hinder,
        ClearAndWakeup, PeerLaunch, PeerResident, PeerExit, ctlVars
<1> QED
  BY <1>1, Invariant, PTL DEF Spec, SettledStays

-----------------------------------------------------------------------------
(* The queue implements ExclusiveDevices.                                  *)

LEMMA DevicesInit == Init => Devices!Init
<1> SUFFICES ASSUME Init PROVE Devices!Init
  OBVIOUS
<1> USE PlanNames, PhaseQueueAssumption
    DEF Init, Begun, OnDevice, Alive
<1>1. Begun = Adopted
  OBVIOUS
<1>2. \A g \in Gpus : OnDevice(g) = {p \in Adopted : GpuOf[p] = g}
  OBVIOUS
<1>3. \A g \in Gpus : OnDevice(g) \in {{}} \cup {{t} : t \in Begun}
  <2> SUFFICES ASSUME NEW g \in Gpus, NEW p \in OnDevice(g)
               PROVE  OnDevice(g) = {p} /\ p \in Begun
    OBVIOUS
  <2> QED
    BY <1>1, <1>2
<1>4. Adopted \subseteq Procs
  OBVIOUS
<1> HIDE DEF Init, Begun, OnDevice, Alive
<1> QED
  BY <1>1, <1>3, <1>4 DEF Devices!Init

LEMMA DevicesStep ==
  ASSUME IInv, [Next]_vars
  PROVE  [Devices!Next]_Devices!vars
<1> USE PlanNames DEF IInv
<1>0. /\ proc \in [Procs -> {"none", "starting", "resident", "exited"}]
      /\ peer \in [Gpus -> {"none", "starting", "resident"}]
      /\ launches \in [Jobs -> Nat]
      /\ Ownership
  BY DEF TypeOK, WorkerTypes, DeviceTypes
\* A step that starts and ends no process is a stutter.
<1>1. ASSUME UNCHANGED <<peer, launches>>, \A p \in Procs : Alive(p)' <=> Alive(p)
      PROVE  UNCHANGED Devices!vars
  BY <1>1 DEF Devices!vars, OnDevice, Begun
<1>2. ASSUME NEW j \in Jobs, Started(j)
      PROVE  Devices!Begin(GpuOf[j], j)
  <2>1. ctl = "intent" /\ j = Current /\ j \notin logFile
    BY <1>2 DEF Started, Holding
  <2>2. OnDevice(GpuOf[j]) = {}
    BY <1>0, <2>1 DEF Ownership, WorkersHold, PeerAlone, AdoptedUnleased, LaunchLeased,
                      IntentClear, Launching, OnDevice
  <2>3. launches[j] = 0
    BY <1>0, <2>1 DEF RecordsTruthful
  <2>4. j \in Procs \ Begun
    BY <2>3 DEF Begun
  <2>5. \A p \in Procs : Alive(p)' <=> Alive(p) \/ p = j
    BY <1>0, <1>2 DEF Started, Alive
  <2>6. [g \in Gpus |-> OnDevice(g)]' =
          [[g \in Gpus |-> OnDevice(g)] EXCEPT ![GpuOf[j]] = {j}]
    BY <1>2, <2>2, <2>5 DEF Started, devVars, OnDevice
  <2>7. Begun' = Begun \cup {j}
    BY <1>0, <1>2 DEF Started, Begun
  <2> QED
    BY <2>2, <2>4, <2>6, <2>7 DEF Devices!Begin
<1>3. ASSUME NEW p \in Procs, NEW code \in {0, 1}, Exit(p, code)
      PROVE  Devices!End(p)
  <2>1. p \in OnDevice(GpuOf[p])
    BY <1>3 DEF Exit, OnDevice
  <2>2. OnDevice(GpuOf[p]) = {p}
    BY <2>1, ExclusiveNow DEF OneTaskPerDevice, OnDevice
  <2>3. \A q \in Procs : Alive(q)' <=> Alive(q) /\ q # p
    BY <1>0, <1>3 DEF Exit, Alive
  <2>4. \A g \in Gpus : OnDevice(g)' = OnDevice(g) \ {p}
    BY <1>3, <2>3 DEF Exit, devVars, OnDevice
  <2>5. Begun' = Begun
    BY <1>3 DEF Exit, Begun
  <2> QED
    BY <2>2, <2>4, <2>5 DEF Devices!End
<1>4. ASSUME NEW g \in Gpus, PeerLaunch(g)
      PROVE  Devices!Begin(g, Peer)
  <2>1. OnDevice(g) = {}
    BY <1>0, <1>4 DEF PeerLaunch, DeviceIdle, Ownership, WorkersHold, AdoptedSeen, Alive, OnDevice
  <2>2. [h \in Gpus |-> OnDevice(h)]' = [[h \in Gpus |-> OnDevice(h)] EXCEPT ![g] = {Peer}]
    BY <1>0, <1>4, <2>1 DEF PeerLaunch, workVars, OnDevice, Alive
  <2>3. Begun' = Begun
    BY <1>4 DEF PeerLaunch, workVars, Begun
  <2> QED
    BY <2>1, <2>2, <2>3 DEF Devices!Begin
<1>5. ASSUME NEW g \in Gpus, PeerExit(g)
      PROVE  Devices!EndForeign(g)
  <2>1. OnDevice(g) = {Peer}
    BY <1>5, ExclusiveNow DEF PeerExit, OneTaskPerDevice, OnDevice
  <2>a. \A p \in Procs : GpuOf[p] = g => ~Alive(p)
    BY <2>1 DEF OnDevice
  <2>b. \A h \in Gpus : OnDevice(h)' = IF h = g THEN {} ELSE OnDevice(h)
    BY <1>0, <1>5, <2>a DEF PeerExit, workVars, OnDevice, Alive
  <2>2. [h \in Gpus |-> OnDevice(h)]' = [[h \in Gpus |-> OnDevice(h)] EXCEPT ![g] = {}]
    BY <2>b
  <2>3. Begun' = Begun
    BY <1>5 DEF PeerExit, workVars, Begun
  <2> QED
    BY <2>1, <2>2, <2>3 DEF Devices!EndForeign
<1>6. ASSUME NEW p \in Procs, BecomeResident(p)
      PROVE  UNCHANGED Devices!vars
  BY <1>0, <1>1, <1>6 DEF BecomeResident, devVars, Alive
<1>7. ASSUME NEW g \in Gpus, PeerResident(g)
      PROVE  UNCHANGED Devices!vars
  BY <1>0, <1>7 DEF PeerResident, workVars, Devices!vars, OnDevice, Begun, Alive
<1>8. CASE UNCHANGED <<proc, peer, launches>>
  BY <1>1, <1>8 DEF Alive
<1> QED
  BY <1>2, <1>3, <1>4, <1>5, <1>6, <1>7, <1>8
  DEF Devices!Next, Next, Controller, Environment, Worker, Start, EndPass, Wake, Stop, Crash, Leave,
      SkipSettled, Reap, RejectBinding, KeepWaiting, TakeLease, AbandonLease, RefuseLaunch,
      QueryFails, PersistIntent, Spawn, SpawnUnrecorded, SpawnFails, WriteFinalStatus, Publish, Hinder, ClearAndWakeup,
      ctlVars, devVars, workVars, vars

\* The queue implements the promise of exclusive devices.
THEOREM Implements == Spec => ImplementsDevices
BY Invariant, DevicesInit, DevicesStep, PTL DEF Spec, ImplementsDevices, Devices!Spec

-----------------------------------------------------------------------------
(* Locks are given back.                                                   *)

\* A lock's holders beside the peer: live workers of the device, and the
\* controller for a launch in progress or a job it has still to reap.
HoldersLive ==
  \A g \in Gpus : \A j \in Jobs \cap lease[g] : Alive(j) /\ GpuOf[j] = g
CtlHolds ==
  \A g \in Gpus : Ctl \in lease[g] =>
    \/ Launching /\ GpuOf[Current] = g
    \/ \E j \in owned : GpuOf[j] = g

\* The exit of a job that is still to be reaped is watched for, or the pass
\* under way has yet to come to it; the others are those nobody waits for.
ToVisit(j) ==
  ctl \in {"pass", "leased", "intent"} /\ \E i \in cursor .. Len(Order) : Order[i] = j
ToReap(j) == /\ mem[j] = "running"
             /\ \E i \in 1 .. Len(Order) : Order[i] = j
             /\ j \in watched \/ (~Alive(j) /\ ToVisit(j))
OwnedSeen == \A j \in owned : Unreaped(j) \/ ToReap(j)
DownEmpty == ctl = "down" => owned = {}

Returned == HoldersLive /\ CtlHolds /\ OwnedSeen /\ DownEmpty

LEMMA ReturnedInit == Init => Returned
BY DEF Init, Returned, HoldersLive, CtlHolds, OwnedSeen, DownEmpty

\* Next, flat.
LEMMA Steps ==
  ASSUME [Next]_vars
  PROVE  \/ Start \/ EndPass \/ Wake \/ Stop \/ Crash
         \/ (\E j \in Jobs : SkipSettled(j) \/ RejectBinding(j) \/ KeepWaiting(j))
         \/ (\E j \in Jobs : Reap(j)) \/ (\E j \in Jobs : TakeLease(j))
         \/ (\E j \in Jobs : AbandonLease(j) \/ RefuseLaunch(j) \/ SpawnFails(j) \/ QueryFails(j))
         \/ (\E j \in Jobs : PersistIntent(j)) \/ (\E j \in Jobs : Spawn(j) \/ SpawnUnrecorded(j))
         \/ (\E p \in Procs : BecomeResident(p)) \/ (\E p \in Procs : WriteFinalStatus(p))
         \/ (\E p \in Procs, code \in {0, 1} : Exit(p, code))
         \/ (\E j \in Jobs, kind \in Publication : Publish(j, kind))
         \/ Hinder \/ ClearAndWakeup
         \/ (\E g \in Gpus : PeerLaunch(g)) \/ (\E g \in Gpus : PeerResident(g))
         \/ (\E g \in Gpus : PeerExit(g))
         \/ UNCHANGED vars
BY Zenon DEF Next, Controller, Worker, Environment

\* The steps of workers and surroundings that touch no lock.
Quiet == /\ UNCHANGED <<ctl, cursor, mem, owned, watched, lease>>
         /\ \A p \in Procs : Alive(p)' <=> Alive(p)

LEMMA QuietSteps ==
  ASSUME TypeOK, [Next]_vars
  PROVE  \/ Quiet
         \/ Start \/ EndPass \/ Wake \/ Stop \/ Crash
         \/ (\E j \in Jobs : SkipSettled(j) \/ RejectBinding(j) \/ KeepWaiting(j))
         \/ (\E j \in Jobs : Reap(j)) \/ (\E j \in Jobs : TakeLease(j))
         \/ (\E j \in Jobs : AbandonLease(j) \/ RefuseLaunch(j) \/ SpawnFails(j) \/ QueryFails(j))
         \/ (\E j \in Jobs : PersistIntent(j)) \/ (\E j \in Jobs : Spawn(j) \/ SpawnUnrecorded(j))
         \/ (\E p \in Procs, code \in {0, 1} : Exit(p, code))
         \/ (\E g \in Gpus : PeerLaunch(g)) \/ (\E g \in Gpus : PeerExit(g))
<1>0. proc \in [Procs -> {"none", "starting", "resident", "exited"}]
  BY DEF TypeOK, WorkerTypes
<1>1. ASSUME NEW p \in Procs, BecomeResident(p) PROVE Quiet
  BY <1>0, <1>1 DEF BecomeResident, Quiet, Alive, ctlVars
<1>2. ASSUME NEW p \in Procs, WriteFinalStatus(p) PROVE Quiet
  BY <1>2 DEF WriteFinalStatus, Quiet, Alive, ctlVars
<1>3. ASSUME NEW j \in Jobs, NEW kind \in Publication, Publish(j, kind) PROVE Quiet
  BY <1>3 DEF Publish, Quiet, Alive, ctlVars, workVars
<1>4. CASE Hinder \/ ClearAndWakeup
  BY <1>4 DEF Hinder, ClearAndWakeup, Quiet, Alive, ctlVars, workVars
<1>5. ASSUME NEW g \in Gpus, PeerResident(g) PROVE Quiet
  BY <1>5 DEF PeerResident, Quiet, Alive, ctlVars, workVars
<1>6. CASE UNCHANGED vars
  BY <1>6 DEF vars, Quiet, Alive
<1> QED BY <1>1, <1>2, <1>3, <1>4, <1>5, <1>6, Steps, Zenon

LEMMA HoldersLiveStep ==
  ASSUME TypeOK, Ownership, Returned, [Next]_vars PROVE HoldersLive'
<1>0. /\ proc \in [Procs -> {"none", "starting", "resident", "exited"}]
      /\ lease \in [Gpus -> SUBSET Holders] /\ HoldersLive
  BY DEF TypeOK, WorkerTypes, DeviceTypes, Returned
<1> USE PlanNames, <1>0 DEF HoldersLive
\* Locks are only given back, and no process starts or ends.
<1>1. ASSUME \A g \in Gpus : lease'[g] \subseteq lease[g], UNCHANGED proc PROVE HoldersLive'
  BY <1>1 DEF Alive
<1>2. CASE Start \/ Wake
  BY <1>1, <1>2 DEF Start, Wake, workVars
<1>3. CASE EndPass \/ Stop \/ Crash
  BY <1>1, <1>3 DEF EndPass, Stop, Crash, Leave, workVars
<1>4. ASSUME NEW j \in Jobs, SkipSettled(j) \/ RejectBinding(j) \/ KeepWaiting(j) \/ PersistIntent(j)
      PROVE HoldersLive'
  BY <1>1, <1>4 DEF SkipSettled, RejectBinding, KeepWaiting, PersistIntent, workVars
<1>5. ASSUME NEW j \in Jobs, Reap(j) PROVE HoldersLive'
  BY <1>1, <1>5 DEF Reap, workVars
<1>6. ASSUME NEW j \in Jobs, TakeLease(j) PROVE HoldersLive'
  BY <1>6 DEF TakeLease, workVars, Alive
<1>7. ASSUME NEW j \in Jobs, AbandonLease(j) \/ RefuseLaunch(j) \/ SpawnFails(j) \/ QueryFails(j) PROVE HoldersLive'
  BY <1>1, <1>7 DEF AbandonLease, RefuseLaunch, SpawnFails, QueryFails, Handling, DropLease, workVars
<1>8. ASSUME NEW j \in Jobs, Spawn(j) \/ SpawnUnrecorded(j) PROVE HoldersLive'
  BY <1>8 DEF Spawn, SpawnUnrecorded, Started, LeaseInherited, Alive
<1>9. ASSUME NEW p \in Procs, NEW code \in {0, 1}, Exit(p, code) PROVE HoldersLive'
  BY <1>9 DEF Exit, Alive
<1>10. ASSUME NEW g \in Gpus, PeerLaunch(g) PROVE HoldersLive'
  BY <1>10 DEF PeerLaunch, workVars, Alive
<1>11. ASSUME NEW g \in Gpus, PeerExit(g) PROVE HoldersLive'
  BY <1>1, <1>11 DEF PeerExit, workVars
<1>12. CASE Quiet
  BY <1>12 DEF Quiet
<1> QED BY <1>2, <1>3, <1>4, <1>5, <1>6, <1>7, <1>8, <1>9, <1>10, <1>11, <1>12, QuietSteps

LEMMA CtlHoldsStep ==
  ASSUME TypeOK, Ownership, Returned, [Next]_vars PROVE CtlHolds'
<1>0. /\ lease \in [Gpus -> SUBSET Holders] /\ owned \subseteq Jobs /\ CtlHolds
  BY DEF TypeOK, ControllerTypes, DeviceTypes, Returned
<1> USE PlanNames, <1>0 DEF CtlHolds
<1>1. ASSUME ctl \notin {"leased", "intent"}, UNCHANGED <<lease, owned>> PROVE CtlHolds'
  BY <1>1 DEF Launching
<1>2. ASSUME \A g \in Gpus : Ctl \notin lease'[g] PROVE CtlHolds'
  BY <1>2
<1>3. ASSUME UNCHANGED <<ctl, cursor, owned>>, \A g \in Gpus : Ctl \in lease'[g] => Ctl \in lease[g]
      PROVE CtlHolds'
  BY <1>3 DEF Launching, Current
<1>4. CASE Start \/ Wake
  BY <1>1, <1>4 DEF Start, Wake
<1>5. CASE EndPass \/ Stop \/ Crash
  BY <1>1, <1>2, <1>5 DEF EndPass, Stop, Crash, Leave
<1>6. ASSUME NEW j \in Jobs, SkipSettled(j) \/ RejectBinding(j) \/ KeepWaiting(j)
      PROVE CtlHolds'
  BY <1>1, <1>6 DEF SkipSettled, RejectBinding, KeepWaiting, Handling
<1>7. ASSUME NEW j \in Jobs, Reap(j) PROVE CtlHolds'
  BY <1>7 DEF Reap, Handling, Launching
<1>8. ASSUME NEW j \in Jobs, TakeLease(j) PROVE CtlHolds'
  BY <1>8 DEF TakeLease, Handling, Launching, Current
<1>9. ASSUME NEW j \in Jobs, AbandonLease(j) \/ RefuseLaunch(j) \/ SpawnFails(j) \/ QueryFails(j) PROVE CtlHolds'
  <2>1. CASE ctl = "pass" /\ UNCHANGED <<lease, owned>>
    BY <1>1, <2>1
  <2>2. CASE Holding(j, "leased") \/ Holding(j, "intent")
    BY <1>9, <2>2 DEF AbandonLease, RefuseLaunch, SpawnFails, QueryFails, Handling, DropLease, Holding
  <2> QED
    BY <1>9, <2>1, <2>2 DEF AbandonLease, RefuseLaunch, SpawnFails, QueryFails, Handling
<1>10. ASSUME NEW j \in Jobs, PersistIntent(j) PROVE CtlHolds'
  BY <1>10 DEF PersistIntent, Holding, Launching, Current
<1>11. ASSUME NEW j \in Jobs, Spawn(j) \/ SpawnUnrecorded(j) PROVE CtlHolds'
  BY <1>11 DEF Spawn, SpawnUnrecorded, Started, LeaseInherited, Holding
<1>12. ASSUME NEW p \in Procs, NEW code \in {0, 1}, Exit(p, code) PROVE CtlHolds'
  BY <1>3, <1>12 DEF Exit, ctlVars
<1>13. ASSUME NEW g \in Gpus, PeerLaunch(g) \/ PeerExit(g) PROVE CtlHolds'
  BY <1>3, <1>13 DEF PeerLaunch, PeerExit, ctlVars
<1>14. CASE Quiet
  BY <1>3, <1>14 DEF Quiet
<1> QED BY <1>4, <1>5, <1>6, <1>7, <1>8, <1>9, <1>10, <1>11, <1>12, <1>13, <1>14, QuietSteps

LEMMA OwnedSeenStep ==
  ASSUME TypeOK, LaunchChecked, Returned, [Next]_vars PROVE OwnedSeen'
<1>0. /\ proc \in [Procs -> {"none", "starting", "resident", "exited"}]
      /\ mem \in [Jobs -> JobState] /\ owned \subseteq Jobs /\ watched \subseteq Procs
      /\ cursor \in 1 .. Len(Order) + 1 /\ Len(Order) \in Nat
      /\ cursor <= Len(Order) => cursor \in 1 .. Len(Order) /\ Current \in Jobs
      /\ OwnedSeen
  BY PlanTypes, CurrentIsJob DEF TypeOK, ControllerTypes, WorkerTypes, Returned
<1> USE PlanNames, <1>0 DEF Unreaped, ToReap, Terminal
\* The job the pass handles is none of those to be reaped; it goes past it.
<1>1. ASSUME NEW j, NEW state, j = Current, cursor <= Len(Order), j \notin owned,
             ctl \in {"pass", "leased", "intent"}, ctl' \in {"pass", "leased", "intent"},
             mem' = mem \/ mem' = [mem EXCEPT ![j] = state],
             cursor' = cursor \/ cursor' = cursor + 1, UNCHANGED <<owned, watched, proc>>
      PROVE  OwnedSeen'
  <2> SUFFICES ASSUME NEW k \in owned
               PROVE  /\ mem'[k] = mem[k]
                      /\ ToVisit(k) => ToVisit(k)'
    BY <1>1 DEF OwnedSeen, Alive
  <2>1. k # j BY <1>1
  <2>2. mem'[k] = mem[k] BY <1>1, <2>1
  <2>3. ASSUME ToVisit(k) PROVE ToVisit(k)'
    <3>1. PICK i \in cursor .. Len(Order) : Order[i] = k BY <2>3 DEF ToVisit
    <3>2. i # cursor BY <3>1, <2>1, <1>1 DEF Current
    <3>3. i \in cursor' .. Len(Order) BY <1>1, <3>1, <3>2
    <3> QED BY <1>1, <3>1, <3>3 DEF ToVisit
  <2> QED BY <2>2, <2>3
<1>2. CASE Start
  BY <1>2 DEF Start, Returned, DownEmpty, OwnedSeen
<1>3. CASE Stop \/ Crash
  BY <1>3 DEF Stop, Crash, Leave, OwnedSeen
<1>4. CASE EndPass
  <2>1. cursor = Len(Order) + 1 /\ UNCHANGED <<mem, proc>> BY <1>4 DEF EndPass, workVars
  <2>2. \A j : ~ToVisit(j) BY <2>1 DEF ToVisit
  <2>3. CASE owned' = {} BY <2>3 DEF OwnedSeen
  <2>4. CASE UNCHANGED <<owned, watched>> BY <2>1, <2>2, <2>4 DEF OwnedSeen
  <2> QED BY <1>4, <2>3, <2>4 DEF EndPass, Leave
<1>5. CASE Wake
  <2>1. /\ ctl = "wait" /\ ctl' = "pass" /\ cursor' = 1 /\ watched' = watched \ ExitsSeen
        /\ UNCHANGED <<mem, owned, proc>>
    BY <1>5 DEF Wake, workVars
  <2>2. \A j \in owned : Unreaped(j) \/ (j \in watched /\ (j \in watched' \/ ~Alive(j)'))
    BY <2>1 DEF OwnedSeen, ToVisit, ExitsSeen, Alive
  <2>3. \A j \in owned : Unreaped(j) \/ ToVisit(j)' BY <2>1 DEF OwnedSeen, ToVisit
  <2> QED BY <2>1, <2>2, <2>3 DEF OwnedSeen
<1>6. ASSUME NEW j \in Jobs, RejectBinding(j) \/ KeepWaiting(j) PROVE OwnedSeen'
  <2>1. mem[j] = "waiting" /\ j \notin owned
    BY <1>6 DEF RejectBinding, KeepWaiting, OwnedSeen
  <2> QED BY <1>1, <1>6, <2>1 DEF RejectBinding, KeepWaiting, Handling, Advance, workVars
<1>7. ASSUME NEW j \in Jobs, SkipSettled(j) PROVE OwnedSeen'
  <2>1. CASE j \notin owned
    BY <1>1, <1>7, <2>1 DEF SkipSettled, Handling, Advance, workVars
  <2>2. CASE j \in owned
    <3>1. Unreaped(j) \/ (Alive(j) /\ j \in watched)
      BY <1>7, <2>2 DEF SkipSettled, OwnedSeen, Terminal
    <3>2. /\ ctl = "pass" /\ ctl' = "pass" /\ j = Current /\ cursor <= Len(Order)
          /\ cursor' = cursor + 1 /\ UNCHANGED <<mem, owned, watched, proc>>
      BY <1>7 DEF SkipSettled, Handling, Advance, workVars
    <3>3. ASSUME NEW k \in owned, k # j, ToVisit(k) PROVE ToVisit(k)'
      <4>1. PICK i \in cursor .. Len(Order) : Order[i] = k BY <3>3 DEF ToVisit
      <4>2. i \in cursor' .. Len(Order) BY <3>2, <3>3, <4>1 DEF Current
      <4> QED BY <3>2, <4>1, <4>2 DEF ToVisit
    <3> QED BY <3>1, <3>2, <3>3 DEF OwnedSeen, Alive
  <2> QED BY <2>1, <2>2
<1>8. ASSUME NEW j \in Jobs, Reap(j) PROVE OwnedSeen'
  <2>1. /\ ctl = "pass" /\ ctl' = "pass" /\ j = Current /\ cursor <= Len(Order)
        /\ cursor' = cursor + 1 /\ UNCHANGED <<watched, proc>> /\ owned' = owned \ {j}
        /\ \A k \in Jobs \ {j} : mem'[k] = mem[k]
    BY <1>8 DEF Reap, Handling, Advance, workVars
  <2>2. ASSUME NEW k \in owned, k # j, ToVisit(k) PROVE ToVisit(k)'
    <3>1. PICK i \in cursor .. Len(Order) : Order[i] = k BY <2>2 DEF ToVisit
    <3>2. i \in cursor' .. Len(Order) BY <2>1, <2>2, <3>1 DEF Current
    <3> QED BY <2>1, <3>1, <3>2 DEF ToVisit
  <2> QED BY <2>1, <2>2 DEF OwnedSeen, Alive
<1>9. ASSUME NEW j \in Jobs, TakeLease(j) PROVE OwnedSeen'
  <2>1. mem[j] = "waiting" /\ j \notin owned BY <1>9 DEF TakeLease, OwnedSeen
  <2> QED BY <1>1, <1>9, <2>1 DEF TakeLease, Handling, workVars
<1>10. ASSUME NEW j \in Jobs, AbandonLease(j) \/ RefuseLaunch(j) \/ SpawnFails(j) \/ QueryFails(j) PROVE OwnedSeen'
  <2>1. mem[j] \in {"waiting", "launching"} /\ j \notin owned
    BY <1>10 DEF AbandonLease, RefuseLaunch, SpawnFails, QueryFails, Handling, Holding, LaunchChecked, OwnedSeen
  <2> QED BY <1>1, <1>10, <2>1 DEF AbandonLease, RefuseLaunch, SpawnFails, QueryFails, Handling, Holding, Advance, workVars
<1>11. ASSUME NEW j \in Jobs, PersistIntent(j) PROVE OwnedSeen'
  <2>1. mem[j] = "waiting" /\ j \notin owned
    BY <1>11 DEF PersistIntent, Holding, LaunchChecked, OwnedSeen
  <2> QED BY <1>1, <1>11, <2>1 DEF PersistIntent, Holding, workVars
<1>12. ASSUME NEW j \in Jobs, Spawn(j) \/ SpawnUnrecorded(j) PROVE OwnedSeen'
  <2>1. mem[j] = "launching" /\ j \notin owned
    BY <1>12 DEF Spawn, SpawnUnrecorded, Started, Holding, LaunchChecked, OwnedSeen
  <2>2. /\ ctl = "intent" /\ ctl' = "pass" /\ j = Current /\ cursor <= Len(Order)
        /\ cursor' = cursor + 1 /\ owned' = owned \cup {j} /\ watched \subseteq watched'
        /\ \/ mem'[j] = "running" /\ j \in watched'
           \/ mem'[j] = "needs_attention"
        /\ \A k \in Jobs \ {j} : mem'[k] = mem[k] /\ proc'[k] = proc[k]
    BY <1>12 DEF Spawn, SpawnUnrecorded, Started, Holding, Advance
  <2>3. ASSUME NEW k \in owned, ToVisit(k) PROVE ToVisit(k)'
    <3>1. PICK i \in cursor .. Len(Order) : Order[i] = k BY <2>3 DEF ToVisit
    <3>2. i \in cursor' .. Len(Order) BY <2>1, <2>2, <2>3, <3>1 DEF Current
    <3> QED BY <2>2, <3>1, <3>2 DEF ToVisit
  <2>4. \E i \in 1 .. Len(Order) : Order[i] = j BY <2>2 DEF Current
  <2> QED BY <2>1, <2>2, <2>3, <2>4 DEF OwnedSeen, Alive
<1>13. ASSUME UNCHANGED <<ctl, cursor, mem, owned, watched>>, \A p \in Procs : Alive(p)' => Alive(p)
       PROVE  OwnedSeen'
  BY <1>13 DEF OwnedSeen, ToVisit
<1>14. ASSUME NEW p \in Procs, NEW code \in {0, 1}, Exit(p, code) PROVE OwnedSeen'
  BY <1>13, <1>14 DEF Exit, ctlVars, Alive
<1>15. ASSUME NEW g \in Gpus, PeerLaunch(g) \/ PeerExit(g) PROVE OwnedSeen'
  BY <1>13, <1>15 DEF PeerLaunch, PeerExit, ctlVars, workVars, Alive
<1>16. CASE Quiet
  BY <1>13, <1>16 DEF Quiet
<1> HIDE <1>0, PlanNames
<1> QED
  BY <1>2, <1>3, <1>4, <1>5, <1>6, <1>7, <1>8, <1>9, <1>10, <1>11, <1>12, <1>14, <1>15, <1>16,
     QuietSteps

LEMMA DownEmptyStep ==
  ASSUME TypeOK, Returned, [Next]_vars PROVE DownEmpty'
<1> USE DEF DownEmpty
<1>1. CASE Start \/ EndPass \/ Wake \/ Stop \/ Crash
  BY <1>1 DEF Start, EndPass, Wake, Stop, Crash, Leave
<1>2. ASSUME NEW j \in Jobs,
             \/ SkipSettled(j) \/ RejectBinding(j) \/ KeepWaiting(j) \/ Reap(j) \/ TakeLease(j)
             \/ AbandonLease(j) \/ RefuseLaunch(j) \/ SpawnFails(j) \/ QueryFails(j)
             \/ PersistIntent(j) \/ Spawn(j) \/ SpawnUnrecorded(j)
      PROVE DownEmpty'
  BY <1>2 DEF SkipSettled, RejectBinding, KeepWaiting, Reap, TakeLease, AbandonLease,
     RefuseLaunch, SpawnFails, QueryFails, PersistIntent, Spawn, SpawnUnrecorded, Started, Advance
<1>3. ASSUME UNCHANGED <<ctl, owned>> PROVE DownEmpty'
  BY <1>3 DEF Returned
<1>4. ASSUME NEW p \in Procs, NEW code \in {0, 1}, Exit(p, code) PROVE DownEmpty'
  BY <1>3, <1>4 DEF Exit, ctlVars
<1>5. ASSUME NEW g \in Gpus, PeerLaunch(g) \/ PeerExit(g) PROVE DownEmpty'
  BY <1>3, <1>5 DEF PeerLaunch, PeerExit, ctlVars
<1>6. CASE Quiet
  BY <1>3, <1>6 DEF Quiet
<1> QED BY <1>1, <1>2, <1>4, <1>5, <1>6, QuietSteps

LEMMA ReturnedInvariant == Spec => []Returned
<1>1. IInv /\ Returned /\ [Next]_vars => Returned'
  BY HoldersLiveStep, CtlHoldsStep, OwnedSeenStep, DownEmptyStep DEF IInv, Returned
<1> QED BY ReturnedInit, <1>1, Invariant, PTL DEF Spec

\* No lock is leaked: with no process on a device and the controller asleep
\* or gone, nobody but another controller holds the device, unless the
\* controller lost hold of a process it had started.
THEOREM LocksReturned == Spec => []LeaseReturned
<1>1. IInv /\ Returned => LeaseReturned
  <2> SUFFICES ASSUME IInv, Returned, NEW g \in Gpus,
                      ctl = "down" \/ (ctl = "wait" /\ ExitsSeen = {}),
                      \A j \in Jobs : GpuOf[j] = g => ~Alive(j) /\ ~Unreaped(j)
               PROVE  lease[g] \subseteq {Peer}
    BY DEF LeaseReturned
  <2>0. lease[g] \subseteq Jobs \cup {Ctl, Peer} /\ owned \subseteq Jobs
    BY DEF IInv, TypeOK, ControllerTypes, DeviceTypes, Holders
  <2>1. \A j \in Jobs : j \notin lease[g] BY DEF Returned, HoldersLive
  <2>2. \A j \in owned : GpuOf[j] # g
    BY <2>0 DEF Returned, DownEmpty, OwnedSeen, ToReap, ToVisit, ExitsSeen
  <2>3. Ctl \notin lease[g] BY <2>2 DEF Returned, CtlHolds, Launching
  <2> QED BY <2>0, <2>1, <2>3
<1> QED BY <1>1, Invariant, ReturnedInvariant, PTL

=============================================================================
