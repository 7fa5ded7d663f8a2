----------------------------- MODULE PhaseQueue -----------------------------
(***************************************************************************)
(* The formal phase queue: execute_phases in                               *)
(* scripts/run_exclusive_gpu_queue.py.  One controller dispatches training *)
(* phases to fixed GPUs.  It wakes on file and process-exit events, visits *)
(* every job of the plan in order, and goes back to sleep.  It may crash   *)
(* or be stopped at any point and be started again; its workers go on.     *)
(*                                                                         *)
(* A device lease is an flock on an open file description; a worker        *)
(* inherits the controller's descriptor, so the lock is free only when     *)
(* every holder of that description has closed it.                         *)
(***************************************************************************)
EXTENDS Naturals, Sequences, FiniteSets

CONSTANTS
  Jobs,        \* the phases of the plan
  Adopted,     \* parent processes started before this queue, one to a device
  Gpus,        \* physical devices
  Order,       \* the plan's list of jobs, each exactly once
  GpuOf,       \* the device of a job or an adopted parent
  ParentOf,    \* the parent phase of a job, or NoParent for a random start
  NoParent,
  Ctl, Peer,   \* lease holders besides the workers
  MaxStarts,   \* bound: how often the controller is started
  MaxExternal  \* bound: how often a device is occupied from outside

Procs   == Jobs \cup Adopted
Holders == Jobs \cup {Ctl, Peer}

ASSUME PhaseQueueAssumption ==
  /\ Jobs \cap Adopted = {}
  /\ NoParent \notin Procs
  /\ Ctl # Peer
  /\ {Ctl, Peer} \cap Procs = {}
  /\ GpuOf \in [Procs -> Gpus]
  /\ ParentOf \in [Jobs -> Procs \cup {NoParent}]
  /\ Order \in Seq(Jobs)
  /\ \A p, q \in Adopted : GpuOf[p] = GpuOf[q] => p = q
  /\ MaxStarts \in Nat
  /\ MaxExternal \in Nat

VARIABLES
  ctl,         \* what the controller is doing
  cursor,      \* position in the plan of the job it handles
  mem,         \* the job states it holds in memory
  disk,        \* the job states in queue.json
  owned,       \* jobs whose process handle and lease this controller holds
  watched,     \* processes whose exit the selector reports
  fileEvent,   \* a watched file changed since the last wake
  lease,       \* the holders of each device's lock
  proc,        \* the state of each training process
  exitCode,    \* its exit code, once it has exited
  status,      \* what its status.json says
  logFile,     \* jobs whose log file exists
  launches,    \* history: how often each job's process was started
  binding,     \* the job's published launch file
  paused,      \* dispatch-pause.json exists
  spaceOk,     \* the disk reserve is met
  peer,        \* a task of another cooperating controller on each device
  external,    \* a device reads busy because of a foreign context
  starts, externals

ctlVars == <<ctl, cursor, mem, disk, owned, watched, starts>>
devVars == <<peer, external, externals>>
workVars == <<proc, exitCode, status, launches>>
vars == <<ctl, cursor, mem, disk, owned, watched, fileEvent, lease, proc,
          exitCode, status, logFile, launches, binding, paused, spaceOk,
          peer, external, starts, externals>>

Terminal == {"complete", "failed", "needs_attention"}
JobState == Terminal \cup {"waiting", "launching", "running"}

\* A launch file that matches the plan, one that does not, and one that does
\* but whose frozen inputs or source have changed since.
Publication == {"bound", "bad", "stale"}

Alive(p) == proc[p] \in {"starting", "resident"}

ControllerTypes ==
  /\ ctl \in {"down", "pass", "leased", "intent", "wait"}
  /\ cursor \in 1 .. Len(Order) + 1
  /\ mem \in [Jobs -> JobState]
  /\ disk \in [Jobs -> JobState]
  /\ owned \subseteq Jobs
  /\ watched \subseteq Procs
  /\ starts \in 0 .. MaxStarts

WorkerTypes ==
  /\ proc \in [Procs -> {"none", "starting", "resident", "exited"}]
  /\ exitCode \in [Procs -> {0, 1}]
  /\ status \in [Procs -> {"absent", "running", "complete"}]
  /\ logFile \subseteq Jobs
  /\ launches \in [Jobs -> Nat]
  /\ binding \in [Jobs -> {"none"} \cup Publication]

DeviceTypes ==
  /\ lease \in [Gpus -> SUBSET Holders]
  /\ peer \in [Gpus -> {"none", "starting", "resident"}]
  /\ externals \in 0 .. MaxExternal

FlagTypes ==
  /\ fileEvent \in BOOLEAN
  /\ paused \in BOOLEAN
  /\ spaceOk \in BOOLEAN
  /\ external \in [Gpus -> BOOLEAN]

TypeOK == ControllerTypes /\ WorkerTypes /\ DeviceTypes /\ FlagTypes

Init ==
  /\ ctl = "down" /\ cursor = 1 /\ owned = {} /\ watched = {}
  /\ mem = [j \in Jobs |-> "waiting"]
  /\ disk = [j \in Jobs |-> "waiting"]
  /\ fileEvent = FALSE
  /\ lease = [g \in Gpus |-> {}]
  /\ proc = [p \in Procs |-> IF p \in Adopted THEN "resident" ELSE "none"]
  /\ exitCode = [p \in Procs |-> 0]
  /\ status = [p \in Procs |-> IF p \in Adopted THEN "running" ELSE "absent"]
  /\ logFile = {}
  /\ launches = [j \in Jobs |-> 0]
  /\ binding = [j \in Jobs |-> "none"]
  /\ paused = FALSE /\ spaceOk = TRUE
  /\ peer = [g \in Gpus |-> "none"]
  /\ external = [g \in Gpus |-> FALSE]
  /\ starts = 0 /\ externals = 0

-----------------------------------------------------------------------------
(* What the controller observes.                                           *)

Current == Order[cursor]
Handling(j) == ctl = "pass" /\ cursor <= Len(Order) /\ j = Current
Holding(j, stage) == ctl = stage /\ cursor <= Len(Order) /\ j = Current

\* nvidia-smi: a process shows up only once it has created its CUDA context.
DeviceIdle(g) ==
  /\ ~external[g]
  /\ peer[g] # "resident"
  /\ \A p \in Procs : GpuOf[p] = g => proc[p] # "resident"

Reserved(g) == \E j \in Jobs : GpuOf[j] = g /\ mem[j] = "running"
Eligible(g) == DeviceIdle(g) /\ ~Reserved(g)

PhaseFinished(p) == status[p] = "complete"

\* Variant for checking ParentFirst: the parent's exit is taken for its result.
ParentEnded(j) == ParentOf[j] # NoParent => proc[ParentOf[j]] = "exited"

ParentFinished(j) == ParentOf[j] # NoParent => PhaseFinished(ParentOf[j])
Ready(j) == ParentFinished(j) /\ binding[j] \in {"bound", "stale"}

\* Only an adopted parent has a recorded identity the controller can test.
ParentGone(j) == ParentOf[j] \in Adopted => ~Alive(ParentOf[j])

\* FileEvents opens the directory of every parent's status file when the
\* controller starts, and raises when one is missing.  The directory of a run is
\* there once it reports; so a plan that names the parent of a phase as a phase
\* of its own does not start before that parent ran elsewhere.
Watchable == \A j \in Jobs : ParentOf[j] # NoParent => status[ParentOf[j]] # "absent"

FileWatched(p) == \E j \in Jobs : ParentOf[j] = p
Listening == ctl # "down"

-----------------------------------------------------------------------------
(* The controller.                                                         *)

\* Visit the next job of the plan with these states in memory.
Advance(states) ==
  /\ mem' = states
  /\ cursor' = cursor + 1
  /\ ctl' = "pass"

\* Variant for checking IntentBeforeLaunch: states are kept in memory only.
SaveNothing(states) == UNCHANGED disk

\* save(): queue.json gets the states held in memory.
Save(states) == disk' = states

\* Variant for checking SettledStays: a restart tries failed jobs again.
RestoredForRetry(j) == IF disk[j] \in {"launching", "failed"} THEN "waiting" ELSE disk[j]

\* A launch intent found on disk is never replayed.
Restored(j) == IF disk[j] = "launching" THEN "needs_attention" ELSE disk[j]

\* Live processes that the plan or the record names are watched again.  A start
\* that raises in FileEvents leaves everything as it was.
Start ==
  /\ ctl = "down" /\ Watchable
  /\ starts < MaxStarts
  /\ starts' = starts + 1
  /\ mem' = [j \in Jobs |-> Restored(j)]
  /\ watched' = {p \in Procs : /\ Alive(p)
                               /\ \/ p \in Jobs /\ disk[p] = "running"
                                  \/ \E j \in Jobs : p \in Adopted /\ ParentOf[j] = p}
  /\ ctl' = "pass" /\ cursor' = 1
  /\ UNCHANGED <<disk, owned, fileEvent, lease, logFile, binding, paused, spaceOk>>
  /\ UNCHANGED devVars /\ UNCHANGED workVars

\* A terminal job, or a running one whose process is alive, is left alone.
SkipSettled(j) ==
  /\ Handling(j)
  /\ mem[j] \in Terminal \/ (mem[j] = "running" /\ Alive(j))
  /\ Advance(mem)
  /\ UNCHANGED <<disk, owned, watched, starts, fileEvent, lease, logFile, binding, paused, spaceOk>>
  /\ UNCHANGED devVars /\ UNCHANGED workVars

\* The exit code is known only for a process this controller started.
ExitedCleanly(j) == j \notin owned \/ exitCode[j] = 0

\* Variant for checking CompleteIsFinal: a clean exit is taken for completion.
OutcomeByExit(j) == IF ExitedCleanly(j) THEN "complete" ELSE "failed"

Outcome(j) == IF ExitedCleanly(j) /\ PhaseFinished(j) THEN "complete" ELSE "failed"

Reap(j) ==
  /\ Handling(j)
  /\ mem[j] = "running" /\ ~Alive(j)
  /\ Advance([mem EXCEPT ![j] = Outcome(j)])
  /\ owned' = owned \ {j}
  /\ lease' = IF j \in owned
              THEN [lease EXCEPT ![GpuOf[j]] = @ \ {Ctl}] ELSE lease
  /\ UNCHANGED <<disk, watched, starts, fileEvent, logFile, binding, paused, spaceOk>>
  /\ UNCHANGED devVars /\ UNCHANGED workVars

\* The publication does not match the plan: phase_ready raises.
RejectBinding(j) ==
  /\ Handling(j)
  /\ mem[j] = "waiting" /\ ~paused /\ ParentFinished(j) /\ binding[j] = "bad"
  /\ Advance([mem EXCEPT ![j] = "needs_attention"])
  /\ UNCHANGED <<disk, owned, watched, starts, fileEvent, lease, logFile, binding, paused, spaceOk>>
  /\ UNCHANGED devVars /\ UNCHANGED workVars

CanLease(j) ==
  /\ ~paused /\ Ready(j) /\ ParentGone(j)
  /\ Eligible(GpuOf[j])
  /\ lease[GpuOf[j]] = {}

\* Paused, not ready, parent still exiting, device busy or leased elsewhere.
KeepWaiting(j) ==
  /\ Handling(j)
  /\ mem[j] = "waiting" /\ ~CanLease(j)
  /\ ~(~paused /\ ParentFinished(j) /\ binding[j] = "bad")
  /\ Advance(mem)
  /\ UNCHANGED <<disk, owned, watched, starts, fileEvent, lease, logFile, binding, paused, spaceOk>>
  /\ UNCHANGED devVars /\ UNCHANGED workVars

TakeLease(j) ==
  /\ Handling(j)
  /\ mem[j] = "waiting" /\ CanLease(j)
  /\ lease' = [lease EXCEPT ![GpuOf[j]] = {Ctl}]
  /\ ctl' = "leased"
  /\ UNCHANGED <<cursor, mem, disk, owned, watched, starts, fileEvent, logFile, binding, paused, spaceOk>>
  /\ UNCHANGED devVars /\ UNCHANGED workVars

\* Variant for checking LeaseReturned: the descriptor is left open.
LeakLease(j) == UNCHANGED lease

DropLease(j) == lease' = [lease EXCEPT ![GpuOf[j]] = @ \ {Ctl}]

\* nvidia-smi or the lock's directory fails, before the lock or under it.
QueryFails(j) ==
  /\ \/ Handling(j) /\ mem[j] = "waiting" /\ ~paused /\ Ready(j) /\ ParentGone(j)
        /\ UNCHANGED lease
     \/ Holding(j, "leased") /\ DropLease(j)
  /\ Advance([mem EXCEPT ![j] = "needs_attention"])
  /\ UNCHANGED <<disk, owned, watched, starts, fileEvent, logFile, binding, paused, spaceOk>>
  /\ UNCHANGED devVars /\ UNCHANGED workVars

\* Asked again under the lease the device is busy, or the disk is short.
AbandonLease(j) ==
  /\ Holding(j, "leased")
  /\ ~Eligible(GpuOf[j]) \/ ~spaceOk
  /\ DropLease(j) /\ Advance(mem)
  /\ UNCHANGED <<disk, owned, watched, starts, fileEvent, logFile, binding, paused, spaceOk>>
  /\ UNCHANGED devVars /\ UNCHANGED workVars

\* A bound input changed, or the output directory is already there.
RefuseLaunch(j) ==
  /\ Holding(j, "leased")
  /\ Eligible(GpuOf[j]) /\ spaceOk
  /\ binding[j] = "stale" \/ status[j] # "absent"
  /\ DropLease(j) /\ Advance([mem EXCEPT ![j] = "needs_attention"])
  /\ UNCHANGED <<disk, owned, watched, starts, fileEvent, logFile, binding, paused, spaceOk>>
  /\ UNCHANGED devVars /\ UNCHANGED workVars

\* save() writes the intent, with every other job's state, before Popen.
PersistIntent(j) ==
  /\ Holding(j, "leased")
  /\ Eligible(GpuOf[j]) /\ spaceOk
  /\ binding[j] = "bound" /\ status[j] = "absent"
  /\ mem' = [mem EXCEPT ![j] = "launching"]
  /\ Save([mem EXCEPT ![j] = "launching"])
  /\ ctl' = "intent"
  /\ UNCHANGED <<cursor, owned, watched, starts, fileEvent, lease, logFile, binding, paused, spaceOk>>
  /\ UNCHANGED devVars /\ UNCHANGED workVars

\* Variant for checking OneTaskPerDevice: the descriptor is closed on exec.
LeaseClosedOnExec(j) == lease

\* pass_fds: the worker inherits the lease.
LeaseInherited(j) == [lease EXCEPT ![GpuOf[j]] = @ \cup {j}]

\* The log is opened exclusively, then the worker is started.
Started(j) ==
  /\ Holding(j, "intent")
  /\ j \notin logFile
  /\ logFile' = logFile \cup {j}
  /\ proc' = [proc EXCEPT ![j] = "starting"]
  /\ launches' = [launches EXCEPT ![j] = @ + 1]
  /\ lease' = LeaseInherited(j)
  /\ owned' = owned \cup {j}
  /\ UNCHANGED <<disk, starts, fileEvent, exitCode, status, binding, paused, spaceOk>>
  /\ UNCHANGED devVars

Spawn(j) ==
  /\ Started(j)
  /\ watched' = watched \cup {j}
  /\ Advance([mem EXCEPT ![j] = "running"])

\* Its pidfd or its identity cannot be had: the worker runs, its job is left to
\* the operator, and the controller keeps the lock's descriptor.
SpawnUnrecorded(j) ==
  /\ Started(j)
  /\ watched' \in {watched, watched \cup {j}}
  /\ Advance([mem EXCEPT ![j] = "needs_attention"])

\* Opening the log or Popen raises; a log opened before a failed Popen stays.
SpawnFails(j) ==
  /\ Holding(j, "intent")
  /\ logFile' \in {logFile, logFile \cup {j}}
  /\ DropLease(j) /\ Advance([mem EXCEPT ![j] = "needs_attention"])
  /\ UNCHANGED <<disk, owned, watched, starts, fileEvent, binding, paused, spaceOk>>
  /\ UNCHANGED devVars /\ UNCHANGED workVars

\* The controller's descriptors are closed when it ends, however it ends.
Leave ==
  /\ ctl' = "down"
  /\ owned' = {} /\ watched' = {} /\ fileEvent' = FALSE
  /\ lease' = [g \in Gpus |-> lease[g] \ {Ctl}]

\* The end of a pass saves the queue; the controller returns once all jobs
\* are settled and otherwise waits for an event.
EndPass ==
  /\ ctl = "pass" /\ cursor = Len(Order) + 1
  /\ Save(mem)
  /\ IF \A j \in Jobs : mem[j] \in Terminal
     THEN Leave
     ELSE ctl' = "wait" /\ UNCHANGED <<owned, watched, fileEvent, lease>>
  /\ UNCHANGED <<cursor, mem, starts, logFile, binding, paused, spaceOk>>
  /\ UNCHANGED devVars /\ UNCHANGED workVars

\* Variant for checking ReadyIsSettled: only file events wake the controller.
ExitsUnseen == {}

ExitsSeen == {p \in watched : ~Alive(p)}

Wake ==
  /\ ctl = "wait"
  /\ fileEvent \/ ExitsSeen # {}
  /\ fileEvent' = FALSE
  /\ watched' = watched \ ExitsSeen
  /\ ctl' = "pass" /\ cursor' = 1
  /\ UNCHANGED <<mem, disk, owned, starts, lease, logFile, binding, paused, spaceOk>>
  /\ UNCHANGED devVars /\ UNCHANGED workVars

\* SIGTERM ends the wait; the queue was saved at the end of the pass.
Stop ==
  /\ ctl = "wait" /\ starts < MaxStarts
  /\ Leave
  /\ UNCHANGED <<cursor, mem, disk, starts, logFile, binding, paused, spaceOk>>
  /\ UNCHANGED devVars /\ UNCHANGED workVars

\* The controller dies between any two steps; only queue.json survives.
Crash ==
  /\ ctl # "down" /\ starts < MaxStarts
  /\ Leave
  /\ UNCHANGED <<cursor, mem, disk, starts, logFile, binding, paused, spaceOk>>
  /\ UNCHANGED devVars /\ UNCHANGED workVars

Controller ==
  \/ Start \/ EndPass \/ Wake
  \/ \E j \in Jobs : \/ SkipSettled(j) \/ Reap(j) \/ RejectBinding(j) \/ KeepWaiting(j)
                     \/ TakeLease(j) \/ AbandonLease(j) \/ RefuseLaunch(j)
                     \/ PersistIntent(j) \/ Spawn(j)

-----------------------------------------------------------------------------
(* The training processes.                                                 *)

\* The trainer creates its CUDA context and its output directory.
BecomeResident(p) ==
  /\ proc[p] = "starting"
  /\ proc' = [proc EXCEPT ![p] = "resident"]
  /\ status' = [status EXCEPT ![p] = "running"]
  /\ fileEvent' = (fileEvent \/ (Listening /\ FileWatched(p)))
  /\ UNCHANGED <<exitCode, launches, lease, logFile, binding, paused, spaceOk>>
  /\ UNCHANGED ctlVars /\ UNCHANGED devVars

\* The final status is written while the process still holds its device.
WriteFinalStatus(p) ==
  /\ proc[p] = "resident" /\ status[p] = "running"
  /\ status' = [status EXCEPT ![p] = "complete"]
  /\ fileEvent' = (fileEvent \/ (Listening /\ FileWatched(p)))
  /\ UNCHANGED <<proc, exitCode, launches, lease, logFile, binding, paused, spaceOk>>
  /\ UNCHANGED ctlVars /\ UNCHANGED devVars

\* It may exit early, cleanly after a pause, or fail after its final status;
\* nobody learns the code of an adopted process.
Exit(p, code) ==
  /\ Alive(p) /\ (p \in Adopted => code = 0)
  /\ proc' = [proc EXCEPT ![p] = "exited"]
  /\ exitCode' = [exitCode EXCEPT ![p] = code]
  /\ lease' = [g \in Gpus |-> lease[g] \ {p}]
  /\ UNCHANGED <<status, launches, fileEvent, logFile, binding, paused, spaceOk>>
  /\ UNCHANGED ctlVars /\ UNCHANGED devVars

Worker(p) == BecomeResident(p) \/ WriteFinalStatus(p) \/ \E code \in {0, 1} : Exit(p, code)

-----------------------------------------------------------------------------
(* Data preparation, the operator, other controllers and foreign contexts. *)

Publish(j, kind) ==
  /\ binding[j] = "none"
  /\ binding' = [binding EXCEPT ![j] = kind]
  /\ fileEvent' = (fileEvent \/ Listening)
  /\ UNCHANGED <<lease, logFile, paused, spaceOk>>
  /\ UNCHANGED ctlVars /\ UNCHANGED devVars /\ UNCHANGED workVars

\* dispatch-pause.json and the free space are read when a pass asks, not
\* watched; the operator writes dispatch-wakeup.json when either clears.
Hinder ==
  /\ externals < MaxExternal
  /\ externals' = externals + 1
  /\ \/ paused' = TRUE /\ UNCHANGED <<spaceOk, external>>
     \/ spaceOk' = FALSE /\ UNCHANGED <<paused, external>>
     \/ \E g \in Gpus : external' = [external EXCEPT ![g] = TRUE] /\ UNCHANGED <<paused, spaceOk>>
  /\ UNCHANGED <<fileEvent, lease, logFile, binding, peer>>
  /\ UNCHANGED ctlVars /\ UNCHANGED workVars

ClearAndWakeup ==
  /\ paused \/ ~spaceOk \/ (\E g \in Gpus : external[g])
  /\ paused' = FALSE /\ spaceOk' = TRUE
  /\ external' = [g \in Gpus |-> FALSE]
  /\ fileEvent' = (fileEvent \/ Listening)
  /\ UNCHANGED <<lease, logFile, binding, peer, externals>>
  /\ UNCHANGED ctlVars /\ UNCHANGED workVars

\* Another controller takes the lease and asks again under it before it starts.
PeerLaunch(g) ==
  /\ lease[g] = {} /\ DeviceIdle(g) /\ peer[g] = "none"
  /\ externals < MaxExternal
  /\ externals' = externals + 1
  /\ lease' = [lease EXCEPT ![g] = {Peer}]
  /\ peer' = [peer EXCEPT ![g] = "starting"]
  /\ UNCHANGED <<fileEvent, logFile, binding, paused, spaceOk, external>>
  /\ UNCHANGED ctlVars /\ UNCHANGED workVars

PeerResident(g) ==
  /\ peer[g] = "starting"
  /\ peer' = [peer EXCEPT ![g] = "resident"]
  /\ UNCHANGED <<fileEvent, lease, logFile, binding, paused, spaceOk, external, externals>>
  /\ UNCHANGED ctlVars /\ UNCHANGED workVars

\* An occupancy change outside the queue: the operator writes the wakeup.
PeerExit(g) ==
  /\ peer[g] # "none"
  /\ peer' = [peer EXCEPT ![g] = "none"]
  /\ lease' = [lease EXCEPT ![g] = @ \ {Peer}]
  /\ fileEvent' = (fileEvent \/ Listening)
  /\ UNCHANGED <<logFile, binding, paused, spaceOk, external, externals>>
  /\ UNCHANGED ctlVars /\ UNCHANGED workVars

Environment ==
  \/ \E j \in Jobs, kind \in Publication : Publish(j, kind)
  \/ Hinder \/ ClearAndWakeup
  \/ \E g \in Gpus : PeerLaunch(g) \/ PeerResident(g) \/ PeerExit(g)

Next ==
  \/ Controller \/ Stop \/ Crash
  \/ \E j \in Jobs : QueryFails(j) \/ SpawnFails(j) \/ SpawnUnrecorded(j)
  \/ \E p \in Procs : Worker(p)
  \/ Environment

Spec == Init /\ [][Next]_vars

\* The operating system schedules the controller and the workers; data
\* preparation publishes every phase; foreign occupancy ends and is announced.
Fairness ==
  /\ WF_vars(Controller)
  /\ \A p \in Procs : WF_vars(BecomeResident(p)) /\ WF_vars(\E code \in {0, 1} : Exit(p, code))
  /\ \A j \in Jobs : WF_vars(\E kind \in Publication : Publish(j, kind))
  /\ WF_vars(ClearAndWakeup)
  /\ \A g \in Gpus : WF_vars(PeerExit(g))

FairSpec == Spec /\ Fairness

-----------------------------------------------------------------------------
(* Properties.                                                             *)

\* One project task per physical GPU (module docstring; the lease comment on
\* pass_fds): across crashes, restarts, adopted processes and other
\* controllers, two live training processes never share a device.
OneTaskPerDevice ==
  \A g \in Gpus :
    /\ \A p, q \in Procs : GpuOf[p] = g /\ GpuOf[q] = g /\ Alive(p) /\ Alive(q) => p = q
    /\ peer[g] # "none" => \A p \in Procs : GpuOf[p] = g => ~Alive(p)

\* "A persisted launch intent prevents accidental replay after a controller
\* crash": a job whose process was ever started is never still waiting in
\* queue.json, and is started at most once.
IntentBeforeLaunch ==
  \A j \in Jobs : launches[j] > 0 => disk[j] # "waiting" /\ launches[j] = 1

\* A job counts as complete only with its process gone and its budget spent; a
\* complete status beside a failing exit is no completion either, for the
\* controller that started the process (a later one cannot know its exit code).
CompleteIsFinal ==
  \A j \in Jobs : mem[j] = "complete" \/ disk[j] = "complete" =>
    /\ status[j] = "complete" /\ proc[j] = "exited"
    /\ starts = 1 => exitCode[j] = 0

\* A successor never runs beside an adopted parent, nor before its parent
\* reached its budget (phase_ready and waiting_parent_exit).
ParentFirst ==
  \A j \in Jobs : launches[j] > 0 /\ ParentOf[j] # NoParent =>
    /\ status[ParentOf[j]] = "complete"
    /\ ParentOf[j] \in Adopted => proc[ParentOf[j]] = "exited"

\* No step of the controller, crash or restart takes a settled job back.
SettledStays == [][\A j \in Jobs : disk[j] \in Terminal => disk'[j] = disk[j]]_vars

\* A job settled although its process was started and never waited for.
Unreaped(j) == j \in owned /\ mem[j] \in Terminal

\* The lease is not leaked: with no process on a device and the controller
\* asleep or gone, nothing but another controller holds the device.  Only what
\* follows a Popen may leave the descriptor open, until the controller ends.
LeaseReturned ==
  \A g \in Gpus :
    /\ ctl = "down" \/ (ctl = "wait" /\ ExitsSeen = {})
    /\ \A j \in Jobs : GpuOf[j] = g => ~Alive(j) /\ ~Unreaped(j)
    => lease[g] \subseteq {Peer}

\* The processes and foreign tasks on a device, and the tasks ever started.
OnDevice(g) == {p \in Procs : GpuOf[p] = g /\ Alive(p)}
                 \cup {f \in {Peer} : peer[g] # "none"}
Begun == Adopted \cup {j \in Jobs : launches[j] > 0}

Devices == INSTANCE ExclusiveDevices
             WITH Tasks <- Procs, Foreign <- Peer,
                  holder <- [g \in Gpus |-> OnDevice(g)], begun <- Begun

\* The queue implements the promise of exclusive devices: a task starts only
\* on a device nobody uses, and only if it never ran before.
ImplementsDevices == Devices!Spec

\* A launch that was interrupted or refused: its process, if there is one, is
\* no longer the controller's, and the plan waits for the operator.
LeftToOperator(g) ==
  \E i \in Jobs : GpuOf[i] = g /\ disk[i] = "needs_attention" /\ i \in logFile

\* "Dispatch formal first phases and successors on file/PID events": once its
\* parent is finished and its launch file published, a phase is dispatched
\* and settled without any timer, unless its device is left to the operator.
ReadyIsSettled ==
  \A j \in Jobs : Ready(j) ~> (disk[j] \in Terminal \/ LeftToOperator(GpuOf[j]))

=============================================================================
