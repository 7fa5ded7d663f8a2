--------------------------- MODULE ExclusiveQueue ---------------------------
(***************************************************************************)
(* The polling experiment queue: execute in                                *)
(* scripts/run_exclusive_gpu_queue.py.  Every pass samples the devices,    *)
(* settles finished jobs, then offers each waiting job the devices it is   *)
(* allowed to use.  queue.json is written at the end of a pass only, so a  *)
(* crash forgets what the pass did; the devices' locks, which the workers  *)
(* inherit, and the jobs' log files do not forget.                         *)
(***************************************************************************)
EXTENDS Naturals, FiniteSets

CONSTANTS
  Jobs, Gpus,
  Rank,        \* the place of each job in the plan's list
  Allowed,     \* the devices a job may use
  GateOf,      \* the job whose result this one waits for, or NoGate
  NoGate,
  Adopted,     \* processes started before the queue, which hold no lock
  AdoptedOn,   \* the devices such a process occupies
  NoGpu, Ctl, Peer,
  MaxStarts,   \* bound: how often the controller is started
  MaxExternal  \* bound: how often the pass is hindered from outside

Procs   == Jobs \cup Adopted
Holders == Jobs \cup {Ctl, Peer}

ASSUME ExclusiveQueueAssumption ==
  /\ Jobs \cap Adopted = {}
  /\ Ctl # Peer /\ {Ctl, Peer} \cap Procs = {}
  /\ NoGate \notin Jobs /\ NoGpu \notin Gpus
  /\ Rank \in [Jobs -> Nat] /\ \A i, j \in Jobs : Rank[i] = Rank[j] => i = j
  /\ Allowed \in [Jobs -> SUBSET Gpus]
  /\ GateOf \in [Jobs -> Jobs \cup {NoGate}]
  /\ AdoptedOn \in [Adopted -> SUBSET Gpus]
  /\ \A p, q \in Adopted : AdoptedOn[p] \cap AdoptedOn[q] # {} => p = q
  /\ MaxStarts \in Nat /\ MaxExternal \in Nat

VARIABLES
  ctl,        \* "down", "sample", "reap", "dispatch", "leased" or "sleep"
  visited,    \* jobs this pass has dispatched or passed over
  handled,    \* the job that is offered devices, and the one it has locked
  tried,      \* devices the job under way was refused on
  sampled,    \* devices that looked free at the top of the pass
  reserved,   \* devices the controller knows to be occupied
  mem, disk,  \* the job records in memory and in queue.json
  owned,      \* jobs whose process handle and lock this controller holds
  lease,      \* the holders of each device's lock
  proc, exitCode, result, placed, logFile, launches,
  verdict,    \* external evidence of a job: control run, receipt, predecessor
  paused, spaceOk, peer, external,
  starts, externals

passVars == <<visited, handled, tried, sampled, reserved>>
workVars == <<proc, exitCode, result, placed, logFile, launches>>
hostVars == <<verdict, paused, spaceOk, peer, external, externals>>
vars == <<ctl, visited, handled, tried, sampled, reserved, mem, disk, owned, lease,
          proc, exitCode, result, placed, logFile, launches,
          verdict, paused, spaceOk, peer, external, starts, externals>>

Terminal == {"complete", "failed", "blocked"}
Alive(p) == proc[p] \in {"starting", "resident"}
Nothing  == [job |-> NoGate, gpu |-> NoGpu]

TypeOK ==
  /\ ctl \in {"down", "sample", "reap", "dispatch", "leased", "sleep"}
  /\ visited \subseteq Jobs /\ owned \subseteq Jobs /\ logFile \subseteq Jobs
  /\ handled \in {Nothing} \cup [job : Jobs, gpu : Gpus \cup {NoGpu}]
  /\ tried \subseteq Gpus /\ sampled \subseteq Gpus /\ reserved \subseteq Gpus
  /\ mem \in [Jobs -> Terminal \cup {"waiting", "running"}]
  /\ disk \in [Jobs -> Terminal \cup {"waiting", "running"}]
  /\ lease \in [Gpus -> SUBSET Holders]
  /\ proc \in [Procs -> {"none", "starting", "resident", "exited"}]
  /\ exitCode \in [Procs -> {0, 1}]
  /\ result \in [Jobs -> {"absent", "running", "complete", "failed"}]
  /\ placed \in [Jobs -> Gpus \cup {NoGpu}]
  /\ launches \in [Jobs -> Nat]
  /\ verdict \in [Jobs -> {"waiting", "ready", "blocked"}]
  /\ paused \in BOOLEAN /\ spaceOk \in BOOLEAN
  /\ peer \in [Gpus -> {"none", "starting", "resident"}]
  /\ external \in [Gpus -> BOOLEAN]
  /\ starts \in 0 .. MaxStarts /\ externals \in 0 .. MaxExternal

Init ==
  /\ ctl = "down" /\ visited = {} /\ owned = {} /\ handled = Nothing
  /\ tried = {} /\ sampled = {} /\ reserved = {}
  /\ mem = [j \in Jobs |-> "waiting"] /\ disk = mem
  /\ lease = [g \in Gpus |-> {}]
  /\ proc = [p \in Procs |-> IF p \in Adopted THEN "resident" ELSE "none"]
  /\ exitCode = [p \in Procs |-> 0]
  /\ result = [j \in Jobs |-> "absent"]
  /\ placed = [j \in Jobs |-> NoGpu]
  /\ logFile = {} /\ launches = [j \in Jobs |-> 0]
  /\ verdict = [j \in Jobs |-> "waiting"]
  /\ paused = FALSE /\ spaceOk = TRUE
  /\ peer = [g \in Gpus |-> "none"] /\ external = [g \in Gpus |-> FALSE]
  /\ starts = 0 /\ externals = 0

-----------------------------------------------------------------------------
(* What the controller observes.                                           *)

Occupies(p, g) == IF p \in Adopted THEN g \in AdoptedOn[p] ELSE placed[p] = g

\* nvidia-smi shows a process only once it has created its CUDA context.
DeviceIdle(g) ==
  /\ ~external[g] /\ peer[g] # "resident"
  /\ \A p \in Procs : Occupies(p, g) => proc[p] # "resident"

\* Variant for checking GateRespected: any result opens the gate.
GateOpensOnResult(j) ==
  IF GateOf[j] # NoGate /\ result[GateOf[j]] = "absent" THEN "waiting" ELSE verdict[j]

\* gate(): first the results of other jobs, then the external evidence.
Gate(j) ==
  IF GateOf[j] # NoGate /\ result[GateOf[j]] = "failed" THEN "blocked"
  ELSE IF GateOf[j] # NoGate /\ result[GateOf[j]] # "complete" THEN "waiting"
  ELSE verdict[j]

Completed(j) == result[j] = "complete"
Waiting == {j \in Jobs : mem[j] = "waiting" /\ j \notin visited}
Foremost(j) == j \in Waiting /\ \A k \in Waiting : Rank[j] <= Rank[k]

-----------------------------------------------------------------------------
(* The controller.                                                         *)

Start ==
  /\ ctl = "down" /\ starts < MaxStarts
  /\ starts' = starts + 1
  /\ mem' = disk
  /\ ctl' = "sample"
  /\ UNCHANGED <<passVars, disk, owned, lease, workVars, hostVars>>

Sample ==
  /\ ctl = "sample"
  /\ sampled' = {g \in Gpus : DeviceIdle(g)}
  /\ reserved' = UNION {AdoptedOn[p] : p \in {q \in Adopted : Alive(q)}}
  /\ ctl' = "reap" /\ visited' = {} /\ tried' = {} /\ handled' = Nothing
  /\ UNCHANGED <<mem, disk, owned, lease, workVars, hostVars, starts>>

\* Variant for checking OpenGateSettles: a child that has exited, and whose
\* exit code nobody has fetched, still counts as alive.
EndedStrangers == {j \in Jobs \ owned : mem[j] = "running" /\ ~Alive(j)}

Ended == {j \in Jobs : mem[j] = "running" /\ ~Alive(j)}

\* The exit code is known only for a process this controller started.
ExitedCleanly(j) == j \notin owned \/ exitCode[j] = 0

\* Variant for checking CompleteIsFinal: a clean exit is taken for completion.
OutcomeByExit(j) == IF ExitedCleanly(j) THEN "complete" ELSE "failed"

Outcome(j) == IF ExitedCleanly(j) /\ Completed(j) THEN "complete" ELSE "failed"

\* Finished jobs are settled and their locks closed; the devices of running
\* ones are reserved.
ReapAll ==
  /\ ctl = "reap"
  /\ mem' = [j \in Jobs |-> IF j \in Ended THEN Outcome(j) ELSE mem[j]]
  /\ reserved' = reserved \cup {placed[j] : j \in {k \in Jobs : mem[k] = "running" /\ Alive(k)}}
  /\ lease' = [g \in Gpus |-> IF \E j \in Ended \cap owned : placed[j] = g
                              THEN lease[g] \ {Ctl} ELSE lease[g]]
  /\ owned' = owned \ Ended
  /\ ctl' = "dispatch"
  /\ UNCHANGED <<visited, handled, tried, sampled, disk, workVars, hostVars, starts>>

PassOver(j, state) ==
  /\ mem' = [mem EXCEPT ![j] = state]
  /\ visited' = visited \cup {j} /\ tried' = {} /\ handled' = Nothing
  /\ ctl' = "dispatch"

\* The pause file keeps a job waiting; its gate may, or may end it for good.
Hold(j) ==
  /\ ctl = "dispatch" /\ handled = Nothing /\ Foremost(j)
  /\ \/ (paused \/ Gate(j) = "waiting") /\ PassOver(j, "waiting")
     \/ ~paused /\ Gate(j) = "blocked" /\ PassOver(j, "blocked")
  /\ UNCHANGED <<sampled, reserved, disk, owned, lease, workVars, hostVars, starts>>

\* The devices the sample shows free and whose lock nobody holds.
Offered(j) == {g \in Allowed[j] : g \in sampled \ (reserved \cup tried) /\ lease[g] = {}}

\* The gate is read once, before the first device is tried.
OfferDevices(j) ==
  /\ ctl = "dispatch" /\ handled = Nothing /\ Foremost(j)
  /\ ~paused /\ Gate(j) = "ready"
  /\ handled' = [job |-> j, gpu |-> NoGpu] /\ tried' = {}
  /\ UNCHANGED <<ctl, visited, sampled, reserved, mem, disk, owned, lease, workVars, hostVars, starts>>

Offering(j) == ctl = "dispatch" /\ handled = [job |-> j, gpu |-> NoGpu]

TakeLease(j, g) ==
  /\ Offering(j)
  /\ g \in Offered(j)
  /\ lease' = [lease EXCEPT ![g] = {Ctl}]
  /\ handled' = [job |-> j, gpu |-> g]
  /\ ctl' = "leased"
  /\ UNCHANGED <<visited, tried, sampled, reserved, mem, disk, owned, workVars, hostVars, starts>>

NoDevice(j) ==
  /\ Offering(j)
  /\ Offered(j) = {}
  /\ PassOver(j, "waiting")
  /\ UNCHANGED <<sampled, reserved, disk, owned, lease, workVars, hostVars, starts>>

Handling(j, g) == ctl = "leased" /\ handled = [job |-> j, gpu |-> g]

\* Variant for checking LocksAreOwned: the descriptor is left open.
LeakLease(g) == UNCHANGED lease

DropLease(g) == lease' = [lease EXCEPT ![g] = @ \ {Ctl}]

\* Asked again under the lock the device is busy: the next one is tried.
GiveUpDevice(j, g) ==
  /\ Handling(j, g) /\ ~DeviceIdle(g)
  /\ DropLease(g)
  /\ tried' = tried \cup {g} /\ handled' = [handled EXCEPT !.gpu = NoGpu] /\ ctl' = "dispatch"
  /\ UNCHANGED <<visited, sampled, reserved, mem, disk, owned, workVars, hostVars, starts>>

WaitForSpace(j, g) ==
  /\ Handling(j, g) /\ DeviceIdle(g) /\ ~spaceOk
  /\ DropLease(g) /\ PassOver(j, "waiting")
  /\ UNCHANGED <<sampled, reserved, disk, owned, workVars, hostVars, starts>>

\* Variant for checking ImplementsDevices: the log may be written again.
OutputAbsent(j) == result[j] = "absent"

\* An output or a log of an earlier attempt is never overwritten.
NeverTried(j) == result[j] = "absent" /\ j \notin logFile

Refuse(j, g) ==
  /\ Handling(j, g) /\ DeviceIdle(g) /\ spaceOk
  /\ ~NeverTried(j)
  /\ DropLease(g) /\ PassOver(j, "failed")
  /\ UNCHANGED <<sampled, reserved, disk, owned, workVars, hostVars, starts>>

CanLaunch(j, g) == DeviceIdle(g) /\ spaceOk /\ NeverTried(j)

\* nvidia-smi fails under the lock, a frozen input changed, or opening the log
\* or Popen raises; a log opened before a failed Popen stays.
LaunchFails(j, g) ==
  /\ Handling(j, g)
  /\ logFile' \in {logFile} \cup (IF CanLaunch(j, g) THEN {logFile \cup {j}} ELSE {})
  /\ DropLease(g) /\ PassOver(j, "failed")
  /\ UNCHANGED <<sampled, reserved, disk, owned, proc, exitCode, result, placed, launches,
                 hostVars, starts>>

\* Variant for checking OneTaskPerDevice: the descriptor is closed on exec.
LeaseClosedOnExec(j, g) == lease

\* pass_fds: the worker keeps the lock when the controller exits.
LeaseInherited(j, g) == [lease EXCEPT ![g] = @ \cup {j}]

Spawn(j, g) ==
  /\ Handling(j, g) /\ CanLaunch(j, g)
  /\ logFile' = logFile \cup {j}
  /\ proc' = [proc EXCEPT ![j] = "starting"]
  /\ placed' = [placed EXCEPT ![j] = g]
  /\ launches' = [launches EXCEPT ![j] = @ + 1]
  /\ lease' = LeaseInherited(j, g)
  /\ owned' = owned \cup {j}
  /\ reserved' = reserved \cup {g}
  /\ PassOver(j, "running")
  /\ UNCHANGED <<sampled, disk, exitCode, result, hostVars, starts>>

\* The controller's descriptors are closed when it ends, however it ends.
Leave ==
  /\ ctl' = "down" /\ owned' = {}
  /\ lease' = [g \in Gpus |-> lease[g] \ {Ctl}]

EndPass ==
  /\ ctl = "dispatch" /\ Waiting = {}
  /\ disk' = mem
  /\ IF (\A j \in Jobs : mem[j] \in Terminal) /\ ~(\E p \in Adopted : Alive(p))
     THEN Leave
     ELSE ctl' = "sleep" /\ UNCHANGED <<owned, lease>>
  /\ UNCHANGED <<passVars, mem, workVars, hostVars, starts>>

PollAgain ==
  /\ ctl = "sleep"
  /\ ctl' = "sample"
  /\ UNCHANGED <<passVars, mem, disk, owned, lease, workVars, hostVars, starts>>

\* SIGTERM is honoured between passes; a crash comes at any time.
StopOrCrash ==
  /\ ctl # "down" /\ starts < MaxStarts
  /\ Leave
  /\ UNCHANGED <<passVars, mem, disk, workVars, hostVars, starts>>

Controller ==
  \/ Start \/ Sample \/ ReapAll \/ EndPass \/ PollAgain
  \/ \E j \in Jobs : Hold(j) \/ OfferDevices(j) \/ NoDevice(j)
  \/ \E j \in Jobs, g \in Gpus :
       \/ TakeLease(j, g) \/ GiveUpDevice(j, g) \/ WaitForSpace(j, g)
       \/ Refuse(j, g) \/ Spawn(j, g)

-----------------------------------------------------------------------------
(* The workers and their surroundings.                                     *)

ctlVars == <<ctl, passVars, mem, disk, owned, starts>>

BecomeResident(j) ==
  /\ proc[j] = "starting"
  /\ proc' = [proc EXCEPT ![j] = "resident"]
  /\ result' = [result EXCEPT ![j] = "running"]
  /\ UNCHANGED <<ctlVars, lease, exitCode, placed, logFile, launches, hostVars>>

WriteResult(j, state) ==
  /\ proc[j] = "resident" /\ result[j] = "running"
  /\ result' = [result EXCEPT ![j] = state]
  /\ UNCHANGED <<ctlVars, lease, proc, exitCode, placed, logFile, launches, hostVars>>

Exit(p, code) ==
  /\ Alive(p)
  /\ proc' = [proc EXCEPT ![p] = "exited"]
  /\ exitCode' = [exitCode EXCEPT ![p] = code]
  /\ lease' = [g \in Gpus |-> lease[g] \ {p}]
  /\ UNCHANGED <<ctlVars, result, placed, logFile, launches, hostVars>>

\* The control run or the predecessor ends.
Evidence(j, v) ==
  /\ verdict[j] = "waiting"
  /\ verdict' = [verdict EXCEPT ![j] = v]
  /\ UNCHANGED <<ctlVars, lease, workVars, paused, spaceOk, peer, external, externals>>

Hinder ==
  /\ externals < MaxExternal
  /\ externals' = externals + 1
  /\ \/ paused' = TRUE /\ UNCHANGED <<spaceOk, external>>
     \/ spaceOk' = FALSE /\ UNCHANGED <<paused, external>>
     \/ \E g \in Gpus : external' = [external EXCEPT ![g] = TRUE] /\ UNCHANGED <<paused, spaceOk>>
  /\ UNCHANGED <<ctlVars, lease, workVars, verdict, peer>>

Relieve ==
  /\ paused \/ ~spaceOk \/ \E g \in Gpus : external[g]
  /\ paused' = FALSE /\ spaceOk' = TRUE
  /\ external' = [g \in Gpus |-> FALSE]
  /\ UNCHANGED <<ctlVars, lease, workVars, verdict, peer, externals>>

\* Another controller takes the lock and asks again under it before it starts.
PeerLaunch(g) ==
  /\ lease[g] = {} /\ DeviceIdle(g) /\ externals < MaxExternal
  /\ externals' = externals + 1
  /\ lease' = [lease EXCEPT ![g] = {Peer}]
  /\ peer' = [peer EXCEPT ![g] = "starting"]
  /\ UNCHANGED <<ctlVars, workVars, verdict, paused, spaceOk, external>>

PeerResident(g) ==
  /\ peer[g] = "starting"
  /\ peer' = [peer EXCEPT ![g] = "resident"]
  /\ UNCHANGED <<ctlVars, lease, workVars, verdict, paused, spaceOk, external, externals>>

PeerExit(g) ==
  /\ peer[g] # "none"
  /\ peer' = [peer EXCEPT ![g] = "none"]
  /\ lease' = [lease EXCEPT ![g] = @ \ {Peer}]
  /\ UNCHANGED <<ctlVars, workVars, verdict, paused, spaceOk, external, externals>>

Environment ==
  \/ \E j \in Jobs, v \in {"ready", "blocked"} : Evidence(j, v)
  \/ Hinder \/ Relieve
  \/ \E g \in Gpus : PeerLaunch(g) \/ PeerResident(g) \/ PeerExit(g)

Next ==
  \/ Controller \/ StopOrCrash
  \/ \E j \in Jobs, g \in Gpus : LaunchFails(j, g)
  \/ \E j \in Jobs : BecomeResident(j) \/ \E state \in {"complete", "failed"} : WriteResult(j, state)
  \/ \E p \in Procs, code \in {0, 1} : Exit(p, code)
  \/ Environment

Spec == Init /\ [][Next]_vars

\* The controller polls and is started again while MaxStarts allows it; workers
\* and foreign tasks end; hindrances are removed.
Fairness ==
  /\ WF_vars(Controller)
  /\ \A j \in Jobs : WF_vars(BecomeResident(j))
  /\ \A p \in Procs : WF_vars(\E code \in {0, 1} : Exit(p, code))
  /\ WF_vars(Relieve)
  /\ \A g \in Gpus : WF_vars(PeerExit(g))

FairSpec == Spec /\ Fairness

-----------------------------------------------------------------------------
(* Properties.                                                             *)

OnDevice(g) == {p \in Procs : Alive(p) /\ Occupies(p, g)}
                 \cup {f \in {Peer} : peer[g] # "none"}

\* "One project task per physical GPU" (module docstring): although a crash
\* forgets every launch of the pass, no device ever has two live tasks.
OneTaskPerDevice == \A g \in Gpus : Cardinality(OnDevice(g)) <= 1

Devices == INSTANCE ExclusiveDevices
             WITH Tasks <- Procs, Foreign <- Peer,
                  holder <- [g \in Gpus |-> OnDevice(g)],
                  begun <- Adopted \cup {j \in Jobs : launches[j] > 0}

\* The queue implements the promise of exclusive devices: a task starts only
\* on a device nobody uses, and only if it never ran before.
ImplementsDevices == Devices!Spec

\* A job counts as complete only with its process gone and its result written;
\* a complete result beside a failing exit is no completion either, for the
\* controller that started the process (a later one cannot know its exit code).
CompleteIsFinal ==
  \A j \in Jobs : mem[j] = "complete" \/ disk[j] = "complete" =>
    /\ result[j] = "complete" /\ proc[j] = "exited"
    /\ starts = 1 => exitCode[j] = 0

\* A gated job starts only once the result it waits for is complete, and is
\* blocked for good only when that result failed or its evidence was negative.
GateRespected ==
  \A j \in Jobs :
    /\ launches[j] > 0 /\ GateOf[j] # NoGate => result[GateOf[j]] = "complete"
    /\ mem[j] = "blocked" => \/ GateOf[j] # NoGate /\ result[GateOf[j]] = "failed"
                             \/ verdict[j] = "blocked"

\* A lock is held by the controller only for a launch in progress or a job it
\* still has to reap, by a worker only while it lives.
LocksAreOwned ==
  \A g \in Gpus :
    /\ Ctl \in lease[g] => (ctl = "leased" /\ handled.gpu = g) \/ \E j \in owned : placed[j] = g
    /\ \A j \in Jobs \cap lease[g] : Alive(j) /\ placed[j] = g

\* A job whose gate is open is settled in the end, whatever was lost in a
\* crash: polling needs no wake-up.
OpenGateSettles ==
  \A j \in Jobs : Gate(j) = "ready" ~> disk[j] \in Terminal

\* docs/operations/exclusive-gpu-queue.md:21, "a restart with the same plan
\* recognises the original processes by PID and start time": no live worker of
\* the plan is taken for a job that failed.
RestartRecognisesWorkers ==
  \A j \in Jobs : Alive(j) => mem[j] # "failed"
=============================================================================
