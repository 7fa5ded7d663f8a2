# MiniFrontier in TLA+

Models, model-checking runs and machine-checked proofs for MiniFrontier, a
Python project that trains small multimodal language models on a few GPUs.
Its hard part is not the arithmetic but the bookkeeping around it: training
phases that last for days, are dispatched to exclusive GPUs by controllers that
may crash, are paused, killed and resumed, and must never train twice on the
same tokens, share a device, or report work they have not done. These modules
model that bookkeeping from the source.

## The system

| part | code | state | operations | talks to |
|---|---|---|---|---|
| formal phase queue | `scripts/run_exclusive_gpu_queue.py` `execute_phases` | job records in memory and in `queue.json`, device locks, pidfds | one pass over the plan per event: reap, test readiness, lock the device, persist the intent, launch | workers (processes, `status.json`), data preparation (launch files), operator (`dispatch-pause.json`, `dispatch-wakeup.json`), other queues (lock files) |
| polling experiment queue | same file, `execute` | same, saved at the end of a pass | sample, reap, gate, lock, launch, sleep | workers' results, control evidence, other queues |
| training loop | `minifrontier/training/train.py` `main` | weights, optimizer, ledger, cursor; `checkpoint.pt`, `status.json`, `best-model.pt`, `best-validation.json`, `model.pt`, `metrics.jsonl` | update, validate, pause, save, resume, publish | data stream, queues (through `status.json`), operator (`pause.request`) |
| lookahead | `minifrontier/training/prefetch.py` | producer's cursor, committed cursor, one future | draw a window ahead, commit it when consumed | training loop |
| validation | `minifrontier/training/validation.py` | none (milestones follow from the ledger) | due test, held-out selection | training loop |
| storage | `minifrontier/storage.py`, `training/runtime.py` `atomic_save` | lock file per filesystem | check the reserve, replace atomically | every writer |
| data-task observer | `scripts/pretraining_data_events.py` | watched files, pidfds, `actions/` markers | observe, mirror, run completion hooks once | data producers, hooks |
| data-parallel ranks | `train.py` with `WORLD_SIZE` > 1 | a copy of the loop per rank, the process group | draw a share, reduce, update, judge alone, save together | each other (collectives), operator (`pause.request`) |
| pretraining program | `training/pretraining.py`, `transitions.py` | recipe with its bindings, lineage, main CE so far | validate the parent, inherit weights, moments and sampler, resume | training loop, operator |
| stage launcher | `scripts/launch_training.py` | `pipeline.json`, its lock, one child | run the stages in turn, skip, resume, continue | trainings (exit code, files), operator |
| native trainer | `training/minifrontier1.py`, `minifrontier1_curriculum.py` | weights, ledger, `Sampler`; `checkpoint.pt`, manifest, status, `evaluation.json` | draw a context length, fill a window, update, pause, save, resume, next phase | lookahead, operator |
| cursors | `training/runtime.py`, `mixture.py`, `media_mixture.py`, `batching.py` | offsets, per-source debts | next batch, save, restore | training loop |
| other | single-GPU queue, post-training, rollouts and tools, speculative decoding, models, data conversion, inference, registry | | | see "Not modelled" |

What is hard: controllers and workers are separate processes that share files;
either may die between two writes; a started process is invisible to
`nvidia-smi` until it has a CUDA context; the phase queue has no timer; the
trainer writes several files that are read by others, not atomically together;
the data stream is drawn ahead of its consumption; ranks decide alone and meet in
collectives; a program spans phases whose state is handed on by files that an
operator chooses; documents are longer than the windows they are read in. `PROJECT.json` lists the
hazards with their lines and the properties aimed at each.

## Modules

| module | models | kind |
|---|---|---|
| `ExclusiveDevices` | what both queues promise: one task to a device, no task twice | abstract specification |
| `PhaseQueue` | `execute_phases`, its workers and surroundings | detailed specification |
| `ExclusiveQueue` | `execute`, its workers and surroundings | detailed specification |
| `TrainingRun` | one phase of `train.py` with `prefetch.py` | detailed specification |
| `DataEvents` | `pretraining_data_events.py`: observer, supervisor, hooks | detailed specification |
| `DataParallel` | the ranks of `train.py`, `BatchCursor`, `microbatch_count` | detailed specification |
| `PretrainingProgram` | `pretraining.py` and its calls in `train.py` | detailed specification |
| `StageLauncher` | `launch_training.py` and what it sees of its trainings | detailed specification |
| `NativeTraining` | `minifrontier1.py`: `Sampler`, window production, loop, phases, with `prefetch.py` | detailed specification |
| `MC...` for each of these | small plans, streams, programs and services for TLC | instances |
| `...Proofs` for each of these | theorems and their proofs | proofs |

### PhaseQueue

`ctl` and `cursor` say where `execute_phases` stands: in the pass at a job,
holding the lock of that job's device (`leased`), with the intent saved
(`intent`), in `select` (`wait`), or not running (`down`). `mem` and `disk` are
the job records in memory and in `queue.json`; the several waiting states of the
code (`pending`, `paused`, `waiting_gpu`, ...) differ in wording only and are
one state. A lock is the set of its holders: `flock` belongs to the open file
description, which `pass_fds` shares with the worker, so it is free only when
controller and worker have both closed it; all descriptors of a process close
when it ends. A worker is `starting` until it has a CUDA context, then
`resident`, then `exited`; only a resident one is seen by `nvidia-smi`
(`DeviceIdle`). Events are the two the selector knows: a watched file changed
(`fileEvent`) and a watched process exited (`ExitsSeen`); they are consumed by
`Wake`. `Crash` may happen between any two steps. Another queue on the same lock
directory is `Peer`, which obeys the same rule (lock, look again, launch); a
foreign CUDA context is `external`. The operator writes `dispatch-wakeup.json`
after external changes, as line 381 asks.

`FileEvents` opens the directory of every watched file once, when the controller
starts, and raises if one is missing; a controller that cannot start changes
nothing. The guard `Watchable` of `Start` says so: the directory of a parent is there
once the parent has run. A plan that names the parent of a phase as a phase of its own
therefore never starts, because that parent's directory must also be absent for it
to be launched; parents are adopted processes, or ran elsewhere before. The
directories of launch files are assumed to exist. An exception while a job is
visited leaves it at `needs_attention`: `QueryFails` (`nvidia-smi`, the lock's
directory) and `SpawnFails` before `Popen`, which close the lock, and
`SpawnUnrecorded` after it (`pidfd_open`, the process's identity): then a worker runs
that no record names, and the controller keeps the descriptor of its lock until it
ends. `LeaseReturned` exempts that descriptor (`Unreaped`) and no other.

### ExclusiveQueue

The polling queue is modelled the same way, except that it samples the devices
once in a pass (`sampled`), offers each job its devices in turn, reads gates
(`Gate`: other jobs' results first, then external evidence, `verdict`), saves at
the end of a pass only, and needs no event. Jobs are visited in the plan's order
(`Rank`). The order among one job's devices is left open. A failure to read the
worker's identity after `Popen` is left out.

### TrainingRun

`pc` walks through one iteration of the loop of `main`. The weights are
represented by the sequence of windows they were trained on (`model`), which
makes "exact continuation" a statement about data and not about floats; window
`w` of the resumable stream has the same content whenever it is drawn.
`Ask`/`Produce`/`Fetch` are `OrderedPrefetch`; `Fetch` commits the cursor of the
window it hands out. `Resume` restores what the checkpoint holds and rereads
`best-validation.json`. Every file is a variable that only its write changes; a
`Crash` clears the memory and may tear a JSON file that is being written in place
(`status.json`, `best-validation.json`), never one that `atomic_save` replaces.
`--stop-after-updates` behaves as a pause request and has no action of its own.
Budgets are the CE tokens of one device; with `prefetch` off the cursor is read
from the stream directly, which is the same as a lookahead that never runs ahead.

### DataEvents

Data tasks are independent programs that replace their `run.json` (`record`) and
exit (`process`). The observer takes a snapshot of a task in two steps, because a
task moves on between them: `Look` reads the record, and `OpenPid` or
`ProcessMissing` looks for the process; `ProcessMissing` reads the record a second
time, as the code does. `changed` is what inotify has queued, `watched` the pidfd
held, `last` the signature that suppresses repeated reports, `stream` the
observer's output. The supervisor takes one event at a time and considers its
hooks; `run_hook` is `Recall` when there is a marker, otherwise `BindEvent` (the
event file), `RecordIntent` (the marker, which carries the file's digest; here
`bound`), `Launch`, perhaps `Timeout`, and `RecordOutcome`. `published` is
`needs_attention` in the service's `run.json`, `attention` the same in memory. A
stop may come between any two steps and kills the observer with it; a running hook
is in its own session and goes on. A completion is identified by task and run,
which stand for the digest of `completion_key`. One observer stands for all, since
they share nothing; heartbeats and mirrored files carry no decision and are left
out, and so are `on_event` and the digests of hook inputs, whose only effect here
is to stop the service (`StopOrCrash`).

A task begun anew exactly between the two reads of its record is reported as
missing with the record of its new, living run. The code has this race; the
history variable `overtaken` marks such tasks, and `NoFalseAlarm` exempts them.

### DataParallel

A row is its absolute position in the stream, so `ExactStream` can say which rows
the weights were trained on; `Streams` gives the input positions of each row.
Every rank has its own `pc`, weights and offset, and all run the same code:
`Draw` takes a rank's share of one group of rows (`Share`, as `BatchCursor.next`
does), `Reduce` sums the inputs of all ranks, `Update` is the optimizer's step.
`Judge` is each rank's own decision to pause or to save, the place where they may
part. A collective is an action of all ranks at once that is enabled when every
rank stands at one of that kind; ranks in different collectives are `Hopeless`
until `TimeOut` ends them, and `Terminate` is what `torch.distributed.run` does to
the others when one has failed. Only rank 0 writes (`WriteCheckpoint`,
`WriteStatus`, `Publish`). Two ranks that save for different reasons do meet in
the collectives of `save`, and the model has that. Every window has targets; the
collectives for the CE count, metrics and evaluations are folded into `Update`,
since no rank decides anything between them.

### PretrainingProgram

The weights are the sequence of updates that made them, each with its phase, data,
window and the parameters it reached. `StartFirst`, `StartNext` and
`Resume` (with their refusals) are `run`'s start; what the operator passes as parent,
directory, data and kind of run is chosen freely, and `Bind` edits the recipe
between two phases as data are frozen. Moments are the numbers of the updates they
were accumulated over, by parameter; those of frozen parameters are `dormant`. One
process runs at a time. The router balance, the QK clip and the generators are
inherited the same way and are left out; a change of the optimizer's contract and
the evidence of the strategy gate could only refuse more.

### StageLauncher

`control` is the controller: it looks at a stage, waits for its training, or is
down. A training has a place (`Slots`), so that one left behind by a killed
controller can live beside the one its successor starts in the same directory.
`status.json` is written in place and may be left torn by a crash; then no later
controller can parse it. The weights are the number of updates of each stage. The
occupancy check and the recipe's validation in `main`, `wait_for_gpus` (a wait
before the start) and `training_status` (a read-only report) are left out.

### NativeTraining

The random generator of the `Sampler` is the number of draws made from it;
`Shuffle`, `Context` and `Sparse` say what a draw returns and are free. The
`Sampler` is a record like its `state_dict`; `Produced` is `produce_window`,
with its packing of items into rows. An update (`Trained`) is the window, the
attention of its rows in p2, and the counts and the sampler it left, so that two
runs that agree on updates agree on everything the checkpoint holds. The process
has one sampler, which `Produce` (the pool's thread) advances at any moment while
the loop trains and saves; a checkpoint holds `Cursor`. A next phase goes on with
the sampler only if it has the same mixture, as in the code; the instance has a
last phase with another one. `first`, a history, is the sequence of updates as
each was made for the first time.

`Times` and `CeOf` count the targets *read* in windows. In the indexer phase the
objective is the indexer's loss only: its windows advance the sampler and its counts
like any other, and train no CE. `TargetsOnce` and `MixtureHeld` are about the data
read, the indexer's windows included. A window of a main phase whose targets are all
masked raises, as in the code; an indexer window without a KL query raises too, which
the model does not have (queries are not modelled), so it makes a few runs more.

The code takes the domain with the least `ce / weight`; the shares here are integers,
compared by cross-multiplication, where the code divides floats.

Assumed: every record has a target, whatever capacity is drawn every domain has a
record that fits, and a capacity has room for two tokens (the code raises
otherwise); buckets are disjoint and domains have an order, as the keys of a
dictionary have; one process per output directory, one seed for the chain,
and an operator (or the strategy gate) that starts a phase when the one before
reports its budget complete. Runs are of the `strategy` kind, which end at a token
budget. The 22 GiB limit is an action that may happen at any update.

## What the runs check

| run | instance | result |
|---|---|---|
| `PhaseQueue` | two successors of an adopted parent, one on its device, the other on a second one, 2 starts, 1 hindrance, fairness (560,000 states) | invariants, settled jobs, refinement and `ReadyIsSettled` hold |
| `PhaseQueueShared` | two first phases on one device, no fault at all | `ReadyIsSettled` is violated (finding) |
| `ExclusiveQueue` | two devices, the first job on one of them, the second, gated by the first's result, on either, an adopted process, 2 starts, 1 hindrance, fairness (628,000 states) | invariants, refinement and `OpenGateSettles` hold |
| `ExclusiveQueueRestart` | two jobs that may use either of two devices, one crash | `RestartRecognisesWorkers` is violated (finding) |
| `TrainingRun` | a stream of six windows (targets 1 0 2 0 0 1), budgets 6 and 9, six updates at most, 3 faults, 2 pause requests, fairness | all nine properties hold |
| `TrainingRunReport` | budget 6, one crash | `FinishedIsReported` is violated (finding) |
| `DataEvents` | a task that runs twice, one hook, 3 starts of the service, fairness | invariants hold, ends are handled, interrupted hooks are listed |
| `DataParallel` | two ranks, rows of mixed size, microbatches of 1 and 3, three updates, a save every two, 3 attempts, 2 faults, 2 requests, fairness (94,000 states) | exact stream, nobody leaves without its work, lockstep, every attempt ends |
| `PretrainingProgram` | two programs, three directories, two corpora, 4 starts, 1 binding edited (984,000 states) | counts, moments and lineage are those of the weights |
| `StageLauncher` | two stages of two updates, two trainings at a time, one kill, one crash, one pause request, fairness (72,000 states) | stages in order, a continued pipeline completes |
| `StageLauncherPaused` | the same with a pause in the last stage | `CompleteMeansTrained` is violated (finding) |
| `NativeTraining` | p1, indexer, p2, p3 with budgets 12, 9, 12, 12; two domains at 2:1, then 3:2; two documents and two answers; context lengths 4 and 6; one crash, one pause, lookahead on or off (39,000 states) | exact resumption, every target read in one window only, the mixture in targets read |

The bounds. Two jobs and an adopted parent are a parent and its successors, or
rivals for a device; a third job adds no new relation, since a job interacts
only with its parent, its device and the controller. `PhaseQueue` gives each job
a device of its own, which it shares with the parent, a peer or a foreign
context, because `PhaseQueueShared` shows that rivals of the plan are not always
settled; that such rivals never run together is checked in `ExclusiveQueue` and
proved for both. Two starts of a queue give a crash at any point, and a
successor that runs to the end. One hindrance lets a foreign task come between
the two looks at a device. The stream has empty windows, single and in a row
(`EmptyLimit` = 2 stands for 32), and windows of one and two targets, so that
the budget is overshot and milestones are stepped over; budget 9 cannot be
reached within `--steps`, and the loss falls, rises and falls. Three faults
allow a crash after a refused write after a short reserve. In `DataEvents` two
runs of one task let a report of the first be read after the second has begun,
and three starts interrupt a hook, its reconsideration, and leave the service
one more chance; tasks share no state and several hooks of a task are handled
one by one. Two ranks are enough for every pair of decisions to differ, and
three attempts let a failure follow a pause that only one of them saw; the rows
of `DataParallel` are larger and smaller than a share of the target, and some
are empty. Three directories hold a parent, a rival parent and a child; four
starts reach the third phase, or the second with a resumption; the programs
freeze a parameter and train it again. In `StageLauncher` a kill and a crash let
two trainings share a directory and one of them die there. In `NativeTraining`
the long document spans windows of both lengths, phases and a pause, one answer
fits only the longer context and is passed over in the shorter, orders are used
up within a phase, and p2 has rows of both attentions; three seeds give
different draws.
The runs do not check deadlock: a queue whose plan is
settled, a phase that died before its first checkpoint, and a service whose tasks
have all ended do stop.

Fairness. The operating system schedules controllers, producers and trainers
(weak fairness on each process' steps, none on crashes, refusals or failures);
workers end; data preparation publishes; the operator removes a hindrance and
announces it, restarts a controller while the bound allows it, and resumes a run
that has a checkpoint. The data service is started again while the bound allows it
and its hooks end; data tasks need neither complete nor end. Ranks and collectives
that can complete do, and the process group's timeout fires when they cannot. The
operator continues a pipeline that is not complete. `NativeTraining` states no
fairness: its properties are safety.

Four runs end in a violation and stand for findings, where the code does not do
what its documentation, docstring or test says:

1. `PhaseQueueShared`: the pass that reaps a job passes over an earlier waiting
   job of the same device, because the device still counts as reserved, and
   nothing wakes the controller afterwards.
2. `ExclusiveQueueRestart`: a worker launched in a pass that a crash cuts short
   is not in `queue.json`. The restarted queue tries another device the job may use,
   finds its log, and records the job as failed while the worker trains on. With one
   device, which the worker's lock keeps, the job waits and is failed once the worker
   has ended.
3. `TrainingRunReport`: a crash between the final `checkpoint.pt` and
   `status.json` is never made good; the resumed run ends without `complete`, and
   the queue waits.
4. `StageLauncherPaused`: a training that obeys `pause.request` exits with 0; the
   controller takes that for the end of the stage, and reports a pipeline complete
   whose last model was never written.

`MilestonesValidated` and `BestSelected` exempt updates at which the device
reserve ended the process: the code saves there before the due validation, and
the resumed run does not repeat it. `SavedRunFinishes` exempts a torn
`best-validation.json`, on which every resume raises, and a run whose steps are used
up; `PipelineCompletes` a torn `status.json`, and it takes a stage that was paused
for done, as the code does (finding 4). The hazards behind these exemptions, and the
one behind `overtaken`, are in the models but no property covers them; `PROJECT.json`
lists them so. `LockstepUntilRequest` speaks of requests made before the ranks
start: `docs/operations/experiment-management.md` says that a request made while
several ranks run is not supported, and `EveryAttemptEnds` and
`LeavesWithItsWork` say what still holds then.

## What is proved

For every value of the constants that meets the modules' assumptions. The proofs
use SMT, Zenon and, for the temporal steps, LS4.

`PhaseQueueProofs`: type correctness, `OneTaskPerDevice`, `IntentBeforeLaunch`,
`CompleteIsFinal`, `ParentFirst`, `SettledStays`, `LeaseReturned` and the refinement
`ImplementsDevices`. `OneTaskPerDevice` is not inductive: the controller's look
at a device does not see a starting worker. The strengthening says that every live
worker of this or another queue holds its device's lock, that a lock has either
the queue's holders or the peer, that the controller holds a lock beside a worker
only as that worker's parent, and that between the second look and `Popen` no
resident process can appear, because whoever could bring one needs the lock; an
adopted process has no lock, so it must be seen resident. The intent's part says
which record on disk is compatible with which in memory at each point of a launch. That a job counted as
complete by the controller that started it has exited with 0 rests on
`FirstController`: before the second start every job that counts as running is one
this controller started itself (likewise in `ExclusiveQueueProofs`).
`LeaseReturned` has an invariant of its own, `Returned`: a job whose lock the
controller still shares is either watched, or has exited and is yet to be visited
by the pass under way (`OwnedSeen`), or its launch raised after `Popen`.

`ExclusiveQueueProofs`: type correctness, `OneTaskPerDevice`, `CompleteIsFinal`,
`GateRespected`, `LocksAreOwned` and the refinement `ImplementsDevices`. The records
of this queue are saved at the end of a pass only, so they carry little of the
proof; the locks do (`Locks`, much as above), and what a crash cannot undo: every
launch leaves a log file that forbids another one (`Launched`), a result is written
only by a resident process (`Started`), and neither a complete result nor a verdict
changes again, so that what a gate has read for the job in hand is still so when the
job starts (`GateRead`, `GatesStay`). A task taken over from an earlier controller
may occupy several devices, which `ExclusiveDevices` allows for.

`TrainingRunProofs`: type correctness, `ExactContinuation`,
`StatusBehindCheckpoint`, `PublishedIsFinal`, `NeverGoesBack` and
`PauseKeepsWork`. The inductive invariant `IInv` adds to them where the loop
stands (`Loop`: what the purpose of a save and the position imply about the
budget), where the stream stands (`Stream`: the producer is at most one window
past the committed cursor, and exactly there when the window is ready), and how
files and memory relate (`Saved`: the checkpoint is a prefix of the run in memory
and equals it between the write of `checkpoint.pt` and the next window). The
lemmas `OnceSkip` and `OnceTrain` say how an empty window and an update extend
"each supervised window once".

`CountsExactly`, `ValidatesMilestones` and `SelectsBest` are `LedgerExact`,
`MilestonesValidated` and `BestSelected`, for every stream and every pair of
budgets. They rest on a second invariant, `HistoryInv`: every ledger, in memory or
in a file, is `Sound` for its run, that is, counts its windows and stopped at the
first update that met its budget (`Ledgers`); a milestone the run has passed was
validated or is exempt (`Milestones`); a selection in hand is of a milestone that
beats the record (`Selecting`); and every model ever validated is beaten by the
record, is exempt, or lies on the way the run still has to go (`Selected`). The hard case is a
crash that loses a selection: the resumed run repeats it because two sound runs
over the same stream agree update by update as far as both go, an
induction over the stream.

`DataEventsProofs`: type correctness, `OneLaunchPerCompletion`, `EventBound` and
`NoFalseAlarm`. The inductive invariant says what is true on disk of each record
(`RecordTrue`), what remains true of a record that has been read (`SeenTrue`) and
of a report however late it is taken from the stream (`ReportsTrue`: it speaks of
the past, and the histories only grow), which hooks may be in hand (`InHand`) and
what stands on disk at each point of a launch (`Intents`: no marker, no launch).
The proof has one lemma per conjunct with one case per action that touches it;
`ProducerSteps`, `ObserverSteps`, `ServiceSteps` and `ActionSteps` say which those
are.

`DataParallelProofs`: type correctness, `LeavesWithItsWork` and `LockstepUntilRequest`,
for any number of ranks. The invariant has three
parts: where ranks may stand (`Control`); that all hold the same weights, that what
rank 0 has gathered belongs to the weights it is about to write, and from when on
the checkpoint is that of memory (`SavedInv`); and, as long as nothing has disturbed
the ranks, the eight formations they can be in (`InStep`), none of which is
hopeless.

`TrainsExactly` is `ExactStream`: for any number of ranks, rows of any size and any
faults, what the ranks have trained is the stream, each row once. `SharesPartition`
says that the shares of a group of rows are disjoint and cover it; the invariant
`StreamInv` says where windows begin and end in the stream (`WindowTypes`,
`Accounts`), that the shares the ranks hold are those of one group (`Shares`,
`Group`), and that no earlier group reached the target, so that a window ends where
single rows would end it, whatever a microbatch holds (`Reached`). An
attempt at this proof found that `Boundary` looked for the end of a window no
further than `MaxMicrobatches * capacity` groups ahead, while the last microbatch,
drawn below that limit, may take up to `capacity` groups more (one rank, short rows,
a target just above the limit): `WindowEnd` now looks that far.

`PretrainingProgramProofs`: type correctness, `MainCeExact`, `MomentsKept`,
`FormalLineage` and `SamplerContinues` (consecutive windows on the same data, also
across a transition), for every program. One predicate, `Sound`, holds of the state
in memory and in every file; the proof shows it of random initialization
(`RandomSound`), of an update (`TrainedSound`) and of what a phase inherits
(`InheritSound`), whatever the operator chose. It is stronger than the properties:
a count is exact only if an indexer phase counted nothing, moments are right only
if those of phases to come are empty, the sampler continues only if the cursor is
just behind the last update on the same stream.

`StageLauncherProofs`: type correctness and `StagesInOrder`, for any number of
stages, updates and concurrent trainings. The invariant adds that a training told
to resume has a checkpoint, that the model passed to `--init` is that of the stage
before, and that a training publishes only at its last update.

`NativeTrainingProofs`: `ResumesExactly`, that is `Replays`, whatever the orders,
context lengths, records, weights and budgets. The history is a chain
(`ChainSound`): its first update is the one made from the first sampler, each other
one a function (`Entry`) of its predecessor, by the sampler that one left or, at
the end of a phase, by the one the next phase begins with. Every lineage is a
prefix of the chain, every checkpoint holds the sampler and the counts of its last
update, and the sampler of a running process is where `Cursor` says or exactly one
window further (`Ahead`), as its future says.

`ReadsTargetsOnce`, `HoldsMixture` and `CheckpointsAreLoaded` are `TargetsOnce`,
`MixtureHeld` and `CheckpointsLoad`, for every data set, mixture, seed and chain of
phases; `CheckpointsLoad`, which no run lists, says that `load_state_dict` accepts
every checkpoint. They assume `GeneratorAssumption(Nat)` of the operators that stand for the
generator and the data: an order is a permutation of its bucket, a capacity is at
least two, and every domain has a record that fits. The code calls `rng.sample`
with the bucket's length for the first, and `window_at` and `next` raise without the
others. TLC evaluates the same assumption on 0..60, which covers all draws and
token counts of the run. The central predicate is `SamplerSound`: a sampler stands behind the
items it chose. Of each domain (`DomainSound`), those items have read every target
of a document once for each order used up, and once more if the present order has
passed the document and, in an open document, the cursor has passed the target; a
record that is not windowed at most as often (`Counts`). An open document is the
last record of the order (`DocumentSound`); the sampler's counts are the targets of
those items, and are balanced (`Balanced`). It is shown of a new sampler, of `Advanced`
(an order is used up, records that do not fit are passed over), of `Chosen` (a
document is read on), of one turn of the loop in `Produced` and, by induction over
its turns, of the window; `LineageGood` carries it along the chain of updates and
across the phases that keep the mixture. `Known` adds that updates are made in
phases of the program.

Inductions over natural numbers and over finite sets are made without an operator
parameter: the lemmas `Induction` and `SetInduction` take the set of the
numbers, or of the finite sets, for which the claim holds, and follow from the
least element of a well-founded set and from the library's facts on cardinality. The
sums (`MapThenSumSet`) are used through the equations that these lemmas yield.

Only model-checked: liveness (`ReadyIsSettled`, `OpenGateSettles`,
`SavedRunFinishes`, `EndsAreHandled`, `InterruptedIsRaised`, `EveryAttemptEnds`,
`PipelineCompletes`), which is out of the prover's reach. Every other property that
a passing run checks is a theorem. The type invariants (`TypeOK`)
are proved too and listed by no run.

## Not modelled, and why

- Models, optimizers, losses, quantization: numerical code without control state
  that a model checker could enumerate.
- Data preparation, inference and demo, command line, registry and plots:
  sequential conversions and reports without concurrent actors; the partitions of
  the data may be worth a model later.
- Of the training loop: QAT switches, rollout stages and their rewards, CE budgets
  of several devices (numerical, or the same control again).
- Of the native trainer: acceptance and performance runs and SFT (one phase without
  the chain), the validation cadence (that of `TrainingRun`), inherited moments (as
  in `PretrainingProgram`), router balance, post-training.
- The cursors of token and media mixtures: their order rests on floating-point
  debts, which integers would not represent faithfully; `BatchCursor` and the CE
  deficits of `Sampler`, which are integer comparisons, are modelled.
- The reserve lock shared by several writers of one filesystem; the single-GPU
  queue, whose workers do not inherit the lock; the retired shared-GPU queue.
- Speculative decoding and the tool environment: sequential, tested against
  references in the repository.
- Optimizer contracts, strategy gate and execution upgrades: comparisons of
  recorded recipes that can only refuse a start.

## Plan

1. Done: all modules above and their proofs.
2. The single-GPU queue against `ExclusiveDevices`; the storage reserve shared by
   writers.
3. The validation cadence of the native trainer, and its post-training stages.
4. Speculative decoding against plain decoding; tool environment limits.
