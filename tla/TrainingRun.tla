---------------------------- MODULE TrainingRun ----------------------------
(***************************************************************************)
(* One formal pretraining phase on one device: the loop of main in         *)
(* minifrontier/training/train.py, its validation, pause and checkpoint    *)
(* writes, and the lookahead thread of training/prefetch.py that draws the *)
(* accumulation windows.  The process may die between any two steps and be *)
(* resumed from checkpoint.pt.                                             *)
(*                                                                         *)
(* The windows of the resumable data stream are numbered; window w always  *)
(* has the same content, so the cursor is the number of windows drawn.     *)
(* The weights are represented by the windows they were trained on.        *)
(***************************************************************************)
EXTENDS Naturals, Sequences, SequencesExt

CONSTANTS
  Tokens,      \* supervised tokens of the windows of the stream, repeated
  Loss,        \* validation loss of the model after each number of updates
  Budgets,     \* the token budgets a phase may be given
  MaxSteps,    \* --steps, the safety limit on updates
  SaveEvery,   \* --save-every
  EvalEvery,   \* tokens between validations
  EmptyLimit,  \* windows without supervision tolerated in a row
  None, Torn,  \* a file that is absent, and one whose write was cut short
  MaxFaults,   \* bound: crashes and failed device checks or writes
  MaxRequests  \* bound: pause requests of the operator

VARIABLES
  budget,        \* the phase's token budget, fixed by its recipe
  pc,            \* what the training process does next; "down" without one
  training,      \* the weights, step, ledger and consumed cursor in memory
  window,        \* the window in hand
  lookahead,     \* the producer thread: "none" asked, "busy", or "ready"
  produced,      \* the producer's cursor
  empties,       \* windows without supervision in a row
  best,          \* the model of best_nll, in number of updates
  purpose,       \* why a checkpoint is being written
  checkpoint,    \* checkpoint.pt
  status,        \* status.json
  bestModel,     \* best-model.pt, in number of updates
  bestInfo,      \* best-validation.json, in number of updates
  modelFile,     \* model.pt
  pauseRequest,  \* pause.request exists
  validated,     \* metrics.jsonl: the numbers of updates validated
  shortStops,    \* history: where the device reserve ended the process
  touched,       \* the output directory is not empty
  faults, requests

memory == <<training, window, lookahead, produced, empties, best, purpose>>
files == <<checkpoint, status, bestModel, bestInfo, modelFile>>
outside == <<pauseRequest, requests, faults, shortStops>>
vars == <<budget, pc, memory, files, outside, validated, touched>>

\* What a checkpoint records: the weights (as the windows they were trained
\* on), the number of updates, the token ledger and the consumed cursor.
TrainingState ==
  [model : Seq(Nat), step : 0 .. MaxSteps, ce : Nat, skipped : Nat, cursor : Nat]
Updates == 1 .. MaxSteps

ASSUME TrainingRunAssumption ==
  /\ Tokens \in Seq(Nat) /\ Tokens # <<>>
  /\ MaxSteps \in Nat
  /\ Loss \in [Updates -> Nat]
  /\ Budgets \subseteq Nat \ {0}
  /\ SaveEvery \in Nat \ {0} /\ EvalEvery \in Nat \ {0} /\ EmptyLimit \in Nat \ {0}
  /\ None # Torn
  /\ {None, Torn} \cap Nat = {} /\ None \notin TrainingState
  /\ MaxFaults \in Nat /\ MaxRequests \in Nat

Weight(w) == Tokens[((w - 1) % Len(Tokens)) + 1]

\* Random initialization.
Fresh == [model |-> <<>>, step |-> 0, ce |-> 0, skipped |-> 0, cursor |-> 0]
RunState == {"running", "paused", "complete"}

MemoryTypes ==
  /\ budget \in Budgets
  /\ pc \in {"down", "next", "train", "reserve", "evaluate", "select", "describe",
             "decide", "save", "report", "unlink"}
  /\ training \in TrainingState
  /\ window \in Nat /\ produced \in Nat /\ empties \in 0 .. EmptyLimit
  /\ lookahead \in {"none", "busy", "ready"}
  /\ best \in Updates \cup {None}
  /\ purpose \in {"cadence", "pause", "starved", "reserve", "shortfall"}

FileTypes ==
  /\ checkpoint \in TrainingState \cup {None}
  /\ status \in [state : RunState, step : 0 .. MaxSteps] \cup {None, Torn}
  /\ bestModel \in Updates \cup {None} /\ bestInfo \in Updates \cup {None, Torn}
  /\ modelFile \in TrainingState \cup {None}
  /\ validated \subseteq 0 .. MaxSteps /\ shortStops \subseteq Updates
  /\ faults \in 0 .. MaxFaults /\ requests \in 0 .. MaxRequests

FlagTypes == pauseRequest \in BOOLEAN /\ touched \in BOOLEAN

TypeOK == MemoryTypes /\ FileTypes /\ FlagTypes

NoMemory ==
  /\ training = Fresh /\ window = 0 /\ lookahead = "none" /\ produced = 0
  /\ empties = 0 /\ best = None /\ purpose = "cadence"

Init ==
  /\ budget \in Budgets
  /\ pc = "down" /\ NoMemory
  /\ checkpoint = None /\ status = None
  /\ bestModel = None /\ bestInfo = None /\ modelFile = None
  /\ pauseRequest = FALSE /\ validated = {} /\ shortStops = {} /\ touched = FALSE
  /\ faults = 0 /\ requests = 0

-----------------------------------------------------------------------------
(* Conditions of the loop.                                                 *)

\* Variant for checking the liveness: the budget must be met exactly.
FinishedExactly(t) == t.ce = budget

Finished(t) == t.ce >= budget

MoreToDo == training.step < MaxSteps /\ ~Finished(training)

\* Variant for checking MilestonesValidated: the ledger must hit a multiple.
DueOnMultiple(t) == t.ce % EvalEvery = 0

\* validation_due: the last update crossed a multiple of the interval (the
\* early one; past early_until_ce a longer one takes over).
Due(t) ==
  LET before == t.ce - Weight(Last(t.model))
  IN before \div EvalEvery < t.ce \div EvalEvery

\* Variant for checking BestSelected: the latest validated model is kept.
ImprovedAlways(n) == TRUE

Improved(n) == best = None \/ Loss[n] < Loss[best]

\* Variant for checking StatusBehindCheckpoint: --steps is taken for the end.
StateNameBySteps(t) == IF t.step = MaxSteps THEN "complete" ELSE "running"

\* The state that status.json reports.
StateName(t) ==
  IF Finished(t) THEN "complete" ELSE IF purpose = "pause" THEN "paused" ELSE "running"

-----------------------------------------------------------------------------
(* Starting and ending the process.                                        *)

\* A process that ends, or is killed, loses its memory and its lookahead.
Down ==
  /\ pc' = "down"
  /\ training' = Fresh /\ window' = 0 /\ lookahead' = "none" /\ produced' = 0
  /\ empties' = 0 /\ best' = None /\ purpose' = "cadence"

\* Variant for checking NeverGoesBack: an earlier checkpoint is not refused.
VacantUnlessPublished == modelFile = None

\* A new phase needs an empty output directory, one never written to.
Vacant == ~touched

\* Random initialization; the run's identity and the first validation (of the
\* untrained model, which is no candidate for the best) are recorded.
Begin ==
  /\ pc = "down" /\ Vacant
  /\ touched' = TRUE
  /\ validated' = validated \cup {0}
  /\ pc' = "next"
  /\ UNCHANGED <<budget, memory, files, outside>>

\* Variant for checking ExactContinuation: the lookahead is not redrawn.
RestoredPastLookahead(t) == t.cursor + 1

Restored(t) == t.cursor

\* Exact continuation: the producer restarts from the committed cursor, and
\* the validation is repeated only when the checkpoint is a finished one.
\* A best-validation.json that does not parse ends the process at once.
Resume ==
  /\ pc = "down" /\ checkpoint # None /\ bestInfo # Torn
  /\ training' = checkpoint
  /\ produced' = Restored(checkpoint)
  /\ best' = bestInfo
  /\ validated' = IF Finished(checkpoint) THEN validated \cup {checkpoint.step} ELSE validated
  /\ pc' = "next"
  /\ UNCHANGED <<budget, window, lookahead, empties, purpose, files, outside, touched>>

\* A kill, an exception of the model or the data; a JSON file whose write is
\* under way may be left cut short.
Crash ==
  /\ pc # "down" /\ faults < MaxFaults
  /\ faults' = faults + 1
  /\ Down
  /\ status' \in {status} \cup IF pc = "report" THEN {Torn} ELSE {}
  /\ bestInfo' \in {bestInfo} \cup IF pc = "describe" THEN {Torn} ELSE {}
  /\ UNCHANGED <<budget, checkpoint, bestModel, modelFile, pauseRequest, requests,
                 shortStops, validated, touched>>

\* reserve_write refuses an atomic_save: the old file is retained.
RefuseWrite ==
  /\ pc \in {"save", "select"} \/ (pc = "next" /\ Finished(training))
  /\ faults < MaxFaults
  /\ faults' = faults + 1
  /\ Down
  /\ UNCHANGED <<budget, files, pauseRequest, requests, shortStops, validated, touched>>

-----------------------------------------------------------------------------
(* The data stream.                                                        *)

\* The first window is asked for when the loop first needs one.
Ask ==
  /\ pc = "next" /\ MoreToDo /\ lookahead = "none"
  /\ lookahead' = "busy"
  /\ UNCHANGED <<budget, pc, training, window, produced, empties, best, purpose,
                 files, outside, validated, touched>>

\* The producer thread draws one window and snapshots its own cursor.
Produce ==
  /\ pc # "down" /\ lookahead = "busy"
  /\ produced' = produced + 1
  /\ lookahead' = "ready"
  /\ UNCHANGED <<budget, pc, training, window, empties, best, purpose, files, outside,
                 validated, touched>>

\* OrderedPrefetch.next: commit the snapshot of the window, ask for the next.
Fetch ==
  /\ pc = "next" /\ MoreToDo /\ lookahead = "ready"
  /\ window' = produced
  /\ training' = [training EXCEPT !.cursor = produced]
  /\ lookahead' = "busy"
  /\ pc' = "train"
  /\ UNCHANGED <<budget, produced, empties, best, purpose, files, outside, validated, touched>>

-----------------------------------------------------------------------------
(* One iteration of the loop.                                              *)

\* No target in the window: the cursor moves on, the model does not.
SkipWindow ==
  /\ pc = "train" /\ Weight(window) = 0
  /\ training' = [training EXCEPT !.skipped = @ + 1]
  /\ empties' = empties + 1
  /\ IF empties + 1 >= EmptyLimit
     THEN pc' = "save" /\ purpose' = "starved"
     ELSE pc' = "next" /\ UNCHANGED purpose
  /\ UNCHANGED <<budget, window, lookahead, produced, best, files, outside, validated, touched>>

\* Variant for checking LedgerExact: windows are counted, not their tokens.
CountedByWindow(w) == 1

Counted(w) == Weight(w)

\* The optimizer step and the ledger.
Update ==
  /\ pc = "train" /\ Weight(window) > 0
  /\ training' = [training EXCEPT !.model = Append(@, window), !.step = @ + 1,
                                  !.ce = @ + Counted(window)]
  /\ empties' = 0
  /\ pc' = "reserve"
  /\ UNCHANGED <<budget, window, lookahead, produced, best, purpose, files, outside,
                 validated, touched>>

\* The device memory reserve is checked before the validation and the pause.
ReserveMet ==
  /\ pc = "reserve"
  /\ pc' = "evaluate"
  /\ UNCHANGED <<budget, memory, files, outside, validated, touched>>

ReserveShort ==
  /\ pc = "reserve" /\ faults < MaxFaults
  /\ faults' = faults + 1
  /\ pc' = "save" /\ purpose' = "reserve"
  /\ shortStops' = shortStops \cup {training.step}
  /\ UNCHANGED <<budget, training, window, lookahead, produced, empties, best, files,
                 pauseRequest, requests, validated, touched>>

\* The final validation, on more of the held-out set, selects no best model.
Evaluate ==
  /\ pc = "evaluate"
  /\ LET n == training.step
         last == Finished(training)
         held == last \/ Due(training)
     IN /\ validated' = IF held THEN validated \cup {n} ELSE validated
        /\ IF held /\ ~last /\ Improved(n)
           THEN pc' = "select" /\ best' = n
           ELSE pc' = "decide" /\ UNCHANGED best
  /\ UNCHANGED <<budget, training, window, lookahead, produced, empties, purpose, files,
                 outside, touched>>

SelectBest ==
  /\ pc = "select"
  /\ bestModel' = best
  /\ pc' = "describe"
  /\ UNCHANGED <<budget, memory, checkpoint, status, bestInfo, modelFile, outside,
                 validated, touched>>

DescribeBest ==
  /\ pc = "describe"
  /\ bestInfo' = best
  /\ pc' = "decide"
  /\ UNCHANGED <<budget, memory, checkpoint, status, bestModel, modelFile, outside,
                 validated, touched>>

\* Variant for checking PauseKeepsWork: the request is removed before saving.
RequestTaken == pauseRequest' = FALSE

RequestKept == UNCHANGED pauseRequest

Pause ==
  /\ pc = "decide" /\ pauseRequest /\ ~Finished(training)
  /\ RequestKept
  /\ pc' = "save" /\ purpose' = "pause"
  /\ UNCHANGED <<budget, training, window, lookahead, produced, empties, best, files,
                 requests, faults, shortStops, validated, touched>>

\* Variant for checking PublishedIsFinal: the final save is forgotten.
SaveDueOnCadence(t) == t.step % SaveEvery = 0

SaveDue(t) == t.step % SaveEvery = 0 \/ Finished(t)

Proceed ==
  /\ pc = "decide" /\ (pauseRequest => Finished(training))
  /\ IF SaveDue(training)
     THEN pc' = "save" /\ purpose' = "cadence"
     ELSE pc' = "next" /\ UNCHANGED purpose
  /\ UNCHANGED <<budget, training, window, lookahead, produced, empties, best, files,
                 outside, validated, touched>>

\* --steps is used up before the budget: save, then raise.
ExhaustSteps ==
  /\ pc = "next" /\ training.step >= MaxSteps /\ ~Finished(training)
  /\ pc' = "save" /\ purpose' = "shortfall"
  /\ UNCHANGED <<budget, training, window, lookahead, produced, empties, best, files,
                 outside, validated, touched>>

-----------------------------------------------------------------------------
(* save and the last write.                                                *)

\* checkpoint.pt is replaced atomically, with the consumed cursor ...
SaveCheckpoint ==
  /\ pc = "save"
  /\ checkpoint' = training
  /\ pc' = "report"
  /\ UNCHANGED <<budget, memory, status, bestModel, bestInfo, modelFile, outside, validated,
                 touched>>

\* ... and status.json after it; then the caller goes on, unlinks the pause
\* request, or raises.
Report ==
  /\ pc = "report"
  /\ status' = [state |-> StateName(training), step |-> training.step]
  /\ CASE purpose = "cadence" -> pc' = "next" /\ UNCHANGED memory
       [] purpose = "pause"   -> pc' = "unlink" /\ UNCHANGED memory
       [] OTHER               -> Down
  /\ UNCHANGED <<budget, checkpoint, bestModel, bestInfo, modelFile, outside, validated, touched>>

\* The request file is removed and the process returns.
Unlink ==
  /\ pc = "unlink"
  /\ pauseRequest' = FALSE
  /\ Down
  /\ UNCHANGED <<budget, files, requests, faults, shortStops, validated, touched>>

\* Past the loop: model.pt, and the process returns.
Publish ==
  /\ pc = "next" /\ Finished(training)
  /\ modelFile' = training
  /\ Down
  /\ UNCHANGED <<budget, checkpoint, status, bestModel, bestInfo, outside, validated, touched>>

Trainer ==
  \/ Ask \/ Fetch \/ SkipWindow \/ Update \/ ReserveMet \/ Evaluate
  \/ SelectBest \/ DescribeBest \/ Pause \/ Proceed \/ ExhaustSteps
  \/ SaveCheckpoint \/ Report \/ Unlink \/ Publish

\* The operator creates pause.request in the output directory at any time.
RequestPause ==
  /\ touched /\ ~pauseRequest /\ requests < MaxRequests
  /\ requests' = requests + 1
  /\ pauseRequest' = TRUE
  /\ UNCHANGED <<budget, pc, memory, files, faults, shortStops, validated, touched>>

Next ==
  \/ Begin \/ Resume \/ Trainer \/ Produce
  \/ ReserveShort \/ RefuseWrite \/ Crash \/ RequestPause

Spec == Init /\ [][Next]_vars

\* The operating system runs the process and its producer thread, and the
\* operator resumes a run that has a checkpoint.
FairSpec == Spec /\ WF_vars(Trainer) /\ WF_vars(Produce) /\ WF_vars(Resume)

-----------------------------------------------------------------------------
(* Properties.                                                             *)

\* "Checkpoints save only consumed snapshots; unconsumed work is discarded and
\* regenerated on resume" (prefetch.py): the weights were trained on exactly
\* the supervised windows before the cursor, each once and in order, whatever
\* was drawn ahead, skipped, rolled back and resumed.
OnceEach(model, cursor) ==
  /\ \A i, j \in 1 .. Len(model) : i < j => model[i] < model[j]
  /\ {model[i] : i \in 1 .. Len(model)} = {w \in 1 .. cursor : Weight(w) > 0}
Exact(t) == t.step = Len(t.model) /\ OnceEach(t.model, t.cursor)

ExactContinuation ==
  /\ pc \notin {"down", "train"} => Exact(training)
  /\ checkpoint # None => Exact(checkpoint)

\* The targets in the first n windows a model was trained on.
TargetsAfter(model, n) ==
  LET sum[k \in 0 .. n] == IF k = 0 THEN 0 ELSE sum[k - 1] + Weight(model[k])
  IN sum[n]

\* The token ledger, which decides when the phase ends, is the sum over the
\* windows the weights were trained on, across every resume.
LedgerExact ==
  \A t \in {training} \cup ({checkpoint, modelFile} \ {None}) :
    t.ce = TargetsAfter(t.model, Len(t.model))

\* status.json is only ever behind checkpoint.pt, and "complete", which
\* releases the phase's successors, means a checkpoint that met the budget.
StatusBehindCheckpoint ==
  status \notin {None, Torn} =>
    /\ checkpoint # None /\ status.step <= checkpoint.step
    /\ status.state = "complete" => checkpoint.ce >= budget

\* model.pt, the weights after the phase, are those of the final checkpoint.
PublishedIsFinal == modelFile # None => modelFile = checkpoint /\ modelFile.ce >= budget

\* "Keep its token cadence instead of repeating a full held-out pass at an
\* arbitrary restart": whatever crashes and resumes lie between, every crossed
\* milestone of the surviving run was validated, unless the device reserve
\* ended the process just before that validation.
MilestonesValidated ==
  pc = "next" =>
    \A n \in 1 .. training.step :
      TargetsAfter(training.model, n - 1) \div EvalEvery
        < TargetsAfter(training.model, n) \div EvalEvery
      => n \in validated \cup shortStops

\* When a phase is over, best-validation.json names a model no validated one
\* improves on, and best-model.pt is that model: a crash between their two
\* writes is made good by the resumed run.  (The validation a reserve failure
\* swallowed is lost to both.)
BestSelected ==
  modelFile # None /\ bestInfo # Torn =>
    /\ bestModel = bestInfo \/ bestModel \in shortStops
    /\ \A n \in validated \ {0} :
         n < modelFile.step /\ n \notin shortStops =>
           bestInfo # None /\ Loss[bestInfo] <= Loss[n]

\* No step of a run loses work that was saved: the checkpoint only advances
\* along the same stream.
NeverGoesBack ==
  [][checkpoint # None => /\ IsPrefix(checkpoint.model, checkpoint'.model)
                          /\ checkpoint.cursor <= checkpoint'.cursor]_vars

\* A pause request is taken away only once the run is saved up to its last
\* update and reported as paused: a crash while pausing pauses again.
PauseKeepsWork ==
  [][pauseRequest /\ ~pauseRequest' =>
       checkpoint = training /\ status = [state |-> "paused", step |-> training.step]]_vars

\* A run that ever saved a checkpoint reaches model.pt, through any crashes
\* and pauses, unless --steps is too small or best-validation.json was torn.
SavedRunFinishes ==
  checkpoint # None ~>
    \/ modelFile # None
    \/ bestInfo = Torn
    \/ checkpoint # None /\ checkpoint.step >= MaxSteps /\ checkpoint.ce < budget

\* test_all_stages_export_and_generate: after a run that ended with model.pt,
\* status.json says "complete".
FinishedIsReported ==
  pc = "down" /\ modelFile # None => status # None /\ status # Torn /\ status.state = "complete"

=============================================================================
