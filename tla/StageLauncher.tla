---------------------------- MODULE StageLauncher ----------------------------
(***************************************************************************)
(* The controller of scripts/launch_training.py: it runs the stages of a   *)
(* recipe one after the other, each as a training process in a directory   *)
(* of its own, skips the stages that are complete, resumes the one that    *)
(* has a checkpoint, and stops when a training fails.  A controller that   *)
(* is killed leaves its training behind; the lock it held is free again,   *)
(* and the operator continues with the same recipe.  So two trainings may  *)
(* work in one directory.                                                  *)
(*                                                                         *)
(* Of a training (minifrontier/training/train.py, counting updates) there  *)
(* is what the controller depends on: what it loads and refuses, the files *)
(* it writes and their order, pause.request and its exit code.  Weights    *)
(* are represented by the number of updates each stage has made of them.   *)
(***************************************************************************)
EXTENDS Integers

CONSTANTS
  Stages,     \* number of stages in recipe.json
  Steps,      \* updates of a stage
  SaveEvery,  \* save_every
  Slots,      \* places for training processes
  NoSlot,
  MaxKills, MaxCrashes, MaxRequests  \* bounds

ASSUME LauncherAssumption ==
  /\ Stages \in Nat \ {0} /\ Steps \in Nat \ {0} /\ SaveEvery \in Nat \ {0}
  /\ NoSlot \notin Slots
  /\ MaxKills \in Nat /\ MaxCrashes \in Nat /\ MaxRequests \in Nat

VARIABLES
  control,    \* the controller: "down", "look" at a stage, "wait" for a training
  stage,      \* the stage it is at
  previous,   \* the stage whose model.pt it gives to --init, 0 for none
  child,      \* the training it waits for
  pipeline,   \* pipeline.json
  training,   \* the training processes
  checkpoint, \* checkpoint.pt of each stage
  status,     \* status.json of each stage; "torn" while it is written
  modelFile,  \* model.pt of each stage
  pauseRequest, \* stages whose directory has a pause.request
  kills, crashes, requests

ctl == <<control, stage, previous, child, pipeline>>
files == <<checkpoint, status, modelFile>>
bounds == <<kills, crashes, requests>>
vars == <<ctl, training, files, pauseRequest, bounds>>

Stage == 1 .. Stages

\* Weights no update has touched, and those with one more update of stage s.
Initial == [s \in Stage |-> 0]
Trained(m, s) == [m EXCEPT ![s] = @ + 1]

Absent == [file |-> "absent", model |-> Initial, step |-> 0]
Idle == [pc |-> "off", stage |-> 1, mode |-> "fresh", from |-> 0,
         model |-> Initial, step |-> 0, pausing |-> FALSE]

Present(f) == f.file = "present"
Alive(w) == training[w].pc \notin {"off", "ok", "failed"}

Working == {"load", "train", "judge", "save", "tear", "report", "leave", "publish"}

Process == [pc : Working \cup {"off", "ok", "failed"}, stage : Stage,
            mode : {"fresh", "init", "resume"}, from : 0 .. Stages,
            model : [Stage -> Nat], step : Nat, pausing : BOOLEAN]
File == [file : {"absent", "present"}, model : [Stage -> Nat], step : Nat]

TypeOK ==
  /\ control \in {"down", "look", "wait"} /\ stage \in 1 .. Stages + 1
  /\ previous \in 0 .. Stages /\ child \in Slots \cup {NoSlot}
  /\ pipeline \in {"none", "running", "failed", "complete"}
  /\ training \in [Slots -> Process]
  /\ checkpoint \in [Stage -> File] /\ modelFile \in [Stage -> File]
  /\ status \in [Stage -> {"none", "torn", "running", "paused", "complete"}]
  /\ pauseRequest \subseteq Stage
  /\ kills \in 0 .. MaxKills /\ crashes \in 0 .. MaxCrashes /\ requests \in 0 .. MaxRequests

Init ==
  /\ control = "down" /\ stage = 1 /\ previous = 0 /\ child = NoSlot
  /\ pipeline = "none"
  /\ training = [w \in Slots |-> Idle]
  /\ checkpoint = [s \in Stage |-> Absent] /\ status = [s \in Stage |-> "none"]
  /\ modelFile = [s \in Stage |-> Absent]
  /\ pauseRequest = {} /\ kills = 0 /\ crashes = 0 /\ requests = 0

-----------------------------------------------------------------------------
(* The controller.                                                         *)

\* launch_training.py, or its --controller to continue: the lock keeps a
\* second controller out for as long as the first one lives.
Start ==
  /\ control = "down" /\ pipeline # "complete"
  /\ control' = "look" /\ stage' = 1 /\ previous' = 0
  /\ UNCHANGED <<child, pipeline, training, files, pauseRequest, bounds>>

\* The controller ends, with its child or without one.
Exit == control' = "down" /\ child' = NoSlot

\* A status.json that is cut short does not parse.
Unreadable ==
  /\ control = "look" /\ stage <= Stages /\ status[stage] = "torn"
  /\ Exit
  /\ UNCHANGED <<stage, previous, pipeline, training, files, pauseRequest, bounds>>

Done(s) == status[s] = "complete" /\ Present(modelFile[s])

\* A complete stage is skipped; the next one starts from its model.
Skip ==
  /\ control = "look" /\ stage <= Stages /\ Done(stage)
  /\ previous' = stage /\ stage' = stage + 1
  /\ UNCHANGED <<control, child, pipeline, training, files, pauseRequest, bounds>>

\* Variant for checking PipelineCompletes: a stage always starts anew.
ArgumentsNew(s) == IF previous # 0 THEN "init" ELSE "fresh"

\* --resume where there is a checkpoint, else --init from the previous stage.
Arguments(s) ==
  IF Present(checkpoint[s]) THEN "resume"
  ELSE IF previous # 0 THEN "init" ELSE "fresh"

\* Popen of the training; pipeline.json says which stage is running.
Launch(w) ==
  /\ control = "look" /\ stage <= Stages
  /\ status[stage] # "torn" /\ ~Done(stage)
  /\ training[w].pc = "off"
  /\ training' = [training EXCEPT ![w] =
       [pc |-> "load", stage |-> stage, mode |-> Arguments(stage), from |-> previous,
        model |-> Initial, step |-> 0, pausing |-> FALSE]]
  /\ child' = w /\ control' = "wait" /\ pipeline' = "running"
  /\ UNCHANGED <<stage, previous, files, pauseRequest, bounds>>

\* process.wait: exit code 0 leads to the next stage.
Advance ==
  /\ control = "wait" /\ training[child].pc = "ok"
  /\ training' = [training EXCEPT ![child] = Idle]
  /\ previous' = stage /\ stage' = stage + 1
  /\ control' = "look" /\ child' = NoSlot
  /\ UNCHANGED <<pipeline, files, pauseRequest, bounds>>

\* Any other exit code ends the controller.
Fail ==
  /\ control = "wait" /\ training[child].pc = "failed"
  /\ training' = [training EXCEPT ![child] = Idle]
  /\ pipeline' = "failed" /\ Exit
  /\ UNCHANGED <<stage, previous, files, pauseRequest, bounds>>

\* All stages are behind it.
Complete ==
  /\ control = "look" /\ stage = Stages + 1
  /\ pipeline' = "complete" /\ Exit
  /\ UNCHANGED <<stage, previous, training, files, pauseRequest, bounds>>

\* The controller is killed; its training goes on.
Kill ==
  /\ control # "down" /\ kills < MaxKills
  /\ kills' = kills + 1
  /\ Exit
  /\ training' = [w \in Slots |-> IF w = child /\ ~Alive(w) THEN Idle ELSE training[w]]
  /\ UNCHANGED <<stage, previous, pipeline, files, pauseRequest, crashes, requests>>

Controller ==
  \/ Unreadable \/ Skip \/ Advance \/ Fail \/ Complete
  \/ \E w \in Slots : Launch(w)

-----------------------------------------------------------------------------
(* A training process.                                                     *)

At(w, place) == training[w].pc = place
Move(w, place) == training' = [training EXCEPT ![w].pc = place]
Finished(w) == training[w].step = Steps

\* The exit code is kept for a controller that waits for it.
Ended(w, code) ==
  training' = [training EXCEPT ![w] = IF w = child THEN [@ EXCEPT !.pc = code] ELSE Idle]

\* A training that is at its last update goes straight to model.pt.
Loaded(w, model, step) ==
  training' = [training EXCEPT ![w] =
    [@ EXCEPT !.model = model, !.step = step,
              !.pc = IF step = Steps THEN "publish" ELSE "train"]]

\* Variant for checking StagesInOrder: the counter starts again.
LoadResumedAtZero(w) ==
  /\ At(w, "load") /\ training[w].mode = "resume"
  /\ Loaded(w, checkpoint[training[w].stage].model, 0)
  /\ UNCHANGED <<ctl, files, pauseRequest, bounds>>

\* A checkpoint is continued where it stands now.
LoadResumed(w) ==
  /\ At(w, "load") /\ training[w].mode = "resume"
  /\ LET f == checkpoint[training[w].stage] IN Loaded(w, f.model, f.step)
  /\ UNCHANGED <<ctl, files, pauseRequest, bounds>>

\* A new run needs a directory without a checkpoint, and every stage but
\* pretrain needs the model of an earlier one.
MayBegin(w) ==
  LET t == training[w] IN
  /\ ~Present(checkpoint[t.stage])
  /\ IF t.mode = "init" THEN Present(modelFile[t.from]) ELSE t.stage = 1

LoadNew(w) ==
  LET t == training[w] IN
  /\ At(w, "load") /\ t.mode # "resume" /\ MayBegin(w)
  /\ Loaded(w, IF t.mode = "init" THEN modelFile[t.from].model ELSE Initial, 0)
  /\ UNCHANGED <<ctl, files, pauseRequest, bounds>>

LoadRefused(w) ==
  /\ At(w, "load") /\ training[w].mode # "resume" /\ ~MayBegin(w)
  /\ Ended(w, "failed")
  /\ UNCHANGED <<ctl, files, pauseRequest, bounds>>

Train(w) ==
  LET t == training[w] IN
  /\ At(w, "train")
  /\ training' = [training EXCEPT ![w] =
       [t EXCEPT !.model = Trained(t.model, t.stage), !.step = t.step + 1, !.pc = "judge"]]
  /\ UNCHANGED <<ctl, files, pauseRequest, bounds>>

\* After an update: pause, save on the cadence or at the end, or go on.
Judge(w) ==
  LET t == training[w]
      pausing == t.stage \in pauseRequest /\ ~Finished(w)
      saving == pausing \/ t.step % SaveEvery = 0 \/ Finished(w)
  IN /\ At(w, "judge")
     /\ training' = [training EXCEPT ![w] =
          [@ EXCEPT !.pausing = pausing, !.pc = IF saving THEN "save" ELSE "train"]]
     /\ UNCHANGED <<ctl, files, pauseRequest, bounds>>

\* save: checkpoint.pt is replaced at once, status.json is written in place.
SaveCheckpoint(w) ==
  LET t == training[w] IN
  /\ At(w, "save") /\ Move(w, "tear")
  /\ checkpoint' = [checkpoint EXCEPT ![t.stage] =
       [file |-> "present", model |-> t.model, step |-> t.step]]
  /\ UNCHANGED <<ctl, status, modelFile, pauseRequest, bounds>>

OpenStatus(w) ==
  /\ At(w, "tear") /\ Move(w, "report")
  /\ status' = [status EXCEPT ![training[w].stage] = "torn"]
  /\ UNCHANGED <<ctl, checkpoint, modelFile, pauseRequest, bounds>>

WriteStatus(w) ==
  LET t == training[w] IN
  /\ At(w, "report")
  /\ status' = [status EXCEPT ![t.stage] = IF Finished(w) THEN "complete"
                               ELSE IF t.pausing THEN "paused" ELSE "running"]
  /\ Move(w, IF Finished(w) THEN "publish"
             ELSE IF t.pausing THEN "leave" ELSE "train")
  /\ UNCHANGED <<ctl, checkpoint, modelFile, pauseRequest, bounds>>

\* A paused training removes the request and exits with code 0.
Leave(w) ==
  /\ At(w, "leave") /\ Ended(w, "ok")
  /\ pauseRequest' = pauseRequest \ {training[w].stage}
  /\ UNCHANGED <<ctl, files, bounds>>

Publish(w) ==
  LET t == training[w] IN
  /\ At(w, "publish") /\ Ended(w, "ok")
  /\ modelFile' = [modelFile EXCEPT ![t.stage] =
       [file |-> "present", model |-> t.model, step |-> t.step]]
  /\ UNCHANGED <<ctl, checkpoint, status, pauseRequest, bounds>>

\* A training dies, or raises.
Crash(w) ==
  /\ Alive(w) /\ crashes < MaxCrashes
  /\ crashes' = crashes + 1
  /\ Ended(w, "failed")
  /\ UNCHANGED <<ctl, files, pauseRequest, kills, requests>>

\* The operator asks a stage that has begun to pause.
RequestPause(s) ==
  /\ requests < MaxRequests /\ s \notin pauseRequest
  /\ \E w \in Slots : Alive(w) /\ training[w].stage = s
  /\ pauseRequest' = pauseRequest \cup {s}
  /\ requests' = requests + 1
  /\ UNCHANGED <<ctl, training, files, kills, crashes>>

Trainer(w) ==
  \/ LoadResumed(w) \/ LoadNew(w) \/ LoadRefused(w) \/ Train(w) \/ Judge(w)
  \/ SaveCheckpoint(w) \/ OpenStatus(w) \/ WriteStatus(w) \/ Leave(w) \/ Publish(w)

-----------------------------------------------------------------------------

Next ==
  \/ Start \/ Controller \/ Kill
  \/ \E w \in Slots : Trainer(w) \/ Crash(w)
  \/ \E s \in Stage : RequestPause(s)

Spec == Init /\ [][Next]_vars

\* Processes make progress, and the operator continues a pipeline that has
\* ended without being complete.
Fairness ==
  /\ WF_vars(Start) /\ WF_vars(Controller)
  /\ \A w \in Slots : WF_vars(Trainer(w))

FairSpec == Spec /\ Fairness

-----------------------------------------------------------------------------
(* Properties.                                                             *)

\* The weights after n updates of stage s on the result of all stages before.
Weights(s, n) ==
  [t \in Stage |-> IF t < s THEN Steps ELSE IF t = s THEN n ELSE 0]

\* Every stage is trained on the finished weights of the one before it, each
\* update once, through kills, pauses, restarts, and although two
\* trainings may write to one directory (docs/legacy/training-educational-v1:
\* stages in order, completed ones skipped, exact resumption).
StagesInOrder ==
  /\ \A s \in Stage :
       /\ Present(checkpoint[s]) => checkpoint[s].model = Weights(s, checkpoint[s].step)
       /\ Present(modelFile[s]) => modelFile[s].model = Weights(s, Steps)
  /\ \A w \in Slots : Alive(w) /\ ~At(w, "load") =>
       training[w].model = Weights(training[w].stage, training[w].step)

\* However often controllers and trainings die, a pipeline that is continued
\* with its recipe is complete in the end, unless a death has left a status
\* file cut short, which no later controller can read.
PipelineCompletes ==
  <>(pipeline = "complete" \/ \E s \in Stage : [](status[s] = "torn"))

\* pipeline.json reports completion of all stages: the model it names, and
\* that of every stage before, is there.
CompleteMeansTrained ==
  pipeline = "complete" => \A s \in Stage : Present(modelFile[s])

=============================================================================
