------------------------- MODULE StageLauncherProofs -------------------------
(***************************************************************************)
(* Proofs about StageLauncher, for any number of stages, updates and       *)
(* places, and however often controllers and trainings die.                *)
(*                                                                         *)
(* A training is Sound when its weights are those of its stage and step; a *)
(* file when its weights are those of its name and step.  An action places *)
(* one process (lemma Placed), and may write one file from a Sound one.    *)
(***************************************************************************)
EXTENDS StageLauncher, TLAPS

Sound(t) ==
  /\ t.mode = "init" => t.from \in Stage /\ t.from = t.stage - 1
  /\ t.pc \in Working \ {"load"} =>
       t.model = Weights(t.stage, t.step) /\ t.step <= Steps
  /\ t.pc = "train" => t.step < Steps
  /\ t.pc = "publish" => t.step = Steps

TrainingsSound ==
  /\ training \in [Slots -> Process]
  /\ \A w \in Slots : Sound(training[w])

CheckpointsSound ==
  /\ checkpoint \in [Stage -> File]
  /\ \A s \in Stage : Present(checkpoint[s]) =>
       /\ checkpoint[s].model = Weights(s, checkpoint[s].step)
       /\ checkpoint[s].step <= Steps

ModelsSound ==
  /\ modelFile \in [Stage -> File]
  /\ \A s \in Stage : Present(modelFile[s]) => modelFile[s].model = Weights(s, Steps)

\* A training that is to resume has a checkpoint to resume from.
Resumable ==
  \A w \in Slots : training[w].pc = "load" /\ training[w].mode = "resume" =>
    Present(checkpoint[training[w].stage])

\* The model for --init is that of the stage before.
Numbered ==
  /\ stage \in 1 .. Stages + 1
  /\ previous = stage - 1
  /\ control = "wait" => stage <= Stages

Rest ==
  /\ control \in {"down", "look", "wait"} /\ child \in Slots \cup {NoSlot}
  /\ pipeline \in {"none", "running", "failed", "complete"}
  /\ status \in [Stage -> {"none", "torn", "running", "paused", "complete"}]
  /\ pauseRequest \subseteq Stage
  /\ kills \in 0 .. MaxKills /\ crashes \in 0 .. MaxCrashes /\ requests \in 0 .. MaxRequests

IInv ==
  /\ TrainingsSound /\ CheckpointsSound /\ ModelsSound
  /\ Resumable /\ Numbered /\ Rest

-----------------------------------------------------------------------------
(* Weights and processes.                                                  *)

LEMMA InitialWeights ==
  /\ Initial \in [Stage -> Nat]
  /\ Weights(1, 0) = Initial
  BY LauncherAssumption DEF Initial, Weights, Stage

LEMMA WeightsType ==
  ASSUME NEW s \in Stage, NEW n \in Nat
  PROVE  Weights(s, n) \in [Stage -> Nat]
  BY LauncherAssumption DEF Weights, Stage

\* The finished weights of a stage are those the next one starts from.
LEMMA WeightsHandedOn ==
  ASSUME NEW s \in Stage, NEW r \in Stage, r = s - 1
  PROVE  Weights(r, Steps) = Weights(s, 0)
  BY LauncherAssumption DEF Weights, Stage

LEMMA WeightsTrained ==
  ASSUME NEW s \in Stage, NEW n \in Nat
  PROVE  Trained(Weights(s, n), s) = Weights(s, n + 1)
<1> DEFINE W == Weights(s, n)
<1>1. /\ W \in [Stage -> Nat] /\ W[s] = n
      /\ \A t \in Stage : t # s => W[t] = Weights(s, n + 1)[t]
  BY LauncherAssumption DEF Weights, Stage
<1>2. Weights(s, n + 1) \in [Stage -> Nat] /\ Weights(s, n + 1)[s] = n + 1
  BY LauncherAssumption DEF Weights, Stage
<1> HIDE DEF W
<1>3. Trained(W, s) \in [Stage -> Nat] /\ Trained(W, s)[s] = n + 1
      /\ \A t \in Stage : t # s => Trained(W, s)[t] = W[t]
  BY <1>1 DEF Trained
<1>4. Trained(W, s) = Weights(s, n + 1)
  BY <1>1, <1>2, <1>3
<1> QED BY <1>4 DEF W

LEMMA IdleSound == Idle \in Process /\ Sound(Idle)
<1>1. 1 \in Stage
  BY LauncherAssumption DEF Stage
<1>2. 0 \in 0 .. Stages
  BY LauncherAssumption
<1>3. Idle \in Process
  BY <1>1, <1>2, InitialWeights DEF Idle, Process
<1> QED BY <1>3 DEF Idle, Sound, Working

LEMMA Placed ==
  ASSUME TrainingsSound, Resumable, NEW w \in Slots, NEW t \in Process, Sound(t),
         training' = [training EXCEPT ![w] = t],
         \A s \in Stage : Present(checkpoint[s]) => Present(checkpoint'[s]),
         t.pc = "load" /\ t.mode = "resume" => Present(checkpoint'[t.stage])
  PROVE  TrainingsSound' /\ Resumable'
<1>1. training' \in [Slots -> Process]
  BY DEF TrainingsSound
<1>2. \A v \in Slots : training'[v] = IF v = w THEN t ELSE training[v]
  BY DEF TrainingsSound
<1>3. \A v \in Slots : Sound(training'[v])
  BY <1>2 DEF TrainingsSound
<1>4. \A v \in Slots : training[v].stage \in Stage
  BY DEF TrainingsSound, Process
<1>5. Resumable'
  BY <1>2, <1>4 DEF Resumable, Present
<1> QED BY <1>1, <1>3, <1>5 DEF TrainingsSound, Sound, Weights

-----------------------------------------------------------------------------
(* The actions.                                                            *)

LEMMA InitSound == Init => IInv
<1> SUFFICES ASSUME Init PROVE IInv
  OBVIOUS
<1>1. 1 \in Stage /\ 1 \in 1 .. Stages + 1
  BY LauncherAssumption DEF Stage
<1>2. Absent \in File /\ ~Present(Absent)
  BY InitialWeights DEF Absent, File, Present
<1>3. TrainingsSound /\ Resumable
  BY IdleSound DEF Init, TrainingsSound, Resumable, Idle
<1>4. CheckpointsSound /\ ModelsSound
  BY <1>2 DEF Init, CheckpointsSound, ModelsSound
<1>5. Numbered
  BY <1>1 DEF Init, Numbered
<1>6. Rest
  BY LauncherAssumption DEF Init, Rest
<1> QED BY <1>3, <1>4, <1>5, <1>6 DEF IInv

\* The controller changes no file.
LEMMA ControllerSound ==
  ASSUME IInv, Start \/ Controller \/ Kill
  PROVE  IInv'
<1> USE DEF IInv
<1>1. CheckpointsSound' /\ ModelsSound'
  <2>1. UNCHANGED <<checkpoint, modelFile>>
    BY DEF Start, Controller, Kill, Unreadable, Skip, Advance, Fail, Complete, Launch, files
  <2> QED BY <2>1 DEF CheckpointsSound, ModelsSound, Present, Weights
<1>2. Numbered'
  <2>1. CASE Start
    BY <2>1, LauncherAssumption DEF Start, Numbered
  <2>2. CASE Skip
    BY <2>2, LauncherAssumption DEF Skip, Numbered
  <2>3. CASE Advance
    BY <2>3, LauncherAssumption DEF Advance, Numbered
  <2>4. CASE Unreadable \/ Fail \/ Complete \/ Kill \/ \E w \in Slots : Launch(w)
    BY <2>4 DEF Unreadable, Fail, Complete, Kill, Launch, Exit, Numbered
  <2> QED BY <2>1, <2>2, <2>3, <2>4 DEF Controller
<1>3. Rest'
  <2>1. UNCHANGED <<status, pauseRequest, crashes, requests>>
    BY DEF Start, Controller, Kill, Unreadable, Skip, Advance, Fail, Complete, Launch,
           files, bounds
  <2>2. kills' \in 0 .. MaxKills
    BY LauncherAssumption
    DEF Rest, Start, Controller, Kill, Unreadable, Skip, Advance, Fail, Complete, Launch, bounds
  <2>3. control' \in {"down", "look", "wait"} /\ child' \in Slots \cup {NoSlot}
    BY DEF Rest, Start, Controller, Kill, Unreadable, Skip, Advance, Fail, Complete, Launch, Exit
  <2>4. pipeline' \in {"none", "running", "failed", "complete"}
    BY DEF Rest, Start, Controller, Kill, Unreadable, Skip, Advance, Fail, Complete, Launch
  <2> QED BY <2>1, <2>2, <2>3, <2>4 DEF Rest
<1>4. TrainingsSound' /\ Resumable'
  <2>0. UNCHANGED checkpoint
    BY DEF Start, Controller, Kill, Unreadable, Skip, Advance, Fail, Complete, Launch, files
  <2>1. CASE UNCHANGED training
    BY <2>0, <2>1 DEF TrainingsSound, Resumable, Sound, Weights, Present
  <2>2. CASE training' = [training EXCEPT ![child] = Idle]
    <3>1. CASE child \in Slots
      BY <2>0, <2>2, <3>1, IdleSound, Placed DEF Idle
    <3>2. CASE child \notin Slots
      BY <2>0, <2>2, <3>2 DEF TrainingsSound, Resumable, Sound, Weights, Present
    <3> QED BY <3>1, <3>2
  <2>3. CASE Kill
    <3>1. \A w \in Slots : training'[w] = Idle \/ training'[w] = training[w]
      BY <2>3 DEF Kill
    <3>2. training' \in [Slots -> Process]
      <4>1. \A w \in Slots : training[w] \in Process
        BY DEF TrainingsSound
      <4> QED BY <4>1, <2>3, IdleSound DEF Kill
    <3>3. \A w \in Slots : Sound(training'[w])
      BY <3>1, IdleSound DEF TrainingsSound
    <3>4. Resumable'
      BY <2>0, <3>1 DEF Resumable, Idle, Present
    <3> QED BY <3>2, <3>3, <3>4 DEF TrainingsSound, Sound, Weights
  <2>4. ASSUME NEW w \in Slots, Launch(w)
        PROVE  TrainingsSound' /\ Resumable'
    <3> DEFINE t == [pc |-> "load", stage |-> stage, mode |-> Arguments(stage),
                     from |-> previous, model |-> Initial, step |-> 0, pausing |-> FALSE]
    <3>1. stage \in Stage /\ previous = stage - 1 /\ previous \in 0 .. Stages
      BY <2>4, LauncherAssumption DEF Launch, Numbered, Stage
    <3>2. Arguments(stage) \in {"fresh", "init", "resume"}
      BY DEF Arguments
    <3>3. t \in Process
      BY <3>1, <3>2, InitialWeights DEF Process, Working
    <3>4. Arguments(stage) = "init" => previous \in Stage
      BY <3>1, LauncherAssumption DEF Arguments, Stage
    <3>5. Sound(t)
      BY <3>1, <3>4 DEF Sound, Working
    <3>6. t.mode = "resume" => Present(checkpoint'[t.stage])
      BY <2>0 DEF Arguments
    <3>7. training' = [training EXCEPT ![w] = t]
      BY <2>4 DEF Launch
    <3>8. \A s \in Stage : Present(checkpoint[s]) => Present(checkpoint'[s])
      BY <2>0
    <3> HIDE DEF t
    <3> QED BY <3>3, <3>5, <3>6, <3>7, <3>8, Placed
  <2>5. CASE Start \/ Unreadable \/ Skip \/ Complete
    BY <2>1, <2>5 DEF Start, Unreadable, Skip, Complete
  <2>6. CASE Advance \/ Fail
    BY <2>2, <2>6 DEF Advance, Fail
  <2> QED BY <2>3, <2>4, <2>5, <2>6 DEF Controller
<1> QED BY <1>1, <1>2, <1>3, <1>4

\* What a training leaves alone.
LEMMA TrainerRest ==
  ASSUME IInv, NEW w \in Slots, Trainer(w) \/ Crash(w)
  PROVE  Numbered' /\ Rest'
<1> USE DEF IInv
<1>1. Numbered'
  BY DEF Numbered, ctl, Trainer, Crash, LoadResumed, LoadNew, LoadRefused, Train, Judge,
         SaveCheckpoint, OpenStatus, WriteStatus, Leave, Publish
<1>2. UNCHANGED <<control, child, pipeline, kills, requests>>
  BY DEF ctl, bounds, Trainer, Crash, LoadResumed, LoadNew, LoadRefused, Train, Judge,
         SaveCheckpoint, OpenStatus, WriteStatus, Leave, Publish
<1>3. crashes' \in 0 .. MaxCrashes
  BY LauncherAssumption
  DEF Rest, bounds, Trainer, Crash, LoadResumed, LoadNew, LoadRefused, Train, Judge,
      SaveCheckpoint, OpenStatus, WriteStatus, Leave, Publish
<1>4. pauseRequest' \subseteq Stage
  BY DEF Rest, Trainer, Crash, LoadResumed, LoadNew, LoadRefused, Train, Judge,
         SaveCheckpoint, OpenStatus, WriteStatus, Leave, Publish
<1>5. status' \in [Stage -> {"none", "torn", "running", "paused", "complete"}]
  <2>1. CASE OpenStatus(w)
    BY <2>1 DEF Rest, OpenStatus
  <2>2. CASE WriteStatus(w)
    BY <2>2 DEF Rest, WriteStatus
  <2>3. CASE UNCHANGED status
    BY <2>3 DEF Rest
  <2> QED BY <2>1, <2>2, <2>3 DEF files, Trainer, Crash, LoadResumed, LoadNew, LoadRefused,
             Train, Judge, SaveCheckpoint, Leave, Publish
<1> QED BY <1>1, <1>2, <1>3, <1>4, <1>5 DEF Rest

\* A training that ends, with whatever exit code, is Sound.
LEMMA EndedSound ==
  ASSUME IInv, NEW w \in Slots, NEW code \in {"ok", "failed"}, Ended(w, code),
         UNCHANGED checkpoint
  PROVE  TrainingsSound' /\ Resumable'
<1> USE DEF IInv
<1> DEFINE t == IF w = child THEN [training[w] EXCEPT !.pc = code] ELSE Idle
<1>1. training' = [training EXCEPT ![w] = t]
  BY DEF Ended, TrainingsSound
<1>2. training[w] \in Process /\ Sound(training[w])
  BY DEF TrainingsSound
<1>3. CASE w = child
  <2>1. t \in Process /\ t.pc = code /\ t.mode = training[w].mode
        /\ t.from = training[w].from /\ t.stage = training[w].stage
    BY <1>2, <1>3 DEF Process
  <2>2. Sound(t) /\ t.pc # "load"
    BY <1>2, <2>1 DEF Sound, Working
  <2> HIDE DEF t
  <2> QED BY <1>1, <2>1, <2>2, Placed
<1>4. CASE w # child
  <2>1. t = Idle
    BY <1>4
  <2> HIDE DEF t
  <2> QED BY <1>1, <2>1, IdleSound, Placed DEF Idle
<1> QED BY <1>3, <1>4

LEMMA LoadSound ==
  ASSUME IInv, NEW w \in Slots, NEW m \in [Stage -> Nat], NEW n \in Nat,
         training[w].pc = "load", Loaded(w, m, n), UNCHANGED files,
         m = Weights(training[w].stage, n), n <= Steps
  PROVE  TrainingsSound' /\ Resumable'
<1> USE DEF IInv
<1> DEFINE place == IF n = Steps THEN "publish" ELSE "train"
           t == [training[w] EXCEPT !.model = m, !.step = n, !.pc = place]
<1>1. training[w] \in Process /\ Sound(training[w])
  BY DEF TrainingsSound
<1>2. place \in Working \cup {"off", "ok", "failed"}
  BY DEF Working
<1>3. /\ t \in Process /\ t.pc = place /\ t.model = m /\ t.step = n
      /\ t.stage = training[w].stage /\ t.mode = training[w].mode
      /\ t.from = training[w].from
  BY <1>1, <1>2 DEF Process
<1>4. training' = [training EXCEPT ![w] = t]
  BY DEF Loaded, TrainingsSound
<1> HIDE DEF t
<1>5. n # Steps => n < Steps
  BY LauncherAssumption
<1>6. Sound(t)
  BY <1>1, <1>3, <1>5 DEF Sound
<1>7. t.pc # "load"
  BY <1>3
<1> QED BY <1>3, <1>4, <1>6, <1>7, Placed DEF files

\* A step within the process: its weights stay those of its step.
LEMMA MoveSound ==
  ASSUME IInv, NEW w \in Slots, NEW t \in Process, Sound(t), t.pc # "load",
         training' = [training EXCEPT ![w] = t],
         \A s \in Stage : Present(checkpoint[s]) => Present(checkpoint'[s])
  PROVE  TrainingsSound' /\ Resumable'
  BY Placed DEF IInv

LEMMA MovedSound ==
  ASSUME IInv, NEW w \in Slots, NEW pc \in Working \ {"load"},
         training[w].pc \in Working \ {"load"}, Move(w, pc),
         pc = "train" => training[w].step # Steps,
         pc = "publish" => training[w].step = Steps,
         \A s \in Stage : Present(checkpoint[s]) => Present(checkpoint'[s])
  PROVE  TrainingsSound' /\ Resumable'
<1> DEFINE t == [training[w] EXCEPT !.pc = pc]
<1>1. training[w] \in Process /\ Sound(training[w])
  BY DEF IInv, TrainingsSound
<1>2. /\ t \in Process /\ t.pc = pc
      /\ t.model = training[w].model /\ t.step = training[w].step
      /\ t.stage = training[w].stage /\ t.mode = training[w].mode
      /\ t.from = training[w].from
  BY <1>1 DEF Process
<1>3. training' = [training EXCEPT ![w] = t]
  BY DEF Move, IInv, TrainingsSound
<1> HIDE DEF t
<1>4. training[w].step \in Nat /\ Steps \in Nat
  BY <1>1, LauncherAssumption DEF Process
<1>5. Sound(t)
  BY <1>1, <1>2, <1>4 DEF Sound
<1> QED BY <1>2, <1>3, <1>5, MoveSound

LEMMA TrainSound ==
  ASSUME IInv, NEW w \in Slots, Train(w)
  PROVE  TrainingsSound' /\ Resumable'
<1> DEFINE m == Trained(training[w].model, training[w].stage)
           n == training[w].step + 1
           t == [training[w] EXCEPT !.model = m, !.step = n, !.pc = "judge"]
<1>1. training[w] \in Process /\ Sound(training[w]) /\ training[w].pc = "train"
  BY DEF IInv, TrainingsSound, Train, At
<1>2. training[w].stage \in Stage /\ training[w].step \in Nat
  BY <1>1 DEF Process
<1>3. training[w].model = Weights(training[w].stage, training[w].step)
      /\ training[w].step < Steps
  BY <1>1 DEF Sound, Working
<1>4. n \in Nat /\ n <= Steps
  BY <1>2, <1>3, LauncherAssumption
<1>5. m = Weights(training[w].stage, n)
  BY <1>2, <1>3, WeightsTrained
<1>6. m \in [Stage -> Nat]
  BY <1>2, <1>4, <1>5, WeightsType
<1>11. training' = [training EXCEPT ![w] = t]
  BY DEF Train
<1> HIDE DEF m, n
<1>7. /\ t \in Process /\ t.pc = "judge" /\ t.model = m /\ t.step = n
      /\ t.stage = training[w].stage /\ t.mode = training[w].mode
      /\ t.from = training[w].from
  BY <1>1, <1>4, <1>6 DEF Process, Working
<1>9. UNCHANGED checkpoint
  BY DEF Train, files
<1> HIDE DEF t
<1>10. Sound(t)
  BY <1>1, <1>4, <1>5, <1>7 DEF Sound
<1> QED BY <1>7, <1>9, <1>10, <1>11, MoveSound

LEMMA JudgeSound ==
  ASSUME IInv, NEW w \in Slots, Judge(w)
  PROVE  TrainingsSound' /\ Resumable'
<1> DEFINE pausing == training[w].stage \in pauseRequest /\ ~Finished(w)
           saving == pausing \/ training[w].step % SaveEvery = 0 \/ Finished(w)
           place == IF saving THEN "save" ELSE "train"
           t == [training[w] EXCEPT !.pausing = pausing, !.pc = place]
<1>1. training[w] \in Process /\ Sound(training[w]) /\ training[w].pc = "judge"
  BY DEF IInv, TrainingsSound, Judge, At
<1>2. training' = [training EXCEPT ![w] = t] /\ UNCHANGED checkpoint
  BY DEF Judge, files, IInv, TrainingsSound
<1>3. place \in {"save", "train"} /\ (place = "train" => training[w].step # Steps)
  BY DEF Finished
<1>4. pausing \in BOOLEAN
  OBVIOUS
<1> HIDE DEF pausing, place
<1>5. /\ t \in Process /\ t.pc = place
      /\ t.model = training[w].model /\ t.step = training[w].step
      /\ t.stage = training[w].stage /\ t.mode = training[w].mode
      /\ t.from = training[w].from
  BY <1>1, <1>3, <1>4 DEF Process, Working
<1> HIDE DEF t
<1>6. training[w].step \in Nat /\ Steps \in Nat
  BY <1>1, LauncherAssumption DEF Process
<1>7. Sound(t)
  BY <1>1, <1>3, <1>5, <1>6 DEF Sound, Working
<1>8. t.pc # "load"
  BY <1>3, <1>5
<1> QED BY <1>2, <1>5, <1>7, <1>8, MoveSound

\* The weights a training holds are those its files get.
LEMMA HeldWeights ==
  ASSUME IInv, NEW w \in Slots, training[w].pc \in Working \ {"load"}
  PROVE  /\ training[w].stage \in Stage
         /\ training[w].model \in [Stage -> Nat] /\ training[w].step \in Nat
         /\ training[w].model = Weights(training[w].stage, training[w].step)
         /\ training[w].step <= Steps
         /\ training[w].pc = "publish" => training[w].step = Steps
  BY DEF IInv, TrainingsSound, Process, Sound

LEMMA FilesUntouched ==
  ASSUME IInv, UNCHANGED <<checkpoint, modelFile>>
  PROVE  CheckpointsSound' /\ ModelsSound'
  BY DEF IInv, CheckpointsSound, ModelsSound, Present, Weights

\* A finished or interrupted process, step by step.
LEMMA TrainerSound ==
  ASSUME IInv, NEW w \in Slots, Trainer(w) \/ Crash(w)
  PROVE  TrainingsSound' /\ Resumable' /\ CheckpointsSound' /\ ModelsSound'
<1>1. CASE LoadResumed(w)
  <2> DEFINE f == checkpoint[training[w].stage]
  <2>1. training[w].stage \in Stage
    BY DEF IInv, TrainingsSound, Process
  <2>2. Present(f)
    BY <1>1 DEF IInv, Resumable, LoadResumed, At
  <2>3. f \in File /\ f.model = Weights(training[w].stage, f.step) /\ f.step <= Steps
    BY <2>1, <2>2 DEF IInv, CheckpointsSound
  <2>4. f.model \in [Stage -> Nat] /\ f.step \in Nat
    BY <2>3 DEF File
  <2>5. training[w].pc = "load" /\ Loaded(w, f.model, f.step) /\ UNCHANGED files
    BY <1>1 DEF LoadResumed, At
  <2> HIDE DEF f
  <2>6. TrainingsSound' /\ Resumable'
    BY <2>3, <2>4, <2>5, LoadSound
  <2> QED BY <2>5, <2>6, FilesUntouched DEF files
<1>2. CASE LoadNew(w)
  <2> DEFINE m == IF training[w].mode = "init" THEN modelFile[training[w].from].model
                  ELSE Initial
  <2>1. training[w] \in Process /\ Sound(training[w])
    BY DEF IInv, TrainingsSound
  <2>2. training[w].pc = "load" /\ Loaded(w, m, 0) /\ UNCHANGED files
    BY <1>2 DEF LoadNew, At
  <2>3. m \in [Stage -> Nat] /\ m = Weights(training[w].stage, 0)
    <3>1. CASE training[w].mode = "init"
      <4> DEFINE g == modelFile[training[w].from]
      <4>1. training[w].stage \in Stage /\ training[w].from \in Stage
            /\ training[w].from = training[w].stage - 1
        BY <2>1, <3>1 DEF Process, Sound
      <4>2. Present(g)
        BY <1>2, <3>1 DEF LoadNew, MayBegin
      <4>3. g \in File /\ g.model = Weights(training[w].from, Steps)
        BY <4>1, <4>2 DEF IInv, ModelsSound
      <4>4. m = g.model
        BY <3>1
      <4> QED BY <4>1, <4>3, <4>4, WeightsHandedOn DEF File
    <3>2. CASE training[w].mode # "init"
      <4>1. training[w].stage = 1
        BY <1>2, <3>2 DEF LoadNew, MayBegin
      <4> QED BY <3>2, <4>1, InitialWeights
    <3> QED BY <3>1, <3>2
  <2>4. 0 \in Nat /\ 0 <= Steps
    BY LauncherAssumption
  <2> HIDE DEF m
  <2>5. TrainingsSound' /\ Resumable'
    BY <2>2, <2>3, <2>4, LoadSound
  <2> QED BY <2>2, <2>5, FilesUntouched DEF files
<1>3. CASE LoadRefused(w)
  BY <1>3, EndedSound, FilesUntouched DEF LoadRefused, files
<1>4. CASE Train(w)
  BY <1>4, TrainSound, FilesUntouched DEF Train, files
<1>5. CASE Judge(w)
  BY <1>5, JudgeSound, FilesUntouched DEF Judge, files
<1>6. CASE SaveCheckpoint(w)
  <2> DEFINE s == training[w].stage
             f == [file |-> "present", model |-> training[w].model, step |-> training[w].step]
  <2>1. training[w].pc = "save" /\ Move(w, "tear") /\ UNCHANGED modelFile
        /\ checkpoint' = [checkpoint EXCEPT ![s] = f]
    BY <1>6 DEF SaveCheckpoint, At
  <2>2. s \in Stage /\ training[w].model \in [Stage -> Nat] /\ training[w].step \in Nat
        /\ training[w].model = Weights(s, training[w].step) /\ training[w].step <= Steps
    BY <2>1, HeldWeights DEF Working
  <2>3. f \in File /\ Present(f) /\ f.model = Weights(s, f.step) /\ f.step <= Steps
    BY <2>2 DEF File, Present
  <2> HIDE DEF s, f
  <2>4. checkpoint' \in [Stage -> File]
        /\ \A q \in Stage : checkpoint'[q] = IF q = s THEN f ELSE checkpoint[q]
    BY <2>1, <2>2, <2>3 DEF IInv, CheckpointsSound
  <2>5. CheckpointsSound'
    <3>1. \A q \in Stage : Present(checkpoint'[q]) =>
            checkpoint'[q].model = Weights(q, checkpoint'[q].step)
            /\ checkpoint'[q].step <= Steps
      BY <2>3, <2>4 DEF IInv, CheckpointsSound
    <3> QED BY <2>4, <3>1 DEF CheckpointsSound, Present, Weights
  <2>6. \A q \in Stage : Present(checkpoint[q]) => Present(checkpoint'[q])
    BY <2>3, <2>4
  <2>7. TrainingsSound' /\ Resumable'
    BY <2>1, <2>6, MovedSound DEF Working
  <2>8. ModelsSound'
    BY <2>1 DEF IInv, ModelsSound, Present, Weights
  <2> QED BY <2>5, <2>7, <2>8
<1>7. CASE OpenStatus(w)
  <2>1. training[w].pc = "tear" /\ Move(w, "report") /\ UNCHANGED <<checkpoint, modelFile>>
    BY <1>7 DEF OpenStatus, At
  <2> QED BY <2>1, MovedSound, FilesUntouched DEF Working
<1>8. CASE WriteStatus(w)
  <2> DEFINE place == IF Finished(w) THEN "publish"
                      ELSE IF training[w].pausing THEN "leave" ELSE "train"
  <2>1. training[w].pc = "report" /\ Move(w, place) /\ UNCHANGED <<checkpoint, modelFile>>
    BY <1>8 DEF WriteStatus, At
  <2>2. place \in {"publish", "leave", "train"}
        /\ (place = "train" => training[w].step # Steps)
        /\ (place = "publish" => training[w].step = Steps)
    BY DEF Finished
  <2> HIDE DEF place
  <2> QED BY <2>1, <2>2, MovedSound, FilesUntouched DEF Working
<1>9. CASE Leave(w)
  BY <1>9, EndedSound, FilesUntouched DEF Leave, files
<1>10. CASE Publish(w)
  <2> DEFINE s == training[w].stage
             f == [file |-> "present", model |-> training[w].model, step |-> training[w].step]
  <2>1. training[w].pc = "publish" /\ Ended(w, "ok") /\ UNCHANGED checkpoint
        /\ modelFile' = [modelFile EXCEPT ![s] = f]
    BY <1>10 DEF Publish, At
  <2>2. s \in Stage /\ training[w].model \in [Stage -> Nat] /\ training[w].step \in Nat
        /\ training[w].model = Weights(s, Steps)
    BY <2>1, HeldWeights DEF Working
  <2>3. f \in File /\ f.model = Weights(s, Steps)
    BY <2>2 DEF File
  <2> HIDE DEF s, f
  <2>4. modelFile' \in [Stage -> File]
        /\ \A q \in Stage : modelFile'[q] = IF q = s THEN f ELSE modelFile[q]
    BY <2>1, <2>2, <2>3 DEF IInv, ModelsSound
  <2>5. ModelsSound'
    <3>1. \A q \in Stage : Present(modelFile'[q]) => modelFile'[q].model = Weights(q, Steps)
      BY <2>3, <2>4 DEF IInv, ModelsSound
    <3> QED BY <2>4, <3>1 DEF ModelsSound, Present, Weights
  <2>6. TrainingsSound' /\ Resumable'
    BY <2>1, EndedSound
  <2>7. CheckpointsSound'
    BY <2>1 DEF IInv, CheckpointsSound, Present, Weights
  <2> QED BY <2>5, <2>6, <2>7
<1>11. CASE Crash(w)
  BY <1>11, EndedSound, FilesUntouched DEF Crash, files
<1> QED BY <1>1, <1>2, <1>3, <1>4, <1>5, <1>6, <1>7, <1>8, <1>9, <1>10, <1>11 DEF Trainer

LEMMA RequestSound ==
  ASSUME IInv, NEW s \in Stage, RequestPause(s)
  PROVE  IInv'
<1>1. UNCHANGED <<ctl, training, files, kills, crashes>>
  BY DEF RequestPause
<1>2. TrainingsSound' /\ Resumable'
  BY <1>1 DEF files, IInv, TrainingsSound, Resumable, Sound, Weights, Present
<1>3. CheckpointsSound' /\ ModelsSound'
  BY <1>1, FilesUntouched DEF files
<1>4. Numbered'
  BY <1>1 DEF ctl, IInv, Numbered
<1>5. pauseRequest' \subseteq Stage
  BY DEF RequestPause, IInv, Rest
<1>6. requests' \in 0 .. MaxRequests
  BY LauncherAssumption DEF RequestPause, IInv, Rest
<1>7. Rest'
  BY <1>1, <1>5, <1>6 DEF ctl, files, IInv, Rest
<1> QED BY <1>2, <1>3, <1>4, <1>7 DEF IInv

LEMMA NextSound == IInv /\ [Next]_vars => IInv'
<1> SUFFICES ASSUME IInv, [Next]_vars PROVE IInv'
  OBVIOUS
<1>1. CASE Start \/ Controller \/ Kill
  BY <1>1, ControllerSound
<1>2. ASSUME NEW w \in Slots, Trainer(w) \/ Crash(w) PROVE IInv'
  BY <1>2, TrainerRest, TrainerSound DEF IInv
<1>3. ASSUME NEW s \in Stage, RequestPause(s) PROVE IInv'
  BY <1>3, RequestSound
<1>4. CASE UNCHANGED vars
  <2>1. UNCHANGED <<ctl, training, files, pauseRequest, bounds>>
    BY <1>4 DEF vars
  <2>2. TrainingsSound' /\ Resumable'
    BY <2>1 DEF files, IInv, TrainingsSound, Resumable, Sound, Weights, Present
  <2>3. CheckpointsSound' /\ ModelsSound'
    BY <2>1, FilesUntouched DEF files
  <2>4. Numbered' /\ Rest'
    BY <2>1 DEF ctl, files, bounds, IInv, Numbered, Rest
  <2> QED BY <2>2, <2>3, <2>4 DEF IInv
<1> QED BY <1>1, <1>2, <1>3, <1>4 DEF Next

LEMMA Invariant == Spec => []IInv
  BY InitSound, NextSound, PTL DEF Spec

-----------------------------------------------------------------------------

\* Type correctness of the controller, the trainings and the files.
THEOREM TypesAreKept == Spec => []TypeOK
<1>1. IInv => TypeOK
  <2> SUFFICES ASSUME IInv PROVE TypeOK
    OBVIOUS
  <2>1. previous \in 0 .. Stages
    BY LauncherAssumption DEF IInv, Numbered
  <2> QED BY <2>1 DEF IInv, Numbered, Rest, TrainingsSound, CheckpointsSound, ModelsSound,
             TypeOK
<1> QED BY <1>1, Invariant, PTL

\* Every checkpoint, model and training holds the finished weights of all
\* earlier stages and its own updates once, whoever wrote or resumed it.
THEOREM StagesFollow == Spec => []StagesInOrder
<1>1. IInv => StagesInOrder
  <2> SUFFICES ASSUME IInv PROVE StagesInOrder
    OBVIOUS
  <2>1. \A w \in Slots : Alive(w) /\ ~At(w, "load") =>
          training[w].model = Weights(training[w].stage, training[w].step)
    BY DEF IInv, TrainingsSound, Sound, Process, Alive, At
  <2> QED BY <2>1 DEF IInv, CheckpointsSound, ModelsSound, StagesInOrder
<1> QED BY <1>1, Invariant, PTL

=============================================================================
