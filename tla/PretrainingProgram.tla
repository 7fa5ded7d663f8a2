------------------------- MODULE PretrainingProgram -------------------------
(***************************************************************************)
(* The phases of a pretraining program (minifrontier/training/             *)
(* pretraining.py and its calls in train.py).  A phase trains some of the  *)
(* parameters until its own token budget is met; the next one starts from  *)
(* its checkpoint with --init, in a directory of its own, and inherits     *)
(* weights, optimizer moments by parameter name, the main CE count and,    *)
(* where the data are the same, the sampler.  Frozen parameters keep their *)
(* moments aside (dormant).  --resume continues a phase exactly.           *)
(*                                                                         *)
(* The weights are the updates that made them.  The moments of a parameter *)
(* are the numbers of the updates they were accumulated over.  What an     *)
(* operator may get wrong (the checkpoint, the directory, the data, the    *)
(* kind of the run, a binding edited between two phases) is chosen freely. *)
(***************************************************************************)
EXTENDS Integers, Sequences

CONSTANTS
  Programs,   \* sequences of phases: token unit, budget, trainable parameters
  Parameters, \* names of parameters
  Corpora,    \* data (with tokenizer, context and microbatch) a binding names
  Unbound,    \* a phase whose data are not frozen yet
  Dirs,       \* output directories
  Windows,    \* CE targets and input positions of a window
  SaveEvery,  \* --save-every
  MaxStarts, MaxBinds  \* bounds

Units == {"ce_tokens", "input_tokens"}
Kinds == {"acceptance", "strategy"}

ASSUME ProgramAssumption ==
  /\ Programs \subseteq
       Seq([unit : Units, budget : Nat \ {0}, trainable : SUBSET Parameters])
  /\ <<>> \notin Programs
  /\ Unbound \notin Corpora
  /\ Windows \subseteq [ce : Nat, inputs : Nat]
  /\ SaveEvery \in Nat \ {0} /\ MaxStarts \in Nat /\ MaxBinds \in Nat

VARIABLES
  program,  \* the phases, fixed
  bindings, \* recipe["bindings"]: the data frozen for each phase
  file,     \* checkpoint.pt of each directory
  occupied, \* directories that are not empty
  pc,       \* where the process stands: "down" when there is none
  dir,      \* its --output
  memory,   \* its state of training
  starts, binds

vars == <<program, bindings, file, occupied, pc, dir, memory, starts, binds>>

Phases == 1 .. Len(program)
Trainable(k) == program[k].trainable

\* No checkpoint, no state of training, no directory.
Absent == [file |-> "absent"]
Nothing == [state |-> "none"]
Nowhere == "nowhere"

Present(d) == file[d].file = "present"
PhaseOf(s) == s.binding.phase

\* The states of training have a shape of their own.
UpdateMade == [phase : Nat, data : Corpora, window : Nat, used : SUBSET Parameters]
Shaped(s) ==
  /\ PhaseOf(s) \in Phases /\ s.binding.kind \in Kinds /\ s.data \in Corpora
  /\ s.step \in Nat /\ s.cursor \in Nat
  /\ s.base \in Nat /\ s.ce \in Nat /\ s.inputs \in Nat
  /\ s.lineage \in Seq([phase : Nat, main : Nat])
  /\ s.moments \in [Parameters -> SUBSET Nat]
  /\ s.dormant \in [Parameters -> SUBSET Nat]
  /\ s.model \in Seq(UpdateMade) /\ s.trueCe \in Nat /\ s.phaseTokens \in [Phases -> Nat]

TypeOK ==
  /\ program \in Programs /\ bindings \in [Phases -> Corpora \cup {Unbound}]
  /\ pc \in {"down", "train", "judge"}
  /\ pc # "down" => dir \in Dirs /\ Shaped(memory)
  /\ DOMAIN file = Dirs /\ occupied \subseteq Dirs
  /\ \A d \in Dirs : Present(d) => Shaped(file[d].training) /\ file[d].main \in Nat
  /\ starts \in 0 .. MaxStarts /\ binds \in 0 .. MaxBinds

Init ==
  /\ program \in Programs /\ bindings \in [Phases -> Corpora \cup {Unbound}]
  /\ file = [d \in Dirs |-> Absent] /\ occupied = {}
  /\ pc = "down" /\ dir = Nowhere /\ memory = Nothing
  /\ starts = 0 /\ binds = 0

-----------------------------------------------------------------------------
(* What a checkpoint and a state of training say.                          *)

\* binding_through: the recipe with the bindings of the phases up to k.
BindingThrough(k, kind) ==
  [phase |-> k, kind |-> kind, bindings |-> [q \in 1 .. k |-> bindings[q]]]

\* A formal phase needs its own binding, and the data it names.
Admitted(k, kind, data) == kind = "strategy" => bindings[k] = data

\* snapshot and the rest of the payload of save.
Checkpoint(s, complete) ==
  [file |-> "present", training |-> s, main |-> s.base + s.ce, complete |-> complete]

\* The phase's ledger, in the unit of its budget.
Spent(s) == IF program[PhaseOf(s)].unit = "ce_tokens" THEN s.ce ELSE s.inputs
Finished(s) == Spent(s) >= program[PhaseOf(s)].budget

\* Random initialization.  What follows "model" is not in the program: the CE
\* targets the weights have been trained on, and the tokens of each phase.
Random(binding, data) ==
  [binding |-> binding, data |-> data, step |-> 0, cursor |-> 0,
   base |-> 0, ce |-> 0, inputs |-> 0, lineage |-> <<>>,
   moments |-> [p \in Parameters |-> {}], dormant |-> [p \in Parameters |-> {}],
   model |-> <<>>, trueCe |-> 0, phaseTokens |-> [q \in Phases |-> 0]]

-----------------------------------------------------------------------------
(* From one phase to the next.                                             *)

\* Variant for checking FormalLineage: the phase alone is compared.
FollowsPhase(saved, k, kind) == saved.training.binding.phase = k - 1

\* The checkpoint is of the preceding phase, with the same recipe, the same
\* bindings up to there, and the same kind of run.
Follows(saved, k, kind) == saved.training.binding = BindingThrough(k - 1, kind)

\* The predecessor's ledger met the budget and agrees with its main CE count.
LedgerComplete(saved, k) ==
  LET s == saved.training
      prior == program[k - 1]
  IN /\ (IF prior.unit = "ce_tokens" THEN s.ce ELSE s.inputs) >= prior.budget
     /\ saved.main = s.base + s.ce
     /\ prior.unit = "input_tokens" => s.ce = 0

\* validate_parent for --init.
ValidParent(saved, k, kind) ==
  /\ saved.file = "present"
  /\ Follows(saved, k, kind) /\ saved.complete /\ LedgerComplete(saved, k)

\* Variant for checking MainCeExact: the count before the predecessor.
InheritedBasePrior(saved) == saved.training.base

InheritedBase(saved) == saved.main

\* Variant for checking MomentsKept: the optimizer's own state alone.
AvailableOptimizer(saved) == [p \in Parameters |-> saved.training.moments[p]]

\* restore_optimizer: the dormant moments and those of the optimizer, by name.
Available(saved) ==
  [p \in Parameters |-> saved.training.dormant[p] \cup saved.training.moments[p]]

\* restore_optimizer refuses a parameter that is both trained and dormant.
NoDuplicate(saved) ==
  \A p \in Trainable(PhaseOf(saved.training)) : saved.training.dormant[p] = {}

Keep(moments, names) == [p \in Parameters |-> IF p \in names THEN moments[p] ELSE {}]

\* The sampler goes on only over the same data in the same token unit.
SameCursor(saved, k, data) ==
  /\ saved.training.data = data
  /\ program[k - 1].unit = program[k].unit

\* The state in which phase k starts from its predecessor's checkpoint.
Inherit(saved, k, kind, data) ==
  LET s == saved.training IN
  [binding |-> BindingThrough(k, kind), data |-> data, step |-> 0,
   cursor |-> IF SameCursor(saved, k, data) THEN s.cursor ELSE 0,
   base |-> InheritedBase(saved), ce |-> 0, inputs |-> 0,
   lineage |-> Append(s.lineage, [phase |-> k - 1, main |-> saved.main]),
   moments |-> Keep(Available(saved), Trainable(k)),
   dormant |-> Keep(Available(saved), Parameters \ Trainable(k)),
   model |-> s.model, trueCe |-> s.trueCe, phaseTokens |-> s.phaseTokens]

-----------------------------------------------------------------------------
(* The operator and the process.                                           *)

\* The data of a phase are frozen, or frozen anew, in the recipe.
Bind(k, data) ==
  /\ binds < MaxBinds /\ bindings[k] # data
  /\ bindings' = [bindings EXCEPT ![k] = data]
  /\ binds' = binds + 1
  /\ UNCHANGED <<program, file, occupied, pc, dir, memory, starts>>

\* A process that passed its checks goes into the loop and uses its directory.
Launched(d, s) ==
  /\ pc' = "train" /\ dir' = d /\ memory' = s
  /\ occupied' = occupied \cup {d} /\ starts' = starts + 1
  /\ UNCHANGED <<program, bindings, file, binds>>

CanStart == pc = "down" /\ starts < MaxStarts

\* The first phase starts from random initialization.
StartFirst(d, kind, data) ==
  /\ CanStart /\ d \notin occupied
  /\ Admitted(1, kind, data)
  /\ Launched(d, Random(BindingThrough(1, kind), data))

\* A later phase starts with --init, from any checkpoint that passes.
StartNext(d, from, k, kind, data) ==
  /\ CanStart /\ d \notin occupied
  /\ k > 1 /\ Admitted(k, kind, data)
  /\ ValidParent(file[from], k, kind) /\ NoDuplicate(file[from])
  /\ Launched(d, Inherit(file[from], k, kind, data))

\* --resume of the same recipe and data; the output may be another directory.
Resume(d, from) ==
  /\ CanStart /\ Present(from)
  /\ LET s == file[from].training
         b == s.binding
     IN /\ b = BindingThrough(b.phase, b.kind) /\ Admitted(b.phase, b.kind, s.data)
        /\ Launched(d, s)

\* A resumed phase that is finished trains no more (and writes model.pt).
EndFinished ==
  /\ pc = "train" /\ Finished(memory)
  /\ pc' = "down" /\ memory' = Nothing /\ dir' = Nowhere
  /\ UNCHANGED <<program, bindings, file, occupied, starts, binds>>

Crash ==
  /\ pc # "down"
  /\ pc' = "down" /\ memory' = Nothing /\ dir' = Nowhere
  /\ UNCHANGED <<program, bindings, file, occupied, starts, binds>>

\* What a window counts: dense_distill adds input positions and no CE.
CeOf(k, w) == IF program[k].unit = "ce_tokens" THEN w.ce ELSE 0
TokensOf(k, w) == IF program[k].unit = "ce_tokens" THEN w.ce ELSE w.inputs

\* The state after one update: the parameters that received a gradient are
\* changed, and their moments with them.
Trained(s, w, used) ==
  LET k == PhaseOf(s)
      n == Len(s.model) + 1
  IN [binding |-> s.binding, data |-> s.data, step |-> s.step + 1,
      cursor |-> s.cursor + 1,
      base |-> s.base, ce |-> s.ce + CeOf(k, w), inputs |-> s.inputs + w.inputs,
      lineage |-> s.lineage,
      moments |-> [p \in Parameters |->
                     IF p \in used THEN s.moments[p] \cup {n} ELSE s.moments[p]],
      dormant |-> s.dormant,
      model |-> Append(s.model, [phase |-> k, data |-> s.data, window |-> s.cursor,
                                 used |-> used]),
      trueCe |-> s.trueCe + CeOf(k, w),
      phaseTokens |-> [s.phaseTokens EXCEPT ![k] = @ + TokensOf(k, w)]]

\* One update.  In a main CE phase a window without targets is none; input
\* positions every window has.
Update(w, used) ==
  /\ pc = "train" /\ ~Finished(memory)
  /\ used # {} /\ used \subseteq Trainable(PhaseOf(memory))
  /\ TokensOf(PhaseOf(memory), w) > 0
  /\ memory' = Trained(memory, w, used)
  /\ pc' = "judge"
  /\ UNCHANGED <<program, bindings, file, occupied, dir, starts, binds>>

\* Between two saves.
Continue ==
  /\ pc = "judge"
  /\ ~Finished(memory) /\ memory.step % SaveEvery # 0
  /\ pc' = "train"
  /\ UNCHANGED <<program, bindings, file, occupied, dir, memory, starts, binds>>

Save == file' = [file EXCEPT ![dir] = Checkpoint(memory, Finished(memory))]

\* The save on the cadence.
SaveAndTrain ==
  /\ pc = "judge"
  /\ ~Finished(memory) /\ memory.step % SaveEvery = 0
  /\ Save /\ pc' = "train"
  /\ UNCHANGED <<program, bindings, occupied, dir, memory, starts, binds>>

\* The save of a finished or pausing phase, after which the process ends.
SaveAndEnd ==
  /\ pc = "judge"
  /\ Save /\ pc' = "down" /\ memory' = Nothing /\ dir' = Nowhere
  /\ UNCHANGED <<program, bindings, occupied, starts, binds>>

-----------------------------------------------------------------------------

Operator ==
  \/ \E k \in Phases, data \in Corpora : Bind(k, data)
  \/ \E d \in Dirs, kind \in Kinds, data \in Corpora :
       \/ StartFirst(d, kind, data)
       \/ \E from \in Dirs, k \in Phases : StartNext(d, from, k, kind, data)
  \/ \E d \in Dirs, from \in Dirs : Resume(d, from)

Process ==
  \/ \E w \in Windows, used \in SUBSET Parameters : Update(w, used)
  \/ Continue \/ SaveAndTrain \/ SaveAndEnd \/ EndFinished

Next == Operator \/ Process \/ Crash

Spec == Init /\ [][Next]_vars

-----------------------------------------------------------------------------
(* Properties.                                                             *)

\* What is in memory, and what could be continued from.
States == (IF pc = "down" THEN {} ELSE {memory})
          \cup {file[d].training : d \in {e \in Dirs : Present(e)}}

\* The updates whose gradients reached a parameter.
UpdatesOf(s, p) == {n \in DOMAIN s.model : p \in s.model[n].used}

\* The main CE count is the number of CE targets the weights were trained on,
\* through every phase, crash and resumption; indexer phases add none
\* (main_ce, main_base, TokenLedger).
MainCeExact ==
  /\ \A s \in States : s.base + s.ce = s.trueCe
  /\ \A d \in Dirs : Present(d) => file[d].main = file[d].training.trueCe

\* The moments of every parameter, trained now or dormant, come from exactly
\* the updates that changed it: freezing a parameter for a phase neither drops
\* nor duplicates its moments (restore_optimizer, inherit, snapshot).
MomentsKept ==
  \A s \in States, p \in Parameters :
    IF p \in Trainable(PhaseOf(s))
    THEN s.moments[p] = UpdatesOf(s, p) /\ s.dormant[p] = {}
    ELSE s.dormant[p] = UpdatesOf(s, p) /\ s.moments[p] = {}

\* The weights of phase k went through every earlier phase, in order and each
\* to its budget, as the recorded lineage says; those of a formal run were
\* trained, in every phase, on the data that their own recipe binds to it
\* (validate_parent, binding_through).
FormalLineage ==
  \A s \in States :
    LET k == PhaseOf(s) IN
    /\ Len(s.lineage) = k - 1
    /\ \A q \in 1 .. k - 1 :
         s.lineage[q].phase = q /\ s.phaseTokens[q] >= program[q].budget
    /\ \A n \in DOMAIN s.model :
         /\ s.model[n].phase <= k
         /\ \A i \in 1 .. n : s.model[i].phase <= s.model[n].phase
         /\ s.binding.kind = "strategy" =>
              s.model[n].data = s.binding.bindings[s.model[n].phase]

\* Consecutive updates on the same data in the same token unit are on
\* consecutive windows, also across a phase transition; others start anew.
SamplerContinues ==
  \A s \in States : \A n \in DOMAIN s.model :
    LET now == s.model[n]
        before == s.model[n - 1]
        Same == now.data = before.data
                /\ program[now.phase].unit = program[before.phase].unit
    IN now.window = IF n > 1 /\ Same THEN before.window + 1 ELSE 0

=============================================================================
