----------------------- MODULE PretrainingProgramProofs -----------------------
(***************************************************************************)
(* Proofs about PretrainingProgram, for every set of programs, parameters, *)
(* corpora, windows and directories.                                       *)
(*                                                                         *)
(* A state of training is Sound when its counts, its moments, its lineage  *)
(* and its sampler agree with the updates behind its weights.  There are   *)
(* three ways to a new one (Random, Inherit, Trained), each with a lemma;  *)
(* saving, resuming and dying only copy or forget one.                     *)
(***************************************************************************)
EXTENDS PretrainingProgram, TLAPS

\* The main CE count, and the phase's ledger, are those of the weights.
Counted(s) ==
  /\ s.base + s.ce = s.trueCe
  /\ Spent(s) = s.phaseTokens[PhaseOf(s)]
  /\ program[PhaseOf(s)].unit = "input_tokens" => s.ce = 0
  /\ \A q \in Phases : q > PhaseOf(s) => s.phaseTokens[q] = 0

MomentsOf(s, p) ==
  IF p \in Trainable(PhaseOf(s))
  THEN s.moments[p] = UpdatesOf(s, p) /\ s.dormant[p] = {}
  ELSE s.dormant[p] = UpdatesOf(s, p) /\ s.moments[p] = {}

\* The earlier phases were all trained, and the lineage names them.
LineageTold(s) ==
  /\ Len(s.lineage) = PhaseOf(s) - 1
  /\ \A q \in 1 .. PhaseOf(s) - 1 :
       s.lineage[q].phase = q /\ s.phaseTokens[q] >= program[q].budget

\* The updates are in the order of the phases, and formal ones on bound data.
UpdatesInOrder(s) ==
  \A n \in DOMAIN s.model :
    /\ s.model[n].phase \in 1 .. PhaseOf(s)
    /\ \A i \in 1 .. n : s.model[i].phase <= s.model[n].phase
    /\ s.binding.kind = "strategy" =>
         s.model[n].data = s.binding.bindings[s.model[n].phase]

DataBound(s) ==
  s.binding.kind = "strategy" => s.data = s.binding.bindings[PhaseOf(s)]

\* What one update says of the sampler to the next, and the last to the cursor.
SameStream(k, data, u) == data = u.data /\ program[k].unit = program[u.phase].unit

NextWindow(k, data, u) == IF SameStream(k, data, u) THEN u.window + 1 ELSE 0

Sampled(s) ==
  \A n \in DOMAIN s.model :
    s.model[n].window =
      IF n = 1 THEN 0 ELSE NextWindow(s.model[n].phase, s.model[n].data, s.model[n - 1])

CursorBehind(s) ==
  s.cursor = IF s.model = <<>> THEN 0
             ELSE NextWindow(PhaseOf(s), s.data, s.model[Len(s.model)])

\* A phase that spent tokens made the last update, on its own data.
LastUpdate(s) ==
  s.phaseTokens[PhaseOf(s)] > 0 =>
    /\ s.model # <<>>
    /\ s.model[Len(s.model)].phase = PhaseOf(s)
    /\ s.model[Len(s.model)].data = s.data

Sound(s) ==
  /\ Shaped(s) /\ Counted(s) /\ \A p \in Parameters : MomentsOf(s, p)
  /\ LineageTold(s) /\ UpdatesInOrder(s) /\ DataBound(s)
  /\ Sampled(s) /\ CursorBehind(s) /\ LastUpdate(s)

SoundFile(f) ==
  /\ Sound(f.training) /\ f.main = f.training.base + f.training.ce

IInv ==
  /\ program \in Programs /\ bindings \in [Phases -> Corpora \cup {Unbound}]
  /\ pc \in {"down", "train", "judge"}
  /\ pc # "down" => dir \in Dirs /\ Sound(memory)
  /\ DOMAIN file = Dirs /\ occupied \subseteq Dirs
  /\ \A d \in Dirs : Present(d) => SoundFile(file[d])
  /\ starts \in 0 .. MaxStarts /\ binds \in 0 .. MaxBinds

-----------------------------------------------------------------------------
(* Facts about programs and sequences.                                     *)

\* A program is a sequence of phases with positive budgets.
LEMMA ProgramShape ==
  ASSUME program \in Programs
  PROVE /\ Len(program) \in Nat
        /\ \A k \in Phases :
             /\ program[k].unit \in Units /\ program[k].budget \in Nat \ {0}
             /\ Trainable(k) \subseteq Parameters
<1> DEFINE R == [unit : Units, budget : Nat \ {0}, trainable : SUBSET Parameters]
<1>1. program \in Seq(R)
  BY ProgramAssumption
<1> HIDE DEF R
<1>2. Len(program) \in Nat /\ \A k \in Phases : program[k] \in R
  BY <1>1 DEF Phases
<1> USE DEF R
<1> QED BY <1>2 DEF Trainable

\* What an appended update changes.
LEMMA Appended ==
  ASSUME NEW S, NEW m \in Seq(S), NEW u \in S
  PROVE /\ Append(m, u) \in Seq(S) /\ Append(m, u) # <<>>
        /\ Len(m) \in Nat /\ DOMAIN m = 1 .. Len(m)
        /\ Len(Append(m, u)) = Len(m) + 1
        /\ DOMAIN Append(m, u) = 1 .. Len(m) + 1
        /\ \A i \in 1 .. Len(m) : Append(m, u)[i] = m[i]
        /\ Append(m, u)[Len(m) + 1] = u
  OBVIOUS

-----------------------------------------------------------------------------
(* Random initialization is sound.                                         *)

LEMMA RandomSound ==
  ASSUME IInv, NEW kind \in Kinds, NEW data \in Corpora, Admitted(1, kind, data),
         1 \in Phases
  PROVE Sound(Random(BindingThrough(1, kind), data))
<1> DEFINE s == Random(BindingThrough(1, kind), data)
<1>1. /\ s.binding.phase = 1 /\ s.binding.kind = kind
      /\ s.binding.bindings[1] = bindings[1]
  BY DEF Random, BindingThrough
<1>2. /\ s.data = data /\ s.step = 0 /\ s.cursor = 0 /\ s.base = 0 /\ s.ce = 0
      /\ s.inputs = 0 /\ s.lineage = <<>> /\ s.model = <<>> /\ s.trueCe = 0
      /\ s.moments = [p \in Parameters |-> {}] /\ s.dormant = [p \in Parameters |-> {}]
      /\ s.phaseTokens = [q \in Phases |-> 0]
  BY DEF Random
<1> HIDE DEF s
<1>3. <<>> \in Seq([phase : Nat, main : Nat]) /\ <<>> \in Seq(UpdateMade)
  OBVIOUS
<1>4. Shaped(s)
  BY <1>1, <1>2, <1>3 DEF Shaped, PhaseOf
<1>5. Counted(s)
  BY <1>1, <1>2 DEF Counted, PhaseOf, Spent
<1>6. \A p \in Parameters : MomentsOf(s, p)
  BY <1>1, <1>2 DEF MomentsOf, UpdatesOf, PhaseOf
<1>7. LineageTold(s) /\ UpdatesInOrder(s) /\ Sampled(s) /\ CursorBehind(s) /\ LastUpdate(s)
  BY <1>1, <1>2 DEF LineageTold, UpdatesInOrder, Sampled, CursorBehind, LastUpdate, PhaseOf
<1>8. DataBound(s)
  BY <1>1, <1>2 DEF DataBound, Admitted, PhaseOf
<1> QED BY <1>4, <1>5, <1>6, <1>7, <1>8 DEF Sound, s

-----------------------------------------------------------------------------
(* An update of a sound state is sound.                                    *)

LEMMA TrainedSound ==
  ASSUME program \in Programs, NEW s, Sound(s),
         NEW w \in Windows, NEW used \in SUBSET Parameters,
         used \subseteq Trainable(PhaseOf(s)), TokensOf(PhaseOf(s), w) > 0
  PROVE Sound(Trained(s, w, used))
<1> DEFINE k == PhaseOf(s)
           n == Len(s.model) + 1
           u == [phase |-> k, data |-> s.data, window |-> s.cursor, used |-> used]
           t == Trained(s, w, used)
<1>1. Shaped(s) /\ k \in Phases
  BY DEF Sound, Shaped
<1>2. /\ program[k].unit \in Units /\ Len(program) \in Nat
      /\ k \in Nat /\ k \in 1 .. Len(program)
  BY <1>1, ProgramShape DEF Phases
<1>3. w.ce \in Nat /\ w.inputs \in Nat
  BY ProgramAssumption
<1>4. CeOf(k, w) \in Nat /\ TokensOf(k, w) \in Nat
  BY <1>3 DEF CeOf, TokensOf
<1>5. /\ t.binding = s.binding /\ t.data = s.data /\ t.step = s.step + 1
      /\ t.cursor = s.cursor + 1 /\ t.base = s.base /\ t.ce = s.ce + CeOf(k, w)
      /\ t.inputs = s.inputs + w.inputs /\ t.lineage = s.lineage
      /\ t.dormant = s.dormant /\ t.trueCe = s.trueCe + CeOf(k, w)
  BY DEF Trained
<1>6. t.moments = [p \in Parameters |->
                     IF p \in used THEN s.moments[p] \cup {n} ELSE s.moments[p]]
  BY DEF Trained
<1>7. t.phaseTokens = [s.phaseTokens EXCEPT ![k] = @ + TokensOf(k, w)]
  BY DEF Trained
<1>8. t.model = Append(s.model, u)
  BY DEF Trained
<1>9. PhaseOf(t) = k
  BY <1>5 DEF PhaseOf
<1> HIDE DEF t
<1>10. s.model \in Seq(UpdateMade) /\ u \in UpdateMade
  BY <1>1, <1>2 DEF Shaped, UpdateMade
<1>11. /\ t.model \in Seq(UpdateMade) /\ t.model # <<>>
       /\ Len(s.model) \in Nat /\ DOMAIN s.model = 1 .. Len(s.model)
       /\ Len(t.model) = n /\ DOMAIN t.model = 1 .. n
       /\ \A i \in 1 .. Len(s.model) : t.model[i] = s.model[i]
       /\ t.model[n] = u
  BY <1>8, <1>10, Appended
<1>12. /\ u.phase = k /\ u.data = s.data /\ u.window = s.cursor /\ u.used = used
  OBVIOUS
<1> HIDE DEF u, k
<1>13. Shaped(t)
  <2>1. t.moments \in [Parameters -> SUBSET Nat]
    BY <1>1, <1>6, <1>11 DEF Shaped
  <2>2. t.phaseTokens \in [Phases -> Nat]
    BY <1>1, <1>4, <1>7 DEF Shaped
  <2>3. /\ t.step \in Nat /\ t.cursor \in Nat /\ t.base \in Nat /\ t.ce \in Nat
        /\ t.inputs \in Nat /\ t.trueCe \in Nat
    <3>1. /\ s.step \in Nat /\ s.cursor \in Nat /\ s.base \in Nat /\ s.ce \in Nat
          /\ s.inputs \in Nat /\ s.trueCe \in Nat
      BY <1>1 DEF Shaped
    <3> QED BY <1>3, <1>4, <1>5, <3>1
  <2>4. /\ PhaseOf(t) \in Phases /\ t.binding.kind \in Kinds /\ t.data \in Corpora
        /\ t.lineage \in Seq([phase : Nat, main : Nat])
        /\ t.dormant \in [Parameters -> SUBSET Nat]
    BY <1>1, <1>5, <1>9 DEF Shaped
  <2> QED BY <1>11, <2>1, <2>2, <2>3, <2>4 DEF Shaped
<1>14. /\ t.phaseTokens[k] = s.phaseTokens[k] + TokensOf(k, w)
       /\ \A q \in Phases : q # k => t.phaseTokens[q] = s.phaseTokens[q]
       /\ s.phaseTokens[k] \in Nat
  BY <1>1, <1>7 DEF Shaped
<1>15. Counted(t)
  <2>1. Counted(s) /\ s.base \in Nat /\ s.ce \in Nat /\ s.inputs \in Nat /\ s.trueCe \in Nat
    BY <1>1 DEF Sound, Shaped
  <2>2. t.base + t.ce = t.trueCe
    BY <1>4, <1>5, <2>1 DEF Counted
  <2>3. Spent(t) = t.phaseTokens[k]
    BY <1>3, <1>5, <1>9, <1>14, <2>1 DEF Counted, Spent, CeOf, TokensOf, k
  <2>4. program[k].unit = "input_tokens" => t.ce = 0
    BY <1>5, <2>1 DEF Counted, CeOf, k
  <2>5. \A q \in Phases : q > k => t.phaseTokens[q] = 0
    BY <1>2, <1>14, <2>1 DEF Counted, Phases, k
  <2> QED BY <1>9, <2>2, <2>3, <2>4, <2>5 DEF Counted
<1>16. \A p \in Parameters : MomentsOf(t, p)
  <2> SUFFICES ASSUME NEW p \in Parameters PROVE MomentsOf(t, p)
    OBVIOUS
  <2>1. MomentsOf(s, p)
    BY DEF Sound
  <2>2. UpdatesOf(t, p) = IF p \in used THEN UpdatesOf(s, p) \cup {n} ELSE UpdatesOf(s, p)
    BY <1>11, <1>12 DEF UpdatesOf
  <2>3. t.moments[p] = IF p \in used THEN s.moments[p] \cup {n} ELSE s.moments[p]
    BY <1>6
  <2>4. p \in used => p \in Trainable(k)
    BY DEF k
  <2> QED BY <1>5, <1>9, <2>1, <2>2, <2>3, <2>4 DEF MomentsOf, k
<1>17. LineageTold(t)
  <2>1. LineageTold(s)
    BY DEF Sound
  <2>2. \A q \in 1 .. k - 1 : q \in Phases /\ q # k
    BY <1>2 DEF Phases
  <2> QED BY <1>5, <1>9, <1>14, <2>1, <2>2 DEF LineageTold, k
<1>18. DataBound(t)
  BY <1>5, <1>9 DEF Sound, DataBound, k
<1>19. UpdatesInOrder(t)
  <2> SUFFICES ASSUME NEW j \in 1 .. n
               PROVE /\ t.model[j].phase \in 1 .. k
                     /\ \A i \in 1 .. j : t.model[i].phase <= t.model[j].phase
                     /\ t.binding.kind = "strategy" =>
                          t.model[j].data = t.binding.bindings[t.model[j].phase]
    BY <1>9, <1>11 DEF UpdatesInOrder
  <2>0. UpdatesInOrder(s) /\ DataBound(s)
    BY DEF Sound
  <2>1. CASE j = n
    <3>1. \A i \in 1 .. Len(s.model) : t.model[i].phase \in 1 .. k
      BY <1>11, <2>0 DEF UpdatesInOrder, k
    <3> QED BY <1>2, <1>5, <1>11, <1>12, <2>0, <2>1, <3>1 DEF DataBound, k
  <2>2. CASE j \in 1 .. Len(s.model)
    <3>1. \A i \in 1 .. j : i \in 1 .. Len(s.model) /\ t.model[i] = s.model[i]
      BY <1>11, <2>2
    <3>2. /\ s.model[j].phase \in 1 .. k
          /\ \A i \in 1 .. j : s.model[i].phase <= s.model[j].phase
          /\ s.binding.kind = "strategy" =>
               s.model[j].data = s.binding.bindings[s.model[j].phase]
      BY <1>11, <2>0, <2>2 DEF UpdatesInOrder, k
    <3> QED BY <1>5, <2>2, <3>1, <3>2
  <2> QED BY <1>11, <2>1, <2>2
<1>20. Sampled(t)
  <2> SUFFICES ASSUME NEW j \in 1 .. n
               PROVE t.model[j].window =
                       IF j = 1 THEN 0
                       ELSE NextWindow(t.model[j].phase, t.model[j].data, t.model[j - 1])
    BY <1>11 DEF Sampled
  <2>0. Sampled(s) /\ CursorBehind(s)
    BY DEF Sound
  <2>1. CASE j \in 1 .. Len(s.model)
    <3>1. j # 1 => j - 1 \in 1 .. Len(s.model)
      BY <1>11, <2>1
    <3> QED BY <1>11, <2>0, <2>1, <3>1 DEF Sampled
  <2>2. CASE j = n /\ s.model = <<>>
    BY <1>11, <1>12, <2>0, <2>2 DEF CursorBehind
  <2>3. CASE j = n /\ s.model # <<>>
    <3>1. Len(s.model) \in 1 .. Len(s.model) /\ j - 1 = Len(s.model) /\ j # 1
      BY <1>10, <1>11, <2>3
    <3> QED BY <1>11, <1>12, <2>0, <2>3, <3>1 DEF CursorBehind, k
  <2> QED BY <1>11, <2>1, <2>2, <2>3
<1>21. CursorBehind(t)
  <2>1. t.model[Len(t.model)] = u
    BY <1>11
  <2>2. SameStream(k, s.data, u)
    BY <1>12 DEF SameStream
  <2> QED BY <1>5, <1>9, <1>11, <1>12, <2>1, <2>2 DEF CursorBehind, NextWindow
<1>22. LastUpdate(t)
  BY <1>5, <1>9, <1>11, <1>12 DEF LastUpdate
<1> QED BY <1>13, <1>15, <1>16, <1>17, <1>18, <1>19, <1>20, <1>21, <1>22 DEF Sound, t

-----------------------------------------------------------------------------
(* What the next phase inherits from a sound checkpoint is sound.          *)

LEMMA InheritSound ==
  ASSUME IInv, NEW f, SoundFile(f), NEW k \in Phases, k > 1,
         NEW kind \in Kinds, NEW data \in Corpora, Admitted(k, kind, data),
         ValidParent(f, k, kind)
  PROVE Sound(Inherit(f, k, kind, data))
<1> DEFINE s == f.training
           t == Inherit(f, k, kind, data)
           b == BindingThrough(k, kind)
<1>1. /\ program \in Programs /\ Sound(s) /\ Shaped(s) /\ f.main = s.base + s.ce
  BY DEF IInv, SoundFile, Sound
<1>2. /\ s.binding = BindingThrough(k - 1, kind) /\ LedgerComplete(f, k)
  BY DEF ValidParent, Follows
<1>3. /\ Len(program) \in Nat /\ k \in 2 .. Len(program) /\ k - 1 \in Phases
      /\ k \in Phases /\ program[k - 1].budget \in Nat \ {0}
      /\ Trainable(k) \subseteq Parameters /\ Trainable(k - 1) \subseteq Parameters
  BY <1>1, ProgramShape DEF Phases
<1>4. /\ PhaseOf(s) = k - 1 /\ s.binding.kind = kind
      /\ \A q \in 1 .. k - 1 : s.binding.bindings[q] = bindings[q]
  BY <1>2 DEF BindingThrough, PhaseOf
<1>5. /\ b.phase = k /\ b.kind = kind /\ \A q \in 1 .. k : b.bindings[q] = bindings[q]
  BY DEF BindingThrough
<1>6. /\ t.binding = b /\ t.data = data /\ t.step = 0
      /\ t.cursor = (IF SameCursor(f, k, data) THEN s.cursor ELSE 0)
      /\ t.base = InheritedBase(f) /\ t.ce = 0 /\ t.inputs = 0
      /\ t.lineage = Append(s.lineage, [phase |-> k - 1, main |-> f.main])
  BY DEF Inherit
<1>7. /\ t.moments = Keep(Available(f), Trainable(k))
      /\ t.dormant = Keep(Available(f), Parameters \ Trainable(k))
  BY DEF Inherit
<1>8. /\ t.model = s.model /\ t.trueCe = s.trueCe /\ t.phaseTokens = s.phaseTokens
  BY DEF Inherit
<1> HIDE DEF t, b
<1>9. PhaseOf(t) = k
  BY <1>5, <1>6 DEF PhaseOf
<1>10. /\ s.base \in Nat /\ s.ce \in Nat /\ s.cursor \in Nat /\ s.trueCe \in Nat
       /\ s.phaseTokens \in [Phases -> Nat] /\ s.model \in Seq(UpdateMade)
       /\ s.lineage \in Seq([phase : Nat, main : Nat])
       /\ s.moments \in [Parameters -> SUBSET Nat]
       /\ s.dormant \in [Parameters -> SUBSET Nat]
  BY <1>1 DEF Shaped
<1> HIDE DEF s
<1>11. f.main \in Nat
  BY <1>1, <1>10
<1>12. /\ t.lineage \in Seq([phase : Nat, main : Nat])
       /\ Len(s.lineage) \in Nat /\ Len(t.lineage) = Len(s.lineage) + 1
       /\ \A q \in 1 .. Len(s.lineage) : t.lineage[q] = s.lineage[q]
       /\ t.lineage[Len(s.lineage) + 1] = [phase |-> k - 1, main |-> f.main]
  <2>1. [phase |-> k - 1, main |-> f.main] \in [phase : Nat, main : Nat]
    BY <1>3, <1>11
  <2> QED BY <1>6, <1>10, <2>1, Appended
<1>13. \A p \in Parameters :
         /\ Available(f)[p] = UpdatesOf(s, p)
         /\ Available(f)[p] \in SUBSET Nat
  <2> SUFFICES ASSUME NEW p \in Parameters
               PROVE Available(f)[p] = UpdatesOf(s, p) /\ Available(f)[p] \in SUBSET Nat
    OBVIOUS
  <2>1. Available(f)[p] = s.dormant[p] \cup s.moments[p]
    BY DEF Available, s
  <2>2. MomentsOf(s, p)
    BY <1>1 DEF Sound
  <2>3. s.dormant[p] \in SUBSET Nat /\ s.moments[p] \in SUBSET Nat
    BY <1>10
  <2> QED BY <2>1, <2>2, <2>3 DEF MomentsOf
<1>14. \A p \in Parameters :
         /\ t.moments[p] = IF p \in Trainable(k) THEN Available(f)[p] ELSE {}
         /\ t.dormant[p] = IF p \in Trainable(k) THEN {} ELSE Available(f)[p]
  BY <1>7 DEF Keep
<1>15. Shaped(t)
  <2>1. t.moments \in [Parameters -> SUBSET Nat] /\ t.dormant \in [Parameters -> SUBSET Nat]
    BY <1>7, <1>13 DEF Keep
  <2>2. t.cursor \in Nat /\ t.base \in Nat
    BY <1>6, <1>10, <1>11 DEF InheritedBase
  <2>3. PhaseOf(t) \in Phases /\ t.binding.kind \in Kinds
    BY <1>3, <1>5, <1>6, <1>9
  <2> QED BY <1>6, <1>8, <1>10, <1>12, <2>1, <2>2, <2>3 DEF Shaped
<1>16. Counted(s) /\ LineageTold(s) /\ UpdatesInOrder(s) /\ DataBound(s)
       /\ Sampled(s) /\ CursorBehind(s) /\ LastUpdate(s)
  BY <1>1 DEF Sound
<1>17. s.phaseTokens[k] = 0 /\ s.phaseTokens[k - 1] >= program[k - 1].budget
  <2>1. Spent(s) >= program[k - 1].budget
    BY <1>2, <1>4 DEF LedgerComplete, Spent, s
  <2> QED BY <1>3, <1>4, <1>16, <2>1 DEF Counted
<1>18. Counted(t)
  <2>1. t.base + t.ce = t.trueCe
    BY <1>1, <1>6, <1>8, <1>10, <1>16 DEF Counted, InheritedBase
  <2>2. Spent(t) = 0
    BY <1>6 DEF Spent
  <2> QED BY <1>3, <1>4, <1>6, <1>8, <1>9, <1>16, <1>17, <2>1, <2>2 DEF Counted, Phases
<1>19. \A p \in Parameters : MomentsOf(t, p)
  <2>1. \A p \in Parameters : UpdatesOf(t, p) = UpdatesOf(s, p)
    BY <1>8 DEF UpdatesOf
  <2> QED BY <1>9, <1>13, <1>14, <2>1 DEF MomentsOf
<1>20. LineageTold(t)
  <2>1. Len(s.lineage) = k - 2
    BY <1>3, <1>4, <1>16 DEF LineageTold
  <2>2. ASSUME NEW q \in 1 .. k - 1
        PROVE t.lineage[q].phase = q /\ t.phaseTokens[q] >= program[q].budget
    <3>1. CASE q = k - 1
      BY <1>3, <1>8, <1>12, <1>17, <2>1, <3>1
    <3>2. CASE q # k - 1
      <4>1. q \in 1 .. k - 2 /\ q \in 1 .. Len(s.lineage)
        BY <1>3, <2>1, <3>2
      <4> QED BY <1>4, <1>8, <1>12, <1>16, <4>1 DEF LineageTold
    <3> QED BY <3>1, <3>2
  <2> QED BY <1>3, <1>9, <1>12, <2>1, <2>2 DEF LineageTold
<1>21. DataBound(t)
  BY <1>3, <1>5, <1>6, <1>9 DEF DataBound, Admitted
<1>22. UpdatesInOrder(t)
  <2> SUFFICES ASSUME NEW n \in DOMAIN s.model
               PROVE /\ s.model[n].phase \in 1 .. k
                     /\ \A i \in 1 .. n : s.model[i].phase <= s.model[n].phase
                     /\ kind = "strategy" => s.model[n].data = b.bindings[s.model[n].phase]
    BY <1>5, <1>6, <1>8, <1>9 DEF UpdatesInOrder
  <2>1. /\ s.model[n].phase \in 1 .. k - 1
        /\ \A i \in 1 .. n : s.model[i].phase <= s.model[n].phase
        /\ kind = "strategy" => s.model[n].data = s.binding.bindings[s.model[n].phase]
    BY <1>4, <1>16 DEF UpdatesInOrder
  <2>2. s.model[n].phase \in 1 .. k
    BY <1>3, <2>1
  <2> QED BY <1>4, <1>5, <2>1, <2>2
<1>23. Sampled(t)
  BY <1>8, <1>16 DEF Sampled
<1>24. CursorBehind(t)
  <2>1. /\ s.model # <<>> /\ s.model[Len(s.model)].phase = k - 1
        /\ s.model[Len(s.model)].data = s.data
    <3>1. s.phaseTokens[k - 1] > 0
      BY <1>3, <1>10, <1>17
    <3> QED BY <1>4, <1>16, <3>1 DEF LastUpdate
  <2>2. s.cursor = s.model[Len(s.model)].window + 1
    BY <1>4, <1>16, <2>1 DEF CursorBehind, NextWindow, SameStream
  <2>3. SameCursor(f, k, data) <=> SameStream(k, data, s.model[Len(s.model)])
    BY <2>1 DEF SameCursor, SameStream, s
  <2> QED BY <1>6, <1>8, <1>9, <2>1, <2>2, <2>3 DEF CursorBehind, NextWindow
<1>25. LastUpdate(t)
  BY <1>8, <1>9, <1>17 DEF LastUpdate
<1> QED BY <1>15, <1>18, <1>19, <1>20, <1>21, <1>22, <1>23, <1>24, <1>25 DEF Sound, t

-----------------------------------------------------------------------------
(* Every step keeps memory and files sound.                                *)

\* What is loaded or computed stays sound as the next memory.
LEMMA MemoryNext ==
  ASSUME program' = program, NEW s, memory' = s, Sound(s)
  PROVE Sound(memory)'
<1>1. Shaped(memory)'
  BY DEF Sound, Shaped, PhaseOf, Phases
<1>2. Counted(memory)'
  BY DEF Sound, Counted, Spent, PhaseOf, Phases
<1>3. LineageTold(memory)'
  BY DEF Sound, LineageTold, PhaseOf
<1>4. UpdatesInOrder(memory)'
  BY DEF Sound, UpdatesInOrder, PhaseOf
<1>5. DataBound(memory)'
  BY DEF Sound, DataBound, PhaseOf
<1>6. Sampled(memory)'
  BY DEF Sound, Sampled, NextWindow, SameStream
<1>7. CursorBehind(memory)'
  BY DEF Sound, CursorBehind, NextWindow, SameStream, PhaseOf
<1>8. LastUpdate(memory)'
  BY DEF Sound, LastUpdate, PhaseOf
<1>9. (\A p \in Parameters : MomentsOf(memory, p))'
  BY DEF Sound, MomentsOf, UpdatesOf, Trainable, PhaseOf
<1> QED BY <1>1, <1>2, <1>3, <1>4, <1>5, <1>6, <1>7, <1>8, <1>9 DEF Sound

\* What is written, or kept, stays sound as the next file.
LEMMA FileNext ==
  ASSUME program' = program, NEW d \in Dirs, NEW f, file'[d] = f, SoundFile(f)
  PROVE SoundFile(file[d])'
<1>1. Shaped(file[d].training)'
  BY DEF SoundFile, Sound, Shaped, PhaseOf, Phases
<1>2. Counted(file[d].training)'
  BY DEF SoundFile, Sound, Counted, Spent, PhaseOf, Phases
<1>3. LineageTold(file[d].training)'
  BY DEF SoundFile, Sound, LineageTold, PhaseOf
<1>4. UpdatesInOrder(file[d].training)'
  BY DEF SoundFile, Sound, UpdatesInOrder, PhaseOf
<1>5. DataBound(file[d].training)'
  BY DEF SoundFile, Sound, DataBound, PhaseOf
<1>6. Sampled(file[d].training)'
  BY DEF SoundFile, Sound, Sampled, NextWindow, SameStream
<1>7. CursorBehind(file[d].training)'
  BY DEF SoundFile, Sound, CursorBehind, NextWindow, SameStream, PhaseOf
<1>8. LastUpdate(file[d].training)'
  BY DEF SoundFile, Sound, LastUpdate, PhaseOf
<1>9. (\A p \in Parameters : MomentsOf(file[d].training, p))'
  BY DEF SoundFile, Sound, MomentsOf, UpdatesOf, Trainable, PhaseOf
<1> QED BY <1>1, <1>2, <1>3, <1>4, <1>5, <1>6, <1>7, <1>8, <1>9 DEF Sound, SoundFile

LEMMA InitSound == Init => IInv
BY ProgramAssumption DEF Init, IInv, Present, Absent

\* A process goes into its loop with a sound state.
LEMMA LaunchedSound ==
  ASSUME IInv, NEW d \in Dirs, NEW s, Sound(s), CanStart, Launched(d, s)
  PROVE IInv'
<1>1. /\ program' = program /\ memory' = s /\ pc' = "train" /\ dir' = d
      /\ occupied' = occupied \cup {d} /\ starts' = starts + 1
      /\ bindings' = bindings /\ file' = file /\ binds' = binds
  BY DEF Launched
<1>2. Sound(memory)'
  BY <1>1, MemoryNext
<1>3. ASSUME NEW e \in Dirs, Present(e)' PROVE SoundFile(file[e])'
  BY <1>1, <1>3, FileNext DEF IInv, Present
<1>4. starts' \in 0 .. MaxStarts
  BY <1>1, ProgramAssumption DEF IInv, CanStart
<1> QED BY <1>1, <1>2, <1>3, <1>4 DEF IInv, Phases

\* The process is gone, and its files are sound.
LEMMA EndedSound ==
  ASSUME IInv, program' = program, bindings' = bindings, pc' = "down",
         occupied' = occupied, starts' = starts, binds' = binds, DOMAIN file' = Dirs,
         \A d \in Dirs : Present(d)' =>
            (file'[d] = file[d] /\ Present(d)) \/ SoundFile(file'[d])
  PROVE IInv'
<1>1. ASSUME NEW d \in Dirs, Present(d)' PROVE SoundFile(file[d])'
  <2>1. SoundFile(file'[d])
    BY <1>1 DEF IInv
  <2> QED BY <2>1, FileNext
<1> QED BY <1>1 DEF IInv, Phases

LEMMA NextSound == IInv /\ [Next]_vars => IInv'
<1> SUFFICES ASSUME IInv, [Next]_vars PROVE IInv'
  OBVIOUS
<1>1. ASSUME NEW k \in Phases, NEW data \in Corpora, Bind(k, data)
      PROVE IInv'
  <2>1. /\ program' = program /\ UNCHANGED <<file, occupied, pc, dir, memory, starts>>
        /\ bindings' = [bindings EXCEPT ![k] = data] /\ binds' = binds + 1 /\ binds < MaxBinds
    BY <1>1 DEF Bind
  <2>2. pc # "down" => Sound(memory)'
    BY <2>1, MemoryNext DEF IInv
  <2>3. ASSUME NEW d \in Dirs, Present(d)' PROVE SoundFile(file[d])'
    BY <2>1, <2>3, FileNext DEF IInv, Present
  <2>4. binds' \in 0 .. MaxBinds
    BY <2>1, ProgramAssumption DEF IInv
  <2>5. bindings' \in [Phases -> Corpora \cup {Unbound}]
    BY <2>1 DEF IInv
  <2> QED BY <2>1, <2>2, <2>3, <2>4, <2>5 DEF IInv, Phases
<1>2. ASSUME NEW d \in Dirs, NEW kind \in Kinds, NEW data \in Corpora,
             StartFirst(d, kind, data)
      PROVE IInv'
  <2>1. Sound(Random(BindingThrough(1, kind), data))
    <3>1. program \in Programs /\ program # <<>>
      BY ProgramAssumption DEF IInv
    <3>2. program \in Seq([unit : Units, budget : Nat \ {0}, trainable : SUBSET Parameters])
      BY <3>1, ProgramAssumption
    <3>3. 1 \in Phases
      BY <3>1, <3>2 DEF Phases
    <3> QED BY <1>2, <3>3, RandomSound DEF StartFirst
  <2> QED BY <1>2, <2>1, LaunchedSound DEF StartFirst
<1>3. ASSUME NEW d \in Dirs, NEW kind \in Kinds, NEW data \in Corpora,
             NEW from \in Dirs, NEW k \in Phases, StartNext(d, from, k, kind, data)
      PROVE IInv'
  <2>1. SoundFile(file[from])
    BY <1>3 DEF StartNext, ValidParent, IInv, Present
  <2>2. Sound(Inherit(file[from], k, kind, data))
    BY <1>3, <2>1, InheritSound DEF StartNext
  <2> QED BY <1>3, <2>2, LaunchedSound DEF StartNext
<1>4. ASSUME NEW d \in Dirs, NEW from \in Dirs, Resume(d, from) PROVE IInv'
  <2>1. Sound(file[from].training) /\ CanStart /\ Launched(d, file[from].training)
    BY <1>4 DEF Resume, IInv, SoundFile
  <2> QED BY <2>1, LaunchedSound
<1>5. ASSUME NEW w \in Windows, NEW used \in SUBSET Parameters, Update(w, used)
      PROVE IInv'
  <2>1. /\ program' = program /\ UNCHANGED <<bindings, file, occupied, dir, starts, binds>>
        /\ memory' = Trained(memory, w, used) /\ pc' = "judge" /\ pc = "train"
    BY <1>5 DEF Update
  <2>2. Sound(Trained(memory, w, used))
    BY <1>5, TrainedSound DEF Update, IInv
  <2>3. Sound(memory)'
    BY <2>1, <2>2, MemoryNext
  <2>4. ASSUME NEW d \in Dirs, Present(d)' PROVE SoundFile(file[d])'
    BY <2>1, <2>4, FileNext DEF IInv, Present
  <2> QED BY <2>1, <2>3, <2>4 DEF IInv, Phases
<1>6. ASSUME Continue PROVE IInv'
  <2>1. /\ program' = program
        /\ UNCHANGED <<bindings, file, occupied, dir, memory, starts, binds>>
        /\ pc' = "train" /\ pc = "judge"
    BY <1>6 DEF Continue
  <2>2. Sound(memory)'
    BY <2>1, MemoryNext DEF IInv
  <2>3. ASSUME NEW d \in Dirs, Present(d)' PROVE SoundFile(file[d])'
    BY <2>1, <2>3, FileNext DEF IInv, Present
  <2> QED BY <2>1, <2>2, <2>3 DEF IInv, Phases
<1>7. ASSUME pc = "judge", Save
      PROVE /\ DOMAIN file' = Dirs
            /\ \A d \in Dirs : Present(d)' =>
                 (file'[d] = file[d] /\ Present(d)) \/ SoundFile(file'[d])
  <2>1. SoundFile(Checkpoint(memory, Finished(memory)))
    BY <1>7 DEF IInv, SoundFile, Checkpoint
  <2> QED BY <1>7, <2>1 DEF IInv, Save, Present
<1>8. ASSUME SaveAndTrain PROVE IInv'
  <2>1. /\ program' = program
        /\ UNCHANGED <<bindings, occupied, dir, memory, starts, binds>>
        /\ pc' = "train" /\ pc = "judge" /\ Save
    BY <1>8 DEF SaveAndTrain
  <2>2. Sound(memory)'
    BY <2>1, MemoryNext DEF IInv
  <2>3. ASSUME NEW d \in Dirs, Present(d)' PROVE SoundFile(file[d])'
    <3>1. SoundFile(file'[d])
      BY <1>7, <2>1, <2>3 DEF IInv
    <3> QED BY <2>1, <3>1, FileNext
  <2> QED BY <1>7, <2>1, <2>2, <2>3 DEF IInv, Phases
<1>9. ASSUME SaveAndEnd PROVE IInv'
  BY <1>7, <1>9, EndedSound DEF SaveAndEnd
<1>10. ASSUME EndFinished \/ Crash PROVE IInv'
  <2>1. /\ program' = program /\ bindings' = bindings /\ file' = file /\ pc' = "down"
        /\ occupied' = occupied /\ starts' = starts /\ binds' = binds
    BY <1>10 DEF EndFinished, Crash
  <2>2. /\ DOMAIN file' = Dirs
        /\ \A d \in Dirs : Present(d)' => file'[d] = file[d] /\ Present(d)
    BY <2>1 DEF IInv, Present
  <2> QED BY <2>1, <2>2, EndedSound
<1>11. ASSUME UNCHANGED vars PROVE IInv'
  <2>1. program' = program
    BY <1>11 DEF vars
  <2>2. pc # "down" => Sound(memory)'
    BY <1>11, <2>1, MemoryNext DEF IInv, vars
  <2>3. ASSUME NEW d \in Dirs, Present(d)' PROVE SoundFile(file[d])'
    BY <1>11, <2>1, <2>3, FileNext DEF IInv, Present, vars
  <2> QED BY <1>11, <2>2, <2>3 DEF IInv, Phases, vars
<1> QED BY <1>1, <1>2, <1>3, <1>4, <1>5, <1>6, <1>8, <1>9, <1>10, <1>11
        DEF Next, Operator, Process

LEMMA Invariant == Spec => []IInv
BY InitSound, NextSound, PTL DEF Spec

-----------------------------------------------------------------------------
(* The theorems.                                                           *)

\* States of training and checkpoints keep their shape.
THEOREM TypesAreKept == Spec => []TypeOK
<1>1. IInv => TypeOK
  <2> SUFFICES ASSUME IInv PROVE TypeOK
    OBVIOUS
  <2>1. \A d \in Dirs : Present(d) => Shaped(file[d].training) /\ file[d].main \in Nat
    BY DEF IInv, SoundFile, Sound, Shaped
  <2> QED BY <2>1 DEF IInv, TypeOK, Sound
<1> QED BY <1>1, Invariant, PTL

\* The states the properties are about are sound.
LEMMA StatesSound == ASSUME IInv, NEW s \in States PROVE Sound(s)
BY DEF IInv, States, SoundFile

\* The main CE count is that of the weights, in memory and in every file
\* (main_ce, snapshot, validate_parent).
THEOREM CountsMainCe == Spec => []MainCeExact
<1>1. IInv => MainCeExact
  <2> SUFFICES ASSUME IInv PROVE MainCeExact
    OBVIOUS
  <2>1. \A s \in States : s.base + s.ce = s.trueCe
    BY StatesSound DEF Sound, Counted
  <2>2. \A d \in Dirs : Present(d) => file[d].main = file[d].training.trueCe
    BY DEF IInv, SoundFile, Sound, Counted
  <2> QED BY <2>1, <2>2 DEF MainCeExact
<1> QED BY <1>1, Invariant, PTL

\* No transition, pause or crash loses or doubles a moment, for any program
\* that trains and freezes parameters in any order (restore_optimizer).
THEOREM KeepsMoments == Spec => []MomentsKept
<1>1. IInv => MomentsKept
  BY StatesSound DEF Sound, MomentsOf, MomentsKept
<1> QED BY <1>1, Invariant, PTL

\* Weights carry the training of every earlier phase, on bound data when
\* formal, whatever checkpoint the operator offers (validate_parent).
THEOREM FollowsLineage == Spec => []FormalLineage
<1>1. IInv => FormalLineage
  <2> SUFFICES ASSUME IInv, NEW s \in States
               PROVE /\ Len(s.lineage) = PhaseOf(s) - 1
                     /\ \A q \in 1 .. PhaseOf(s) - 1 :
                          s.lineage[q].phase = q /\ s.phaseTokens[q] >= program[q].budget
                     /\ \A n \in DOMAIN s.model :
                          /\ s.model[n].phase <= PhaseOf(s)
                          /\ \A i \in 1 .. n : s.model[i].phase <= s.model[n].phase
                          /\ s.binding.kind = "strategy" =>
                               s.model[n].data = s.binding.bindings[s.model[n].phase]
    BY DEF FormalLineage
  <2>1. Sound(s)
    BY StatesSound
  <2>2. \A n \in DOMAIN s.model : s.model[n].phase <= PhaseOf(s)
    BY <2>1 DEF Sound, UpdatesInOrder
  <2> QED BY <2>1, <2>2 DEF Sound, LineageTold, UpdatesInOrder
<1> QED BY <1>1, Invariant, PTL

\* The sampler goes on where the weights are, also across a transition, and
\* starts anew exactly when the data or their unit change (same_cursor).
THEOREM GoesOnSampling == Spec => []SamplerContinues
<1>1. IInv => SamplerContinues
  <2> SUFFICES ASSUME IInv, NEW s \in States, NEW n \in DOMAIN s.model
               PROVE s.model[n].window =
                       IF n > 1 /\ SameStream(s.model[n].phase, s.model[n].data, s.model[n - 1])
                       THEN s.model[n - 1].window + 1 ELSE 0
    BY DEF SamplerContinues, SameStream
  <2>1. Sampled(s) /\ n \in Nat \ {0}
    BY StatesSound DEF Sound, Shaped
  <2> QED BY <2>1 DEF Sampled, NextWindow
<1> QED BY <1>1, Invariant, PTL

=============================================================================
