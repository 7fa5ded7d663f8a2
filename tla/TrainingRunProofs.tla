------------------------- MODULE TrainingRunProofs -------------------------
(***************************************************************************)
(* What one pretraining phase guarantees for every data stream, budget and *)
(* step limit, and any number of crashes, refused writes and pauses.       *)
(***************************************************************************)
EXTENDS TrainingRun, WellFoundedInduction, TLAPS

Working == pc # "down"

\* The producer is at most one window ahead of the consumed cursor, and the
\* window in hand is the only one before that cursor not yet accounted for.
Stream ==
  /\ ~Working => NoMemory
  /\ Working => produced = training.cursor + (IF lookahead = "ready" THEN 1 ELSE 0)
  /\ pc = "train" =>
       /\ window = training.cursor /\ window > 0
       /\ training.step = Len(training.model) /\ OnceEach(training.model, window - 1)
  /\ pc \notin {"down", "train"} => Exact(training)
  /\ checkpoint # None => Exact(checkpoint)

\* Where the process is in its loop, and what its checks have established.
Loop ==
  /\ empties < EmptyLimit \/ (pc \in {"save", "report"} /\ purpose = "starved")
  /\ pc = "train" => MoreToDo
  /\ pc \in {"reserve", "evaluate", "select", "describe", "decide"} => training.step > 0
  /\ pc \in {"save", "report"} /\ purpose = "pause" => ~Finished(training)

Extends(t, u) ==
  /\ IsPrefix(t.model, u.model)
  /\ t.step <= u.step /\ t.cursor <= u.cursor /\ t.ce <= u.ce

\* The run in memory extends the one on disk; they are equal once saved.
Saved ==
  /\ checkpoint # None \/ Working => touched
  /\ checkpoint # None /\ Working => Extends(checkpoint, training)
  /\ pc \in {"report", "unlink"} => checkpoint = training
  /\ pc = "unlink" => status = [state |-> "paused", step |-> training.step]
  /\ pc = "next" /\ Finished(training) => checkpoint = training
  /\ checkpoint # None /\ Finished(checkpoint) =>
       /\ pc \in {"down", "next", "report"}
       /\ Working => training = checkpoint

IInv == TypeOK /\ Loop /\ Stream /\ Saved /\ StatusBehindCheckpoint /\ PublishedIsFinal

-----------------------------------------------------------------------------
(* The stream.                                                             *)

\* A window of the stream has a number of targets.
LEMMA WeightType == ASSUME NEW w \in Nat \ {0} PROVE Weight(w) \in Nat
<1>1. Len(Tokens) \in Nat \ {0}
  BY TrainingRunAssumption
<1>2. (w - 1) % Len(Tokens) \in 0 .. Len(Tokens) - 1
  BY <1>1
<1>3. ((w - 1) % Len(Tokens)) + 1 \in 1 .. Len(Tokens)
  BY <1>1, <1>2
<1> QED
  BY <1>3, TrainingRunAssumption DEF Weight

\* Skipping a window without targets keeps the account of the windows ...
LEMMA OnceSkip ==
  ASSUME NEW model \in Seq(Nat), NEW w \in Nat \ {0},
         OnceEach(model, w - 1), Weight(w) = 0
  PROVE  OnceEach(model, w)
<1>1. {v \in 1 .. w : Weight(v) > 0} = {v \in 1 .. w - 1 : Weight(v) > 0}
  <2>1. \A v \in 1 .. w : v \in 1 .. w - 1 \/ v = w
    OBVIOUS
  <2>2. ~(Weight(w) > 0)
    OBVIOUS
  <2> QED
    BY <2>1, <2>2
<1> QED
  BY <1>1 DEF OnceEach

\* ... and so does training on one with targets.
LEMMA OnceTrain ==
  ASSUME NEW model \in Seq(Nat), NEW w \in Nat \ {0},
         OnceEach(model, w - 1), Weight(w) > 0
  PROVE  OnceEach(Append(model, w), w)
<1> DEFINE longer == Append(model, w)
<1>1. /\ Len(model) \in Nat
      /\ Len(longer) = Len(model) + 1 /\ longer[Len(model) + 1] = w
      /\ \A i \in 1 .. Len(model) : longer[i] = model[i]
  OBVIOUS
<1>2. \A i \in 1 .. Len(model) : model[i] \in 1 .. w - 1 /\ Weight(model[i]) > 0
  BY DEF OnceEach
<1> HIDE DEF longer
<1>3. \A i, j \in 1 .. Len(longer) : i < j => longer[i] < longer[j]
  <2> SUFFICES ASSUME NEW i \in 1 .. Len(longer), NEW j \in 1 .. Len(longer), i < j
               PROVE  longer[i] < longer[j]
    OBVIOUS
  <2>1. i \in 1 .. Len(model)
    BY <1>1
  <2>2. CASE j = Len(model) + 1
    BY <1>1, <1>2, <2>1, <2>2
  <2>3. CASE j \in 1 .. Len(model)
    BY <1>1, <2>1, <2>3 DEF OnceEach
  <2> QED
    BY <1>1, <2>2, <2>3
<1>4. {longer[i] : i \in 1 .. Len(longer)} = {longer[i] : i \in 1 .. Len(model)} \cup {w}
  BY <1>1
<1>5. {longer[i] : i \in 1 .. Len(model)} = {v \in 1 .. w - 1 : Weight(v) > 0}
  <2>1. {longer[i] : i \in 1 .. Len(model)} = {model[i] : i \in 1 .. Len(model)}
    BY <1>1
  <2> QED
    BY <2>1 DEF OnceEach
<1>6. {v \in 1 .. w : Weight(v) > 0} = {v \in 1 .. w - 1 : Weight(v) > 0} \cup {w}
  <2>1. \A v \in 1 .. w : v \in 1 .. w - 1 \/ v = w
    OBVIOUS
  <2> QED
    BY <2>1
<1> QED
  BY <1>3, <1>4, <1>5, <1>6 DEF OnceEach, longer

\* A sequence is a prefix of itself, and of what it is a prefix of extended.
LEMMA PrefixRefl == ASSUME NEW s \in Seq(Nat) PROVE IsPrefix(s, s)
  BY DEF IsPrefix

LEMMA PrefixAppend ==
  ASSUME NEW s \in Seq(Nat), NEW t \in Seq(Nat), NEW w \in Nat, IsPrefix(s, t)
  PROVE  IsPrefix(s, Append(t, w))
<1>1. Len(s) <= Len(t) /\ SubSeq(s, 1, Len(s)) = SubSeq(t, 1, Len(s))
  BY DEF IsPrefix
<1>2. SubSeq(Append(t, w), 1, Len(s)) = SubSeq(t, 1, Len(s))
  BY <1>1
<1> QED
  BY <1>1, <1>2 DEF IsPrefix

-----------------------------------------------------------------------------
(* Types.                                                                  *)

LEMMA Constants ==
  /\ MaxSteps \in Nat /\ EmptyLimit \in Nat \ {0}
  /\ MaxFaults \in Nat /\ MaxRequests \in Nat
  /\ None \notin Nat /\ Torn \notin Nat /\ None # Torn /\ None \notin TrainingState
  /\ Budgets \subseteq Nat \ {0}
  BY TrainingRunAssumption

LEMMA FreshType == Fresh \in TrainingState
  BY Constants DEF Fresh, TrainingState

LEMMA TypeInit == Init => TypeOK /\ Loop
<1> SUFFICES ASSUME Init PROVE TypeOK /\ Loop
  OBVIOUS
<1>1. MemoryTypes
  BY Constants, FreshType DEF Init, NoMemory, MemoryTypes
<1>2. FileTypes
  BY Constants DEF Init, FileTypes
<1>3. FlagTypes
  BY DEF Init, FlagTypes
<1>4. Loop
  BY Constants DEF Init, NoMemory, Loop
<1> QED
  BY <1>1, <1>2, <1>3, <1>4 DEF TypeOK

LEMMA TypeStep == TypeOK /\ Loop /\ Stream /\ [Next]_vars => TypeOK' /\ Loop'
<1> SUFFICES ASSUME TypeOK, Loop, Stream, [Next]_vars PROVE TypeOK' /\ Loop'
  OBVIOUS
<1>1. CASE Begin
  <2>1. training' \in TrainingState
    BY <1>1 DEF Begin, memory, TypeOK, MemoryTypes
  <2>2. MemoryTypes'
    BY <1>1, <2>1, Constants DEF Begin, memory, TypeOK, MemoryTypes, FileTypes, Loop
  <2>3. FileTypes'
    BY <1>1, Constants DEF Begin, files, outside, TypeOK, MemoryTypes, FileTypes
  <2>4. FlagTypes'
    BY <1>1 DEF Begin, files, outside, TypeOK, FlagTypes
  <2>5. Loop'
    BY <1>1, Constants DEF Begin, memory, Loop, TypeOK, MemoryTypes
  <2> QED
    BY <2>2, <2>3, <2>4, <2>5 DEF TypeOK
<1>2. CASE Resume
  <2>1. training' \in TrainingState
    BY <1>2, Constants DEF Resume, TypeOK, FileTypes
  <2>2. MemoryTypes'
    <3>1. Restored(checkpoint) \in Nat
      BY <1>2, Constants DEF Resume, Restored, TypeOK, FileTypes, TrainingState
    <3>2. best' \in Updates \cup {None}
      BY <1>2 DEF Resume, TypeOK, FileTypes
    <3> QED
      BY <1>2, <2>1, <3>1, <3>2 DEF Resume, TypeOK, MemoryTypes
  <2>3. FileTypes'
    <3>1. checkpoint.step \in 0 .. MaxSteps
      BY <1>2 DEF Resume, TypeOK, FileTypes, TrainingState
    <3>2. validated' \subseteq 0 .. MaxSteps
      BY <1>2, <3>1 DEF Resume, TypeOK, FileTypes
    <3> QED
      BY <1>2, <3>2 DEF Resume, files, outside, TypeOK, FileTypes
  <2>4. FlagTypes'
    BY <1>2 DEF Resume, files, outside, TypeOK, FlagTypes
  <2>5. Loop'
    BY <1>2, Constants DEF Resume, memory, Loop, TypeOK, MemoryTypes
  <2> QED
    BY <2>2, <2>3, <2>4, <2>5 DEF TypeOK
<1>3. CASE Ask
  <2>1. training' \in TrainingState
    BY <1>3 DEF Ask, memory, TypeOK, MemoryTypes
  <2>2. MemoryTypes'
    BY <1>3, <2>1, Constants DEF Ask, memory, TypeOK, MemoryTypes, FileTypes, Loop
  <2>3. FileTypes'
    BY <1>3, Constants DEF Ask, files, outside, TypeOK, MemoryTypes, FileTypes
  <2>4. FlagTypes'
    BY <1>3 DEF Ask, files, outside, TypeOK, FlagTypes
  <2>5. Loop'
    BY <1>3, Constants DEF Ask, memory, Loop, TypeOK, MemoryTypes
  <2> QED
    BY <2>2, <2>3, <2>4, <2>5 DEF TypeOK
<1>4. CASE Produce
  <2>1. training' \in TrainingState
    BY <1>4 DEF Produce, memory, TypeOK, MemoryTypes
  <2>2. MemoryTypes'
    BY <1>4, <2>1, Constants DEF Produce, memory, TypeOK, MemoryTypes, FileTypes, Loop
  <2>3. FileTypes'
    BY <1>4, Constants DEF Produce, files, outside, TypeOK, MemoryTypes, FileTypes
  <2>4. FlagTypes'
    BY <1>4 DEF Produce, files, outside, TypeOK, FlagTypes
  <2>5. Loop'
    BY <1>4 DEF Produce, memory, Loop, MoreToDo, Finished
  <2> QED
    BY <2>2, <2>3, <2>4, <2>5 DEF TypeOK
<1>5. CASE Fetch
  <2>1. training' \in TrainingState
    BY <1>5 DEF Fetch, TypeOK, MemoryTypes, TrainingState
  <2>2. MemoryTypes'
    BY <1>5, <2>1, Constants DEF Fetch, memory, TypeOK, MemoryTypes, FileTypes, Loop
  <2>3. FileTypes'
    BY <1>5, Constants DEF Fetch, files, outside, TypeOK, MemoryTypes, FileTypes
  <2>4. FlagTypes'
    BY <1>5 DEF Fetch, files, outside, TypeOK, FlagTypes
  <2>5. Loop'
    <3>1. training'.step = training.step /\ training'.ce = training.ce
      BY <1>5 DEF Fetch, TypeOK, MemoryTypes, TrainingState
    <3> QED
      BY <1>5, <3>1, Constants DEF Fetch, Loop, MoreToDo, Finished
  <2> QED
    BY <2>2, <2>3, <2>4, <2>5 DEF TypeOK
<1>6. CASE SkipWindow
  <2>1. training' \in TrainingState
    BY <1>6 DEF SkipWindow, TypeOK, MemoryTypes, TrainingState
  <2>2. MemoryTypes'
    BY <1>6, <2>1, Constants DEF SkipWindow, memory, TypeOK, MemoryTypes, FileTypes, Loop
  <2>3. FileTypes'
    BY <1>6, Constants DEF SkipWindow, files, outside, TypeOK, MemoryTypes, FileTypes
  <2>4. FlagTypes'
    BY <1>6 DEF SkipWindow, files, outside, TypeOK, FlagTypes
  <2>5. Loop'
    BY <1>6, Constants DEF SkipWindow, memory, Loop, TypeOK, MemoryTypes
  <2> QED
    BY <2>2, <2>3, <2>4, <2>5 DEF TypeOK
<1>7. CASE Update
  <2>1. training' \in TrainingState
    <3>1. window \in Nat \ {0} /\ training.step < MaxSteps
      BY <1>7 DEF Update, Stream, Loop, MoreToDo, TypeOK, MemoryTypes
    <3>2. training.ce + Counted(window) \in Nat
      BY <3>1, WeightType DEF Counted, TypeOK, MemoryTypes, TrainingState
    <3>3. training.step + 1 \in 0 .. MaxSteps /\ Append(training.model, window) \in Seq(Nat)
      BY <3>1, Constants DEF TypeOK, MemoryTypes, TrainingState
    <3> QED
      BY <1>7, <3>2, <3>3 DEF Update, TypeOK, MemoryTypes, TrainingState
  <2>2. MemoryTypes'
    BY <1>7, <2>1, Constants DEF Update, memory, TypeOK, MemoryTypes, FileTypes, Loop
  <2>3. FileTypes'
    BY <1>7, Constants DEF Update, files, outside, TypeOK, MemoryTypes, FileTypes
  <2>4. FlagTypes'
    BY <1>7 DEF Update, files, outside, TypeOK, FlagTypes
  <2>5. Loop'
    <3>1. training'.step > 0
      BY <1>7 DEF Update, TypeOK, MemoryTypes, TrainingState
    <3> QED
      BY <1>7, <3>1, Constants DEF Update, Loop
  <2> QED
    BY <2>2, <2>3, <2>4, <2>5 DEF TypeOK
<1>8. CASE ReserveMet
  <2>1. training' \in TrainingState
    BY <1>8 DEF ReserveMet, memory, TypeOK, MemoryTypes
  <2>2. MemoryTypes'
    BY <1>8, <2>1, Constants DEF ReserveMet, memory, TypeOK, MemoryTypes, FileTypes, Loop
  <2>3. FileTypes'
    BY <1>8, Constants DEF ReserveMet, files, outside, TypeOK, MemoryTypes, FileTypes
  <2>4. FlagTypes'
    BY <1>8 DEF ReserveMet, files, outside, TypeOK, FlagTypes
  <2>5. Loop'
    BY <1>8, Constants DEF ReserveMet, memory, Loop, TypeOK, MemoryTypes
  <2> QED
    BY <2>2, <2>3, <2>4, <2>5 DEF TypeOK
<1>9. CASE ReserveShort
  <2>1. training' \in TrainingState
    BY <1>9 DEF ReserveShort, memory, TypeOK, MemoryTypes
  <2>2. MemoryTypes'
    BY <1>9, <2>1, Constants DEF ReserveShort, memory, TypeOK, MemoryTypes, FileTypes, Loop
  <2>3. FileTypes'
    <3>1. training.step \in Updates
      BY <1>9, Constants DEF ReserveShort, Loop, Updates, TypeOK, MemoryTypes, TrainingState
    <3> QED
      BY <1>9, <3>1, Constants DEF ReserveShort, files, TypeOK, FileTypes
  <2>4. FlagTypes'
    BY <1>9 DEF ReserveShort, files, outside, TypeOK, FlagTypes
  <2>5. Loop'
    BY <1>9, Constants DEF ReserveShort, memory, Loop, TypeOK, MemoryTypes
  <2> QED
    BY <2>2, <2>3, <2>4, <2>5 DEF TypeOK
<1>10. CASE Evaluate
  <2>1. training' \in TrainingState
    BY <1>10 DEF Evaluate, memory, TypeOK, MemoryTypes
  <2>2. MemoryTypes'
    <3>1. training.step \in Updates
      BY <1>10, Constants DEF Evaluate, Loop, Updates, TypeOK, MemoryTypes, TrainingState
    <3> QED
      BY <1>10, <2>1, <3>1 DEF Evaluate, TypeOK, MemoryTypes
  <2>3. FileTypes'
    <3>1. training.step \in 0 .. MaxSteps
      BY DEF TypeOK, MemoryTypes, TrainingState
    <3>2. validated' \subseteq 0 .. MaxSteps
      BY <1>10, <3>1 DEF Evaluate, TypeOK, FileTypes
    <3> QED
      BY <1>10, <3>2 DEF Evaluate, files, outside, TypeOK, FileTypes
  <2>4. FlagTypes'
    BY <1>10 DEF Evaluate, files, outside, TypeOK, FlagTypes
  <2>5. Loop'
    BY <1>10, Constants DEF Evaluate, memory, Loop, TypeOK, MemoryTypes
  <2> QED
    BY <2>2, <2>3, <2>4, <2>5 DEF TypeOK
<1>11. CASE SelectBest
  <2>1. training' \in TrainingState
    BY <1>11 DEF SelectBest, memory, TypeOK, MemoryTypes
  <2>2. MemoryTypes'
    BY <1>11, <2>1, Constants DEF SelectBest, memory, TypeOK, MemoryTypes, FileTypes, Loop
  <2>3. FileTypes'
    BY <1>11, Constants DEF SelectBest, files, outside, TypeOK, MemoryTypes, FileTypes
  <2>4. FlagTypes'
    BY <1>11 DEF SelectBest, files, outside, TypeOK, FlagTypes
  <2>5. Loop'
    BY <1>11, Constants DEF SelectBest, memory, Loop, TypeOK, MemoryTypes
  <2> QED
    BY <2>2, <2>3, <2>4, <2>5 DEF TypeOK
<1>12. CASE DescribeBest
  <2>1. training' \in TrainingState
    BY <1>12 DEF DescribeBest, memory, TypeOK, MemoryTypes
  <2>2. MemoryTypes'
    BY <1>12, <2>1, Constants DEF DescribeBest, memory, TypeOK, MemoryTypes, FileTypes, Loop
  <2>3. FileTypes'
    BY <1>12, Constants DEF DescribeBest, files, outside, TypeOK, MemoryTypes, FileTypes
  <2>4. FlagTypes'
    BY <1>12 DEF DescribeBest, files, outside, TypeOK, FlagTypes
  <2>5. Loop'
    BY <1>12, Constants DEF DescribeBest, memory, Loop, TypeOK, MemoryTypes
  <2> QED
    BY <2>2, <2>3, <2>4, <2>5 DEF TypeOK
<1>13. CASE Pause
  <2>1. training' \in TrainingState
    BY <1>13 DEF Pause, memory, TypeOK, MemoryTypes
  <2>2. MemoryTypes'
    BY <1>13, <2>1, Constants DEF Pause, memory, TypeOK, MemoryTypes, FileTypes, Loop
  <2>3. FileTypes'
    BY <1>13, Constants DEF Pause, files, outside, TypeOK, MemoryTypes, FileTypes
  <2>4. FlagTypes'
    BY <1>13 DEF Pause, RequestKept, TypeOK, FlagTypes
  <2>5. Loop'
    BY <1>13 DEF Pause, memory, Loop, MoreToDo, Finished
  <2> QED
    BY <2>2, <2>3, <2>4, <2>5 DEF TypeOK
<1>14. CASE Proceed
  <2>1. training' \in TrainingState
    BY <1>14 DEF Proceed, memory, TypeOK, MemoryTypes
  <2>2. MemoryTypes'
    BY <1>14, <2>1, Constants DEF Proceed, memory, TypeOK, MemoryTypes, FileTypes, Loop
  <2>3. FileTypes'
    BY <1>14, Constants DEF Proceed, files, outside, TypeOK, MemoryTypes, FileTypes
  <2>4. FlagTypes'
    BY <1>14 DEF Proceed, files, outside, TypeOK, FlagTypes
  <2>5. Loop'
    BY <1>14, Constants DEF Proceed, memory, Loop, TypeOK, MemoryTypes
  <2> QED
    BY <2>2, <2>3, <2>4, <2>5 DEF TypeOK
<1>15. CASE ExhaustSteps
  <2>1. training' \in TrainingState
    BY <1>15 DEF ExhaustSteps, memory, TypeOK, MemoryTypes
  <2>2. MemoryTypes'
    BY <1>15, <2>1, Constants DEF ExhaustSteps, memory, TypeOK, MemoryTypes, FileTypes, Loop
  <2>3. FileTypes'
    BY <1>15, Constants DEF ExhaustSteps, files, outside, TypeOK, MemoryTypes, FileTypes
  <2>4. FlagTypes'
    BY <1>15 DEF ExhaustSteps, files, outside, TypeOK, FlagTypes
  <2>5. Loop'
    BY <1>15, Constants DEF ExhaustSteps, memory, Loop, TypeOK, MemoryTypes
  <2> QED
    BY <2>2, <2>3, <2>4, <2>5 DEF TypeOK
<1>16. CASE SaveCheckpoint
  <2>1. training' \in TrainingState
    BY <1>16 DEF SaveCheckpoint, memory, TypeOK, MemoryTypes
  <2>2. MemoryTypes'
    BY <1>16, <2>1, Constants DEF SaveCheckpoint, memory, TypeOK, MemoryTypes, FileTypes, Loop
  <2>3. FileTypes'
    BY <1>16 DEF SaveCheckpoint, outside, TypeOK, MemoryTypes, FileTypes
  <2>4. FlagTypes'
    BY <1>16 DEF SaveCheckpoint, files, outside, TypeOK, FlagTypes
  <2>5. Loop'
    BY <1>16 DEF SaveCheckpoint, memory, Loop, MoreToDo, Finished
  <2> QED
    BY <2>2, <2>3, <2>4, <2>5 DEF TypeOK
<1>17. CASE Report
  <2>1. training' \in TrainingState
    BY <1>17, FreshType DEF Report, Down, memory, TypeOK, MemoryTypes
  <2>2. MemoryTypes'
    BY <1>17, <2>1, Constants DEF Report, Down, memory, TypeOK, MemoryTypes, FileTypes, Loop
  <2>3. FileTypes'
    <3>1. training.step \in 0 .. MaxSteps /\ StateName(training) \in RunState
      BY DEF StateName, RunState, TypeOK, MemoryTypes, TrainingState
    <3> QED
      BY <1>17, <3>1 DEF Report, outside, TypeOK, FileTypes
  <2>4. FlagTypes'
    BY <1>17 DEF Report, files, outside, TypeOK, FlagTypes
  <2>5. Loop'
    BY <1>17, Constants DEF Report, Down, memory, Loop, TypeOK, MemoryTypes
  <2> QED
    BY <2>2, <2>3, <2>4, <2>5 DEF TypeOK
<1>18. CASE Unlink
  <2>1. training' \in TrainingState
    BY <1>18, FreshType DEF Unlink, Down, memory, TypeOK, MemoryTypes
  <2>2. MemoryTypes'
    BY <1>18, <2>1, Constants DEF Unlink, Down, memory, TypeOK, MemoryTypes, FileTypes, Loop
  <2>3. FileTypes'
    BY <1>18, Constants DEF Unlink, Down, files, outside, TypeOK, MemoryTypes, FileTypes
  <2>4. FlagTypes'
    BY <1>18 DEF Unlink, files, outside, TypeOK, FlagTypes
  <2>5. Loop'
    BY <1>18, Constants DEF Unlink, Down, memory, Loop, TypeOK, MemoryTypes
  <2> QED
    BY <2>2, <2>3, <2>4, <2>5 DEF TypeOK
<1>19. CASE Publish
  <2>1. training' \in TrainingState
    BY <1>19, FreshType DEF Publish, Down, memory, TypeOK, MemoryTypes
  <2>2. MemoryTypes'
    BY <1>19, <2>1, Constants DEF Publish, Down, memory, TypeOK, MemoryTypes, FileTypes, Loop
  <2>3. FileTypes'
    BY <1>19, Constants DEF Publish, Down, files, outside, TypeOK, MemoryTypes, FileTypes
  <2>4. FlagTypes'
    BY <1>19 DEF Publish, files, outside, TypeOK, FlagTypes
  <2>5. Loop'
    BY <1>19, Constants DEF Publish, Down, memory, Loop, TypeOK, MemoryTypes
  <2> QED
    BY <2>2, <2>3, <2>4, <2>5 DEF TypeOK
<1>20. CASE RefuseWrite
  <2>1. training' \in TrainingState
    BY <1>20, FreshType DEF RefuseWrite, Down, memory, TypeOK, MemoryTypes
  <2>2. MemoryTypes'
    BY <1>20, <2>1, Constants DEF RefuseWrite, Down, memory, TypeOK, MemoryTypes, FileTypes, Loop
  <2>3. FileTypes'
    BY <1>20, Constants DEF RefuseWrite, Down, files, outside, TypeOK, MemoryTypes, FileTypes
  <2>4. FlagTypes'
    BY <1>20 DEF RefuseWrite, files, outside, TypeOK, FlagTypes
  <2>5. Loop'
    BY <1>20, Constants DEF RefuseWrite, Down, memory, Loop, TypeOK, MemoryTypes
  <2> QED
    BY <2>2, <2>3, <2>4, <2>5 DEF TypeOK
<1>21. CASE Crash
  <2>1. training' \in TrainingState
    BY <1>21, FreshType DEF Crash, Down, memory, TypeOK, MemoryTypes
  <2>2. MemoryTypes'
    BY <1>21, <2>1, Constants DEF Crash, Down, memory, TypeOK, MemoryTypes, FileTypes, Loop
  <2>3. FileTypes'
    BY <1>21, Constants DEF Crash, Down, files, outside, TypeOK, MemoryTypes, FileTypes
  <2>4. FlagTypes'
    BY <1>21 DEF Crash, files, outside, TypeOK, FlagTypes
  <2>5. Loop'
    BY <1>21, Constants DEF Crash, Down, memory, Loop, TypeOK, MemoryTypes
  <2> QED
    BY <2>2, <2>3, <2>4, <2>5 DEF TypeOK
<1>22. CASE RequestPause
  <2>1. training' \in TrainingState
    BY <1>22 DEF RequestPause, memory, TypeOK, MemoryTypes
  <2>2. MemoryTypes'
    BY <1>22, <2>1, Constants DEF RequestPause, memory, TypeOK, MemoryTypes, FileTypes, Loop
  <2>3. FileTypes'
    BY <1>22, Constants DEF RequestPause, files, outside, TypeOK, MemoryTypes, FileTypes
  <2>4. FlagTypes'
    BY <1>22 DEF RequestPause, files, outside, TypeOK, FlagTypes
  <2>5. Loop'
    BY <1>22 DEF RequestPause, memory, Loop, MoreToDo, Finished
  <2> QED
    BY <2>2, <2>3, <2>4, <2>5 DEF TypeOK
<1>23. CASE UNCHANGED vars
  BY <1>23 DEF vars, memory, files, outside, TypeOK, MemoryTypes, FileTypes, FlagTypes, Loop, MoreToDo, Finished
<1> QED
  BY <1>1, <1>2, <1>3, <1>4, <1>5, <1>6, <1>7, <1>8, <1>9, <1>10, <1>11, <1>12, <1>13, <1>14, <1>15, <1>16, <1>17, <1>18, <1>19, <1>20, <1>21, <1>22, <1>23 DEF Next, Trainer

-----------------------------------------------------------------------------
(* The weights and the consumed cursor.                                    *)

LEMMA StreamInit == Init => Stream
  BY DEF Init, Stream, Working

\* A step that leaves the weights, the cursor, the producer and the files be.
LEMMA StreamKept ==
  ASSUME Stream, Working, pc # "train", pc' \notin {"down", "train"},
         UNCHANGED <<training, lookahead, produced>>,
         checkpoint' \in {checkpoint, training}
  PROVE  Stream'
  BY DEF Stream, Working, Exact, OnceEach

\* A process that ends leaves what it saved.
LEMMA StreamDown == ASSUME Stream, Down, UNCHANGED checkpoint PROVE Stream'
  BY DEF Stream, Working, Down, NoMemory, Exact, OnceEach

LEMMA FreshExact == Exact(Fresh)
  BY DEF Exact, Fresh, OnceEach

LEMMA StreamStep == TypeOK /\ Stream /\ [Next]_vars => Stream'
<1> SUFFICES ASSUME TypeOK, Stream, [Next]_vars PROVE Stream'
  OBVIOUS
<1>1. CASE Begin
  BY <1>1, FreshExact DEF Begin, memory, files, Stream, Working, NoMemory, Fresh, Exact, OnceEach
<1>2. CASE Resume
  <2>1. checkpoint.cursor \in Nat
    BY <1>2 DEF Resume, TypeOK, FileTypes, TrainingState
  <2>2. produced' = training'.cursor + (IF lookahead' = "ready" THEN 1 ELSE 0)
    BY <1>2, <2>1 DEF Resume, Restored, Stream, Working, NoMemory
  <2> QED
    BY <1>2, <2>2 DEF Resume, files, Stream, Working, Exact, OnceEach
<1>3. CASE Ask
  BY <1>3 DEF Ask, files, Stream, Working, Exact, OnceEach, TypeOK, MemoryTypes, TrainingState
<1>4. CASE Produce
  BY <1>4 DEF Produce, files, Stream, Working, Exact, OnceEach, TypeOK, MemoryTypes, TrainingState
<1>5. CASE Fetch
  <2>1. training'.model = training.model /\ training'.step = training.step
        /\ training'.cursor = produced /\ produced = training.cursor + 1
        /\ training.cursor \in Nat
    BY <1>5 DEF Fetch, Stream, Working, TypeOK, MemoryTypes, TrainingState
  <2>2. OnceEach(training'.model, produced - 1) /\ training.step = Len(training.model)
    BY <1>5, <2>1 DEF Fetch, Stream, Exact
  <2> QED
    BY <1>5, <2>1, <2>2 DEF Fetch, files, Stream, Working, Exact, OnceEach
<1>6. CASE SkipWindow
  <2>1. window \in Nat \ {0} /\ training.model \in Seq(Nat)
    BY <1>6 DEF SkipWindow, Stream, TypeOK, MemoryTypes, TrainingState
  <2>2. /\ training'.model = training.model /\ training'.step = training.step
        /\ training'.cursor = window
    BY <1>6 DEF SkipWindow, Stream, TypeOK, MemoryTypes, TrainingState
  <2>3. OnceEach(training.model, window)
    BY <1>6, <2>1, OnceSkip DEF SkipWindow, Stream
  <2>4. Exact(training')
    BY <1>6, <2>2, <2>3 DEF SkipWindow, Stream, Exact
  <2> QED
    BY <1>6, <2>2, <2>4 DEF SkipWindow, files, Stream, Working, Exact, OnceEach
<1>7. CASE Update
  <2>1. window \in Nat \ {0} /\ training.model \in Seq(Nat)
    BY <1>7 DEF Update, Stream, TypeOK, MemoryTypes, TrainingState
  <2>2. /\ training'.model = Append(training.model, window)
        /\ training'.step = training.step + 1 /\ training'.cursor = window
    BY <1>7 DEF Update, Stream, TypeOK, MemoryTypes, TrainingState
  <2>3. OnceEach(Append(training.model, window), window)
    BY <1>7, <2>1, OnceTrain DEF Update, Stream
  <2>4. Exact(training')
    BY <1>7, <2>1, <2>2, <2>3 DEF Update, Stream, Exact
  <2> QED
    BY <1>7, <2>2, <2>4 DEF Update, files, Stream, Working, Exact, OnceEach
<1>8. CASE ReserveMet
  BY <1>8, StreamKept DEF ReserveMet, memory, files, Working
<1>9. CASE ReserveShort
  BY <1>9, StreamKept DEF ReserveShort, memory, files, Working
<1>10. CASE Evaluate
  BY <1>10, StreamKept DEF Evaluate, memory, files, Working
<1>11. CASE SelectBest
  BY <1>11, StreamKept DEF SelectBest, memory, files, Working
<1>12. CASE DescribeBest
  BY <1>12, StreamKept DEF DescribeBest, memory, files, Working
<1>13. CASE Pause
  BY <1>13, StreamKept DEF Pause, memory, files, Working
<1>14. CASE Proceed
  BY <1>14, StreamKept DEF Proceed, memory, files, Working
<1>15. CASE ExhaustSteps
  BY <1>15, StreamKept DEF ExhaustSteps, memory, files, Working
<1>16. CASE SaveCheckpoint
  BY <1>16, StreamKept DEF SaveCheckpoint, memory, files, Working
<1>17. CASE Report
  <2>1. CASE purpose \in {"cadence", "pause"}
    BY <1>17, <2>1, StreamKept DEF Report, memory, Working
  <2>2. CASE purpose \notin {"cadence", "pause"}
    BY <1>17, <2>2, StreamDown DEF Report
  <2> QED
    BY <2>1, <2>2
<1>18. CASE Unlink
  BY <1>18, StreamDown DEF Unlink, files
<1>19. CASE Publish
  BY <1>19, StreamDown DEF Publish, files
<1>20. CASE RefuseWrite
  BY <1>20, StreamDown DEF RefuseWrite, files
<1>21. CASE Crash
  BY <1>21, StreamDown DEF Crash, files
<1>22. CASE RequestPause
  BY <1>22 DEF RequestPause, memory, files, Stream, Working, NoMemory, Exact, OnceEach
<1>23. CASE UNCHANGED vars
  BY <1>23 DEF vars, memory, files, Stream, Working, NoMemory, Exact, OnceEach
<1> QED
  BY <1>1, <1>2, <1>3, <1>4, <1>5, <1>6, <1>7, <1>8, <1>9, <1>10, <1>11, <1>12, <1>13, <1>14, <1>15, <1>16, <1>17, <1>18, <1>19, <1>20, <1>21, <1>22, <1>23 DEF Next, Trainer

-----------------------------------------------------------------------------
(* The files.                                                              *)

Records == StatusBehindCheckpoint /\ PublishedIsFinal

LEMMA SavedInit == Init => Saved /\ Records
  BY DEF Init, Saved, Working, Records, StatusBehindCheckpoint, PublishedIsFinal

\* A step of the process that touches neither the weights nor the files.
LEMMA SavedKept ==
  ASSUME Saved, Working,
         UNCHANGED <<budget, training, checkpoint, touched>>,
         pc \notin {"next", "report"} \/ ~Finished(training),
         pc' \in {"next", "evaluate", "select", "describe", "decide", "save"},
         pc' = "next" => ~Finished(training)
  PROVE  Saved'
  BY DEF Saved, Working, Finished, Extends

LEMMA SavedSame ==
  ASSUME Saved, UNCHANGED <<budget, pc, training, checkpoint, status, touched>>
  PROVE  Saved'
  BY DEF Saved, Working, Finished, Extends

LEMMA SavedDown ==
  ASSUME Saved, Working, Down, UNCHANGED <<budget, checkpoint, touched>>
  PROVE  Saved'
  BY DEF Saved, Working, Down, Finished

LEMMA RecordsKept ==
  ASSUME Records, UNCHANGED <<budget, checkpoint, modelFile>>, status' \in {status, Torn}
  PROVE  Records'
  BY DEF Records, StatusBehindCheckpoint, PublishedIsFinal

LEMMA SavedStep ==
  TypeOK /\ Loop /\ Stream /\ Saved /\ Records /\ [Next]_vars => Saved' /\ Records'
<1> SUFFICES ASSUME TypeOK, Loop, Stream, Saved, Records, [Next]_vars
             PROVE  Saved' /\ Records'
  OBVIOUS
<1>1. CASE Begin
  <2>1. checkpoint = None /\ training = Fresh
    BY <1>1 DEF Begin, Vacant, Saved, Stream, Working, NoMemory
  <2>2. ~(0 >= budget)
    BY Constants DEF TypeOK, MemoryTypes
  <2>3. Saved'
    BY <1>1, <2>1, <2>2 DEF Begin, memory, files, Saved, Working, Finished, Fresh
  <2>4. Records'
    BY <1>1, RecordsKept DEF Begin, files
  <2> QED
    BY <2>3, <2>4
<1>2. CASE Resume
  <2>1. Extends(checkpoint, checkpoint)
    BY <1>2, PrefixRefl DEF Resume, Extends, TypeOK, FileTypes, TrainingState
  <2>2. Saved'
    BY <1>2, <2>1 DEF Resume, files, Saved, Working, Finished, Extends
  <2>3. Records'
    BY <1>2, RecordsKept DEF Resume, files
  <2> QED
    BY <2>2, <2>3
<1>3. CASE Ask
  <2>1. Saved'
    BY <1>3, SavedSame DEF Ask, memory, files
  <2>2. Records'
    BY <1>3, RecordsKept DEF Ask, files
  <2> QED
    BY <2>1, <2>2
<1>4. CASE Produce
  <2>1. Saved'
    BY <1>4, SavedSame DEF Produce, memory, files
  <2>2. Records'
    BY <1>4, RecordsKept DEF Produce, files
  <2> QED
    BY <2>1, <2>2
<1>5. CASE Fetch
  <2>1. /\ training'.model = training.model /\ training'.step = training.step
        /\ training'.ce = training.ce /\ training.cursor <= training'.cursor
    BY <1>5 DEF Fetch, Stream, Working, TypeOK, MemoryTypes, TrainingState
  <2>2. checkpoint # None => Extends(checkpoint, training')
    BY <1>5, <2>1 DEF Fetch, Saved, Working, Extends, TypeOK, MemoryTypes, FileTypes, TrainingState
  <2>3. ~(checkpoint # None /\ Finished(checkpoint))
    BY <1>5 DEF Fetch, MoreToDo, Saved, Working
  <2>4. Saved'
    BY <1>5, <2>2, <2>3 DEF Fetch, files, Saved, Working, Finished, Extends
  <2>5. Records'
    BY <1>5, RecordsKept DEF Fetch, files
  <2> QED
    BY <2>4, <2>5
<1>6. CASE SkipWindow
  <2>1. /\ training'.model = training.model /\ training'.step = training.step
        /\ training'.ce = training.ce /\ training'.cursor = training.cursor
    BY <1>6 DEF SkipWindow, TypeOK, MemoryTypes, TrainingState
  <2>2. checkpoint # None => Extends(checkpoint, training')
    BY <1>6, <2>1 DEF SkipWindow, Saved, Working, Extends
  <2>3. ~Finished(training)
    BY <1>6 DEF SkipWindow, Loop, MoreToDo
  <2>4. ~(checkpoint # None /\ Finished(checkpoint))
    BY <1>6 DEF SkipWindow, Saved
  <2>5. Saved'
    BY <1>6, <2>1, <2>2, <2>3, <2>4 DEF SkipWindow, files, Saved, Working, Finished, Extends
  <2>6. Records'
    BY <1>6, RecordsKept DEF SkipWindow, files
  <2> QED
    BY <2>5, <2>6
<1>7. CASE Update
  <2>1. window \in Nat \ {0} /\ Counted(window) \in Nat
    BY <1>7, WeightType DEF Update, Stream, Counted, TypeOK, MemoryTypes
  <2>2. /\ training'.model = Append(training.model, window)
        /\ training'.step = training.step + 1 /\ training'.cursor = training.cursor
        /\ training'.ce = training.ce + Counted(window)
    BY <1>7 DEF Update, TypeOK, MemoryTypes, TrainingState
  <2>3. training \in TrainingState /\ (checkpoint # None => checkpoint \in TrainingState)
    BY DEF TypeOK, MemoryTypes, FileTypes
  <2>4. checkpoint # None => Extends(checkpoint, training')
    <3> SUFFICES ASSUME checkpoint # None PROVE Extends(checkpoint, training')
      OBVIOUS
    <3>1. Extends(checkpoint, training)
      BY <1>7 DEF Update, Saved, Working
    <3>2. IsPrefix(checkpoint.model, training'.model)
      BY <2>1, <2>2, <2>3, <3>1, PrefixAppend DEF Extends, TrainingState
    <3>3. /\ checkpoint.step <= training'.step /\ checkpoint.ce <= training'.ce
          /\ checkpoint.cursor <= training'.cursor
      BY <2>1, <2>2, <2>3, <3>1, Constants DEF Extends, TrainingState
    <3> QED
      BY <3>2, <3>3 DEF Extends
  <2>5. ~(checkpoint # None /\ Finished(checkpoint))
    BY <1>7 DEF Update, Saved
  <2>6. Saved'
    BY <1>7, <2>4, <2>5 DEF Update, files, Saved, Working, Finished, Extends
  <2>7. Records'
    BY <1>7, RecordsKept DEF Update, files
  <2> QED
    BY <2>6, <2>7
<1>8. CASE ReserveMet
  <2>1. Saved'
    BY <1>8, SavedKept DEF ReserveMet, memory, files, Working
  <2>2. Records'
    BY <1>8, RecordsKept DEF ReserveMet, files
  <2> QED
    BY <2>1, <2>2
<1>9. CASE ReserveShort
  <2>1. Saved'
    BY <1>9, SavedKept DEF ReserveShort, memory, files, Working
  <2>2. Records'
    BY <1>9, RecordsKept DEF ReserveShort, files
  <2> QED
    BY <2>1, <2>2
<1>10. CASE Evaluate
  <2>1. Saved'
    BY <1>10, SavedKept DEF Evaluate, memory, files, Working
  <2>2. Records'
    BY <1>10, RecordsKept DEF Evaluate, files
  <2> QED
    BY <2>1, <2>2
<1>11. CASE SelectBest
  <2>1. Saved'
    BY <1>11, SavedKept DEF SelectBest, memory, files, Working
  <2>2. Records'
    BY <1>11, RecordsKept DEF SelectBest, files
  <2> QED
    BY <2>1, <2>2
<1>12. CASE DescribeBest
  <2>1. Saved'
    BY <1>12, SavedKept DEF DescribeBest, memory, files, Working
  <2>2. Records'
    BY <1>12, RecordsKept DEF DescribeBest, files
  <2> QED
    BY <2>1, <2>2
<1>13. CASE Pause
  <2>1. Saved'
    BY <1>13, SavedKept DEF Pause, memory, files, Working
  <2>2. Records'
    BY <1>13, RecordsKept DEF Pause, files
  <2> QED
    BY <2>1, <2>2
<1>14. CASE Proceed
  <2>1. Saved'
    BY <1>14, SavedKept DEF Proceed, memory, files, Working, SaveDue
  <2>2. Records'
    BY <1>14, RecordsKept DEF Proceed, files
  <2> QED
    BY <2>1, <2>2
<1>15. CASE ExhaustSteps
  <2>1. Saved'
    BY <1>15, SavedKept DEF ExhaustSteps, memory, files, Working
  <2>2. Records'
    BY <1>15, RecordsKept DEF ExhaustSteps, files
  <2> QED
    BY <2>1, <2>2
<1>16. CASE SaveCheckpoint
  <2>1. training \in TrainingState /\ training # None
    BY Constants DEF TypeOK, MemoryTypes
  <2>2. Extends(training, training)
    BY <2>1, PrefixRefl DEF Extends, TrainingState
  <2>3. ~(checkpoint # None /\ Finished(checkpoint))
    BY <1>16 DEF SaveCheckpoint, Saved
  <2>4. Saved'
    BY <1>16, <2>2 DEF SaveCheckpoint, memory, Saved, Working, Finished, Extends
  <2>5. StatusBehindCheckpoint'
    <3> SUFFICES ASSUME status \notin {None, Torn}
                 PROVE  status.step <= training.step /\ status.state # "complete"
      BY <1>16, <2>1 DEF SaveCheckpoint, StatusBehindCheckpoint
    <3>1. checkpoint # None /\ status.step <= checkpoint.step /\ status.state # "complete"
      BY <2>3 DEF Records, StatusBehindCheckpoint, Finished
    <3>2. checkpoint.step <= training.step
      BY <1>16, <3>1 DEF SaveCheckpoint, Saved, Working, Extends
    <3>3. status.step \in Nat /\ checkpoint.step \in Nat /\ training.step \in Nat
      BY <3>1, Constants DEF TypeOK, MemoryTypes, FileTypes, TrainingState
    <3> QED
      BY <3>1, <3>2, <3>3
  <2>6. PublishedIsFinal'
    BY <1>16, <2>3, Constants DEF SaveCheckpoint, Records, PublishedIsFinal, Finished, TypeOK, FileTypes
  <2> QED
    BY <2>4, <2>5, <2>6 DEF Records
<1>17. CASE Report
  <2>1. checkpoint = training /\ training # None
    BY <1>17, Constants DEF Report, Saved, TypeOK, MemoryTypes
  <2>2. Saved'
    <3>1. CASE purpose = "cadence"
      BY <1>17, <2>1, <3>1 DEF Report, memory, Saved, Working, Finished, Extends
    <3>2. CASE purpose = "pause"
      <4>1. ~Finished(training)
        BY <1>17, <3>2 DEF Report, Loop
      <4>2. StateName(training) = "paused"
        BY <3>2, <4>1 DEF StateName
      <4> QED
        BY <1>17, <2>1, <3>2, <4>1, <4>2 DEF Report, memory, Saved, Working, Finished, Extends
    <3>3. CASE purpose \notin {"cadence", "pause"}
      BY <1>17, <3>3, SavedDown DEF Report, Working
    <3> QED
      BY <3>1, <3>2, <3>3
  <2>3. StatusBehindCheckpoint'
    <3>1. training.step \in Nat
      BY Constants DEF TypeOK, MemoryTypes, TrainingState
    <3>2. status'.step = training.step /\ (status'.state = "complete" => Finished(training))
      BY <1>17 DEF Report, StateName
    <3> QED
      BY <1>17, <2>1, <3>1, <3>2 DEF Report, StatusBehindCheckpoint, Finished
  <2>4. PublishedIsFinal'
    BY <1>17 DEF Report, Records, PublishedIsFinal
  <2> QED
    BY <2>2, <2>3, <2>4 DEF Records
<1>18. CASE Unlink
  <2>1. Saved'
    BY <1>18, SavedDown DEF Unlink, files, Working
  <2>2. Records'
    BY <1>18, RecordsKept DEF Unlink, files
  <2> QED
    BY <2>1, <2>2
<1>19. CASE Publish
  <2>1. Saved'
    BY <1>19, SavedDown DEF Publish, Working
  <2>2. checkpoint = training
    BY <1>19 DEF Publish, Saved
  <2>3. Records'
    BY <1>19, <2>2 DEF Publish, Records, StatusBehindCheckpoint, PublishedIsFinal, Finished
  <2> QED
    BY <2>1, <2>3
<1>20. CASE RefuseWrite
  <2>1. Saved'
    BY <1>20, SavedDown DEF RefuseWrite, files, Working
  <2>2. Records'
    BY <1>20, RecordsKept DEF RefuseWrite, files
  <2> QED
    BY <2>1, <2>2
<1>21. CASE Crash
  <2>1. Saved'
    BY <1>21, SavedDown DEF Crash, files, Working
  <2>2. Records'
    BY <1>21, RecordsKept DEF Crash, files
  <2> QED
    BY <2>1, <2>2
<1>22. CASE RequestPause
  <2>1. Saved'
    BY <1>22, SavedSame DEF RequestPause, memory, files
  <2>2. Records'
    BY <1>22, RecordsKept DEF RequestPause, files
  <2> QED
    BY <2>1, <2>2
<1>23. CASE UNCHANGED vars
  <2>1. Saved'
    BY <1>23, SavedSame DEF vars, memory, files
  <2>2. Records'
    BY <1>23, RecordsKept DEF vars, files
  <2> QED
    BY <2>1, <2>2
<1> QED
  BY <1>1, <1>2, <1>3, <1>4, <1>5, <1>6, <1>7, <1>8, <1>9, <1>10, <1>11, <1>12, <1>13, <1>14, <1>15, <1>16, <1>17, <1>18, <1>19, <1>20, <1>21, <1>22, <1>23 DEF Next, Trainer

-----------------------------------------------------------------------------
(* Sums over the windows of a model.                                       *)

\* Nonempty sets of naturals have a least element ...
LEMMA Least ==
  ASSUME NEW T, T \subseteq Nat, T # {}
  PROVE  \E x \in T : \A y \in T : x <= y
<1> DEFINE R == OpToRel(<, Nat)
<1>1. IsWellFoundedOn(R, Nat)
  BY NatLessThanWellFounded
<1>2. \A x, y \in Nat : <<y, x>> \in R <=> y < x
  BY DEF OpToRel
<1> HIDE DEF R
<1>3. \E x \in T : \A y \in T : ~ (<<y, x>> \in R)
  BY <1>1, WFMin
<1>4. PICK x \in T : \A y \in T : ~ (<<y, x>> \in R)
  BY <1>3
<1>5. \A y \in T : x \in Nat /\ y \in Nat /\ ~(y < x)
  BY <1>2, <1>4
<1> QED
  BY <1>5

\* ... so that what holds of 0, and of n + 1 when of n, holds of every number.
LEMMA Induction ==
  ASSUME NEW S, 0 \in S, \A n \in Nat : n \in S => n + 1 \in S
  PROVE  Nat \subseteq S
<1> SUFFICES ASSUME Nat \ S # {} PROVE FALSE
  OBVIOUS
<1>1. PICK x \in Nat \ S : \A y \in Nat \ S : x <= y
  BY Least
<1>2. x # 0
  OBVIOUS
<1>3. x - 1 \in Nat /\ (x - 1) + 1 = x /\ ~(x <= x - 1)
  BY <1>2
<1>4. x - 1 \in S
  BY <1>1, <1>3
<1> QED
  BY <1>3, <1>4

\* The sums of a model's windows: TargetsAfter is the last of them.
IsSum(f, model, n) ==
  f = [k \in 0 .. n |-> IF k = 0 THEN 0 ELSE f[k - 1] + Weight(model[k])]

\* They exist, one window after the other ...
LEMMA SumExists ==
  ASSUME NEW model
  PROVE  \A n \in Nat : \E f : IsSum(f, model, n)
<1> DEFINE S == {n \in Nat : \E f : IsSum(f, model, n)}
<1>1. 0 \in S
  <2> DEFINE f == [k \in 0 .. 0 |-> 0]
  <2>1. f = [k \in 0 .. 0 |-> IF k = 0 THEN 0 ELSE f[k - 1] + Weight(model[k])]
    OBVIOUS
  <2> HIDE DEF f
  <2>2. IsSum(f, model, 0)
    BY <2>1 DEF IsSum
  <2> QED
    BY <2>2
<1>2. ASSUME NEW n \in Nat, n \in S PROVE n + 1 \in S
  <2>1. PICK f : IsSum(f, model, n)
    BY <1>2
  <2> DEFINE g == [k \in 0 .. n + 1 |-> IF k = n + 1 THEN f[n] + Weight(model[k]) ELSE f[k]]
  <2>2. \A k \in 0 .. n + 1 : g[k] = IF k = n + 1 THEN f[n] + Weight(model[k]) ELSE f[k]
    OBVIOUS
  <2>3. g = [k \in 0 .. n + 1 |-> g[k]]
    OBVIOUS
  <2> HIDE DEF g
  <2>4. ASSUME NEW k \in 0 .. n + 1
        PROVE  g[k] = IF k = 0 THEN 0 ELSE g[k - 1] + Weight(model[k])
    <3>1. CASE k = n + 1
      <4>1. k # 0 /\ k - 1 = n /\ n # n + 1 /\ n \in 0 .. n + 1
        BY <3>1
      <4> QED
        BY <2>2, <3>1, <4>1
    <3>2. CASE k # n + 1
      <4>1. k \in 0 .. n /\ (k # 0 => k - 1 \in 0 .. n /\ k - 1 # n + 1 /\ k - 1 \in 0 .. n + 1)
        BY <3>2
      <4>2. f[k] = IF k = 0 THEN 0 ELSE f[k - 1] + Weight(model[k])
        BY <2>1, <4>1 DEF IsSum
      <4> QED
        BY <2>2, <3>2, <4>1, <4>2
    <3> QED
      BY <3>1, <3>2
  <2>5. IsSum(g, model, n + 1)
    BY <2>3, <2>4 DEF IsSum
  <2> QED
    BY <2>5
<1> HIDE DEF S
<1>3. Nat \subseteq S
  BY <1>1, <1>2, Induction
<1> QED
  BY <1>3 DEF S

\* ... so that TargetsAfter takes one of them.
LEMMA TargetsSum ==
  ASSUME NEW model, NEW n \in Nat
  PROVE  \E f : IsSum(f, model, n) /\ TargetsAfter(model, n) = f[n]
<1>1. \E f : f = [k \in 0 .. n |-> IF k = 0 THEN 0 ELSE f[k - 1] + Weight(model[k])]
  BY SumExists DEF IsSum
<1> DEFINE sum == CHOOSE f : f = [k \in 0 .. n |-> IF k = 0 THEN 0 ELSE f[k - 1] + Weight(model[k])]
<1>2. sum = [k \in 0 .. n |-> IF k = 0 THEN 0 ELSE sum[k - 1] + Weight(model[k])]
  BY <1>1
<1>3. TargetsAfter(model, n) = sum[n]
  BY DEF TargetsAfter
<1> QED
  BY <1>2, <1>3 DEF IsSum

\* Models that begin with the same n windows have the same sums up to there.
Alike(s, t, n) == \A k \in 1 .. n : s[k] = t[k]

LEMMA SumsAgree ==
  ASSUME NEW s, NEW t, NEW m \in Nat, NEW n \in Nat, m <= n, Alike(s, t, m)
  PROVE  \A f, g : IsSum(f, s, m) /\ IsSum(g, t, n) => \A k \in 0 .. m : f[k] = g[k]
<1> SUFFICES ASSUME NEW f, NEW g, IsSum(f, s, m), IsSum(g, t, n)
             PROVE  \A k \in 0 .. m : f[k] = g[k]
  OBVIOUS
<1> DEFINE S == {k \in Nat : k <= m => f[k] = g[k]}
<1>1. 0 \in S
  BY DEF IsSum
<1>2. ASSUME NEW k \in Nat, k \in S PROVE k + 1 \in S
  <2> SUFFICES ASSUME k + 1 <= m PROVE f[k + 1] = g[k + 1]
    OBVIOUS
  <2>1. f[k] = g[k]
    BY <1>2
  <2>2. k + 1 \in 0 .. m /\ k + 1 \in 0 .. n /\ k + 1 # 0 /\ (k + 1) - 1 = k /\ s[k + 1] = t[k + 1]
    BY DEF Alike
  <2>3. f[k + 1] = f[k] + Weight(s[k + 1]) /\ g[k + 1] = g[k] + Weight(t[k + 1])
    BY <2>2 DEF IsSum
  <2> QED
    BY <2>1, <2>2, <2>3
<1> HIDE DEF S
<1>3. Nat \subseteq S
  BY <1>1, <1>2, Induction
<1> QED
  BY <1>3 DEF S

\* TargetsAfter(s, n) depends on the first n windows only ...
LEMMA TargetsAlike ==
  ASSUME NEW s, NEW t, NEW n \in Nat, Alike(s, t, n)
  PROVE  TargetsAfter(s, n) = TargetsAfter(t, n)
<1>1. PICK f : IsSum(f, s, n) /\ TargetsAfter(s, n) = f[n]
  BY TargetsSum
<1>2. PICK g : IsSum(g, t, n) /\ TargetsAfter(t, n) = g[n]
  BY TargetsSum
<1>3. f[n] = g[n]
  <2>1. \A k \in 0 .. n : f[k] = g[k]
    BY <1>1, <1>2, SumsAgree
  <2> QED
    BY <2>1
<1> QED
  BY <1>1, <1>2, <1>3

\* ... and grows by the next one.
LEMMA TargetsStep ==
  ASSUME NEW model, NEW n \in Nat
  PROVE  /\ TargetsAfter(model, 0) = 0
         /\ TargetsAfter(model, n + 1) = TargetsAfter(model, n) + Weight(model[n + 1])
<1>1. TargetsAfter(model, 0) = 0
  <2>1. PICK f : IsSum(f, model, 0) /\ TargetsAfter(model, 0) = f[0]
    BY TargetsSum
  <2> QED
    BY <2>1 DEF IsSum
<1>2. PICK f : IsSum(f, model, n) /\ TargetsAfter(model, n) = f[n]
  BY TargetsSum
<1>3. PICK g : IsSum(g, model, n + 1) /\ TargetsAfter(model, n + 1) = g[n + 1]
  BY TargetsSum
<1>4. f[n] = g[n]
  <2>1. PICK m \in Nat : m = n + 1
    OBVIOUS
  <2>2. IsSum(g, model, m) /\ n <= m /\ Alike(model, model, n)
    BY <1>3, <2>1 DEF Alike
  <2>3. \A k \in 0 .. n : f[k] = g[k]
    BY <1>2, <2>2, SumsAgree
  <2> QED
    BY <2>3
<1>5. n + 1 \in 0 .. n + 1 /\ n + 1 # 0 /\ (n + 1) - 1 = n
  OBVIOUS
<1>6. g[n + 1] = g[n] + Weight(model[n + 1])
  BY <1>3, <1>5 DEF IsSum
<1> QED
  BY <1>1, <1>2, <1>3, <1>4, <1>6

-----------------------------------------------------------------------------
(* What the records of a phase say of its updates.                         *)

\* The ledger is the sum over the windows, and training stopped as soon as
\* it had met the budget.
Sound(t) ==
  /\ t.ce = TargetsAfter(t.model, Len(t.model))
  /\ \A n \in 0 .. Len(t.model) - 1 : TargetsAfter(t.model, n) < budget

Ledgers == Sound(training) /\ (checkpoint # None => Sound(checkpoint))

\* The n-th update crossed a multiple of the validation interval.
Crossed(model, n) ==
  TargetsAfter(model, n - 1) \div EvalEvery < TargetsAfter(model, n) \div EvalEvery

\* Every crossing was validated or swallowed by the device reserve, but for
\* the update in hand.
Milestones ==
  /\ \A n \in 1 .. training.step : Crossed(training.model, n) =>
       \/ n \in validated \cup shortStops
       \/ n = training.step /\ pc \in {"reserve", "evaluate"}
  /\ checkpoint # None =>
       \A n \in 1 .. checkpoint.step :
         Crossed(checkpoint.model, n) => n \in validated \cup shortStops

\* A state that the phase may be in: any two of them tell one story, as far
\* as both have come (LawfulAgree).
Lawful(t) == Exact(t) /\ Sound(t)

\* Every run of this phase is validated after n updates, and goes on ...
Milestone(n) ==
  \A t \in TrainingState : Lawful(t) =>
    /\ t.step <= n => ~Finished(t)
    /\ t.step = n => Due(t)

\* ... or none goes further.
Final(n) == \A t \in TrainingState : Lawful(t) => t.step <= n

\* Where the last update still awaits its validation, or the writes after it.
Validating == {"reserve", "evaluate", "select", "describe"}

\* How far the run is that goes on, or will be resumed.
Position == IF Working THEN training.step ELSE checkpoint.step

\* A milestone that this run will still validate, for the first time or, after
\* a crash, again.
ToPass(n) ==
  /\ Milestone(n)
  /\ \/ Position < n
     \/ Position = n /\ pc \in Validating

\* The model of the n-th update beats best-validation.json.
Better(n) == bestInfo = None \/ Loss[n] < Loss[bestInfo]

\* The selection in hand is of a milestone and beats the record; the memory
\* and the record agree outside of it.
Selecting ==
  /\ ~touched => validated = {} /\ bestInfo = None /\ bestModel = None
  /\ bestInfo = Torn => ~Working
  /\ Working /\ pc \notin {"select", "describe"} => best = bestInfo
  /\ pc \in {"select", "describe"} =>
       best = training.step /\ Milestone(best) /\ Better(best)
  /\ pc = "describe" => bestModel = best
  /\ pc \in Validating \cup {"decide"} /\ checkpoint # None =>
       checkpoint.step < training.step

\* The claims of Selected, of one validation and of best-model.pt.
Accounted(n) == n \in shortStops \/ Final(n) \/ ToPass(n) \/ ~Better(n)
ModelAccounted ==
  \/ bestModel = bestInfo
  \/ bestModel \in shortStops
  \/ bestModel # None /\ ToPass(bestModel) /\ Better(bestModel)

\* Every validated model is beaten by the record or will be validated again,
\* and so is best-model.pt when it is not yet the recorded one.
Selected ==
  bestInfo # Torn /\ (Working \/ checkpoint # None) =>
    (\A n \in validated \ {0} : Accounted(n)) /\ ModelAccounted

-----------------------------------------------------------------------------
(* The ledger.                                                             *)

\* Of two accounts of the stream that agree so far, none passes over a window
\* that the other one has next.
LEMMA NoneSkipped ==
  ASSUME NEW u \in Seq(Nat), NEW v \in Seq(Nat), NEW a \in Nat, NEW b \in Nat,
         OnceEach(u, a), OnceEach(v, b),
         NEW k \in Nat \ {0}, k <= Len(u), k <= Len(v), \A j \in 1 .. k - 1 : u[j] = v[j]
  PROVE  ~(u[k] < v[k])
<1> SUFFICES ASSUME u[k] < v[k] PROVE FALSE
  OBVIOUS
<1>1. u[k] \in {w \in 1 .. a : Weight(w) > 0}
  BY DEF OnceEach
<1>2. v[k] \in {w \in 1 .. b : Weight(w) > 0}
  BY DEF OnceEach
<1>3. u[k] \in Nat /\ v[k] \in Nat /\ k \in Nat /\ Len(v) \in Nat /\ Len(u) \in Nat
  BY <1>1, <1>2
<1>4. u[k] \in 1 .. b /\ Weight(u[k]) > 0
  BY <1>1, <1>2, <1>3
<1>5. PICK j \in 1 .. Len(v) : v[j] = u[k]
  BY <1>4 DEF OnceEach
<1>6. ~(k < j)
  <2>1. k < j => v[k] < v[j]
    BY DEF OnceEach
  <2>2. ~(v[k] < u[k])
    BY <1>3
  <2> QED
    BY <1>5, <2>1, <2>2
<1>7. j # k
  BY <1>3, <1>5
<1>8. j \in 1 .. k - 1 /\ j \in 1 .. Len(u) /\ j < k
  <2>1. j \in Nat
    BY <1>3
  <2> QED
    BY <1>3, <1>6, <1>7, <2>1
<1>9. u[j] = u[k] /\ u[j] < u[k]
  BY <1>5, <1>8 DEF OnceEach
<1> QED
  BY <1>3, <1>9

\* Two accounts of the stream agree on the windows they both hold.
LEMMA OneStream ==
  ASSUME NEW s \in Seq(Nat), NEW t \in Seq(Nat), NEW c \in Nat, NEW d \in Nat,
         OnceEach(s, c), OnceEach(t, d), NEW n \in Nat, n <= Len(s), n <= Len(t)
  PROVE  Alike(s, t, n)
<1> SUFFICES ASSUME NEW i \in 1 .. n, s[i] # t[i] PROVE FALSE
  BY DEF Alike
<1> DEFINE D == {k \in 1 .. n : s[k] # t[k]}
<1>1. PICK k \in D : \A j \in D : k <= j
  <2>1. D \subseteq Nat /\ i \in D
    OBVIOUS
  <2> HIDE DEF D
  <2> QED
    BY <2>1, Least
<1>2. /\ k \in 1 .. Len(s) /\ k \in 1 .. Len(t) /\ s[k] # t[k] /\ s[k] \in Nat /\ t[k] \in Nat
      /\ \A j \in 1 .. k - 1 : s[j] = t[j]
  <2>1. k \in 1 .. n /\ s[k] # t[k] /\ Len(s) \in Nat /\ Len(t) \in Nat
    OBVIOUS
  <2>2. k \in 1 .. Len(s) /\ k \in 1 .. Len(t)
    BY <2>1
  <2>3. s[k] \in Nat /\ t[k] \in Nat
    BY <2>2
  <2>4. ASSUME NEW j \in 1 .. k - 1 PROVE s[j] = t[j]
    <3>1. j \in 1 .. n /\ ~(k <= j)
      BY <2>1
    <3> QED
      BY <1>1, <3>1
  <2> QED
    BY <2>1, <2>2, <2>3, <2>4
<1> HIDE DEF D
<1>4. s[k] < t[k] \/ t[k] < s[k]
  BY <1>2
<1>5. k \in Nat \ {0} /\ k <= Len(s) /\ k <= Len(t) /\ \A j \in 1 .. k - 1 : t[j] = s[j]
  BY <1>2
<1>6. ~(s[k] < t[k])
  BY <1>2, <1>5, NoneSkipped
<1>7. ~(t[k] < s[k])
  BY <1>5, NoneSkipped
<1> QED
  BY <1>4, <1>6, <1>7

\* What a step does to the run in memory and to the one on disk.
LEMMA Moves ==
  ASSUME TypeOK, [Next]_vars
  PROVE  /\ budget' = budget
         /\ \/ Update
            \/ /\ training'.model = training.model /\ training'.step = training.step
               /\ training'.ce = training.ce
            \/ training' = Fresh
            \/ Resume
         /\ \/ checkpoint' = checkpoint
            \/ SaveCheckpoint /\ checkpoint' = training /\ training' = training
<1>1. CASE Fetch
  <2>1. /\ training'.model = training.model /\ training'.step = training.step
        /\ training'.ce = training.ce
    BY <1>1 DEF Fetch, TypeOK, MemoryTypes, TrainingState
  <2> QED
    BY <1>1, <2>1 DEF Fetch, files
<1>2. CASE SkipWindow
  <2>1. /\ training'.model = training.model /\ training'.step = training.step
        /\ training'.ce = training.ce
    BY <1>2 DEF SkipWindow, TypeOK, MemoryTypes, TrainingState
  <2> QED
    BY <1>2, <2>1 DEF SkipWindow, files
<1>3. CASE Update
  BY <1>3 DEF Update, files
<1>4. CASE Resume
  BY <1>4 DEF Resume, files
<1>5. CASE SaveCheckpoint
  BY <1>5 DEF SaveCheckpoint, memory
<1>6. CASE Report
  BY <1>6 DEF Report, memory, Down
<1>7. CASE ~(Fetch \/ SkipWindow \/ Update \/ Resume \/ SaveCheckpoint \/ Report)
  <2>1. budget' = budget /\ checkpoint' = checkpoint /\ (training' = training \/ training' = Fresh)
    BY <1>7 DEF Next, Trainer, Begin, Ask, Produce, ReserveMet, ReserveShort, Evaluate,
      SelectBest, DescribeBest, Pause, Proceed, ExhaustSteps, Unlink, Publish, RefuseWrite,
      Crash, RequestPause, vars, memory, files, Down
  <2> QED
    BY <2>1
<1> QED
  BY <1>1, <1>2, <1>3, <1>4, <1>5, <1>6, <1>7

\* A phase starts with an empty account.
LEMMA FreshSound == ASSUME budget \in Nat \ {0} PROVE Sound(Fresh)
  BY TargetsStep DEF Sound, Fresh

\* An update adds its window to the account.
LEMMA SoundUpdate ==
  ASSUME NEW t \in TrainingState, Sound(t), budget \in Nat, t.ce < budget,
         NEW w \in Nat \ {0},
         NEW u, u.model = Append(t.model, w), u.ce = t.ce + Weight(w)
  PROVE  /\ Sound(u) /\ Len(u.model) = Len(t.model) + 1
         /\ \A n \in 0 .. Len(t.model) : TargetsAfter(u.model, n) = TargetsAfter(t.model, n)
<1>1. /\ t.model \in Seq(Nat) /\ Len(t.model) \in Nat /\ t.ce \in Nat
      /\ Len(u.model) = Len(t.model) + 1 /\ u.model[Len(t.model) + 1] = w
      /\ \A k \in 1 .. Len(t.model) : u.model[k] = t.model[k]
  BY DEF TrainingState
<1>2. ASSUME NEW n \in 0 .. Len(t.model)
      PROVE  TargetsAfter(u.model, n) = TargetsAfter(t.model, n)
  <2>1. n \in Nat /\ Alike(u.model, t.model, n)
    BY <1>1 DEF Alike
  <2> QED
    BY <2>1, TargetsAlike
<1>3. u.ce = TargetsAfter(u.model, Len(t.model) + 1)
  <2>1. TargetsAfter(u.model, Len(t.model)) = t.ce
    BY <1>1, <1>2 DEF Sound
  <2>2. TargetsAfter(u.model, Len(t.model) + 1) =
          TargetsAfter(u.model, Len(t.model)) + Weight(u.model[Len(t.model) + 1])
    BY <1>1, TargetsStep
  <2> QED
    BY <1>1, <2>1, <2>2
<1>4. ASSUME NEW n \in 0 .. Len(u.model) - 1 PROVE TargetsAfter(u.model, n) < budget
  <2>1. TargetsAfter(u.model, n) = TargetsAfter(t.model, n)
    BY <1>1, <1>2
  <2>2. CASE n = Len(t.model)
    BY <2>1, <2>2 DEF Sound
  <2>3. CASE n # Len(t.model)
    BY <1>1, <2>1, <2>3 DEF Sound
  <2> QED
    BY <2>2, <2>3
<1> QED
  BY <1>1, <1>2, <1>3, <1>4 DEF Sound

\* No step spoils an account.
LEMMA LedgersStep ==
  ASSUME IInv, Ledgers, [Next]_vars
  PROVE  Ledgers'
<1>0. TypeOK /\ Stream /\ Loop /\ budget \in Nat \ {0}
  BY Constants DEF IInv, TypeOK, MemoryTypes
<1>1. budget' = budget
  BY <1>0, Moves
<1>2. Sound(training)'
  <2>1. CASE Update
    <3>1. /\ training \in TrainingState /\ training.ce < budget /\ window \in Nat \ {0}
          /\ training'.model = Append(training.model, window)
          /\ training'.ce = training.ce + Weight(window)
      BY <1>0, <2>1 DEF Update, Counted, Stream, Loop, MoreToDo, Finished, TypeOK, MemoryTypes, TrainingState
    <3>2. Sound(training')
      BY <1>0, <3>1, SoundUpdate DEF Ledgers
    <3> QED
      BY <1>1, <3>2 DEF Sound
  <2>2. CASE training'.model = training.model /\ training'.ce = training.ce
    BY <1>1, <2>2 DEF Ledgers, Sound
  <2>3. CASE training' = Fresh
    <3>1. Sound(Fresh)
      BY <1>0, FreshSound
    <3> QED
      BY <1>1, <2>3, <3>1 DEF Sound
  <2>4. CASE Resume
    BY <1>1, <2>4 DEF Resume, Ledgers, Sound
  <2> QED
    BY <1>0, <2>1, <2>2, <2>3, <2>4, Moves
<1>3. checkpoint' # None => Sound(checkpoint)'
  BY <1>0, <1>1, Moves DEF Ledgers, Sound
<1> QED
  BY <1>2, <1>3 DEF Ledgers

\* The sums are numbers.
LEMMA TargetsType ==
  ASSUME NEW m, NEW n \in Nat, \A k \in 1 .. n : m[k] \in Nat \ {0}
  PROVE  \A k \in 0 .. n : TargetsAfter(m, k) \in Nat
<1> DEFINE S == {k \in Nat : k <= n => TargetsAfter(m, k) \in Nat}
<1>1. 0 \in S
  BY TargetsStep
<1>2. ASSUME NEW k \in Nat, k \in S PROVE k + 1 \in S
  <2> SUFFICES ASSUME k + 1 <= n PROVE TargetsAfter(m, k + 1) \in Nat
    OBVIOUS
  <2>1. k + 1 \in 1 .. n
    OBVIOUS
  <2>2. m[k + 1] \in Nat \ {0}
    BY <2>1
  <2>3. Weight(m[k + 1]) \in Nat
    BY <2>2, WeightType
  <2>4. TargetsAfter(m, k + 1) = TargetsAfter(m, k) + Weight(m[k + 1])
    BY TargetsStep
  <2> QED
    BY <1>2, <2>3, <2>4
<1> HIDE DEF S
<1>3. Nat \subseteq S
  BY <1>1, <1>2, Induction
<1> QED
  BY <1>3 DEF S

\* The parts of a lawful state are numbers.
LEMMA LawfulTypes ==
  ASSUME NEW t \in TrainingState, Lawful(t)
  PROVE  /\ t.model \in Seq(Nat) /\ t.step \in Nat /\ t.step = Len(t.model) /\ t.ce \in Nat
         /\ \A n \in 1 .. t.step : t.model[n] \in Nat \ {0} /\ Weight(t.model[n]) \in Nat
         /\ \A n \in 0 .. t.step : TargetsAfter(t.model, n) \in Nat
<1>1. t.model \in Seq(Nat) /\ t.step \in Nat /\ t.step = Len(t.model) /\ t.ce \in Nat
  BY Constants DEF TrainingState, Lawful, Exact
<1>2. OnceEach(t.model, t.cursor) /\ t.cursor \in Nat
  BY DEF TrainingState, Lawful, Exact
<1>3. ASSUME NEW n \in 1 .. t.step PROVE t.model[n] \in Nat \ {0}
  BY <1>1, <1>2 DEF OnceEach
<1>4. \A n \in 1 .. t.step : Weight(t.model[n]) \in Nat
  BY <1>3, WeightType
<1>5. \A n \in 0 .. t.step : TargetsAfter(t.model, n) \in Nat
  BY <1>1, <1>3, TargetsType
<1> QED
  BY <1>1, <1>3, <1>4, <1>5

\* validation_due recognizes the crossings, from the last window alone.
LEMMA DueIsCrossing ==
  ASSUME NEW t \in TrainingState, Lawful(t), t.step > 0
  PROVE  Due(t) <=> Crossed(t.model, t.step)
<1> DEFINE n == t.step
<1>1. /\ n \in Nat /\ n - 1 \in Nat /\ n = Len(t.model) /\ t.ce = TargetsAfter(t.model, n)
      /\ n \in 1 .. n /\ n - 1 \in 0 .. n
  BY LawfulTypes DEF Lawful, Sound
<1>2. TargetsAfter(t.model, n - 1) \in Nat /\ Weight(t.model[n]) \in Nat
  BY <1>1, LawfulTypes
<1>3. TargetsAfter(t.model, (n - 1) + 1) = TargetsAfter(t.model, n - 1) + Weight(t.model[(n - 1) + 1])
  BY <1>1, TargetsStep
<1>4. (n - 1) + 1 = n
  BY <1>1
<1>5. t.ce - Weight(t.model[n]) = TargetsAfter(t.model, n - 1)
  BY <1>1, <1>2, <1>3, <1>4
<1>6. Last(t.model) = t.model[n]
  BY <1>1 DEF Last
<1> QED
  BY <1>1, <1>5, <1>6 DEF Due, Crossed

\* Lawful runs count the same targets as far as both have come.
LEMMA LawfulAgree ==
  ASSUME NEW t \in TrainingState, NEW u \in TrainingState, Lawful(t), Lawful(u), t.step <= u.step
  PROVE  /\ t.ce = TargetsAfter(u.model, t.step)
         /\ \A n \in 0 .. t.step : TargetsAfter(t.model, n) = TargetsAfter(u.model, n)
<1>1. /\ OnceEach(t.model, t.cursor) /\ OnceEach(u.model, u.cursor)
      /\ t.cursor \in Nat /\ u.cursor \in Nat
  BY DEF TrainingState, Lawful, Exact
<1>2. /\ t.model \in Seq(Nat) /\ u.model \in Seq(Nat) /\ t.step \in Nat /\ u.step \in Nat
      /\ t.step = Len(t.model) /\ u.step = Len(u.model)
  BY LawfulTypes
<1>3. ASSUME NEW n \in 0 .. t.step PROVE TargetsAfter(t.model, n) = TargetsAfter(u.model, n)
  <2>1. n \in Nat /\ n <= Len(t.model) /\ n <= Len(u.model)
    BY <1>2
  <2>2. Alike(t.model, u.model, n)
    BY <1>1, <1>2, <2>1, OneStream
  <2> QED
    BY <2>1, <2>2, TargetsAlike
<1>4. t.ce = TargetsAfter(t.model, t.step) /\ t.step \in 0 .. t.step
  BY <1>2 DEF Lawful, Sound
<1> QED
  BY <1>3, <1>4

-----------------------------------------------------------------------------
(* The validations.                                                        *)

\* The histories only grow.
LEMMA Histories == [Next]_vars => validated \subseteq validated' /\ shortStops \subseteq shortStops'
  BY DEF Next, Trainer, Begin, Resume, Ask, Produce, Fetch, SkipWindow, Update, ReserveMet,
    ReserveShort, Evaluate, SelectBest, DescribeBest, Pause, Proceed, ExhaustSteps,
    SaveCheckpoint, Report, Unlink, Publish, RefuseWrite, Crash, RequestPause, vars, outside

\* Between its iterations the run in memory is lawful, as is the one on disk.
LEMMA Lawfulness ==
  ASSUME IInv, Ledgers
  PROVE  /\ training \in TrainingState /\ training.step \in Nat
         /\ training.step = Len(training.model)
         /\ pc \notin {"down", "train"} => Lawful(training)
         /\ checkpoint # None => checkpoint \in TrainingState /\ Lawful(checkpoint)
<1>1. training \in TrainingState /\ (checkpoint # None => checkpoint \in TrainingState)
  BY DEF IInv, TypeOK, MemoryTypes, FileTypes
<1>2. training.step = Len(training.model)
  BY DEF IInv, Stream, Working, NoMemory, Fresh, Exact
<1> QED
  BY <1>1, <1>2, Constants DEF IInv, Stream, Ledgers, Lawful, TrainingState

\* No step passes over a milestone, and none goes back behind its validation.
LEMMA MilestonesStep ==
  ASSUME IInv, Ledgers, Milestones, [Next]_vars
  PROVE  Milestones'
<1>0. /\ TypeOK /\ training \in TrainingState /\ training.step \in Nat
      /\ training.step = Len(training.model)
      /\ validated \subseteq validated' /\ shortStops \subseteq shortStops'
  BY Lawfulness, Histories DEF IInv
<1>1. ASSUME NEW n \in 1 .. training'.step, Crossed(training'.model, n)
      PROVE  \/ n \in validated' \cup shortStops'
             \/ n = training'.step /\ pc' \in {"reserve", "evaluate"}
  <2>1. CASE Update
    <3>1. /\ training.ce < budget /\ window \in Nat \ {0} /\ budget \in Nat /\ pc = "train"
          /\ training'.model = Append(training.model, window)
          /\ training'.ce = training.ce + Weight(window)
          /\ training'.step = training.step + 1 /\ pc' = "reserve"
      BY <1>0, <2>1, Constants DEF Update, Counted, IInv, Stream, Loop, MoreToDo, Finished, TypeOK,
        MemoryTypes, TrainingState
    <3>2. \A k \in 0 .. training.step :
            TargetsAfter(training'.model, k) = TargetsAfter(training.model, k)
      BY <1>0, <3>1, SoundUpdate DEF Ledgers
    <3>3. CASE n = training.step + 1
      BY <3>1, <3>3
    <3>4. CASE n # training.step + 1
      <4>1. n \in 1 .. training.step /\ n \in 0 .. training.step /\ n - 1 \in 0 .. training.step
        BY <1>0, <1>1, <3>1, <3>4
      <4>2. Crossed(training.model, n)
        BY <1>1, <3>2, <4>1 DEF Crossed
      <4> QED
        BY <1>0, <3>1, <4>1, <4>2 DEF Milestones
    <3> QED
      BY <3>3, <3>4
  <2>2. CASE training' = Fresh
    BY <1>1, <2>2 DEF Fresh
  <2>3. CASE Resume
    BY <1>0, <1>1, <2>3 DEF Resume, Milestones
  <2>4. CASE training'.model = training.model /\ training'.step = training.step
    <3>1. \/ n \in validated \cup shortStops
          \/ n = training.step /\ pc \in {"reserve", "evaluate"}
      BY <1>1, <2>4 DEF Milestones
    <3>2. CASE n \in validated \cup shortStops
      BY <1>0, <3>2
    <3>3. CASE n = training.step /\ pc = "evaluate" /\ Evaluate
      <4>1. Lawful(training) /\ training.step > 0
        BY <1>1, <2>4, <3>3, Lawfulness
      <4>2. Due(training)
        BY <1>0, <1>1, <2>4, <3>3, <4>1, DueIsCrossing
      <4> QED
        BY <3>3, <4>2 DEF Evaluate
    <3>4. CASE n = training.step /\ pc = "reserve" /\ ReserveShort
      BY <3>4 DEF ReserveShort
    <3>5. CASE n = training.step /\ pc \in {"reserve", "evaluate"} /\ ~Evaluate /\ ~ReserveShort
      <4>1. pc' = pc \/ pc' = "evaluate" \/ pc' = "down"
        BY <3>5 DEF Next, Trainer, Begin, Resume, Ask, Produce, Fetch, SkipWindow, Update,
          ReserveMet, SelectBest, DescribeBest, Pause, Proceed, ExhaustSteps, SaveCheckpoint,
          Report, Unlink, Publish, RefuseWrite, Crash, RequestPause, vars, Down
      <4>2. pc' = "down" => training' = Fresh
        BY <3>5 DEF Next, Trainer, Begin, Resume, Ask, Produce, Fetch, SkipWindow, Update,
          ReserveMet, SelectBest, DescribeBest, Pause, Proceed, ExhaustSteps, SaveCheckpoint,
          Report, Unlink, Publish, RefuseWrite, Crash, RequestPause, vars, Down
      <4> QED
        BY <2>2, <2>4, <3>5, <4>1, <4>2
    <3>6. pc = "reserve" => ~Evaluate
      BY DEF Evaluate
    <3>7. pc = "evaluate" => ~ReserveShort
      BY DEF ReserveShort
    <3> QED
      BY <3>1, <3>2, <3>3, <3>4, <3>5, <3>6, <3>7
  <2> QED
    BY <1>0, <2>1, <2>2, <2>3, <2>4, Moves
<1>2. ASSUME checkpoint' # None, NEW n \in 1 .. checkpoint'.step, Crossed(checkpoint'.model, n)
      PROVE  n \in validated' \cup shortStops'
  <2>1. CASE checkpoint' = checkpoint
    BY <1>0, <1>2, <2>1 DEF Milestones
  <2>2. CASE SaveCheckpoint /\ checkpoint' = training
    BY <1>0, <1>2, <2>2 DEF Milestones, SaveCheckpoint
  <2> QED
    BY <1>0, <2>1, <2>2, Moves
<1> QED
  BY <1>1, <1>2 DEF Milestones, Crossed

-----------------------------------------------------------------------------
(* The best model.                                                         *)

\* The update just validated is one at which every run is validated ...
LEMMA MilestoneHere ==
  ASSUME NEW u \in TrainingState, Lawful(u), u.step > 0, budget \in Nat, Due(u), ~Finished(u)
  PROVE  Milestone(u.step)
<1> SUFFICES ASSUME NEW t \in TrainingState, Lawful(t), t.step <= u.step
             PROVE  ~Finished(t) /\ (t.step = u.step => Due(t))
  <2>1. \A t \in TrainingState : Lawful(t) => t.step \in Nat /\ u.step \in Nat
    BY LawfulTypes
  <2> QED
    BY <2>1 DEF Milestone
<1>1. /\ t.ce = TargetsAfter(u.model, t.step) /\ t.step \in Nat /\ u.step \in Nat
      /\ u.step = Len(u.model) /\ t.ce \in Nat /\ u.ce \in Nat
      /\ u.ce = TargetsAfter(u.model, u.step)
  BY LawfulAgree, LawfulTypes DEF Lawful, Sound
<1>2. ~Finished(t)
  <2>1. CASE t.step = u.step
    BY <1>1, <2>1 DEF Finished
  <2>2. CASE t.step < u.step
    <3>1. TargetsAfter(u.model, t.step) < budget
      BY <1>1, <2>2 DEF Lawful, Sound
    <3> QED
      BY <1>1, <3>1 DEF Finished
  <2> QED
    BY <1>1, <2>1, <2>2
<1>3. ASSUME t.step = u.step PROVE Due(t)
  <2>1. t.step \in 0 .. t.step /\ t.step - 1 \in 0 .. t.step
    BY <1>1, <1>3
  <2>2. /\ TargetsAfter(t.model, t.step) = TargetsAfter(u.model, t.step)
        /\ TargetsAfter(t.model, t.step - 1) = TargetsAfter(u.model, t.step - 1)
    BY <2>1, LawfulAgree
  <2>3. Crossed(u.model, u.step)
    BY DueIsCrossing
  <2>4. Crossed(t.model, t.step)
    BY <1>3, <2>2, <2>3 DEF Crossed
  <2> QED
    BY <1>3, <2>4, DueIsCrossing
<1> QED
  BY <1>2, <1>3

\* ... unless it is the one at which every run ends.
LEMMA FinalHere ==
  ASSUME NEW u \in TrainingState, Lawful(u), budget \in Nat, Finished(u)
  PROVE  Final(u.step)
<1> SUFFICES ASSUME NEW t \in TrainingState, Lawful(t), u.step < t.step PROVE FALSE
  <2>1. \A t \in TrainingState : Lawful(t) => t.step \in Nat /\ u.step \in Nat
    BY LawfulTypes
  <2> QED
    BY <2>1 DEF Final
<1>1. t.step \in Nat /\ u.step \in Nat /\ t.step = Len(t.model) /\ u.ce \in Nat
  BY LawfulTypes
<1>2. u.ce = TargetsAfter(t.model, u.step)
  BY <1>1, LawfulAgree
<1>3. TargetsAfter(t.model, u.step) < budget
  BY <1>1 DEF Lawful, Sound
<1> QED
  BY <1>1, <1>2, <1>3 DEF Finished

\* Which updates are milestones depends on the budget alone.
LEMMA Fixed ==
  ASSUME budget' = budget, NEW n
  PROVE  (Milestone(n)' <=> Milestone(n)) /\ (Final(n)' <=> Final(n))
  BY DEF Milestone, Final, Lawful, Sound, Finished

\* A step inside one iteration of the loop, or outside of the process, that
\* neither validates nor selects.
Quiet ==
  /\ UNCHANGED <<budget, checkpoint, best, bestInfo, bestModel, validated, shortStops, touched>>
  /\ training'.step = training.step
  /\ \/ pc' = pc
     \/ Working /\ pc' # "down" /\ {pc, pc'} \cap Validating = {} /\ pc' # "decide"

\* The process ends, by itself or not.
Ends ==
  /\ Working /\ Down
  /\ UNCHANGED <<budget, checkpoint, bestModel, validated, shortStops, touched>>
  /\ bestInfo' \in {bestInfo, Torn}

\* The steps that matter to the selection.
LEMMA StepsOfBest ==
  ASSUME TypeOK, [Next]_vars
  PROVE  \/ Quiet \/ Ends \/ Begin \/ Resume \/ Update \/ ReserveMet \/ ReserveShort
         \/ Evaluate \/ SelectBest \/ DescribeBest \/ SaveCheckpoint
<1> USE DEF Quiet, Ends, Validating, Working
<1>1. CASE Ask \/ Produce
  BY <1>1 DEF Ask, Produce, files, outside
<1>2. CASE Fetch
  <2>1. training'.step = training.step
    BY <1>2 DEF Fetch, TypeOK, MemoryTypes, TrainingState
  <2> QED
    BY <1>2, <2>1 DEF Fetch, files, outside
<1>3. CASE SkipWindow
  <2>1. training'.step = training.step
    BY <1>3 DEF SkipWindow, TypeOK, MemoryTypes, TrainingState
  <2> QED
    BY <1>3, <2>1 DEF SkipWindow, files, outside
<1>4. CASE Pause
  BY <1>4 DEF Pause, files
<1>5. CASE Proceed
  BY <1>5 DEF Proceed, files, outside
<1>6. CASE ExhaustSteps
  BY <1>6 DEF ExhaustSteps, files, outside
<1>7. CASE Report
  BY <1>7 DEF Report, memory, outside
<1>8. CASE Unlink \/ Publish
  BY <1>8 DEF Unlink, Publish, files, outside
<1>9. CASE RefuseWrite
  BY <1>9 DEF RefuseWrite, files
<1>10. CASE Crash
  BY <1>10 DEF Crash
<1>11. CASE RequestPause
  BY <1>11 DEF RequestPause, memory, files
<1>12. CASE UNCHANGED vars
  BY <1>12 DEF vars, memory, files, outside
<1> QED
  BY <1>1, <1>2, <1>3, <1>4, <1>5, <1>6, <1>7, <1>8, <1>9, <1>10, <1>11, <1>12 DEF Next, Trainer

\* No step spoils the selection in hand.
LEMMA SelectingStep ==
  ASSUME IInv, Ledgers, Selecting, [Next]_vars
  PROVE  Selecting'
<1>0. /\ TypeOK /\ Saved /\ Stream /\ Loop /\ training \in TrainingState /\ training.step \in Nat
      /\ budget \in Nat /\ budget' = budget /\ None # Torn /\ Torn \notin Updates
      /\ checkpoint # None => checkpoint.step \in Nat
  <2>1. TypeOK /\ Saved /\ Stream /\ Loop
    BY DEF IInv
  <2>2. Torn \notin Updates
    BY Constants DEF Updates
  <2>3. budget \in Nat /\ budget' = budget
    BY <2>1, Moves, Constants DEF TypeOK, MemoryTypes
  <2>4. checkpoint # None => checkpoint.step \in Nat
    BY Lawfulness, LawfulTypes
  <2> QED
    BY <2>1, <2>2, <2>3, <2>4, Lawfulness, Constants
<1>1. CASE Quiet
  <2>1. \A n : Milestone(n)' <=> Milestone(n)
    BY <1>0, Fixed
  <2>2. Working' <=> Working
    BY <1>1 DEF Quiet, Working
  <2> QED
    BY <1>1, <2>1, <2>2 DEF Quiet, Selecting, Better, Validating
<1>2. CASE Ends
  BY <1>0, <1>2 DEF Ends, Down, Selecting, Better, Validating, Working, Saved
<1>3. CASE Begin
  BY <1>0, <1>3 DEF Begin, Vacant, Selecting, Validating, Working, memory, files, Stream, NoMemory
<1>4. CASE Resume
  BY <1>0, <1>4 DEF Resume, Selecting, Validating, Working, files, Saved
<1>5. CASE Update
  <2>1. training'.step = training.step + 1
    BY <1>0, <1>5 DEF Update, TrainingState
  <2>2. checkpoint # None => checkpoint.step <= training.step
    BY <1>5 DEF Update, IInv, Saved, Working, Extends
  <2>3. Working /\ touched
    BY <1>0, <1>5 DEF Update, Working, Saved
  <2> QED
    BY <1>0, <1>5, <2>1, <2>2, <2>3 DEF Update, Selecting, Validating, Working, files
<1>6. CASE ReserveMet
  BY <1>0, <1>6 DEF ReserveMet, Selecting, Validating, Working, memory, files
<1>7. CASE ReserveShort
  BY <1>0, <1>7 DEF ReserveShort, Selecting, Validating, Working, files, Saved
<1>8. CASE Evaluate
  <2>1. /\ Working /\ touched /\ best = bestInfo /\ Lawful(training) /\ training.step > 0
        /\ bestInfo # Torn
    BY <1>0, <1>8, Lawfulness DEF Evaluate, Selecting, Working, Saved, Loop
  <2>2. CASE pc' = "select"
    <3>1. Due(training) /\ ~Finished(training) /\ Improved(training.step) /\ best' = training.step
      BY <1>8, <2>2 DEF Evaluate
    <3>2. Milestone(training.step)
      BY <1>0, <2>1, <3>1, MilestoneHere
    <3>3. Milestone(best')
      BY <3>1, <3>2
    <3>4. Milestone(best)'
      <4>1. Milestone(training.step)' <=> Milestone(training.step)
        BY <1>0, <1>8 DEF Evaluate, Milestone, Lawful, Sound, Finished
      <4>2. training' = training
        BY <1>8 DEF Evaluate
      <4> QED
        BY <3>1, <3>2, <4>1, <4>2
    <3>5. Better(best)'
      BY <1>8, <2>1, <3>1 DEF Evaluate, Better, Improved, files
    <3> QED
      BY <1>8, <2>1, <2>2, <3>1, <3>4, <3>5 DEF Evaluate, Selecting, Validating, Working, files
  <2>3. CASE pc' = "decide"
    <3>1. best' = best
      BY <1>8, <2>3 DEF Evaluate
    <3> QED
      BY <1>8, <2>1, <2>3, <3>1 DEF Evaluate, Selecting, Validating, Working, files
  <2> QED
    BY <1>8, <2>2, <2>3 DEF Evaluate
<1>9. CASE SelectBest
  <2>1. \A n : Milestone(n)' <=> Milestone(n)
    BY <1>0, Fixed
  <2> QED
    BY <1>0, <1>9, <2>1 DEF SelectBest, Selecting, Validating, Working, memory, Saved, Better
<1>10. CASE DescribeBest
  <2>1. best \in Updates
    BY <1>0, <1>10 DEF DescribeBest, Selecting, TypeOK, MemoryTypes, Loop, Updates, TrainingState
  <2> QED
    BY <1>0, <1>10, <2>1 DEF DescribeBest, Selecting, Validating, Working, memory, Saved
<1>11. CASE SaveCheckpoint
  BY <1>0, <1>11 DEF SaveCheckpoint, Selecting, Validating, Working, memory, Saved
<1> QED
  BY <1>0, <1>1, <1>2, <1>3, <1>4, <1>5, <1>6, <1>7, <1>8, <1>9, <1>10, <1>11, StepsOfBest

\* What is still to be validated stays so until it is.
LEMMA StillToPass ==
  ASSUME budget' = budget, Position \in Nat,
         \/ Position' = Position /\ (pc \in Validating => pc' \in Validating)
         \/ Position' = Position + 1 /\ pc \notin Validating /\ pc' \in Validating
         \/ Position' \in Nat /\ Position' < Position
         \/ Position' = Position /\ pc \notin Validating
  PROVE  \A n \in Nat : ToPass(n) => ToPass(n)'
<1> SUFFICES ASSUME NEW n \in Nat, ToPass(n) PROVE ToPass(n)'
  OBVIOUS
<1>1. Milestone(n)'
  BY Fixed DEF ToPass
<1>2. (Position < n \/ (Position = n /\ pc \in Validating))'
  BY DEF ToPass
<1> QED
  BY <1>1, <1>2 DEF ToPass, Validating

\* A step keeps the account that validates and selects nothing.
LEMMA AccountKept ==
  ASSUME budget' = budget, shortStops \subseteq shortStops', bestInfo' = bestInfo,
         \A n \in Nat : ToPass(n) => ToPass(n)'
  PROVE  /\ \A n \in Nat : Accounted(n) => Accounted(n)'
         /\ bestModel' = bestModel /\ bestModel \in Updates \cup {None} /\ ModelAccounted => ModelAccounted'
<1>1. ASSUME NEW n \in Nat, Accounted(n) PROVE Accounted(n)'
  BY <1>1, Fixed DEF Accounted, Better
<1>2. ASSUME bestModel' = bestModel, bestModel \in Updates \cup {None}, ModelAccounted
      PROVE  ModelAccounted'
  <2>1. CASE bestModel = bestInfo
    BY <1>2, <2>1 DEF ModelAccounted
  <2>2. CASE bestModel \in shortStops
    BY <1>2, <2>2 DEF ModelAccounted
  <2>3. CASE bestModel # None /\ ToPass(bestModel) /\ Better(bestModel)
    <3>1. PICK n \in Nat : n = bestModel
      BY <1>2, <2>3 DEF Updates
    <3>2. ToPass(n)'
      BY <2>3, <3>1
    <3>3. ToPass(bestModel)'
      BY <1>2, <3>1, <3>2 DEF ToPass, Milestone, Lawful, Sound, Finished
    <3> QED
      BY <1>2, <2>3, <3>3 DEF ModelAccounted, Better
  <2> QED
    BY <1>2, <2>1, <2>2, <2>3 DEF ModelAccounted
<1> QED
  BY <1>1, <1>2

\* No step loses a validated model: at the writes of the selection the record
\* takes over, and everywhere else the run is still to pass what it was.
LEMMA SelectedStep ==
  ASSUME IInv, Ledgers, Selecting, Selecting', Selected, [Next]_vars
  PROVE  Selected'
<1>0. /\ TypeOK /\ Saved /\ Stream /\ Loop /\ training \in TrainingState /\ training.step \in Nat
      /\ budget \in Nat /\ budget' = budget /\ None # Torn /\ shortStops \subseteq shortStops'
      /\ checkpoint # None => checkpoint.step \in Nat
      /\ validated \subseteq Nat /\ validated \ {0} \subseteq Updates
      /\ bestModel \in Updates \cup {None}
  <2>1. TypeOK /\ Saved /\ Stream /\ Loop
    BY DEF IInv
  <2>2. budget \in Nat /\ budget' = budget
    BY <2>1, Moves, Constants DEF TypeOK, MemoryTypes
  <2>3. checkpoint # None => checkpoint.step \in Nat
    BY Lawfulness, LawfulTypes
  <2>4. validated \subseteq 0 .. MaxSteps /\ bestModel \in Updates \cup {None}
    BY <2>1 DEF TypeOK, FileTypes
  <2>5. validated \subseteq Nat /\ validated \ {0} \subseteq Updates
    BY <2>4, Constants DEF Updates
  <2> QED
    BY <2>1, <2>2, <2>3, <2>4, <2>5, Lawfulness, Constants, Histories
<1> SUFFICES ASSUME bestInfo' # Torn, (Working \/ checkpoint # None)'
             PROVE  (\A n \in validated' \ {0} : Accounted(n)') /\ ModelAccounted'
  BY DEF Selected
\* Steps after which what was to be validated still is, or has been passed.
<1>1. ASSUME bestInfo # Torn, bestInfo' = bestInfo, Working \/ checkpoint # None,
             \A n \in Nat : ToPass(n) => ToPass(n)'
      PROVE  /\ \A n \in validated \ {0} : Accounted(n)'
             /\ bestModel' = bestModel => ModelAccounted'
  BY <1>0, <1>1, AccountKept DEF Selected
<1>2. Working \/ checkpoint # None => Position \in Nat
  BY <1>0 DEF Position
<1>3. CASE Quiet
  <2>1. Working' <=> Working
    BY <1>3 DEF Quiet, Working
  <2>2. Position' = Position /\ (Working \/ checkpoint # None)
    BY <1>3, <2>1 DEF Quiet, Position
  <2>3. \A n \in Nat : ToPass(n) => ToPass(n)'
    BY <1>0, <1>2, <1>3, <2>2, StillToPass DEF Quiet
  <2> QED
    BY <1>1, <1>3, <2>2, <2>3 DEF Quiet
<1>4. CASE Ends
  <2>1. bestInfo' = bestInfo /\ Working /\ checkpoint # None /\ pc' = "down"
    BY <1>4 DEF Ends, Down, Working
  <2>2. Position = training.step /\ Position' = checkpoint.step
    BY <1>4, <2>1 DEF Ends, Position, Working
  <2>3. checkpoint.step <= training.step /\ (pc \in Validating => checkpoint.step < training.step)
    BY <1>0, <2>1 DEF Saved, Extends, Selecting
  <2>4. \A n \in Nat : ToPass(n) => ToPass(n)'
    <3>1. \/ Position' \in Nat /\ Position' < Position
          \/ Position' = Position /\ pc \notin Validating
      BY <1>0, <2>1, <2>2, <2>3
    <3> QED
      BY <1>0, <2>2, <3>1, StillToPass
  <2> QED
    BY <1>1, <1>4, <2>1, <2>4 DEF Ends
<1>5. CASE Begin
  <2>1. validated = {} /\ bestInfo = None /\ bestModel = None
    BY <1>5 DEF Begin, Vacant, Selecting
  <2> QED
    BY <1>5, <2>1 DEF Begin, files, ModelAccounted
<1>6. CASE Resume
  <2>1. bestInfo' = bestInfo /\ checkpoint # None /\ bestInfo # Torn /\ bestModel' = bestModel
    BY <1>6 DEF Resume, files
  <2>2. Position' = Position /\ pc \notin Validating
    BY <1>6 DEF Resume, Position, Working, Validating
  <2>3. \A n \in Nat : ToPass(n) => ToPass(n)'
    BY <1>0, <1>2, <2>1, <2>2, StillToPass
  <2>4. ASSUME Finished(checkpoint) PROVE Accounted(checkpoint.step)'
    <3>1. Final(checkpoint.step)
      BY <1>0, <2>1, <2>4, Lawfulness, FinalHere
    <3>2. checkpoint' = checkpoint
      BY <1>6 DEF Resume, files
    <3>3. Final(checkpoint.step)'
      BY <1>0, <3>1, <3>2 DEF Final, Lawful, Sound
    <3> QED
      BY <3>3 DEF Accounted
  <2>5. ASSUME NEW n \in validated' \ {0} PROVE Accounted(n)'
    <3>1. CASE n \in validated
      BY <1>1, <2>1, <2>3, <2>5, <3>1
    <3>2. CASE n \notin validated
      <4>1. Finished(checkpoint) /\ n = checkpoint.step
        BY <1>6, <2>5, <3>2 DEF Resume
      <4>2. Final(n)
        BY <1>0, <2>1, <4>1, Lawfulness, FinalHere
      <4> QED
        BY <1>0, <4>2, Fixed DEF Accounted
    <3> QED
      BY <3>1, <3>2
  <2> QED
    BY <1>1, <2>1, <2>3, <2>5
<1>7. CASE Update
  <2>1. training'.step = training.step + 1 /\ Working /\ Working'
    BY <1>0, <1>7 DEF Update, TrainingState, Working
  <2>2. Position' = Position + 1 /\ pc \notin Validating /\ pc' \in Validating
    BY <1>7, <2>1 DEF Update, Position, Validating
  <2>3. \A n \in Nat : ToPass(n) => ToPass(n)'
    BY <1>0, <1>2, <2>1, <2>2, StillToPass
  <2> QED
    BY <1>1, <1>7, <2>1, <2>3 DEF Update, files
<1>8. CASE ReserveMet
  <2>1. Working /\ Position' = Position /\ pc' \in Validating
    BY <1>8 DEF ReserveMet, Position, Working, Validating, memory
  <2>2. \A n \in Nat : ToPass(n) => ToPass(n)'
    BY <1>0, <1>2, <2>1, StillToPass
  <2> QED
    BY <1>1, <1>8, <2>1, <2>2 DEF ReserveMet, files
<1>9. CASE ReserveShort
  <2>1. /\ Working /\ Working' /\ training' = training /\ Position = training.step
        /\ Position' = training.step /\ UNCHANGED <<validated, bestInfo, bestModel>>
        /\ shortStops' = shortStops \cup {training.step}
    BY <1>9 DEF ReserveShort, Position, Working, files
  <2>2. ASSUME NEW n \in Nat, ToPass(n) PROVE n \in shortStops' \/ ToPass(n)'
    BY <1>0, <2>1, <2>2, Fixed DEF ToPass
  <2>3. ASSUME NEW n \in validated \ {0} PROVE Accounted(n)'
    <3>1. Accounted(n) /\ n \in Nat
      BY <1>0, <2>1, <2>3 DEF Selected
    <3> QED
      BY <1>0, <2>1, <2>2, <3>1, Fixed DEF Accounted, Better
  <2>4. ModelAccounted'
    <3>1. ModelAccounted
      BY <2>1 DEF Selected
    <3>2. CASE bestModel # None /\ ToPass(bestModel) /\ Better(bestModel)
      <4>1. Milestone(bestModel)'
        BY <1>0, <2>1, <3>2 DEF ToPass, Milestone, Lawful, Sound, Finished
      <4>2. bestModel \in shortStops' \/ Position < bestModel
        BY <2>1, <3>2 DEF ToPass
      <4> QED
        BY <2>1, <3>2, <4>1, <4>2 DEF ModelAccounted, ToPass, Better
    <3> QED
      BY <2>1, <3>1, <3>2 DEF ModelAccounted
  <2> QED
    BY <2>1, <2>3, <2>4
<1>10. CASE Evaluate
  <2> DEFINE u == training.step
  <2>1. /\ Working /\ Working' /\ training' = training /\ Position = u /\ Position' = u
        /\ UNCHANGED <<bestInfo, bestModel>> /\ pc = "evaluate" /\ bestInfo # Torn
    BY <1>10 DEF Evaluate, Position, Working, files
  <2>2. /\ best = bestInfo /\ Lawful(training) /\ u > 0
    BY <1>0, <1>10, <2>1, Lawfulness DEF Evaluate, Selecting, Loop, Validating
  <2>3. validated' \subseteq validated \cup {u} /\ (u \in validated' \ validated => Finished(training) \/ Due(training))
    BY <1>10 DEF Evaluate
  <2>4. CASE pc' = "select"
    <3>1. \A n \in Nat : ToPass(n) => ToPass(n)'
      BY <1>0, <1>2, <2>1, <2>4, StillToPass DEF Validating
    <3>2. Milestone(u)
      <4>1. Due(training) /\ ~Finished(training)
        BY <1>10, <2>4 DEF Evaluate
      <4> QED
        BY <1>0, <2>2, <4>1, MilestoneHere
    <3>3. Accounted(u)'
      <4>1. Milestone(u)'
        BY <1>0, <2>1, <3>2 DEF Milestone, Lawful, Sound, Finished
      <4> QED
        BY <2>1, <2>4, <4>1 DEF Accounted, ToPass, Validating
    <3>4. ASSUME NEW n \in validated' \ {0} PROVE Accounted(n)'
      <4>1. CASE n \in validated
        BY <1>1, <2>1, <3>1, <3>4, <4>1
      <4>2. CASE n = u
        <5>1. Milestone(n)'
          BY <1>0, <3>2, <4>2, Fixed
        <5> QED
          BY <2>1, <2>4, <4>2, <5>1 DEF Accounted, ToPass, Validating
      <4> QED
        BY <2>3, <3>4, <4>1, <4>2
    <3> QED
      BY <1>1, <2>1, <3>1, <3>4
  <2>5. CASE pc' = "decide"
    <3>1. Finished(training) \/ ~Due(training) \/ ~Better(u)
      BY <1>10, <2>2, <2>5 DEF Evaluate, Improved, Better
    <3>2. ToPass(u) => ~Better(u)
      BY <1>0, <2>2, <3>1 DEF ToPass, Milestone
    <3>3. ASSUME NEW n \in Nat, ToPass(n), Better(n) PROVE n # u /\ ToPass(n)'
      BY <1>0, <2>1, <3>2, <3>3, Fixed DEF ToPass
    <3>4. Finished(training) => Final(u)
      BY <1>0, <2>2, FinalHere
    <3>5. ASSUME NEW n \in validated' \ {0} PROVE Accounted(n)'
      <4>1. n \in Nat
        BY <1>0, <2>3, <3>5
      <4>2. CASE n \in validated
        <5>1. Accounted(n)
          BY <2>1, <3>5, <4>2 DEF Selected
        <5> QED
          BY <1>0, <2>1, <3>3, <4>1, <5>1, Fixed DEF Accounted, Better
      <4>3. CASE n = u /\ n \notin validated
        <5>1. Final(n) \/ ~Better(n)
          BY <2>3, <3>1, <3>4, <3>5, <4>3
        <5> QED
          BY <1>0, <2>1, <5>1, Fixed DEF Accounted, Better
      <4> QED
        BY <2>3, <3>5, <4>2, <4>3
    <3>6. ModelAccounted'
      <4>1. ModelAccounted
        BY <2>1 DEF Selected
      <4>2. CASE bestModel # None /\ ToPass(bestModel) /\ Better(bestModel)
        <5>1. PICK n \in Nat : n = bestModel
          BY <1>0, <4>2 DEF Updates
        <5>2. n # u /\ Position < n
          BY <2>1, <3>3, <4>2, <5>1 DEF ToPass
        <5>3. Milestone(bestModel)'
          BY <1>0, <2>1, <4>2 DEF ToPass, Milestone, Lawful, Sound, Finished
        <5> QED
          BY <2>1, <4>2, <5>1, <5>2, <5>3 DEF ModelAccounted, ToPass, Better
      <4> QED
        BY <1>0, <2>1, <4>1, <4>2 DEF ModelAccounted
    <3> QED
      BY <3>5, <3>6
  <2> QED
    BY <1>10, <2>4, <2>5 DEF Evaluate
<1>11. CASE SelectBest
  <2>1. /\ Working /\ Working' /\ Position' = Position /\ pc' = "describe"
        /\ bestInfo' = bestInfo /\ bestInfo # Torn /\ validated' = validated
    BY <1>11 DEF SelectBest, Position, Working, memory
  <2>2. \A n \in Nat : ToPass(n) => ToPass(n)'
    BY <1>0, <1>2, <2>1, StillToPass DEF Validating
  <2>3. bestModel' = best' /\ best' = training'.step /\ Milestone(best)' /\ Better(best)'
    BY <1>11, <2>1 DEF SelectBest, Selecting, memory
  <2>4. best' # None
    BY <1>0, <1>11, <2>3, Constants DEF SelectBest, memory
  <2>5. ModelAccounted'
    <3>1. Position' = best' /\ pc' \in Validating
      BY <2>1, <2>3 DEF Position, Validating
    <3>2. Milestone(bestModel)' /\ Better(bestModel)'
      BY <2>3 DEF Milestone, Better, Lawful, Sound, Finished
    <3> QED
      BY <2>3, <2>4, <3>1, <3>2 DEF ModelAccounted, ToPass
  <2> QED
    BY <1>1, <2>1, <2>2, <2>5
<1>12. CASE DescribeBest
  <2>1. /\ Working /\ Working' /\ training' = training /\ Position = training.step
        /\ Position' = training.step /\ pc = "describe" /\ bestInfo' = best
        /\ bestModel' = bestModel /\ validated' = validated /\ shortStops' = shortStops
    BY <1>12 DEF DescribeBest, Position, Working, memory, outside
  <2>2. bestModel = best /\ best = training.step /\ Better(best) /\ bestInfo # Torn
    BY <2>1 DEF Selecting
  <2>3. best \in Updates /\ best # None
    BY <1>0, <2>1, <2>2, Constants DEF Loop, Updates, TypeOK, MemoryTypes, TrainingState
  <2>4. Loss[best] \in Nat /\ bestInfo \in Updates \cup {None}
    BY <1>0, <2>2, <2>3, TrainingRunAssumption DEF TypeOK, FileTypes
  <2>5. ASSUME NEW n \in validated \ {0} PROVE Accounted(n)'
    <3>1. Accounted(n) /\ n \in Nat /\ n \in Updates /\ Loss[n] \in Nat
      BY <1>0, <2>1, <2>2, <2>5, TrainingRunAssumption DEF Selected
    <3>2. CASE ~Better(n)
      <4>1. bestInfo # None /\ ~(Loss[n] < Loss[bestInfo]) /\ Loss[best] < Loss[bestInfo]
        BY <2>2, <3>2 DEF Better
      <4>2. Loss[bestInfo] \in Nat
        BY <2>4, <4>1, TrainingRunAssumption
      <4>3. ~(Loss[n] < Loss[best])
        BY <2>4, <3>1, <4>1, <4>2
      <4> QED
        BY <2>1, <2>3, <4>3 DEF Accounted, Better
    <3>3. CASE n = training.step
      <4>1. ~(Loss[n] < Loss[best])
        BY <2>2, <2>4, <3>3
      <4> QED
        BY <2>1, <2>3, <4>1 DEF Accounted, Better
    <3>4. CASE ToPass(n) /\ n # training.step
      BY <1>0, <2>1, <3>1, <3>4, Fixed DEF Accounted, ToPass
    <3>5. CASE n \in shortStops \/ Final(n)
      BY <1>0, <2>1, <3>5, Fixed DEF Accounted
    <3> QED
      BY <3>1, <3>2, <3>3, <3>4, <3>5 DEF Accounted
  <2> QED
    BY <2>1, <2>2, <2>5 DEF ModelAccounted
<1>13. CASE SaveCheckpoint
  <2>1. /\ Working /\ Position' = Position /\ pc \notin Validating
        /\ UNCHANGED <<bestInfo, bestModel, validated>> /\ bestInfo # Torn
    BY <1>13 DEF SaveCheckpoint, Position, Working, Validating, memory
  <2>2. \A n \in Nat : ToPass(n) => ToPass(n)'
    BY <1>0, <1>2, <2>1, StillToPass
  <2> QED
    BY <1>1, <2>1, <2>2
<1> QED
  BY <1>0, <1>3, <1>4, <1>5, <1>6, <1>7, <1>8, <1>9, <1>10, <1>11, <1>12, <1>13, StepsOfBest

-----------------------------------------------------------------------------
(* Theorems.                                                               *)

LEMMA Invariant == Spec => []IInv
<1>1. Init => IInv
  BY TypeInit, StreamInit, SavedInit DEF IInv, Records
<1>2. IInv /\ [Next]_vars => IInv'
  BY TypeStep, StreamStep, SavedStep DEF IInv, Records
<1> QED
  BY <1>1, <1>2, PTL DEF Spec

\* Every variable keeps its type: no run takes more updates than --steps.
THEOREM TypeCorrect == Spec => []TypeOK
  BY Invariant, PTL DEF IInv

\* In memory and on disk, the weights were trained on exactly the supervised
\* windows before the cursor, each once and in the order of the stream.
THEOREM ContinuesExactly == Spec => []ExactContinuation
<1>1. IInv => ExactContinuation
  BY DEF IInv, Stream, ExactContinuation
<1> QED
  BY <1>1, Invariant, PTL

\* "complete" in status.json means a checkpoint that met the phase's budget.
THEOREM StatusTruthful == Spec => []StatusBehindCheckpoint
  BY Invariant, PTL DEF IInv

\* model.pt holds the weights of the final checkpoint.
THEOREM PublishesFinal == Spec => []PublishedIsFinal
  BY Invariant, PTL DEF IInv

\* The checkpoint only advances along its own stream.
THEOREM Durable == Spec => NeverGoesBack
<1> DEFINE Advances == checkpoint # None => /\ IsPrefix(checkpoint.model, checkpoint'.model)
                                            /\ checkpoint.cursor <= checkpoint'.cursor
<1>1. IInv /\ [Next]_vars => [Advances]_vars
  <2> SUFFICES ASSUME IInv, Next, checkpoint # None PROVE Advances
    BY DEF Advances
  <2>1. checkpoint \in TrainingState
    BY DEF IInv, TypeOK, FileTypes
  <2>2. IsPrefix(checkpoint.model, checkpoint.model) /\ checkpoint.cursor <= checkpoint.cursor
    BY <2>1, PrefixRefl DEF TrainingState
  <2>3. CASE SaveCheckpoint
    BY <2>3 DEF SaveCheckpoint, IInv, Saved, Working, Extends
  <2>4. CASE ~SaveCheckpoint
    <3>1. checkpoint' = checkpoint
      BY <2>4 DEF Next, Trainer, Begin, Resume, Ask, Produce, Fetch, SkipWindow, Update,
        ReserveMet, ReserveShort, Evaluate, SelectBest, DescribeBest, Pause, Proceed,
        ExhaustSteps, Report, Unlink, Publish, RefuseWrite, Crash, RequestPause, files
    <3> QED
      BY <2>2, <3>1
  <2> QED
    BY <2>3, <2>4
<1> QED
  BY <1>1, Invariant, PTL DEF Spec, NeverGoesBack, Advances

\* A pause request goes away only when all work is saved and reported paused.
THEOREM PauseDurable == Spec => PauseKeepsWork
<1> DEFINE Kept == pauseRequest /\ ~pauseRequest' =>
                     checkpoint = training /\ status = [state |-> "paused", step |-> training.step]
<1>1. IInv /\ [Next]_vars => [Kept]_vars
  <2> SUFFICES ASSUME IInv, Next, pauseRequest, ~pauseRequest' PROVE Kept
    BY DEF Kept
  <2>1. Unlink
    BY DEF Next, Trainer, Begin, Resume, Ask, Produce, Fetch, SkipWindow, Update,
      ReserveMet, ReserveShort, Evaluate, SelectBest, DescribeBest, Pause, RequestKept,
      Proceed, ExhaustSteps, SaveCheckpoint, Report, Publish, RefuseWrite, Crash,
      RequestPause, outside
  <2> QED
    BY <2>1 DEF Unlink, IInv, Saved
<1> QED
  BY <1>1, Invariant, PTL DEF Spec, PauseKeepsWork, Kept

\* The inductive invariant of the records.
HistoryInv == Ledgers /\ Milestones /\ Selecting /\ Selected

\* It holds before the phase begins ...
LEMMA HistoryInit == Init => HistoryInv
<1> SUFFICES ASSUME Init PROVE HistoryInv
  OBVIOUS
<1>1. training = Fresh /\ checkpoint = None /\ pc = "down" /\ budget \in Nat \ {0} /\ None # Torn
  BY Constants DEF Init, NoMemory
<1>2. Ledgers
  BY <1>1, FreshSound DEF Ledgers
<1>3. Milestones
  BY <1>1 DEF Milestones, Fresh
<1>4. Selecting
  BY <1>1 DEF Init, Selecting, Working, Validating
<1>5. Selected
  BY <1>1 DEF Selected, Working
<1> QED
  BY <1>2, <1>3, <1>4, <1>5 DEF HistoryInv

\* ... and forever.
LEMMA History == Spec => [](IInv /\ HistoryInv)
<1>1. Init => HistoryInv
  BY HistoryInit
<1>2. IInv /\ HistoryInv /\ [Next]_vars => HistoryInv'
  <2> SUFFICES ASSUME IInv, HistoryInv, [Next]_vars PROVE HistoryInv'
    OBVIOUS
  <2>1. Ledgers' /\ Milestones' /\ Selecting'
    BY LedgersStep, MilestonesStep, SelectingStep DEF HistoryInv
  <2>2. Selected'
    BY <2>1, SelectedStep DEF HistoryInv
  <2> QED
    BY <2>1, <2>2 DEF HistoryInv
<1>3. IInv /\ [Next]_vars => IInv'
  BY TypeStep, StreamStep, SavedStep DEF IInv, Records
<1>4. Init => IInv
  BY TypeInit, StreamInit, SavedInit DEF IInv, Records
<1> QED
  BY <1>1, <1>2, <1>3, <1>4, PTL DEF Spec

\* The token ledger, in memory and on disk, is the sum of the targets of the
\* windows the weights were trained on, across every resume.
THEOREM CountsExactly == Spec => []LedgerExact
<1>1. IInv /\ HistoryInv => LedgerExact
  BY DEF IInv, HistoryInv, Ledgers, Sound, PublishedIsFinal, LedgerExact
<1> QED
  BY <1>1, History, PTL

\* Every crossed milestone of the surviving run was validated, whatever crashes
\* and resumes lie between, unless the device reserve swallowed it.
THEOREM ValidatesMilestones == Spec => []MilestonesValidated
<1>1. IInv /\ HistoryInv => MilestonesValidated
  BY DEF HistoryInv, Milestones, Crossed, MilestonesValidated
<1> QED
  BY <1>1, History, PTL

\* When a phase is over, no validated model improves on the recorded best one,
\* and best-model.pt is that model, unless the device reserve swallowed it.
THEOREM SelectsBest == Spec => []BestSelected
<1>1. IInv /\ HistoryInv => BestSelected
  <2> SUFFICES ASSUME IInv, HistoryInv, modelFile # None, bestInfo # Torn
               PROVE  /\ bestModel = bestInfo \/ bestModel \in shortStops
                      /\ \A n \in validated \ {0} :
                           n < modelFile.step /\ n \notin shortStops =>
                             bestInfo # None /\ Loss[bestInfo] <= Loss[n]
    BY DEF BestSelected
  <2>1. /\ modelFile = checkpoint /\ checkpoint # None /\ Finished(checkpoint)
        /\ checkpoint \in TrainingState /\ Lawful(checkpoint) /\ checkpoint.step \in Nat
    BY Lawfulness, LawfulTypes DEF IInv, PublishedIsFinal, Finished, HistoryInv
  <2>2. Position = checkpoint.step /\ pc \notin Validating
    BY <2>1 DEF IInv, Saved, Position, Validating
  <2>3. (\A n \in validated \ {0} : Accounted(n)) /\ ModelAccounted
    BY <2>1 DEF HistoryInv, Selected
  \* The phase is over: no milestone is left to pass.
  <2>4. ASSUME NEW n \in Nat PROVE ~ToPass(n)
    <3>1. Milestone(n) => ~(checkpoint.step <= n)
      BY <2>1 DEF Milestone
    <3> QED
      BY <2>1, <2>2, <3>1 DEF ToPass
  <2>5. bestModel \in Updates \cup {None} /\ validated \ {0} \subseteq Updates
        /\ bestInfo \in Updates \cup {None}
    <3>1. MaxSteps \in Nat /\ validated \subseteq 0 .. MaxSteps
      BY Constants DEF IInv, TypeOK, FileTypes
    <3>2. validated \ {0} \subseteq Updates
      BY <3>1 DEF Updates
    <3> QED
      BY <3>2 DEF IInv, TypeOK, FileTypes
  <2>6. bestModel = bestInfo \/ bestModel \in shortStops
    <3>1. bestModel # None => bestModel \in Nat
      BY <2>5 DEF Updates
    <3> QED
      BY <2>3, <2>4, <3>1 DEF ModelAccounted
  <2>7. ASSUME NEW n \in validated \ {0}, n < modelFile.step, n \notin shortStops
        PROVE  bestInfo # None /\ Loss[bestInfo] <= Loss[n]
    <3>1. n \in Updates /\ n \in Nat
      BY <2>5 DEF Updates
    <3>2. ~Final(n)
      <4>1. ~(checkpoint.step <= n)
        BY <2>1, <2>7, <3>1
      <4> QED
        BY <2>1, <4>1 DEF Final
    <3>3. ~Better(n)
      BY <2>3, <2>4, <2>7, <3>1, <3>2 DEF Accounted
    <3>4. bestInfo \in Updates /\ ~(Loss[n] < Loss[bestInfo])
      BY <2>5, <3>3 DEF Better
    <3>5. Loss[n] \in Nat /\ Loss[bestInfo] \in Nat
      BY <3>1, <3>4, TrainingRunAssumption
    <3>6. bestInfo # None
      BY <3>3 DEF Better
    <3> QED
      BY <3>4, <3>5, <3>6
  <2> QED
    BY <2>6, <2>7
<1> QED
  BY <1>1, History, PTL

=============================================================================
