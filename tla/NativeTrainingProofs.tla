------------------------ MODULE NativeTrainingProofs ------------------------
(***************************************************************************)
(* Proofs about NativeTraining, for every chain of phases, data set,       *)
(* generator and interval of saving.                                       *)
(*                                                                         *)
(* What an update trains on and leaves is a function of the update before  *)
(* it (Entry), whatever produce_window computes: that is the chain the     *)
(* history `first' is (ChainSound).  The trainer holds the end of a piece  *)
(* of it: its sampler, its counts, the window in hand and the one prepared *)
(* ahead are those that follow its last update (TrainerSound).             *)
(*                                                                         *)
(* So what holds of every update of such a chain holds of the trainer: its *)
(* sampler stands behind the items it chose, each target of a record once  *)
(* in each pass, and each domain with its count of CE (SamplerSound).      *)
(* That is proved along the code: next, next_item, the rows of a window,   *)
(* its loop, an update, the history.                                       *)
(***************************************************************************)
EXTENDS NativeTraining, FiniteSetTheorems, SequenceTheorems, WellFoundedInduction, TLAPS

IsSeq(m) == \E S : m \in Seq(S)

\* Where a trainer stands between two updates.
Place(k, s, l) == [phase |-> k, sampler |-> s, ledger |-> l]

\* The update made from there.
Made(k, s, l) == Produced(k, s, l.phaseTokens)
EntryAt(k, s, l) == Trained(k, Made(k, s, l).sampler, l, Made(k, s, l).window)

\* The sampler a phase begins with after an update of the phase before.
Inherited(k, s, sd) == IF Inherits(k) THEN s ELSE FirstSampler(sd, k)

\* The update after another one.
Entry(e, sd) ==
  IF Finished(e.phase, e.ledger)
  THEN EntryAt(e.phase + 1, Inherited(e.phase + 1, e.sampler, sd), NextLedger(e.ledger))
  ELSE EntryAt(e.phase, e.sampler, e.ledger)

Last(m) == m[Len(m)]
InPhase(k, m) == Len(m) > 0 /\ Last(m).phase = k

\* The sampler and the counts with which phase k goes on from a lineage.
SamplerOf(k, m, sd) ==
  IF InPhase(k, m) THEN Last(m).sampler
  ELSE IF Len(m) = 0 THEN FirstSampler(sd, k) ELSE Inherited(k, Last(m).sampler, sd)
LedgerOf(k, m) ==
  IF InPhase(k, m) THEN Last(m).ledger
  ELSE IF Len(m) = 0 THEN FirstLedger ELSE NextLedger(Last(m).ledger)

\* A lineage that phase k may go on from: it ends in that phase, or with the
\* last update of the phase before.
Reaches(k, m) ==
  \/ InPhase(k, m)
  \/ Len(m) = 0 /\ k = 1
  \/ /\ Len(m) > 0 /\ Last(m).phase + 1 = k
     /\ Finished(Last(m).phase, Last(m).ledger)

OfHistory(m, h) ==
  /\ IsSeq(m) /\ Len(m) <= Len(h)
  /\ \A n \in 1 .. Len(m) : m[n] = h[n]

\* What the loop, or its thread, makes next from a sampler and a token count.
Ahead(p, s, tokens) ==
  IF p.future.state = "done"
  THEN /\ p.future.window = Produced(p.phase, s, tokens).window
       /\ p.future.sampler = Produced(p.phase, s, tokens).sampler
       /\ p.sampler = Produced(p.phase, s, tokens).sampler
       /\ p.producerTokens = tokens + Tokens(p.phase, Produced(p.phase, s, tokens).window)
  ELSE p.sampler = s /\ p.producerTokens = tokens

-----------------------------------------------------------------------------
\* The inductive invariant.

ChainSound(h, sd) ==
  /\ IsSeq(h)
  /\ Len(h) > 0 => h[1] = EntryAt(1, FirstSampler(sd, 1), FirstLedger)
  /\ \A n \in 1 .. Len(h) - 1 : h[n + 1] = Entry(h[n], sd)

CheckpointSound(saved, k, h) ==
  /\ OfHistory(saved.model, h) /\ InPhase(k, saved.model)
  /\ saved.sampler = Last(saved.model).sampler
  /\ saved.ledger = Last(saved.model).ledger

FileSound(f, k, h) ==
  /\ f = [checkpoint |-> f.checkpoint, manifest |-> f.manifest,
          status |-> f.status, evaluation |-> f.evaluation]
  /\ f.checkpoint.written \in BOOLEAN
  /\ f.checkpoint.written => CheckpointSound(f.checkpoint, k, h)
  /\ f.status = Complete => f.checkpoint.written /\ Finished(k, f.checkpoint.ledger)

FilesSound(fs, h) ==
  /\ fs = [k \in Phase |-> fs[k]]
  /\ \A k \in Phase : FileSound(fs[k], k, h)

IsProcess(p) ==
  p = [pc |-> p.pc, phase |-> p.phase, ahead |-> p.ahead, model |-> p.model,
       ledger |-> p.ledger, sampler |-> p.sampler, producerTokens |-> p.producerTokens,
       committed |-> p.committed, future |-> p.future, window |-> p.window,
       pause |-> p.pause, saving |-> p.saving]

\* The window in hand at "update", and where the next one is made from.
HandSound(p, sd) ==
  LET made == Made(p.phase, SamplerOf(p.phase, p.model, sd), p.ledger)
  IN IF p.pc = "update"
     THEN /\ p.window = made.window /\ ~Finished(p.phase, p.ledger)
          /\ Cursor(p) = made.sampler
          /\ Ahead(p, made.sampler, p.ledger.phaseTokens + Tokens(p.phase, made.window))
     ELSE /\ Cursor(p) = SamplerOf(p.phase, p.model, sd)
          /\ Ahead(p, SamplerOf(p.phase, p.model, sd), p.ledger.phaseTokens)

LineageSound(p, h) ==
  /\ p.phase \in Phase
  /\ OfHistory(p.model, h) /\ Reaches(p.phase, p.model)
  /\ p.ledger = LedgerOf(p.phase, p.model)
  /\ p.pc \notin {"loop", "update"} \/ p.pause => InPhase(p.phase, p.model)

TrainerSound(p, h, sd) ==
  /\ IsProcess(p) /\ p.ahead \in BOOLEAN /\ p.pause \in BOOLEAN
  /\ p.ahead => Supported(p.phase)
  /\ ~p.ahead => p.future = NoFuture
  /\ LineageSound(p, h) /\ HandSound(p, sd)

SavingSound(p, f) ==
  /\ p.pc \in {"checkpoint", "manifest", "status"} /\ p.saving.state = Complete =>
       Finished(p.phase, p.ledger)
  /\ p.pc \in {"manifest", "status"} =>
       f.checkpoint.written /\ f.checkpoint.ledger = p.ledger
  /\ f.status = Complete => Finished(p.phase, p.ledger)

ProcessSound ==
  process # None => /\ TrainerSound(process, first, seed)
                    /\ SavingSound(process, files[process.phase])

IInv == ChainSound(first, seed) /\ FilesSound(files, first) /\ ProcessSound

-----------------------------------------------------------------------------
\* Lineages.

LEMMA Appended ==
  ASSUME NEW m, IsSeq(m), NEW e
  PROVE  /\ IsSeq(Append(m, e)) /\ Len(m) \in Nat /\ Len(Append(m, e)) = Len(m) + 1
         /\ \A n \in 1 .. Len(m) : Append(m, e)[n] = m[n]
         /\ Append(m, e)[Len(m) + 1] = e
<1>1. PICK S : m \in Seq(S)
  BY DEF IsSeq
<1>2. m \in Seq(S \cup {e})
  BY <1>1
<1>3. e \in S \cup {e}
  OBVIOUS
<1>4. /\ Append(m, e) \in Seq(S \cup {e}) /\ Len(Append(m, e)) = Len(m) + 1
      /\ \A n \in 1 .. Len(m) : Append(m, e)[n] = m[n]
      /\ Append(m, e)[Len(m) + 1] = e
  BY <1>2, <1>3, AppendProperties
<1> QED BY <1>1, <1>4 DEF IsSeq

LEMMA Lengths == ASSUME NEW m, IsSeq(m) PROVE Len(m) \in Nat
  BY DEF IsSeq

\* The next update of a lineage is the one after its last.
LEMMA NextIs ==
  ASSUME NEW sd, NEW m, IsSeq(m),
         NEW k, Reaches(k, m), InPhase(k, m) => ~Finished(k, LedgerOf(k, m))
  PROVE  EntryAt(k, SamplerOf(k, m, sd), LedgerOf(k, m)) =
           IF Len(m) = 0 THEN EntryAt(1, FirstSampler(sd, 1), FirstLedger) ELSE Entry(Last(m), sd)
<1>1. CASE Len(m) = 0
  BY <1>1 DEF Reaches, InPhase, SamplerOf, LedgerOf
<1>2. CASE Len(m) # 0 /\ InPhase(k, m)
  BY <1>2 DEF Entry, SamplerOf, LedgerOf, InPhase
<1>3. CASE Len(m) # 0 /\ ~InPhase(k, m)
  BY <1>3 DEF Reaches, Entry, SamplerOf, LedgerOf
<1> QED BY <1>1, <1>2, <1>3

\* The history, with the next update of a lineage that it holds.
Extended(h, m, e) == IF Len(Append(m, e)) > Len(h) THEN Append(h, e) ELSE h

LEMMA ChainExtends ==
  ASSUME NEW h, NEW sd, ChainSound(h, sd), NEW m, OfHistory(m, h),
         NEW k, Reaches(k, m), InPhase(k, m) => ~Finished(k, LedgerOf(k, m)),
         NEW e, e = EntryAt(k, SamplerOf(k, m, sd), LedgerOf(k, m))
  PROVE  ChainSound(Extended(h, m, e), sd) /\ OfHistory(Append(m, e), Extended(h, m, e))
<1>1. IsSeq(m) /\ IsSeq(h) /\ Len(m) \in Nat /\ Len(h) \in Nat /\ Len(m) <= Len(h)
  BY Lengths DEF OfHistory, ChainSound
<1>2. e = IF Len(m) = 0 THEN EntryAt(1, FirstSampler(sd, 1), FirstLedger) ELSE Entry(Last(m), sd)
  BY <1>1, NextIs
<1>3. Len(m) # 0 => Last(m) = h[Len(m)]
  BY <1>1 DEF OfHistory, Last
<1>4. CASE Len(m) < Len(h)
  <2>1. Extended(h, m, e) = h
    BY <1>1, <1>4, Appended DEF Extended
  <2>2. h[Len(m) + 1] = e
    BY <1>1, <1>2, <1>3, <1>4 DEF ChainSound
  <2>3. OfHistory(Append(m, e), h)
    BY <1>1, <1>4, <2>2, Appended DEF OfHistory
  <2> QED BY <2>1, <2>3
<1>5. CASE Len(m) = Len(h)
  <2>1. Extended(h, m, e) = Append(h, e)
    BY <1>1, <1>5, Appended DEF Extended
  <2>2. /\ IsSeq(Append(h, e)) /\ Len(Append(h, e)) = Len(h) + 1
        /\ Append(h, e)[Len(h) + 1] = e
        /\ \A n \in 1 .. Len(h) : Append(h, e)[n] = h[n]
    BY <1>1, Appended
  <2>3. Append(h, e)[1] = EntryAt(1, FirstSampler(sd, 1), FirstLedger)
    BY <1>1, <1>2, <1>5, <2>2 DEF ChainSound
  <2>4. ASSUME NEW n \in 1 .. Len(Append(h, e)) - 1
        PROVE  Append(h, e)[n + 1] = Entry(Append(h, e)[n], sd)
    <3>1. CASE n < Len(h)
      BY <1>1, <2>2, <3>1 DEF ChainSound
    <3>2. CASE n = Len(h)
      BY <1>1, <1>2, <1>3, <1>5, <2>2, <3>2
    <3> QED BY <1>1, <2>2, <3>1, <3>2
  <2>5. ChainSound(Append(h, e), sd)
    BY <2>2, <2>3, <2>4 DEF ChainSound
  <2>6. OfHistory(Append(m, e), Append(h, e))
    BY <1>1, <1>5, <2>2, Appended DEF OfHistory
  <2> QED BY <2>1, <2>5, <2>6
<1> QED BY <1>1, <1>4, <1>5

\* The history only grows.
LEMMA Grows ==
  ASSUME NEW h, IsSeq(h), NEW e, NEW m, OfHistory(m, h)
  PROVE  OfHistory(m, Append(h, e))
<1>1. Len(m) \in Nat
  BY Lengths DEF OfHistory
<1> QED BY <1>1, Appended DEF OfHistory

\* A phase that is not finished at its start has made an update once it is.
LEMMA FinishedInPhase ==
  ASSUME NEW k \in Phase, NEW m, Reaches(k, m), Finished(k, LedgerOf(k, m))
  PROVE  InPhase(k, m)
<1> SUFFICES ASSUME ~InPhase(k, m) PROVE FALSE
  OBVIOUS
<1>1. LedgerOf(k, m).phaseTokens = 0
  BY DEF LedgerOf, FirstLedger, NextLedger
<1>2. Budget[k] \in Nat \ {0}
  BY NativeAssumption
<1> QED BY <1>1, <1>2 DEF Finished

-----------------------------------------------------------------------------
\* The trainer.

LEMMA BegunSound ==
  ASSUME NEW h, NEW sd, NEW k \in Phase, NEW ahead \in BOOLEAN, ahead => Supported(k),
         NEW m, OfHistory(m, h), Reaches(k, m),
         NEW s, s = SamplerOf(k, m, sd), NEW l, l = LedgerOf(k, m)
  PROVE  TrainerSound(Begun(k, ahead, m, s, l), h, sd)
<1> DEFINE p == Begun(k, ahead, m, s, l)
<1>1. /\ p.pc = "loop" /\ p.phase = k /\ p.ahead = ahead /\ p.model = m /\ p.ledger = l
      /\ p.sampler = s /\ p.producerTokens = l.phaseTokens /\ p.committed = s
      /\ p.future = NoFuture /\ p.pause = FALSE /\ IsProcess(p)
  BY DEF Begun, IsProcess
<1>2. p.future.state # "done"
  BY <1>1 DEF NoFuture
<1> HIDE DEF p
<1>3. HandSound(p, sd)
  BY <1>1, <1>2 DEF HandSound, Cursor, Ahead
<1>4. LineageSound(p, h)
  BY <1>1 DEF LineageSound
<1> QED BY <1>1, <1>3, <1>4 DEF TrainerSound, p

\* q is p elsewhere in the code, with the same training and lookahead.
Agree(p, q) ==
  /\ IsProcess(q) /\ q.phase = p.phase /\ q.ahead = p.ahead /\ q.model = p.model
  /\ q.ledger = p.ledger /\ q.sampler = p.sampler /\ q.producerTokens = p.producerTokens
  /\ q.committed = p.committed /\ q.future = p.future

LEMMA Moves ==
  ASSUME NEW h, NEW sd, NEW p, TrainerSound(p, h, sd), p.pc # "update",
         NEW q, Agree(p, q), q.pc # "update", q.pause \in BOOLEAN,
         q.pc # "loop" \/ q.pause => InPhase(p.phase, p.model)
  PROVE  TrainerSound(q, h, sd)
<1>1. HandSound(q, sd)
  BY DEF TrainerSound, HandSound, Agree, Cursor, Ahead
<1>2. LineageSound(q, h)
  BY DEF TrainerSound, LineageSound, Agree
<1> QED BY <1>1, <1>2 DEF TrainerSound, Agree

\* A window is made where the lineage stands, and the next where that ends.
LEMMA Fetched ==
  ASSUME NEW h, NEW sd, NEW p, TrainerSound(p, h, sd), p.pc = "loop", ~p.ahead,
         ~Finished(p.phase, p.ledger), NEW q, IsProcess(q),
         q = [AfterWindow(p, Produced(p.phase, p.sampler, p.producerTokens)) EXCEPT
                !.window = Produced(p.phase, p.sampler, p.producerTokens).window,
                !.pc = "update"]
  PROVE  TrainerSound(q, h, sd)
<1> DEFINE made == Produced(p.phase, p.sampler, p.producerTokens)
           tokens == p.producerTokens + Tokens(p.phase, made.window)
<1>1. IsProcess(p)
  BY DEF TrainerSound
<1>2. /\ q.pc = "update" /\ q.phase = p.phase /\ q.ahead = p.ahead /\ q.model = p.model
      /\ q.ledger = p.ledger /\ q.future = p.future /\ q.pause = p.pause
      /\ q.window = made.window /\ q.sampler = made.sampler /\ q.producerTokens = tokens
  BY <1>1 DEF AfterWindow, IsProcess
<1>3. p.future.state # "done"
  BY DEF TrainerSound, NoFuture
<1>4. p.sampler = SamplerOf(p.phase, p.model, sd) /\ p.producerTokens = p.ledger.phaseTokens
  BY <1>3 DEF TrainerSound, HandSound, Ahead
<1>5. made = Made(p.phase, SamplerOf(p.phase, p.model, sd), p.ledger)
  BY <1>4 DEF Made
<1> HIDE DEF made, tokens
<1>6. HandSound(q, sd)
  BY <1>2, <1>3, <1>4, <1>5 DEF HandSound, Cursor, Ahead, tokens
<1>7. LineageSound(q, h)
  BY <1>2 DEF TrainerSound, LineageSound
<1> QED BY <1>2, <1>6, <1>7 DEF TrainerSound

LEMMA Submitted ==
  ASSUME NEW h, NEW sd, NEW p, TrainerSound(p, h, sd), p.pc = "loop", p.ahead,
         p.future = NoFuture, NEW q, q = [p EXCEPT !.future = Running]
  PROVE  TrainerSound(q, h, sd)
<1>1. /\ IsProcess(q) /\ q.pc = p.pc /\ q.phase = p.phase /\ q.ahead = p.ahead
      /\ q.model = p.model /\ q.ledger = p.ledger /\ q.sampler = p.sampler
      /\ q.producerTokens = p.producerTokens /\ q.committed = p.committed
      /\ q.pause = p.pause /\ q.future = Running
  BY DEF TrainerSound, IsProcess
<1>2. p.future.state # "done" /\ q.future.state # "done"
  BY <1>1 DEF NoFuture, Running
<1>3. HandSound(q, sd)
  BY <1>1, <1>2 DEF TrainerSound, HandSound, Cursor, Ahead
<1>4. LineageSound(q, h)
  BY <1>1 DEF TrainerSound, LineageSound
<1> QED BY <1>1, <1>3, <1>4 DEF TrainerSound

\* The thread makes what the loop would make, wherever the trainer stands.
LEMMA ProducedAhead ==
  ASSUME NEW h, NEW sd, NEW p, TrainerSound(p, h, sd), p.future = Running, NEW q,
         q = [AfterWindow(p, Produced(p.phase, p.sampler, p.producerTokens)) EXCEPT !.future =
                [state |-> "done",
                 window |-> Produced(p.phase, p.sampler, p.producerTokens).window,
                 sampler |-> Produced(p.phase, p.sampler, p.producerTokens).sampler]]
  PROVE  TrainerSound(q, h, sd)
<1> DEFINE made == Produced(p.phase, p.sampler, p.producerTokens)
           tokens == p.producerTokens + Tokens(p.phase, made.window)
<1>1. IsProcess(p) /\ p.ahead
  BY DEF TrainerSound, NoFuture, Running
<1>2. /\ IsProcess(q) /\ q.pc = p.pc /\ q.phase = p.phase /\ q.ahead = p.ahead
      /\ q.model = p.model /\ q.ledger = p.ledger /\ q.committed = p.committed
      /\ q.pause = p.pause /\ q.window = p.window /\ q.sampler = made.sampler
      /\ q.producerTokens = tokens /\ q.future.state = "done"
      /\ q.future.window = made.window /\ q.future.sampler = made.sampler
  BY <1>1 DEF AfterWindow, IsProcess
<1>3. p.future.state # "done"
  BY DEF Running
<1>4. \A s, t : Ahead(p, s, t) => Ahead(q, s, t)
  <2> SUFFICES ASSUME NEW s, NEW t, Ahead(p, s, t) PROVE Ahead(q, s, t)
    OBVIOUS
  <2>1. p.sampler = s /\ p.producerTokens = t
    BY <1>3 DEF Ahead
  <2>2. made = Produced(q.phase, s, t) /\ tokens = t + Tokens(q.phase, made.window)
    BY <1>2, <2>1
  <2> HIDE DEF made, tokens
  <2> QED BY <1>2, <2>2 DEF Ahead
<1> HIDE DEF made, tokens
<1>5. Cursor(q) = Cursor(p)
  BY <1>1, <1>2 DEF Cursor
<1>6. HandSound(q, sd)
  BY <1>2, <1>4, <1>5 DEF TrainerSound, HandSound
<1>7. LineageSound(q, h)
  BY <1>2 DEF TrainerSound, LineageSound
<1> QED BY <1>1, <1>2, <1>6, <1>7 DEF TrainerSound

LEMMA Taken ==
  ASSUME NEW h, NEW sd, NEW p, TrainerSound(p, h, sd), p.pc = "loop",
         ~Finished(p.phase, p.ledger), p.future.state = "done", NEW q,
         q = [p EXCEPT !.window = p.future.window, !.committed = p.future.sampler,
                !.future = Running, !.pc = "update"]
  PROVE  TrainerSound(q, h, sd)
<1> DEFINE made == Made(p.phase, SamplerOf(p.phase, p.model, sd), p.ledger)
<1>1. p.ahead
  BY DEF TrainerSound, NoFuture
<1>2. /\ IsProcess(q) /\ q.pc = "update" /\ q.phase = p.phase /\ q.ahead = p.ahead
      /\ q.model = p.model /\ q.ledger = p.ledger /\ q.sampler = p.sampler
      /\ q.producerTokens = p.producerTokens /\ q.pause = p.pause
      /\ q.window = p.future.window /\ q.committed = p.future.sampler
      /\ q.future = Running
  BY DEF TrainerSound, IsProcess
<1>3. q.future.state # "done"
  BY <1>2 DEF Running
<1>4. /\ p.future.window = made.window /\ p.future.sampler = made.sampler
      /\ p.sampler = made.sampler
      /\ p.producerTokens = p.ledger.phaseTokens + Tokens(p.phase, made.window)
  BY DEF TrainerSound, HandSound, Ahead, Made
<1> HIDE DEF made
<1>5. HandSound(q, sd)
  BY <1>1, <1>2, <1>3, <1>4 DEF HandSound, Cursor, Ahead, made
<1>6. LineageSound(q, h)
  BY <1>2 DEF TrainerSound, LineageSound
<1> QED BY <1>1, <1>2, <1>5, <1>6 DEF TrainerSound

\* After the update the trainer stands at the end of the longer lineage.
LEMMA Updated ==
  ASSUME NEW h, NEW sd, ChainSound(h, sd), NEW p, TrainerSound(p, h, sd), p.pc = "update",
         NEW e, e = Trained(p.phase, Cursor(p), p.ledger, p.window), NEW q,
         q = [p EXCEPT !.model = Append(p.model, e), !.ledger = e.ledger, !.window = None,
                !.sampler = IF p.ahead THEN p.sampler ELSE e.sampler, !.pc = "decide"]
  PROVE  /\ ChainSound(Extended(h, p.model, e), sd)
         /\ TrainerSound(q, Extended(h, p.model, e), sd)
<1> DEFINE made == Made(p.phase, SamplerOf(p.phase, p.model, sd), p.ledger)
           tokens == p.ledger.phaseTokens + Tokens(p.phase, made.window)
<1>1. /\ IsProcess(q) /\ q.pc = "decide" /\ q.phase = p.phase /\ q.ahead = p.ahead
      /\ q.model = Append(p.model, e) /\ q.ledger = e.ledger /\ q.future = p.future
      /\ q.producerTokens = p.producerTokens /\ q.committed = p.committed
      /\ q.sampler = (IF p.ahead THEN p.sampler ELSE e.sampler) /\ q.pause = p.pause
  BY DEF TrainerSound, IsProcess
<1>2. /\ p.window = made.window /\ Cursor(p) = made.sampler
      /\ Ahead(p, made.sampler, tokens) /\ ~Finished(p.phase, p.ledger)
  BY DEF TrainerSound, HandSound
<1>3. e = EntryAt(p.phase, SamplerOf(p.phase, p.model, sd), p.ledger)
  BY <1>2 DEF EntryAt
<1>4. /\ e.phase = p.phase /\ e.sampler = Drawn(p.phase, made.window, made.sampler)
      /\ e.ledger.phaseTokens = tokens
  BY <1>2 DEF Trained, Counted
<1> HIDE DEF made, tokens
<1>5. ChainSound(Extended(h, p.model, e), sd) /\ OfHistory(q.model, Extended(h, p.model, e))
  BY <1>1, <1>2, <1>3, ChainExtends DEF TrainerSound, LineageSound
<1>6. InPhase(q.phase, q.model) /\ Last(q.model) = e /\ Len(q.model) > 0
  BY <1>1, <1>4, Appended DEF TrainerSound, LineageSound, OfHistory, InPhase, Last
<1>7. SamplerOf(q.phase, q.model, sd) = e.sampler /\ LedgerOf(q.phase, q.model) = e.ledger
  BY <1>6 DEF SamplerOf, LedgerOf
<1>8. LineageSound(q, Extended(h, p.model, e))
  BY <1>1, <1>5, <1>6, <1>7 DEF TrainerSound, LineageSound, Reaches
<1>9. HandSound(q, sd)
  <2>1. CASE p.ahead
    <3>1. e.sampler = made.sampler
      BY <1>4, <2>1 DEF TrainerSound, Supported, Drawn
    <3>2. Ahead(q, made.sampler, tokens)
      BY <1>1, <1>2, <2>1 DEF Ahead
    <3>3. Cursor(q) = made.sampler
      BY <1>1, <1>2, <2>1 DEF Cursor
    <3> QED BY <1>1, <1>4, <1>7, <3>1, <3>2, <3>3 DEF HandSound
  <2>2. CASE ~p.ahead
    <3>1. p.future.state # "done"
      BY <2>2 DEF TrainerSound, NoFuture
    <3>2. p.producerTokens = tokens
      BY <1>2, <3>1 DEF Ahead
    <3>3. Ahead(q, e.sampler, tokens) /\ Cursor(q) = e.sampler
      BY <1>1, <2>2, <3>1, <3>2 DEF Ahead, Cursor
    <3> QED BY <1>1, <1>4, <1>7, <3>3 DEF HandSound
  <2> QED BY <2>1, <2>2
<1> QED BY <1>1, <1>5, <1>8, <1>9 DEF TrainerSound

-----------------------------------------------------------------------------
\* The files.

LEMMA FilesGrow ==
  ASSUME NEW h, IsSeq(h), NEW fs, FilesSound(fs, h), NEW m, NEW e
  PROVE  FilesSound(fs, Extended(h, m, e))
<1>1. \A n : OfHistory(n, h) => OfHistory(n, Extended(h, m, e))
  BY Grows DEF Extended
<1> QED BY <1>1 DEF FilesSound, FileSound, CheckpointSound

LEMMA FileReplaced ==
  ASSUME NEW h, NEW fs, FilesSound(fs, h), NEW k \in Phase, NEW f, FileSound(f, k, h)
  PROVE  FilesSound([fs EXCEPT ![k] = f], h) /\ [fs EXCEPT ![k] = f][k] = f
  BY DEF FilesSound

-----------------------------------------------------------------------------
\* The invariant is inductive.

LEMMA InitSound == Init => IInv
<1> SUFFICES ASSUME Init PROVE IInv
  OBVIOUS
<1>1. ChainSound(first, seed)
  <2>1. first \in Seq({}) /\ Len(first) = 0
    BY DEF Init
  <2> QED BY <2>1 DEF ChainSound, IsSeq
<1>2. FilesSound(files, first)
  BY DEF Init, FilesSound, FileSound, NoFiles, NoCheckpoint, Complete
<1>3. ProcessSound
  BY DEF Init, ProcessSound
<1> QED BY <1>1, <1>2, <1>3 DEF IInv

LEMMA StartSound ==
  ASSUME IInv, NEW k \in Phase, NEW ahead \in BOOLEAN, Start(k, ahead)
  PROVE  IInv'
<1>1. UNCHANGED <<seed, files, first>> /\ process' = Initialized(k, ahead)
  BY DEF Start
<1>2. files[k].status # Complete
  BY DEF Start, IInv, FilesSound, FileSound, Exists
<1>3. TrainerSound(process', first, seed) /\ process'.phase = k /\ process'.pc = "loop"
  <2>1. CASE k = 1
    <3>1. process' = Begun(k, ahead, <<>>, FirstSampler(seed, k), FirstLedger)
      BY <1>1, <2>1 DEF Initialized
    <3>2. OfHistory(<<>>, first) /\ Reaches(k, <<>>)
      <4>1. <<>> \in Seq({}) /\ Len(<<>>) = 0
        OBVIOUS
      <4>2. Len(first) \in Nat
        BY Lengths DEF IInv, ChainSound
      <4> QED BY <2>1, <4>1, <4>2 DEF OfHistory, IsSeq, Reaches
    <3>3. FirstSampler(seed, k) = SamplerOf(k, <<>>, seed) /\ FirstLedger = LedgerOf(k, <<>>)
      BY DEF SamplerOf, LedgerOf, InPhase
    <3> QED BY <3>1, <3>2, <3>3, BegunSound DEF Start, Begun
  <2>2. CASE k # 1
    <3> DEFINE saved == files[k - 1].checkpoint
    <3>1. process' = Begun(k, ahead, saved.model, Inherited(k, saved.sampler, seed),
                           NextLedger(saved.ledger))
      BY <1>1, <2>2 DEF Initialized, Inherited
    <3>2. k - 1 \in Phase
      BY <2>2, NativeAssumption DEF Phase
    <3>3. CheckpointSound(saved, k - 1, first) /\ Finished(k - 1, saved.ledger)
      BY <2>2, <3>2, NativeAssumption DEF Start, IInv, FilesSound, FileSound, Phase
    <3> HIDE DEF saved
    <3>4. k - 1 # k /\ k - 1 + 1 = k
      BY NativeAssumption DEF Phase
    <3>5. /\ OfHistory(saved.model, first) /\ Reaches(k, saved.model)
          /\ Inherited(k, saved.sampler, seed) = SamplerOf(k, saved.model, seed)
          /\ NextLedger(saved.ledger) = LedgerOf(k, saved.model)
      <4>1. Len(saved.model) > 0 /\ Len(saved.model) # 0
        BY <3>3, Lengths DEF CheckpointSound, InPhase, OfHistory
      <4> QED BY <3>3, <3>4, <4>1 DEF CheckpointSound, InPhase, Reaches, SamplerOf, LedgerOf
    <3> QED BY <3>1, <3>5, BegunSound DEF Start, Begun
  <2> QED BY <2>1, <2>2
<1>4. ProcessSound'
  BY <1>1, <1>2, <1>3 DEF ProcessSound, SavingSound
<1> QED BY <1>1, <1>4 DEF IInv

LEMMA ResumeSound ==
  ASSUME IInv, NEW k \in Phase, NEW ahead \in BOOLEAN, Resume(k, ahead)
  PROVE  IInv'
<1> DEFINE saved == files[k].checkpoint
<1>1. /\ UNCHANGED <<seed, files, first>>
      /\ ahead => Supported(k)
      /\ process' = Begun(k, ahead, saved.model, saved.sampler, saved.ledger)
  BY DEF Resume
<1>2. CheckpointSound(saved, k, first) /\ (files[k].status = Complete => Finished(k, saved.ledger))
  BY DEF Resume, IInv, FilesSound, FileSound, Exists
<1> HIDE DEF saved
<1>3. /\ OfHistory(saved.model, first) /\ Reaches(k, saved.model)
      /\ saved.sampler = SamplerOf(k, saved.model, seed)
      /\ saved.ledger = LedgerOf(k, saved.model)
  BY <1>2 DEF CheckpointSound, InPhase, Reaches, SamplerOf, LedgerOf
<1>4. /\ TrainerSound(process', first, seed) /\ process'.phase = k /\ process'.pc = "loop"
      /\ process'.ledger = saved.ledger
  BY <1>1, <1>3, BegunSound DEF Begun
<1>5. SavingSound(process', files[process'.phase])
  BY <1>2, <1>4 DEF SavingSound
<1>6. ProcessSound'
  BY <1>1, <1>4, <1>5 DEF ProcessSound
<1> QED BY <1>1, <1>6 DEF IInv

\* A step of the loop or its thread that is not followed by a save.
LEMMA Sampled ==
  ASSUME IInv, process # None, Fetch \/ Submit \/ Produce \/ Take
  PROVE  IInv'
<1>1. UNCHANGED <<seed, files, first>>
  BY DEF Fetch, Submit, Produce, Take
<1>2. /\ TrainerSound(process, first, seed) /\ SavingSound(process, files[process.phase])
      /\ IsProcess(process)
  BY DEF IInv, ProcessSound, TrainerSound
<1>3. /\ TrainerSound(process', first, seed)
      /\ process'.phase = process.phase /\ process'.ledger = process.ledger
      /\ process'.pc = "update" \/ process'.pc = process.pc
      /\ process'.saving = process.saving
  <2>1. CASE Fetch
    <3>1. /\ process'.phase = process.phase /\ process'.ledger = process.ledger
          /\ process'.pc = "update" /\ process'.saving = process.saving /\ IsProcess(process')
      BY <1>2, <2>1 DEF Fetch, AfterWindow, IsProcess
    <3> QED BY <1>2, <2>1, <3>1, Fetched DEF Fetch, Ready, At
  <2>2. CASE Submit
    <3>1. /\ process'.phase = process.phase /\ process'.ledger = process.ledger
          /\ process'.pc = process.pc /\ process'.saving = process.saving
      BY <1>2, <2>2 DEF Submit, IsProcess
    <3> QED BY <1>2, <2>2, <3>1, Submitted DEF Submit, Ready, At
  <2>3. CASE Produce
    <3>1. /\ process'.phase = process.phase /\ process'.ledger = process.ledger
          /\ process'.pc = process.pc /\ process'.saving = process.saving
      BY <1>2, <2>3 DEF Produce, AfterWindow, IsProcess
    <3> QED BY <1>2, <2>3, <3>1, ProducedAhead DEF Produce
  <2>4. CASE Take
    <3>1. /\ process'.phase = process.phase /\ process'.ledger = process.ledger
          /\ process'.pc = "update" /\ process'.saving = process.saving
      BY <1>2, <2>4 DEF Take, IsProcess
    <3> QED BY <1>2, <2>4, <3>1, Taken DEF Take, Ready, At
  <2> QED BY <2>1, <2>2, <2>3, <2>4
<1>4. SavingSound(process', files[process'.phase])
  BY <1>2, <1>3 DEF SavingSound
<1>5. ProcessSound'
  BY <1>1, <1>3, <1>4 DEF ProcessSound
<1> QED BY <1>1, <1>5 DEF IInv

LEMMA UpdateSound == ASSUME IInv, Update PROVE IInv'
<1> DEFINE e == Trained(process.phase, Cursor(process), process.ledger, process.window)
<1>1. /\ UNCHANGED <<seed, files>> /\ process # None /\ process.pc = "update"
      /\ first' = Extended(first, process.model, e)
      /\ process' = [process EXCEPT !.model = Append(process.model, e), !.ledger = e.ledger,
                       !.window = None, !.pc = "decide",
                       !.sampler = IF process.ahead THEN process.sampler ELSE e.sampler]
  BY DEF Update, At, Extended
<1>2. /\ TrainerSound(process, first, seed) /\ SavingSound(process, files[process.phase])
      /\ IsProcess(process) /\ ~Finished(process.phase, process.ledger)
  BY <1>1 DEF IInv, ProcessSound, TrainerSound, HandSound
<1> HIDE DEF e
<1>3. ChainSound(first', seed) /\ TrainerSound(process', first', seed)
  BY <1>1, <1>2, Updated DEF IInv, e
<1>4. process'.phase = process.phase /\ process'.pc = "decide"
  BY <1>1, <1>2 DEF IsProcess
<1>5. SavingSound(process', files[process'.phase])
  BY <1>2, <1>4 DEF SavingSound
<1>6. FilesSound(files, first')
  BY <1>1, FilesGrow DEF IInv, ChainSound
<1> QED BY <1>1, <1>3, <1>5, <1>6 DEF IInv, ProcessSound

\* A step that moves the trainer elsewhere in the code, and writes no file.
LEMMA Moved ==
  ASSUME IInv, process # None, process.pc # "update", UNCHANGED <<seed, files, first>>,
         Agree(process, process'), process'.pc # "update", process'.pause \in BOOLEAN,
         process'.pc # "loop" \/ process'.pause => InPhase(process.phase, process.model),
         process'.pc \notin {"manifest", "status"},
         process'.pc = "checkpoint" /\ process'.saving.state = Complete =>
           Finished(process.phase, process.ledger)
  PROVE  IInv'
<1>1. TrainerSound(process, first, seed) /\ SavingSound(process, files[process.phase])
  BY DEF IInv, ProcessSound
<1>2. TrainerSound(process', first, seed)
  BY <1>1, Moves
<1>3. SavingSound(process', files[process'.phase])
  BY <1>1 DEF SavingSound, Agree
<1> QED BY <1>2, <1>3 DEF IInv, ProcessSound

LEMMA LoopSound ==
  ASSUME IInv, Decide \/ MemoryLimit \/ Leave \/ Unlink
  PROVE  IInv'
<1>1. /\ UNCHANGED <<seed, files, first>> /\ process # None
      /\ process.pc \in {"decide", "loop", "unlink"}
  BY DEF Decide, MemoryLimit, Leave, Unlink, At
<1>2. /\ IsProcess(process) /\ process.pause \in BOOLEAN
      /\ process.pc # "loop" \/ process.pause => InPhase(process.phase, process.model)
      /\ process.phase \in Phase /\ Reaches(process.phase, process.model)
      /\ process.ledger = LedgerOf(process.phase, process.model)
  BY <1>1 DEF IInv, ProcessSound, TrainerSound, LineageSound
<1>3. CASE Decide
  <2> DEFINE pause == process.phase \in pauseRequest
  <2>1. /\ Agree(process, process') /\ process'.pause = pause
        /\ process'.pc \in {"loop", "checkpoint"}
        /\ process'.pc = "checkpoint" => process'.saving.state # Complete
    BY <1>2, <1>3 DEF Decide, Saving, Agree, IsProcess, Complete
  <2>2. process'.pause \in BOOLEAN
    BY <2>1
  <2>3. InPhase(process.phase, process.model)
    BY <1>2, <1>3 DEF Decide, At
  <2> QED BY <1>1, <2>1, <2>2, <2>3, Moved
<1>4. CASE MemoryLimit
  <2>1. /\ Agree(process, process') /\ process'.pause = process.pause
        /\ process'.pc = "checkpoint" /\ process'.saving.state # Complete
    BY <1>2, <1>4 DEF MemoryLimit, Saving, Agree, IsProcess, Complete
  <2>2. InPhase(process.phase, process.model)
    BY <1>2, <1>4 DEF MemoryLimit, At
  <2> QED BY <1>1, <1>2, <2>1, <2>2, Moved
<1>5. CASE Leave
  <2>1. /\ Agree(process, process') /\ process'.pause = process.pause
        /\ process'.pc = "checkpoint"
        /\ process'.saving.state = Complete => Finished(process.phase, process.ledger)
    <3>1. CASE Finished(process.phase, process.ledger)
      BY <1>2, <1>5, <3>1 DEF Leave, Saving, Agree, IsProcess
    <3>2. CASE ~Finished(process.phase, process.ledger)
      <4>1. process' = Saving(process, "paused", TRUE)
        BY <1>5, <3>2 DEF Leave
      <4>2. process'.saving.state = "paused"
        BY <1>2, <4>1 DEF Saving, IsProcess
      <4> QED BY <1>2, <4>1, <4>2 DEF Saving, Agree, IsProcess, Complete
    <3> QED BY <3>1, <3>2
  <2>2. InPhase(process.phase, process.model)
    <3>1. process.pause \/ Finished(process.phase, process.ledger)
      BY <1>5 DEF Leave
    <3> QED BY <1>2, <3>1, FinishedInPhase
  <2> QED BY <1>1, <1>2, <2>1, <2>2, Moved
<1>6. CASE Unlink
  <2>1. Agree(process, process') /\ process'.pause = process.pause /\ process'.pc = "loop"
    BY <1>2, <1>6 DEF Unlink, Agree, IsProcess
  <2>2. InPhase(process.phase, process.model)
    BY <1>2, <1>6 DEF Unlink, At
  <2> QED BY <1>1, <1>2, <2>1, <2>2, Moved
<1> QED BY <1>3, <1>4, <1>5, <1>6

LEMMA SaveSound ==
  ASSUME IInv, SaveCheckpoint \/ SaveManifest \/ SaveStatus \/ Evaluate
  PROVE  IInv'
<1> DEFINE k == process.phase
           f == files[k]
<1>1. /\ UNCHANGED <<seed, first>> /\ process # None
      /\ process.pc \in {"checkpoint", "manifest", "status", "evaluate"}
  BY DEF SaveCheckpoint, SaveManifest, SaveStatus, Evaluate, At
<1>2. /\ TrainerSound(process, first, seed) /\ SavingSound(process, f)
      /\ IsProcess(process) /\ process.pause \in BOOLEAN /\ k \in Phase
      /\ InPhase(k, process.model) /\ OfHistory(process.model, first)
      /\ process.ledger = LedgerOf(k, process.model)
  BY <1>1 DEF IInv, ProcessSound, TrainerSound, LineageSound
<1>3. FileSound(f, k, first) /\ k \in DOMAIN files
  BY <1>2 DEF IInv, FilesSound
<1>4. \A g : /\ files' = [files EXCEPT ![k] = g]
             /\ FileSound(g, k, first)
             /\ Agree(process, process') /\ process'.pause = process.pause
             /\ process'.pc # "update"
             /\ SavingSound(process', g)
             => IInv'
  <2> SUFFICES ASSUME NEW g, files' = [files EXCEPT ![k] = g], FileSound(g, k, first),
                      Agree(process, process'), process'.pause = process.pause,
                      process'.pc # "update", SavingSound(process', g)
               PROVE  IInv'
    OBVIOUS
  <2>0. FilesSound(files, first) /\ k \in Phase
    BY <1>2 DEF IInv
  <2> HIDE DEF k
  <2>1. FilesSound([files EXCEPT ![k] = g], first) /\ [files EXCEPT ![k] = g][k] = g
    BY <2>0, FileReplaced
  <2>3. process'.phase = k
    BY DEF Agree, k
  <2>2. TrainerSound(process', first, seed)
    BY <1>1, <1>2, Moves DEF k
  <2>4. FilesSound(files', first) /\ SavingSound(process', files'[process'.phase])
    BY <2>1, <2>3
  <2> QED BY <1>1, <2>2, <2>4 DEF IInv, ProcessSound
<1>5. CASE SaveCheckpoint
  <2> DEFINE saved == [written |-> TRUE, model |-> process.model, sampler |-> Cursor(process),
                       ledger |-> process.ledger]
             g == [f EXCEPT !.checkpoint = saved]
  <2>1. files' = [files EXCEPT ![k] = g]
    BY <1>5 DEF SaveCheckpoint
  <2>2. /\ Agree(process, process') /\ process'.pause = process.pause
        /\ process'.pc = "manifest" /\ process'.saving = process.saving
    BY <1>2, <1>5 DEF SaveCheckpoint, Agree, IsProcess
  <2> HIDE DEF saved
  <2>3. g.checkpoint = saved /\ g.status = f.status
        /\ g = [checkpoint |-> g.checkpoint, manifest |-> g.manifest,
                status |-> g.status, evaluation |-> g.evaluation]
    BY <1>3 DEF FileSound
  <2>4. /\ CheckpointSound(saved, k, first) /\ saved.written = TRUE
        /\ saved.ledger = process.ledger
    <3>0. /\ saved.model = process.model /\ saved.sampler = Cursor(process)
          /\ saved.written = TRUE /\ saved.ledger = process.ledger
      BY DEF saved
    <3>1. saved.sampler = SamplerOf(k, process.model, seed)
      BY <1>2, <1>5, <3>0 DEF SaveCheckpoint, At, TrainerSound, HandSound
    <3>2. Len(process.model) # 0
      BY <1>2, Lengths DEF InPhase, OfHistory
    <3> QED BY <1>2, <3>0, <3>1, <3>2 DEF CheckpointSound, InPhase, SamplerOf, LedgerOf
  <2> HIDE DEF g
  <2>5. FileSound(g, k, first)
    BY <1>2, <2>3, <2>4 DEF FileSound, SavingSound
  <2>6. SavingSound(process', g)
    BY <1>2, <1>5, <2>2, <2>3, <2>4 DEF SavingSound, Agree, SaveCheckpoint, At
  <2> QED BY <1>4, <2>1, <2>2, <2>5, <2>6
<1>6. CASE SaveManifest
  <2> DEFINE g == [f EXCEPT !.manifest = process.saving.state]
  <2>1. files' = [files EXCEPT ![k] = g]
    BY <1>6 DEF SaveManifest
  <2>2. /\ Agree(process, process') /\ process'.pause = process.pause
        /\ process'.pc = "status" /\ process'.saving = process.saving
    BY <1>2, <1>6 DEF SaveManifest, Agree, IsProcess
  <2>3. g.checkpoint = f.checkpoint /\ g.status = f.status
        /\ g = [checkpoint |-> g.checkpoint, manifest |-> g.manifest,
                status |-> g.status, evaluation |-> g.evaluation]
    BY <1>3 DEF FileSound
  <2> HIDE DEF g
  <2>4. FileSound(g, k, first)
    BY <1>3, <2>3 DEF FileSound
  <2>5. SavingSound(process', g)
    BY <1>2, <1>6, <2>2, <2>3 DEF SavingSound, Agree, SaveManifest, At
  <2> QED BY <1>4, <2>1, <2>2, <2>4, <2>5
<1>7. CASE SaveStatus
  <2> DEFINE g == [f EXCEPT !.status = process.saving.state]
  <2>1. files' = [files EXCEPT ![k] = g]
    BY <1>7 DEF SaveStatus
  <2>2. /\ Agree(process, process') /\ process'.pause = process.pause
        /\ process'.pc \in {"close", "evaluate", "unlink", "loop"}
    BY <1>2, <1>7 DEF SaveStatus, Agree, IsProcess
  <2>3. g.checkpoint = f.checkpoint /\ g.status = process.saving.state
        /\ g = [checkpoint |-> g.checkpoint, manifest |-> g.manifest,
                status |-> g.status, evaluation |-> g.evaluation]
    BY <1>3 DEF FileSound
  <2>4. /\ f.checkpoint.written /\ f.checkpoint.ledger = process.ledger
        /\ process.saving.state = Complete => Finished(k, process.ledger)
    BY <1>2, <1>7 DEF SaveStatus, At, SavingSound
  <2> HIDE DEF g
  <2>5. FileSound(g, k, first)
    BY <1>3, <2>3, <2>4 DEF FileSound
  <2>6. SavingSound(process', g)
    BY <2>2, <2>3, <2>4 DEF SavingSound, Agree
  <2> QED BY <1>4, <2>1, <2>2, <2>5, <2>6
<1>8. CASE Evaluate
  <2> DEFINE g == [f EXCEPT !.evaluation = Len(process.model)]
  <2>1. files' = [files EXCEPT ![k] = g]
    BY <1>8 DEF Evaluate
  <2>2. /\ Agree(process, process') /\ process'.pause = process.pause /\ process'.pc = "close"
    BY <1>2, <1>8 DEF Evaluate, Agree, IsProcess
  <2>3. g.checkpoint = f.checkpoint /\ g.status = f.status
        /\ g = [checkpoint |-> g.checkpoint, manifest |-> g.manifest,
                status |-> g.status, evaluation |-> g.evaluation]
    BY <1>3 DEF FileSound
  <2> HIDE DEF g
  <2>4. FileSound(g, k, first)
    BY <1>3, <2>3 DEF FileSound
  <2>5. SavingSound(process', g)
    BY <1>2, <2>2, <2>3 DEF SavingSound, Agree
  <2> QED BY <1>4, <2>1, <2>2, <2>4, <2>5
<1> QED BY <1>5, <1>6, <1>7, <1>8

LEMMA NextSound == IInv /\ [Next]_vars => IInv'
<1> SUFFICES ASSUME IInv, [Next]_vars PROVE IInv'
  OBVIOUS
<1>1. CASE Operator
  <2>1. ASSUME NEW k \in Phase, RequestPause(k) PROVE IInv'
    BY <2>1 DEF RequestPause, IInv, ProcessSound
  <2> QED BY <1>1, <2>1, StartSound, ResumeSound DEF Operator
<1>2. CASE Fetch \/ Submit \/ Take \/ Produce
  <2>1. process # None
    BY <1>2 DEF Fetch, Submit, Take, Produce, Ready, At
  <2> QED BY <1>2, <2>1, Sampled
<1>3. CASE Update
  BY <1>3, UpdateSound
<1>4. CASE Decide \/ MemoryLimit \/ Leave \/ Unlink
  BY <1>4, LoopSound
<1>5. CASE SaveCheckpoint \/ SaveManifest \/ SaveStatus \/ Evaluate
  BY <1>5, SaveSound
<1>6. CASE Close \/ Crash
  BY <1>6 DEF Close, Crash, IInv, ProcessSound
<1>7. CASE UNCHANGED vars
  BY <1>7 DEF vars, IInv, ProcessSound
<1> QED BY <1>1, <1>2, <1>3, <1>4, <1>5, <1>6, <1>7 DEF Next, Loop, Save

LEMMA Invariant == Spec => []IInv
  BY InitSound, NextSound, PTL DEF Spec

-----------------------------------------------------------------------------

\* Update n of the program trains on the same window at the same attention, and
\* leaves the same counts and the same sampler, in every lineage in use: for
\* every data set, generator and chain of phases, whatever was paused, killed
\* or resumed, with or without lookahead.
THEOREM ResumesExactly == Spec => []Replays
<1>1. IInv => Replays
  <2> SUFFICES ASSUME IInv PROVE Replays
    OBVIOUS
  <2>1. \A k \in Phase : Exists(k) => OfHistory(files[k].checkpoint.model, first)
    BY DEF IInv, FilesSound, FileSound, CheckpointSound, Exists
  <2>2. process # None => OfHistory(process.model, first)
    BY DEF IInv, ProcessSound, TrainerSound, LineageSound
  <2> QED BY <2>1, <2>2 DEF Replays, Lineages, OfHistory
<1> QED BY <1>1, Invariant, PTL

-----------------------------------------------------------------------------
(* Numbers, finite sets and sums.                                          *)

\* Nonempty sets of naturals have a least element ...
LEMMA LeastNumber ==
  ASSUME NEW T, T \subseteq Nat, T # {}
  PROVE  \E x \in T : \A y \in T : x <= y
<1> DEFINE R == OpToRel(<, Nat)
<1>1. IsWellFoundedOn(R, Nat)
  BY NatLessThanWellFounded
<1>2. \A x, y \in Nat : <<y, x>> \in R <=> y < x
  BY DEF OpToRel
<1> HIDE DEF R
<1>3. \E x \in T : \A y \in T : ~ (<<y, x>> \in R)
  BY <1>1, WFMin
<1>4. PICK x \in T : \A y \in T : ~ (<<y, x>> \in R)
  BY <1>3
<1>5. \A y \in T : x \in Nat /\ y \in Nat /\ ~(y < x)
  BY <1>2, <1>4
<1> QED
  BY <1>5

\* ... so that what holds of 0, and of n + 1 when of n, holds of every number.
LEMMA Induction ==
  ASSUME NEW S, 0 \in S, \A n \in Nat : n \in S => n + 1 \in S
  PROVE  Nat \subseteq S
<1> SUFFICES ASSUME Nat \ S # {} PROVE FALSE
  OBVIOUS
<1>1. PICK x \in Nat \ S : \A y \in Nat \ S : x <= y
  BY LeastNumber
<1>2. x # 0
  OBVIOUS
<1>3. x - 1 \in Nat /\ (x - 1) + 1 = x /\ ~(x <= x - 1)
  BY <1>2
<1>4. x - 1 \in S
  BY <1>1, <1>3
<1> QED
  BY <1>3, <1>4

\* A set without one of its elements.
LEMMA OneLess ==
  ASSUME NEW T, IsFiniteSet(T), NEW n \in Nat, Cardinality(T) = n + 1, NEW x \in T
  PROVE  Cardinality(T \ {x}) = n
<1>1. Cardinality(T \ {x}) = Cardinality(T) - 1
  BY FS_RemoveElement
<1> QED
  BY <1>1

\* What holds of {}, and with one more element, holds of every finite set.
LEMMA SetInduction ==
  ASSUME NEW S, IsFiniteSet(S), NEW Good, {} \in Good,
         \A T \in SUBSET S : \A x \in S \ T : T \in Good => T \cup {x} \in Good
  PROVE  S \in Good
<1> DEFINE N == {n \in Nat : \A T \in SUBSET S : Cardinality(T) = n => T \in Good}
<1>1. 0 \in N
  BY FS_EmptySet, FS_Subset
<1>2. ASSUME NEW n \in Nat, n \in N PROVE n + 1 \in N
  <2> SUFFICES ASSUME NEW T \in SUBSET S, Cardinality(T) = n + 1 PROVE T \in Good
    OBVIOUS
  <2>1. IsFiniteSet(T) /\ T # {}
    BY FS_Subset, FS_EmptySet
  <2>2. PICK x \in T : TRUE
    BY <2>1
  <2>3. Cardinality(T \ {x}) = n
    BY <2>1, <2>2, OneLess
  <2>4. T \ {x} \in Good
    BY <1>2, <2>3
  <2>5. (T \ {x}) \cup {x} = T
    BY <2>2
  <2> QED
    BY <2>2, <2>4, <2>5
<1> HIDE DEF N
<1>3. Nat \subseteq N
  BY <1>1, <1>2, Induction
<1>4. Cardinality(S) \in Nat
  BY FS_CardinalityType
<1> QED
  BY <1>3, <1>4 DEF N

\* The sum of the values of f over S, as MapThenSumSet computes it.
Sum(f, S) == MapThenSumSet(LAMBDA x : f[x], S)

\* The element that MapThenSumSet takes first.
Choice(S) == CHOOSE x \in S : TRUE

\* The partial sums that MapThenSumSet chooses.
PartialSums(g, f, S) ==
  g = [s \in SUBSET S |-> IF s = {} THEN 0 ELSE f[Choice(s)] + g[s \ {Choice(s)}]]

\* A sum is the last of its partial sums.
LEMMA SumIsPartial ==
  ASSUME NEW f, NEW S, \E g : PartialSums(g, f, S)
  PROVE  \E g : PartialSums(g, f, S) /\ Sum(f, S) = g[S]
<1> DEFINE h == CHOOSE g : PartialSums(g, f, S)
<1>1. PartialSums(h, f, S)
  OBVIOUS
<1>2. Sum(f, S) = h[S]
  BY DEF MapThenSumSet, MapThenFoldSet, Sum, PartialSums, Choice
<1> QED
  BY <1>1, <1>2

\* Partial sums up to T exist, and all agree on the value of T.
Summed(f, T) ==
  /\ \E g : PartialSums(g, f, T)
  /\ \A g, S : PartialSums(g, f, S) /\ T \subseteq S => g[T] = Sum(f, T)

\* The recursion that defines a sum is well founded: it has one solution.
LEMMA AllSummed ==
  ASSUME NEW f, NEW S, IsFiniteSet(S)
  PROVE  Summed(f, S)
<1> DEFINE N == {n \in Nat : \A T : IsFiniteSet(T) /\ Cardinality(T) <= n => Summed(f, T)}
<1>1. 0 \in N
  <2> SUFFICES ASSUME NEW T, IsFiniteSet(T), Cardinality(T) <= 0 PROVE Summed(f, T)
    OBVIOUS
  <2>1. T = {}
    BY FS_EmptySet, FS_CardinalityType
  <2> DEFINE g == [s \in SUBSET T |-> 0]
  <2>2. PartialSums(g, f, T)
    BY <2>1 DEF PartialSums
  <2> HIDE DEF g
  <2>3. \A h, R : PartialSums(h, f, R) => h[{}] = 0
    BY DEF PartialSums
  <2>4. Sum(f, T) = 0
    BY <2>1, <2>2, <2>3, SumIsPartial
  <2> QED
    BY <2>1, <2>2, <2>3, <2>4 DEF Summed
<1>2. ASSUME NEW n \in Nat, n \in N PROVE n + 1 \in N
  <2> SUFFICES ASSUME NEW T, IsFiniteSet(T), Cardinality(T) = n + 1 PROVE Summed(f, T)
    <3>1. \A T : IsFiniteSet(T) /\ Cardinality(T) <= n + 1 =>
            Cardinality(T) <= n \/ Cardinality(T) = n + 1
      BY FS_CardinalityType
    <3> QED
      BY <1>2, <3>1
  <2> DEFINE x == Choice(T)
             R == T \ {x}
  <2>1. x \in T /\ R \in SUBSET T /\ R # T /\ T # {}
    BY FS_EmptySet DEF Choice
  <2>2. ASSUME NEW u \in SUBSET T, u # T PROVE Summed(f, u)
    <3>1. IsFiniteSet(u) /\ Cardinality(u) \in Nat /\ Cardinality(u) <= n + 1 /\ Cardinality(u) # n + 1
      BY <2>2, FS_Subset, FS_CardinalityType
    <3> QED
      BY <1>2, <3>1
  <2> HIDE DEF x, R
  <2> DEFINE h == [u \in SUBSET T |-> IF u = T THEN f[x] + Sum(f, R) ELSE Sum(f, u)]
  <2>3. \A u \in SUBSET T : h[u] = IF u = T THEN f[x] + Sum(f, R) ELSE Sum(f, u)
    OBVIOUS
  <2>4. h = [u \in SUBSET T |-> h[u]]
    OBVIOUS
  <2> HIDE DEF h
  <2>5. ASSUME NEW u \in SUBSET T
        PROVE  h[u] = IF u = {} THEN 0 ELSE f[Choice(u)] + h[u \ {Choice(u)}]
    <3>1. CASE u = T
      <4>1. h[R] = Sum(f, R)
        BY <2>1, <2>3
      <4> QED
        BY <2>1, <2>3, <3>1, <4>1 DEF x, R
    <3>2. CASE u # T
      <4> DEFINE v == u \ {Choice(u)}
      <4>1. PICK g : PartialSums(g, f, u)
        BY <2>2, <3>2 DEF Summed
      <4>2. g[u] = Sum(f, u) /\ h[u] = Sum(f, u)
        BY <2>2, <2>3, <3>2, <4>1 DEF Summed
      <4>3. g[u] = IF u = {} THEN 0 ELSE f[Choice(u)] + g[v]
        BY <4>1 DEF PartialSums
      <4>4. v \in SUBSET T /\ v # T /\ v \subseteq u
        BY <3>2
      <4>5. g[v] = Sum(f, v) /\ h[v] = Sum(f, v)
        BY <2>2, <2>3, <4>1, <4>4 DEF Summed
      <4> QED
        BY <4>2, <4>3, <4>5
    <3> QED
      BY <3>1, <3>2
  <2>6. PartialSums(h, f, T)
    BY <2>4, <2>5 DEF PartialSums
  <2>7. ASSUME NEW g, NEW Q, PartialSums(g, f, Q), T \subseteq Q
        PROVE  g[T] = f[x] + Sum(f, R)
    <3>1. g[T] = f[x] + g[R]
      BY <2>1, <2>7 DEF PartialSums, x, R
    <3>2. R \subseteq Q
      BY <2>1, <2>7
    <3>3. g[R] = Sum(f, R)
      BY <2>1, <2>2, <2>7, <3>2 DEF Summed
    <3> QED
      BY <3>1, <3>3
  <2>8. Sum(f, T) = f[x] + Sum(f, R)
    <3>1. PICK g : PartialSums(g, f, T) /\ Sum(f, T) = g[T]
      BY <2>6, SumIsPartial
    <3> QED
      BY <2>7, <3>1
  <2> QED
    BY <2>6, <2>7, <2>8 DEF Summed
<1> HIDE DEF N
<1>3. Nat \subseteq N
  BY <1>1, <1>2, Induction
<1>4. Cardinality(S) \in Nat
  BY FS_CardinalityType
<1>5. Cardinality(S) \in N /\ Cardinality(S) <= Cardinality(S)
  BY <1>3, <1>4
<1> QED
  BY <1>5 DEF N

\* What a sum is, without the recursion.
LEMMA SumRecursion ==
  ASSUME NEW f
  PROVE  /\ Sum(f, {}) = 0
         /\ \A S : IsFiniteSet(S) /\ S # {} =>
              Sum(f, S) = f[Choice(S)] + Sum(f, S \ {Choice(S)})
<1>1. ASSUME NEW S, IsFiniteSet(S)
      PROVE  Sum(f, S) = IF S = {} THEN 0 ELSE f[Choice(S)] + Sum(f, S \ {Choice(S)})
  <2>1. PICK g : PartialSums(g, f, S) /\ Sum(f, S) = g[S]
    BY <1>1, AllSummed, SumIsPartial DEF Summed
  <2>2. g[S] = IF S = {} THEN 0 ELSE f[Choice(S)] + g[S \ {Choice(S)}]
    BY <2>1 DEF PartialSums
  <2>3. IsFiniteSet(S \ {Choice(S)})
    BY <1>1, FS_RemoveElement
  <2>4. g[S \ {Choice(S)}] = Sum(f, S \ {Choice(S)})
    BY <2>1, <2>3, AllSummed DEF Summed
  <2> QED
    BY <2>1, <2>2, <2>4
<1> QED
  BY <1>1, FS_EmptySet

\* A sum of naturals is one.
LEMMA SumType ==
  ASSUME NEW f, NEW S, IsFiniteSet(S), \A x \in S : f[x] \in Nat
  PROVE  Sum(f, S) \in Nat
<1> DEFINE N == {n \in Nat : \A T \in SUBSET S : Cardinality(T) = n => Sum(f, T) \in Nat}
<1>1. 0 \in N
  BY FS_EmptySet, FS_Subset, SumRecursion
<1>2. ASSUME NEW n \in Nat, n \in N PROVE n + 1 \in N
  <2> SUFFICES ASSUME NEW T \in SUBSET S, Cardinality(T) = n + 1 PROVE Sum(f, T) \in Nat
    OBVIOUS
  <2>1. IsFiniteSet(T) /\ T # {}
    BY FS_Subset, FS_EmptySet
  <2>2. Choice(T) \in T
    BY <2>1 DEF Choice
  <2>3. Cardinality(T \ {Choice(T)}) = n
    BY <2>1, <2>2, OneLess
  <2>4. Sum(f, T \ {Choice(T)}) \in Nat /\ f[Choice(T)] \in Nat
    BY <1>2, <2>2, <2>3
  <2> QED
    BY <2>1, <2>4, SumRecursion
<1> HIDE DEF N
<1>3. Nat \subseteq N
  BY <1>1, <1>2, Induction
<1>4. Cardinality(S) \in Nat
  BY FS_CardinalityType
<1> QED
  BY <1>3, <1>4 DEF N

\* The order of the summands does not matter.
LEMMA SumRemove ==
  ASSUME NEW f, NEW S, IsFiniteSet(S), \A x \in S : f[x] \in Nat
  PROVE  \A x \in S : Sum(f, S) = f[x] + Sum(f, S \ {x})
<1> DEFINE N == {n \in Nat : \A T \in SUBSET S : Cardinality(T) = n =>
                               \A x \in T : Sum(f, T) = f[x] + Sum(f, T \ {x})}
<1>1. 0 \in N
  BY FS_EmptySet, FS_Subset
<1>2. ASSUME NEW n \in Nat, n \in N PROVE n + 1 \in N
  <2> SUFFICES ASSUME NEW T \in SUBSET S, Cardinality(T) = n + 1, NEW x \in T
               PROVE  Sum(f, T) = f[x] + Sum(f, T \ {x})
    OBVIOUS
  <2> DEFINE p == Choice(T)
  <2>1. IsFiniteSet(T) /\ T # {} /\ p \in T
    BY FS_Subset, FS_EmptySet DEF Choice
  <2>2. Sum(f, T) = f[p] + Sum(f, T \ {p})
    BY <2>1, SumRecursion
  <2> HIDE DEF p
  <2>3. CASE x = p
    BY <2>2, <2>3
  <2>4. CASE x # p
    <3> DEFINE U == T \ {p, x}
    <3>1. Cardinality(T \ {p}) = n /\ Cardinality(T \ {x}) = n
      BY <2>1, OneLess
    <3>2. x \in T \ {p} /\ p \in T \ {x} /\ (T \ {p}) \ {x} = U /\ (T \ {x}) \ {p} = U
      BY <2>1, <2>4
    <3> HIDE DEF U
    <3>3. Sum(f, T \ {p}) = f[x] + Sum(f, U)
      BY <1>2, <3>1, <3>2
    <3>4. Sum(f, T \ {x}) = f[p] + Sum(f, U)
      BY <1>2, <3>1, <3>2
    <3>5. Sum(f, U) \in Nat /\ f[x] \in Nat /\ f[p] \in Nat
      <4>1. U \subseteq S /\ IsFiniteSet(U)
        BY <2>1, FS_Subset DEF U
      <4> QED
        BY <2>1, <4>1, SumType
    <3> QED
      BY <2>2, <3>3, <3>4, <3>5
  <2> QED
    BY <2>3, <2>4
<1> HIDE DEF N
<1>3. Nat \subseteq N
  BY <1>1, <1>2, Induction
<1>4. Cardinality(S) \in Nat
  BY FS_CardinalityType
<1> QED
  BY <1>3, <1>4 DEF N

\* A further summand adds its value.
LEMMA SumAdd ==
  ASSUME NEW f, NEW S, IsFiniteSet(S), NEW x, x \notin S, \A y \in S \cup {x} : f[y] \in Nat
  PROVE  Sum(f, S \cup {x}) = f[x] + Sum(f, S)
<1>1. IsFiniteSet(S \cup {x}) /\ (S \cup {x}) \ {x} = S /\ x \in S \cup {x}
  BY FS_AddElement
<1> QED
  BY <1>1, SumRemove

-----------------------------------------------------------------------------
(* The items read, and how a sampler counts a pass over a domain.          *)

\* What a row holds.
Item == [domain : Domains, record : Records, start : Nat, size : Nat]

\* The items read, by place, with one more.
Extends(g, h, x, item) ==
  /\ x \notin DOMAIN g /\ DOMAIN h = DOMAIN g \cup {x} /\ IsFiniteSet(DOMAIN g)
  /\ h[x] = item /\ \A y \in DOMAIN g : h[y] = g[y]

\* The items g that train position p of record r, and how many they are.
Trainings(g, r, p) == {x \in DOMAIN g : g[x].record = r /\ p \in Supervised(g[x])}
TimesIn(g, r, p) == Cardinality(Trainings(g, r, p))

\* There are finitely many.
LEMMA TimesType ==
  ASSUME NEW g, IsFiniteSet(DOMAIN g), NEW r, NEW p
  PROVE  TimesIn(g, r, p) \in Nat
<1>1. Trainings(g, r, p) \subseteq DOMAIN g
  BY DEF Trainings
<1>2. IsFiniteSet(Trainings(g, r, p))
  BY <1>1, FS_Subset
<1> QED
  BY <1>2, FS_CardinalityType DEF TimesIn

\* A further item trains a position once more, if it supervises it.
LEMMA OneMore ==
  ASSUME NEW g, NEW h, NEW x, NEW item, Extends(g, h, x, item), NEW r, NEW p
  PROVE  TimesIn(h, r, p) = TimesIn(g, r, p) +
           (IF item.record = r /\ p \in Supervised(item) THEN 1 ELSE 0)
<1> DEFINE T == Trainings(g, r, p)
<1>1. T \subseteq DOMAIN g /\ x \notin T
  BY DEF Extends, Trainings
<1>2. IsFiniteSet(T)
  BY <1>1, FS_Subset DEF Extends
<1>3. Cardinality(T) \in Nat /\ Cardinality(T \cup {x}) = Cardinality(T) + 1
  BY <1>1, <1>2, FS_CardinalityType, FS_AddElement
<1>4. CASE item.record = r /\ p \in Supervised(item)
  <2>1. Trainings(h, r, p) = T \cup {x}
    BY <1>4 DEF Extends, Trainings
  <2> QED
    BY <1>3, <1>4, <2>1 DEF TimesIn
<1>5. CASE ~(item.record = r /\ p \in Supervised(item))
  <2>1. Trainings(h, r, p) = T
    BY <1>5 DEF Extends, Trainings
  <2> HIDE <1>5
  <2>2. TimesIn(h, r, p) = TimesIn(g, r, p) /\ TimesIn(g, r, p) \in Nat
    BY <1>3, <2>1 DEF TimesIn
  <2>3. \A n \in Nat : n = n + 0
    OBVIOUS
  <2> QED
    BY <1>5, <2>2, <2>3
<1> QED
  BY <1>4, <1>5

\* An order of a domain has each of its records once.
IsOrder(o, d) ==
  /\ o \in Seq(Bucket[d])
  /\ \A r \in Bucket[d] : \E i \in DOMAIN o : o[i] = r
  /\ \A i, j \in DOMAIN o : i # j => o[i] # o[j]

\* Whether this pass over the domain has read position p of record r.
Passed(o, n, doc, r, p) ==
  /\ \E i \in 1 .. n : o[i] = r
  /\ doc # None /\ doc.record = r => p <= doc.start

PassOf(o, n, doc, r, p) == IF Passed(o, n, doc, r, p) THEN 1 ELSE 0

\* How often the targets of a domain were read.
Counts(g, d, o, n, epochs, doc) ==
  \A r \in Bucket[d] : \A p \in Targets[r] :
    /\ TimesIn(g, r, p) <= epochs + PassOf(o, n, doc, r, p)
    /\ r \in Windowable => TimesIn(g, r, p) = epochs + PassOf(o, n, doc, r, p)
    /\ r \notin Windowable => \A q \in Targets[r] : TimesIn(g, r, q) = TimesIn(g, r, p)

\* A record of which nothing is read yet.
Opened(r) == [record |-> r, start |-> 0]

\* A record has two tokens at least, and its targets lie behind the first.
LEMMA RecordFacts ==
  ASSUME NEW d \in Domains, NEW r \in Bucket[d]
  PROVE  /\ r \in Records /\ Length[r] \in Nat /\ Length[r] >= 2
         /\ \A p \in Targets[r] : p \in Nat /\ p >= 1 /\ p <= Length[r] - 1
<1>1. r \in Records
  BY DEF Records
<1>2. Length[r] \in Nat /\ Targets[r] \subseteq 1 .. Length[r] - 1 /\ Targets[r] # {}
  BY <1>1, NativeAssumption
<1>3. \A p \in Targets[r] : p \in Nat /\ p >= 1 /\ p <= Length[r] - 1
  BY <1>2
<1> QED
  BY <1>1, <1>2, <1>3

\* An open document is not none.
LEMMA NotNone == \A r \in Records : \A n \in Nat : [record |-> r, start |-> n] # None
  BY NativeAssumption

\* A domain that is used up begins anew.
LEMMA NewOrder ==
  ASSUME NEW d \in Domains, NEW o, IsOrder(o, d), NEW n \in 0 .. Len(o), NEW e \in Nat,
         NEW g, IsFiniteSet(DOMAIN g), Counts(g, d, o, n, e, None),
         \A i \in n + 1 .. Len(o) : o[i] \notin Windowable, NEW new
  PROVE  Counts(g, d, new, 0, e + 1, None)
<1> SUFFICES ASSUME NEW r \in Bucket[d], NEW p \in Targets[r]
             PROVE  /\ TimesIn(g, r, p) <= e + 1 + PassOf(new, 0, None, r, p)
                    /\ r \in Windowable => TimesIn(g, r, p) = e + 1 + PassOf(new, 0, None, r, p)
                    /\ r \notin Windowable => \A q \in Targets[r] : TimesIn(g, r, q) = TimesIn(g, r, p)
  BY DEF Counts
<1>1. PassOf(new, 0, None, r, p) = 0
  BY DEF PassOf, Passed
<1>2. PassOf(o, n, None, r, p) \in {0, 1}
  BY DEF PassOf
<1>3. r \in Windowable => PassOf(o, n, None, r, p) = 1
  <2> SUFFICES ASSUME r \in Windowable PROVE Passed(o, n, None, r, p)
    BY DEF PassOf
  <2>1. PICK i \in DOMAIN o : o[i] = r
    BY DEF IsOrder
  <2>2. DOMAIN o = 1 .. Len(o) /\ Len(o) \in Nat
    BY DEF IsOrder
  <2>3. i \in 1 .. n
    BY <2>1, <2>2
  <2> QED
    BY <2>1, <2>3 DEF Passed
<1>4. TimesIn(g, r, p) \in Nat
  BY TimesType
<1> QED
  BY <1>1, <1>2, <1>3, <1>4 DEF Counts

\* The records that next passes over are too long, and not documents.
LEMMA NextOpened ==
  ASSUME NEW d \in Domains, NEW o, IsOrder(o, d), NEW n \in 0 .. Len(o), NEW m \in n + 1 .. Len(o),
         NEW e \in Nat, NEW g, IsFiniteSet(DOMAIN g), Counts(g, d, o, n, e, None),
         \A i \in n + 1 .. m - 1 : o[i] \notin Windowable
  PROVE  Counts(g, d, o, m, e, Opened(o[m]))
<1> SUFFICES ASSUME NEW r \in Bucket[d], NEW p \in Targets[r]
             PROVE  /\ TimesIn(g, r, p) <= e + PassOf(o, m, Opened(o[m]), r, p)
                    /\ r \in Windowable => TimesIn(g, r, p) = e + PassOf(o, m, Opened(o[m]), r, p)
                    /\ r \notin Windowable => \A q \in Targets[r] : TimesIn(g, r, q) = TimesIn(g, r, p)
  BY DEF Counts
<1>1. /\ TimesIn(g, r, p) <= e + PassOf(o, n, None, r, p)
      /\ r \in Windowable => TimesIn(g, r, p) = e + PassOf(o, n, None, r, p)
      /\ r \notin Windowable => \A q \in Targets[r] : TimesIn(g, r, q) = TimesIn(g, r, p)
  BY DEF Counts
<1>2. DOMAIN o = 1 .. Len(o) /\ Len(o) \in Nat /\ m \in DOMAIN o /\ o[m] \in Bucket[d]
  BY DEF IsOrder
<1>3. /\ PassOf(o, n, None, r, p) = IF \E i \in 1 .. n : o[i] = r THEN 1 ELSE 0
      /\ PassOf(o, m, Opened(o[m]), r, p)
           = IF (\E i \in 1 .. m : o[i] = r) /\ r # o[m] THEN 1 ELSE 0
  <2>1. Opened(o[m]) # None /\ Opened(o[m]).record = o[m] /\ Opened(o[m]).start = 0
    BY <1>2, RecordFacts, NotNone DEF Opened
  <2>2. ~(p <= 0)
    BY RecordFacts
  <2>3. Passed(o, n, None, r, p) <=> \E i \in 1 .. n : o[i] = r
    BY DEF Passed
  <2>4. Passed(o, m, Opened(o[m]), r, p) <=> (\E i \in 1 .. m : o[i] = r) /\ r # o[m]
    BY <2>1, <2>2 DEF Passed
  <2> QED
    BY <2>3, <2>4 DEF PassOf
<1>4. CASE r = o[m]
  <2>1. ~ \E i \in 1 .. n : o[i] = r
    BY <1>2, <1>4 DEF IsOrder
  <2> QED
    BY <1>1, <1>3, <1>4, <2>1
<1>5. CASE r # o[m] /\ \E i \in 1 .. n : o[i] = r
  <2>1. \E i \in 1 .. m : o[i] = r
    BY <1>5
  <2> QED
    BY <1>1, <1>3, <1>5, <2>1
<1>6. CASE r # o[m] /\ ~ \E i \in 1 .. n : o[i] = r
  <2>1. TimesIn(g, r, p) \in Nat
    BY TimesType
  <2>2. CASE \E i \in 1 .. m : o[i] = r
    <3>1. PICK i \in 1 .. m : o[i] = r
      BY <2>2
    <3>2. i \in n + 1 .. m - 1
      BY <1>6, <3>1
    <3>3. r \notin Windowable
      BY <3>1, <3>2
    <3> QED
      BY <1>1, <1>3, <1>6, <2>1, <2>2, <3>3
  <2>3. CASE ~ \E i \in 1 .. m : o[i] = r
    BY <1>1, <1>3, <1>6, <2>3
  <2> QED
    BY <2>2, <2>3
<1> QED
  BY <1>4, <1>5, <1>6

-----------------------------------------------------------------------------
(* What a document's next item trains.                                     *)

\* What a sampler keeps of a document it has begun.
Open(r, start) == [record |-> r, start |-> start]

\* What next_item keeps of a document after an item of it.
Rest(item) ==
  IF item.record \in Windowable /\ TargetsLeft(item)
  THEN Open(item.record, NextStart(item)) ELSE None

\* The size of an item of a document.
LEMMA MinOfTwo == ASSUME NEW a \in Nat, NEW b \in Nat PROVE Min({a, b}) = IF a <= b THEN a ELSE b
  BY DEF Min

\* An item has two positions at least, and ends in its record.
LEMMA ReadFacts ==
  ASSUME NEW d \in Domains, NEW r \in Bucket[d], NEW start \in Nat, start < Length[r] - 1,
         r \notin Windowable => start = 0, NEW capacity \in Nat, capacity >= 2,
         NEW item, item = Read(d, r, start, capacity)
  PROVE  /\ item \in Item /\ item.domain = d /\ item.record = r /\ item.start = start
         /\ item.size \in Nat /\ item.size >= 2 /\ start + item.size <= Length[r]
         /\ r \notin Windowable => start + item.size = Length[r]
         /\ NextStart(item) = start + item.size - 1 /\ NextStart(item) \in Nat
<1>1. /\ item.domain = d /\ item.record = r /\ item.start = start
      /\ item = [domain |-> d, record |-> r, start |-> start, size |-> item.size]
      /\ item.size = IF r \in Windowable THEN Min({Length[r] - start, capacity}) ELSE Length[r]
  BY DEF Read
<1>2. Length[r] \in Nat /\ Length[r] >= 2 /\ r \in Records
  BY RecordFacts
<1>3. Length[r] - start \in Nat /\ Length[r] - start >= 2
  BY <1>2
<1>4. Min({Length[r] - start, capacity}) = IF Length[r] - start <= capacity THEN Length[r] - start ELSE capacity
  <2>1. PICK a \in Nat : a = Length[r] - start
    BY <1>3
  <2>2. Min({a, capacity}) = IF a <= capacity THEN a ELSE capacity
    BY MinOfTwo
  <2> QED
    BY <2>1, <2>2
<1>5. /\ item.size \in Nat /\ item.size >= 2 /\ start + item.size <= Length[r]
      /\ r \notin Windowable => start + item.size = Length[r]
  BY <1>1, <1>2, <1>3, <1>4
<1>6. item \in Item
  BY <1>1, <1>2, <1>5 DEF Item
<1>7. NextStart(item) = start + item.size - 1 /\ NextStart(item) \in Nat
  BY <1>1, <1>5 DEF NextStart
<1> QED
  BY <1>1, <1>5, <1>6, <1>7

\* An item trains the positions behind its start, up to where the next begins.
LEMMA ReadOn ==
  ASSUME NEW d \in Domains, NEW o, IsOrder(o, d), NEW n \in DOMAIN o, NEW r, r = o[n],
         NEW start \in Nat, start < Length[r] - 1, r \notin Windowable => start = 0,
         NEW capacity \in Nat, capacity >= 2, NEW item, item = Read(d, r, start, capacity),
         NEW e \in Nat, NEW g, Counts(g, d, o, n, e, Open(r, start)),
         NEW h, NEW x, Extends(g, h, x, item)
  PROVE  Counts(h, d, o, n, e, Rest(item))
<1>0. r \in Bucket[d] /\ DOMAIN o = 1 .. Len(o) /\ Len(o) \in Nat /\ n \in Nat
  BY DEF IsOrder
<1>1. /\ item.record = r /\ item.start = start /\ item.size \in Nat /\ item.size >= 2
      /\ start + item.size <= Length[r] /\ (r \notin Windowable => start + item.size = Length[r])
      /\ NextStart(item) = start + item.size - 1 /\ NextStart(item) \in Nat
  BY <1>0, ReadFacts
<1>2. r \in Records /\ Length[r] \in Nat /\ \A p \in Targets[r] : p \in Nat /\ p >= 1 /\ p <= Length[r] - 1
  BY <1>0, RecordFacts
<1>3. \A s \in Nat : Open(r, s) # None /\ Open(r, s).record = r /\ Open(r, s).start = s
  BY <1>2, NotNone DEF Open
<1>4. IsFiniteSet(DOMAIN g)
  BY DEF Extends
<1>5. \E i \in 1 .. n : o[i] = r
  BY <1>0
<1> SUFFICES ASSUME NEW q \in Bucket[d], NEW p \in Targets[q]
             PROVE  /\ TimesIn(h, q, p) <= e + PassOf(o, n, Rest(item), q, p)
                    /\ q \in Windowable => TimesIn(h, q, p) = e + PassOf(o, n, Rest(item), q, p)
                    /\ q \notin Windowable => \A t \in Targets[q] : TimesIn(h, q, t) = TimesIn(h, q, p)
  BY DEF Counts
<1>6. /\ TimesIn(g, q, p) <= e + PassOf(o, n, Open(r, start), q, p) /\ TimesIn(g, q, p) \in Nat
      /\ q \in Windowable => TimesIn(g, q, p) = e + PassOf(o, n, Open(r, start), q, p)
      /\ q \notin Windowable => \A t \in Targets[q] : TimesIn(g, q, t) = TimesIn(g, q, p)
  BY <1>4, TimesType DEF Counts
<1>7. CASE q # r
  <2>1. \A t : TimesIn(h, q, t) = TimesIn(g, q, t)
    <3> SUFFICES ASSUME NEW t PROVE TimesIn(h, q, t) = TimesIn(g, q, t)
      OBVIOUS
    <3>1. TimesIn(h, q, t) = TimesIn(g, q, t) + 0
      BY <1>1, <1>7, OneMore
    <3>2. TimesIn(g, q, t) \in Nat
      BY <1>4, TimesType
    <3> QED
      BY <3>1, <3>2
  <2>2. Rest(item) # None => Rest(item).record = r
    BY <1>1, <1>3 DEF Rest, TargetsLeft
  <2>3. PassOf(o, n, Rest(item), q, p) = PassOf(o, n, Open(r, start), q, p)
    BY <1>3, <1>7, <2>2 DEF PassOf, Passed
  <2> QED
    BY <1>6, <2>1, <2>3
<1>8. CASE q = r
  <2>1. p \in Nat /\ p >= 1 /\ p <= Length[r] - 1
    BY <1>2, <1>8
  <2>2. PassOf(o, n, Open(r, start), q, p) = IF p <= start THEN 1 ELSE 0
    BY <1>3, <1>5, <1>8 DEF PassOf, Passed
  <2>3. PassOf(o, n, Rest(item), q, p) = IF p <= NextStart(item) THEN 1 ELSE 0
    <3>1. CASE r \in Windowable /\ NextStart(item) < Length[r] - 1
      <4>1. Rest(item) = Open(r, NextStart(item))
        BY <1>1, <3>1 DEF Rest, TargetsLeft
      <4> QED
        BY <1>1, <1>3, <1>5, <1>8, <4>1 DEF PassOf, Passed
    <3>2. CASE ~(r \in Windowable /\ NextStart(item) < Length[r] - 1)
      <4>1. Rest(item) = None
        BY <1>1, <3>2 DEF Rest, TargetsLeft
      <4>2. PassOf(o, n, None, q, p) = 1
        BY <1>5, <1>8 DEF PassOf, Passed
      <4>3. p <= NextStart(item)
        BY <1>1, <1>2, <2>1, <3>2
      <4> QED
        BY <4>1, <4>2, <4>3
    <3> QED
      BY <3>1, <3>2
  <2>4. \A t \in Targets[r] : t \in Supervised(item) <=> start + 1 <= t /\ t <= NextStart(item)
    <3>1. Supervised(item) = Targets[r] \cap (start + 1 .. start + item.size - 1)
      BY <1>1 DEF Supervised
    <3> QED
      BY <1>1, <1>2, <3>1
  <2>5. \A t \in Targets[r] : TimesIn(h, q, t) = TimesIn(g, q, t)
            + (IF start + 1 <= t /\ t <= NextStart(item) THEN 1 ELSE 0)
    BY <1>1, <1>8, <2>4, OneMore
  <2>6. CASE q \in Windowable
    <3>1. TimesIn(h, q, p) = TimesIn(g, q, p) + (IF start + 1 <= p /\ p <= NextStart(item) THEN 1 ELSE 0)
      BY <1>8, <2>5
    <3>2. TimesIn(g, q, p) = e + (IF p <= start THEN 1 ELSE 0)
      BY <1>6, <2>2, <2>6
    <3>3. start <= NextStart(item)
      BY <1>1
    <3> QED
      BY <1>1, <2>1, <2>3, <2>6, <3>1, <3>2, <3>3
  <2>7. CASE q \notin Windowable
    <3>1. start = 0 /\ NextStart(item) = Length[r] - 1
      BY <1>1, <1>2, <1>8, <2>7
    <3>2. \A t \in Targets[r] : TimesIn(h, q, t) = TimesIn(g, q, t) + 1
      BY <1>2, <2>5, <3>1
    <3>3. \A t \in Targets[q] : TimesIn(h, q, t) = TimesIn(h, q, p)
      BY <1>6, <1>8, <2>7, <3>2
    <3>4. TimesIn(h, q, p) = TimesIn(g, q, p) + 1 /\ TimesIn(g, q, p) <= e + 0
      BY <1>6, <1>8, <2>1, <2>2, <3>1, <3>2
    <3>5. PassOf(o, n, Rest(item), q, p) = 1
      BY <2>1, <2>3, <3>1
    <3> QED
      BY <1>6, <2>7, <3>3, <3>4, <3>5
  <2> QED
    BY <2>6, <2>7
<1> QED
  BY <1>7, <1>8

\* The other domains are not concerned.
LEMMA ReadElsewhere ==
  ASSUME NEW d \in Domains, NEW c \in Domains, c # d, NEW item, item.record \in Bucket[d],
         NEW o, NEW n, NEW e, NEW doc, NEW g, Counts(g, c, o, n, e, doc),
         NEW h, NEW x, Extends(g, h, x, item)
  PROVE  Counts(h, c, o, n, e, doc)
<1>1. \A r \in Bucket[c] : item.record # r
  BY NativeAssumption
<1>2. \A r \in Bucket[c] : \A p : TimesIn(h, r, p) = TimesIn(g, r, p)
  <2> SUFFICES ASSUME NEW r \in Bucket[c], NEW p PROVE TimesIn(h, r, p) = TimesIn(g, r, p)
    OBVIOUS
  <2>1. TimesIn(h, r, p) = TimesIn(g, r, p) + 0
    BY <1>1, OneMore
  <2>2. TimesIn(g, r, p) \in Nat
    BY TimesType DEF Extends
  <2> QED
    BY <2>1, <2>2
<1> QED
  BY <1>2 DEF Counts

-----------------------------------------------------------------------------
(* The domain that is behind gets the next item.                           *)

\* A sum depends on the values over its set.
LEMMA SumAgrees ==
  ASSUME NEW f, NEW h, NEW S, IsFiniteSet(S), \A x \in S : f[x] \in Nat /\ h[x] = f[x]
  PROVE  Sum(h, S) = Sum(f, S)
<1> DEFINE Good == {T \in SUBSET S : Sum(h, T) = Sum(f, T)}
<1>1. {} \in Good
  BY SumRecursion
<1>2. ASSUME NEW T \in SUBSET S, NEW x \in S \ T, T \in Good PROVE T \cup {x} \in Good
  <2>1. IsFiniteSet(T)
    BY FS_Subset
  <2>2. Sum(f, T \cup {x}) = f[x] + Sum(f, T) /\ Sum(h, T \cup {x}) = h[x] + Sum(h, T)
    BY <2>1, SumAdd
  <2> QED
    BY <1>2, <2>2
<1> HIDE DEF Good
<1>3. S \in Good
  BY <1>1, <1>2, SetInduction
<1> QED
  BY <1>3 DEF Good

\* The CE of each item, the items of a domain, and the CE of these.
ValueAt(g) == [x \in DOMAIN g |-> Cardinality(Supervised(g[x]))]
PlacesIn(g, d) == {x \in DOMAIN g : g[x].domain = d}
CeIn(g, d) == Sum(ValueAt(g), PlacesIn(g, d))

\* The CE of an item is a number.
LEMMA ValueType == ASSUME NEW item \in Item PROVE Cardinality(Supervised(item)) \in Nat
<1>1. item.start + 1 \in Int /\ item.start + item.size - 1 \in Int
  BY DEF Item
<1>2. IsFiniteSet(item.start + 1 .. item.start + item.size - 1)
  BY <1>1, FS_Interval
<1>3. Supervised(item) \subseteq item.start + 1 .. item.start + item.size - 1
  BY DEF Supervised
<1>4. IsFiniteSet(Supervised(item))
  BY <1>2, <1>3, FS_Subset
<1> QED
  BY <1>4, FS_CardinalityType

\* So is that of a domain.
LEMMA CeType ==
  ASSUME NEW g, IsFiniteSet(DOMAIN g), \A y \in DOMAIN g : g[y] \in Item, NEW d
  PROVE  CeIn(g, d) \in Nat /\ IsFiniteSet(PlacesIn(g, d))
<1>1. PlacesIn(g, d) \subseteq DOMAIN g
  BY DEF PlacesIn
<1>2. IsFiniteSet(PlacesIn(g, d))
  BY <1>1, FS_Subset
<1>3. \A x \in PlacesIn(g, d) : ValueAt(g)[x] \in Nat
  BY <1>1, ValueType DEF ValueAt
<1> QED
  BY <1>2, <1>3, SumType DEF CeIn

\* A further item adds its CE to its domain.
LEMMA CeOneMore ==
  ASSUME NEW g, \A y \in DOMAIN g : g[y] \in Item, NEW item \in Item,
         NEW h, NEW x, Extends(g, h, x, item), NEW d
  PROVE  CeIn(h, d) = CeIn(g, d) + (IF item.domain = d THEN Cardinality(Supervised(item)) ELSE 0)
<1> DEFINE S == PlacesIn(g, d)
<1>1. S \subseteq DOMAIN g /\ x \notin S /\ IsFiniteSet(S)
  BY CeType DEF Extends, PlacesIn
<1>2. /\ \A y \in DOMAIN g : ValueAt(g)[y] = Cardinality(Supervised(g[y])) /\ ValueAt(g)[y] \in Nat
      /\ \A y \in DOMAIN g : ValueAt(h)[y] = ValueAt(g)[y]
      /\ ValueAt(h)[x] = Cardinality(Supervised(item)) /\ ValueAt(h)[x] \in Nat
  BY ValueType DEF ValueAt, Extends
<1>3. Sum(ValueAt(h), S) = Sum(ValueAt(g), S) /\ Sum(ValueAt(g), S) \in Nat
  <2>1. \A y \in S : ValueAt(g)[y] \in Nat /\ ValueAt(h)[y] = ValueAt(g)[y]
    BY <1>1, <1>2
  <2> QED
    BY <1>1, <2>1, SumAgrees, SumType
<1>4. CASE item.domain = d
  <2>1. PlacesIn(h, d) = S \cup {x}
    BY <1>4 DEF Extends, PlacesIn
  <2>2. \A y \in S \cup {x} : ValueAt(h)[y] \in Nat
    BY <1>1, <1>2
  <2> HIDE DEF S
  <2>3. Sum(ValueAt(h), S \cup {x}) = ValueAt(h)[x] + Sum(ValueAt(h), S)
    BY <1>1, <2>2, SumAdd
  <2>4. CeIn(h, d) = ValueAt(h)[x] + Sum(ValueAt(g), S)
    BY <1>3, <2>1, <2>3 DEF CeIn
  <2> QED
    BY <1>2, <1>3, <1>4, <2>4 DEF CeIn, S
<1>5. CASE item.domain # d
  <2>1. PlacesIn(h, d) = S
    BY <1>5 DEF Extends, PlacesIn
  <2>2. CeIn(h, d) = CeIn(g, d) /\ CeIn(g, d) \in Nat
    BY <1>3, <2>1 DEF CeIn
  <2> QED
    BY <1>5, <2>2
<1> QED
  BY <1>4, <1>5

\* Fractions in order, on a tie the ranks.
Precedes(a, u, p, b, v, q) == a * v < b * u \/ (a * v = b * u /\ p < q)

\* A positive factor does not change an order.
LEMMA Cancel ==
  ASSUME NEW x \in Nat, NEW y \in Nat, NEW v \in Nat \ {0}
  PROVE  (x * v < y * v => x < y) /\ (x * v = y * v => x = y) /\ (x <= y => x * v <= y * v)
         /\ (x < y => x * v < y * v)
<1>1. \A m \in Nat, e \in Nat : (m + e) * v = m * v + e * v /\ m * v \in Nat /\ e * v \in Nat
  OBVIOUS
<1>2. \A e \in Nat \ {0} : e * v > 0
  OBVIOUS
<1>3. CASE x < y
  <2>1. PICK e \in Nat \ {0} : y = x + e
    BY <1>3
  <2> QED
    BY <1>1, <1>2, <1>3, <2>1
<1>4. CASE y <= x
  <2>1. PICK e \in Nat : x = y + e
    BY <1>4
  <2>2. e = 0 \/ e * v > 0
    BY <1>2
  <2> QED
    BY <1>1, <1>4, <2>1, <2>2
<1> QED
  BY <1>3, <1>4

\* The order of the domains is one: it is transitive.
LEMMA PrecedesTransitive ==
  ASSUME NEW a \in Nat, NEW b \in Nat, NEW c \in Nat,
         NEW u \in Nat \ {0}, NEW v \in Nat \ {0}, NEW w \in Nat \ {0},
         NEW p \in Nat, NEW q \in Nat, NEW r \in Nat,
         Precedes(a, u, p, b, v, q), Precedes(b, v, q, c, w, r)
  PROVE  Precedes(a, u, p, c, w, r)
<1>1. a * v \in Nat /\ b * u \in Nat /\ b * w \in Nat /\ c * v \in Nat /\ a * w \in Nat /\ c * u \in Nat
  OBVIOUS
<1>2. a * v <= b * u /\ b * w <= c * v
  BY <1>1 DEF Precedes
<1>3. (a * v) * w <= (b * u) * w /\ (b * w) * u <= (c * v) * u
  BY <1>1, <1>2, Cancel
<1>4. /\ (a * v) * w = (a * w) * v /\ (b * u) * w = (b * w) * u /\ (c * v) * u = (c * u) * v
      /\ (a * v) * w \in Nat /\ (b * u) * w \in Nat /\ (c * v) * u \in Nat
  BY <1>1
<1>5. CASE a * v < b * u
  <2>1. (a * v) * w < (b * u) * w
    BY <1>1, <1>5, Cancel
  <2>2. (a * w) * v < (c * u) * v
    BY <1>3, <1>4, <2>1
  <2> QED
    BY <1>1, <2>2, Cancel DEF Precedes
<1>6. CASE b * w < c * v
  <2>1. (b * w) * u < (c * v) * u
    BY <1>1, <1>6, Cancel
  <2>2. (a * w) * v < (c * u) * v
    BY <1>3, <1>4, <2>1
  <2> QED
    BY <1>1, <2>2, Cancel DEF Precedes
<1>7. CASE a * v = b * u /\ b * w = c * v /\ p < q /\ q < r
  <2>1. (a * w) * v = (c * u) * v
    BY <1>4, <1>7
  <2>2. a * w = c * u
    BY <1>1, <2>1, Cancel
  <2> QED
    BY <1>7, <2>2 DEF Precedes
<1> QED
  BY <1>1, <1>5, <1>6, <1>7 DEF Precedes

\* Domain d comes before all others, as Least has it.
Foremost(d, count, w) ==
  \A e \in Domains \ {d} :
    \/ count[d] * w[e] < count[e] * w[d]
    \/ count[d] * w[e] = count[e] * w[d] /\ Rank[d] < Rank[e]

\* One domain does, since the ranks differ: Behind is never arbitrary.
LEMMA ForemostExists ==
  ASSUME NEW count \in [Domains -> Nat], NEW w \in [Domains -> Nat \ {0}]
  PROVE  \E d \in Domains : Foremost(d, count, w)
<1> DEFINE Prior(d, e) == Precedes(count[d], w[d], Rank[d], count[e], w[e], Rank[e])
           First(d, T) == \A e \in T \ {d} : Prior(d, e)
           Good == {T \in SUBSET Domains : T # {} => \E d \in T : First(d, T)}
<1>0. IsFiniteSet(Domains) /\ Domains # {} /\ Rank \in [Domains -> Nat]
      /\ \A d, e \in Domains : d # e => Rank[d] # Rank[e]
  BY NativeAssumption
<1>1. \A d, e, f \in Domains : Prior(d, e) /\ Prior(e, f) => Prior(d, f)
  <2> SUFFICES ASSUME NEW d \in Domains, NEW e \in Domains, NEW f \in Domains, Prior(d, e), Prior(e, f)
               PROVE  Prior(d, f)
    OBVIOUS
  <2>1. /\ count[d] \in Nat /\ count[e] \in Nat /\ count[f] \in Nat
        /\ w[d] \in Nat \ {0} /\ w[e] \in Nat \ {0} /\ w[f] \in Nat \ {0}
        /\ Rank[d] \in Nat /\ Rank[e] \in Nat /\ Rank[f] \in Nat
    BY <1>0
  <2> QED
    BY <2>1, PrecedesTransitive
<1>2. \A d, e \in Domains : d # e => Prior(d, e) \/ Prior(e, d)
  <2> SUFFICES ASSUME NEW d \in Domains, NEW e \in Domains, d # e PROVE Prior(d, e) \/ Prior(e, d)
    OBVIOUS
  <2>1. Rank[d] \in Nat /\ Rank[e] \in Nat /\ Rank[d] # Rank[e]
    BY <1>0
  <2>2. PICK m \in Nat, n \in Nat : m = count[d] * w[e] /\ n = count[e] * w[d]
    OBVIOUS
  <2>3. m < n \/ n < m \/ m = n
    OBVIOUS
  <2> QED
    BY <2>1, <2>2, <2>3 DEF Precedes
<1> HIDE DEF Prior
<1>3. {} \in Good
  OBVIOUS
<1>4. ASSUME NEW T \in SUBSET Domains, NEW x \in Domains \ T, T \in Good PROVE T \cup {x} \in Good
  <2>1. CASE T = {}
    BY <2>1
  <2>2. CASE T # {}
    <3>1. PICK d \in T : First(d, T)
      BY <1>4, <2>2
    <3>2. CASE Prior(d, x)
      BY <3>1, <3>2
    <3>3. CASE Prior(x, d)
      <4>1. First(x, T \cup {x})
        BY <1>1, <3>1, <3>3
      <4> QED
        BY <4>1
    <3> QED
      BY <1>2, <3>1, <3>2, <3>3
  <2> QED
    BY <2>1, <2>2
<1> HIDE DEF Good
<1>5. Domains \in Good
  BY <1>0, <1>3, <1>4, SetInduction
<1>6. PICK d \in Domains : First(d, Domains)
  BY <1>0, <1>5 DEF Good
<1> QED
  BY <1>6 DEF Prior, Precedes, Foremost

\* It is the one that next_item takes.
LEMMA BehindIs ==
  ASSUME NEW s, s.ce \in [Domains -> Nat], s.weights \in [Domains -> Nat \ {0}]
  PROVE  Behind(s) \in Domains /\ Foremost(Behind(s), s.ce, s.weights)
<1>1. Behind(s) = CHOOSE d \in Domains : Foremost(d, s.ce, s.weights)
  BY DEF Behind, Least, Foremost
<1> QED
  BY <1>1, ForemostExists

\* No domain is ahead of another by more than an item of it.
Balanced(ce, w, g) ==
  \A d, e \in Domains :
    \/ ce[d] * w[e] <= ce[e] * w[d]
    \/ \E x \in PlacesIn(g, d) : (ce[d] - ValueAt(g)[x]) * w[e] <= ce[e] * w[d]

\* The domain that is behind gets the next item.
LEMMA StaysBalanced ==
  ASSUME NEW ce \in [Domains -> Nat], NEW w \in [Domains -> Nat \ {0}],
         NEW g, \A y \in DOMAIN g : g[y] \in Item, Balanced(ce, w, g),
         NEW d \in Domains, Foremost(d, ce, w), NEW item \in Item, item.domain = d,
         NEW h, NEW x, Extends(g, h, x, item),
         NEW after, after = [ce EXCEPT ![d] = @ + Cardinality(Supervised(item))]
  PROVE  Balanced(after, w, h)
<1> DEFINE v == Cardinality(Supervised(item))
<1>1. v \in Nat
  BY ValueType
<1>2. after \in [Domains -> Nat] /\ after[d] = ce[d] + v /\ \A e \in Domains \ {d} : after[e] = ce[e]
  BY <1>1
<1>3. x \in PlacesIn(h, d) /\ ValueAt(h)[x] = v
  BY DEF Extends, PlacesIn, ValueAt
<1> HIDE DEF v
<1>4. \A c \in Domains : \A y \in PlacesIn(g, c) :
        y \in PlacesIn(h, c) /\ ValueAt(h)[y] = ValueAt(g)[y] /\ ValueAt(g)[y] \in Nat
  BY ValueType DEF Extends, PlacesIn, ValueAt
<1> SUFFICES ASSUME NEW a \in Domains, NEW b \in Domains
             PROVE  \/ after[a] * w[b] <= after[b] * w[a]
                    \/ \E y \in PlacesIn(h, a) : (after[a] - ValueAt(h)[y]) * w[b] <= after[b] * w[a]
  BY DEF Balanced
<1>5. \A m, n \in Nat : m * n \in Nat
  OBVIOUS
<1>6. CASE a = d /\ b = d
  <2>1. after[a] * w[b] \in Nat /\ after[a] * w[b] = after[b] * w[a]
    BY <1>2, <1>5, <1>6
  <2> QED
    BY <2>1
<1>7. CASE a = d /\ b # d
  <2>1. ce[d] * w[b] <= ce[b] * w[d]
    <3>1. ce[d] * w[b] \in Nat /\ ce[b] * w[d] \in Nat
      BY <1>5
    <3> QED
      BY <1>7, <3>1 DEF Foremost
  <2>2. after[a] - ValueAt(h)[x] = ce[d]
    BY <1>1, <1>2, <1>3, <1>7
  <2> QED
    BY <1>2, <1>3, <1>7, <2>1, <2>2
<1>8. CASE a # d
  <2>1. after[a] = ce[a] /\ ce[b] * w[a] <= after[b] * w[a] /\ ce[b] * w[a] \in Nat /\ after[b] * w[a] \in Nat
    <3>1. ce[b] <= after[b] /\ ce[b] \in Nat /\ after[b] \in Nat /\ w[a] \in Nat \ {0}
      BY <1>1, <1>2
    <3>2. ce[b] * w[a] <= after[b] * w[a]
      BY <3>1, Cancel
    <3> QED
      BY <1>2, <1>5, <1>8, <3>1, <3>2
  <2>2. CASE ce[a] * w[b] <= ce[b] * w[a]
    <3>1. ce[a] * w[b] \in Nat
      BY <1>5
    <3> QED
      BY <2>1, <2>2, <3>1
  <2>3. CASE \E y \in PlacesIn(g, a) : (ce[a] - ValueAt(g)[y]) * w[b] <= ce[b] * w[a]
    <3>1. PICK y \in PlacesIn(g, a) : (ce[a] - ValueAt(g)[y]) * w[b] <= ce[b] * w[a]
      BY <2>3
    <3>2. y \in PlacesIn(h, a) /\ ValueAt(h)[y] = ValueAt(g)[y] /\ ValueAt(g)[y] \in Nat
      BY <1>4
    <3>3. PICK m \in Int : m = (ce[a] - ValueAt(g)[y]) * w[b]
      <4>1. ce[a] - ValueAt(g)[y] \in Int /\ w[b] \in Int
        BY <3>2
      <4>2. \A i, j \in Int : i * j \in Int
        OBVIOUS
      <4> QED
        BY <4>1, <4>2
    <3>4. m <= after[b] * w[a]
      BY <2>1, <3>1, <3>3
    <3> QED
      BY <2>1, <3>2, <3>3, <3>4
  <2> QED
    BY <2>2, <2>3 DEF Balanced
<1> QED
  BY <1>6, <1>7, <1>8

-----------------------------------------------------------------------------
(* A sampler behind the items it chose (Sampler.next and next_item).       *)

\* A sampler of a seed and a mixture.
SamplerTypes(s, sd, w) ==
  /\ s = [seed |-> s.seed, weights |-> s.weights, orders |-> s.orders, offsets |-> s.offsets,
          ce |-> s.ce, examples |-> s.examples, epochs |-> s.epochs,
          document |-> s.document, rng |-> s.rng]
  /\ s.seed = sd /\ s.weights = w /\ s.rng \in Nat
  /\ s.ce \in [Domains -> Nat] /\ s.epochs \in [Domains -> Nat] /\ s.offsets \in [Domains -> Nat]
  /\ s.orders = [d \in Domains |-> s.orders[d]]
  /\ s.document = [d \in Domains |-> s.document[d]]

\* A document begun is the one the order stands at, with targets left.
DocumentSound(o, n, doc) ==
  doc # None =>
    /\ n \in DOMAIN o /\ doc = Open(o[n], doc.start) /\ o[n] \in Windowable
    /\ doc.start \in Nat /\ 1 <= doc.start /\ doc.start < Length[o[n]] - 1

\* A domain of a sampler, behind the items g.
DomainSound(s, g, d) ==
  /\ IsOrder(s.orders[d], d) /\ s.offsets[d] \in 0 .. Len(s.orders[d])
  /\ DocumentSound(s.orders[d], s.offsets[d], s.document[d])
  /\ Counts(g, d, s.orders[d], s.offsets[d], s.epochs[d], s.document[d])

\* A sampler behind the items g: the invariant of both properties.
SamplerSound(s, g, sd, w) ==
  /\ SamplerTypes(s, sd, w)
  /\ IsFiniteSet(DOMAIN g) /\ \A y \in DOMAIN g : g[y] \in Item
  /\ \A d \in Domains : DomainSound(s, g, d)
  /\ \A d \in Domains : s.ce[d] = CeIn(g, d)
  /\ Balanced(s.ce, w, g)

\* The other domains are as they were.
Elsewhere(s, t, d) ==
  \A c \in Domains \ {d} :
    /\ t.orders[c] = s.orders[c] /\ t.offsets[c] = s.offsets[c]
    /\ t.epochs[c] = s.epochs[c] /\ t.document[c] = s.document[c]

\* Where next looks for a record that fits: in the rest of the order, or in a
\* new one.
Searched(s, d, capacity) ==
  IF Fitting(s, d, capacity) # {} THEN s
  ELSE [Shuffled(s, d) EXCEPT !.epochs[d] = @ + 1]

\* What the generator returns is an order.
LEMMA ShuffleFacts ==
  ASSUME GeneratorAssumption(Nat), NEW sd \in Seeds, NEW n \in Nat, NEW d \in Domains
  PROVE  IsOrder(Shuffle(sd, d, n), d)
  BY DEF GeneratorAssumption, IsOrder

\* The order that has records that fit, and ...
FoundIn(s, t, g, d, capacity, sd, w) ==
  /\ SamplerTypes(t, sd, w) /\ t.ce = s.ce /\ t.document = s.document /\ Elsewhere(s, t, d)
  /\ IsOrder(t.orders[d], d) /\ t.offsets[d] \in 0 .. Len(t.orders[d])
  /\ t.epochs[d] \in Nat
  /\ Counts(g, d, t.orders[d], t.offsets[d], t.epochs[d], None)
  /\ Fitting(t, d, capacity) # {}

\* ... the record opened there.
FoundOpen(s, u, g, d, capacity, sd, w) ==
  /\ SamplerTypes(u, sd, w) /\ u.ce = s.ce /\ u.document = s.document /\ Elsewhere(s, u, d)
  /\ IsOrder(u.orders[d], d) /\ u.offsets[d] \in DOMAIN u.orders[d]
  /\ Fits(u.orders[d][u.offsets[d]], capacity)
  /\ Counts(g, d, u.orders[d], u.offsets[d], u.epochs[d], Opened(u.orders[d][u.offsets[d]]))

\* One of the two has records that fit, the next of them included.
LEMMA SearchedSound ==
  ASSUME GeneratorAssumption(Nat), NEW sd \in Seeds, NEW w, NEW s, NEW g, NEW d \in Domains,
         SamplerSound(s, g, sd, w), s.document[d] = None,
         NEW capacity \in Nat, \E r \in Bucket[d] : Fits(r, capacity),
         NEW t, t = Searched(s, d, capacity)
  PROVE  FoundIn(s, t, g, d, capacity, sd, w)
<1> USE DEF FoundIn
<1>1. /\ SamplerTypes(s, sd, w) /\ IsFiniteSet(DOMAIN g)
      /\ IsOrder(s.orders[d], d) /\ s.offsets[d] \in 0 .. Len(s.orders[d])
      /\ Counts(g, d, s.orders[d], s.offsets[d], s.epochs[d], None)
      /\ s.epochs[d] \in Nat
  BY DEF SamplerSound, DomainSound, SamplerTypes
<1>2. CASE Fitting(s, d, capacity) # {}
  BY <1>1, <1>2 DEF Searched, Elsewhere
<1>3. CASE Fitting(s, d, capacity) = {}
  <2> DEFINE o == Shuffle(sd, d, s.rng)
  <2>1. t = [Shuffled(s, d) EXCEPT !.epochs[d] = @ + 1]
    BY <1>3 DEF Searched
  <2>2. /\ t.orders = [s.orders EXCEPT ![d] = o] /\ t.offsets = [s.offsets EXCEPT ![d] = 0]
        /\ t.rng = s.rng + 1 /\ t.epochs = [s.epochs EXCEPT ![d] = @ + 1]
        /\ t.seed = s.seed /\ t.weights = s.weights /\ t.ce = s.ce /\ t.document = s.document
        /\ t.examples = s.examples
        /\ t = [seed |-> t.seed, weights |-> t.weights, orders |-> t.orders, offsets |-> t.offsets,
                ce |-> t.ce, examples |-> t.examples, epochs |-> t.epochs,
                document |-> t.document, rng |-> t.rng]
    BY <1>1, <2>1 DEF Shuffled, SamplerTypes
  <2>3. IsOrder(o, d)
    BY <1>1, ShuffleFacts DEF SamplerTypes
  <2> HIDE DEF o
  <2>4. /\ t.orders[d] = o /\ t.offsets[d] = 0 /\ t.epochs[d] = s.epochs[d] + 1
        /\ SamplerTypes(t, sd, w) /\ Elsewhere(s, t, d)
    <3>1. s.epochs \in [Domains -> Nat] /\ s.offsets \in [Domains -> Nat] /\ s.rng \in Nat
          /\ s.orders = [c \in Domains |-> s.orders[c]]
      BY <1>1 DEF SamplerTypes
    <3>2. t.orders[d] = o /\ t.offsets[d] = 0 /\ t.epochs[d] = s.epochs[d] + 1
      BY <2>2, <3>1
    <3>3. t.epochs \in [Domains -> Nat] /\ t.offsets \in [Domains -> Nat] /\ t.rng \in Nat
      BY <2>2, <3>1
    <3>4. t.orders = [c \in Domains |-> t.orders[c]]
      BY <2>2, <3>1
    <3>5. SamplerTypes(t, sd, w)
      BY <1>1, <2>2, <3>3, <3>4 DEF SamplerTypes
    <3>6. Elsewhere(s, t, d)
      BY <2>2, <3>1 DEF Elsewhere
    <3> QED
      BY <3>2, <3>5, <3>6
  <2>5. \A i \in s.offsets[d] + 1 .. Len(s.orders[d]) : s.orders[d][i] \notin Windowable
    BY <1>3 DEF Fitting, Fits
  <2>6. Counts(g, d, o, 0, s.epochs[d] + 1, None)
    BY <1>1, <2>5, NewOrder
  <2>7. Fitting(t, d, capacity) # {}
    <3>1. PICK r \in Bucket[d] : Fits(r, capacity)
      OBVIOUS
    <3>2. PICK i \in DOMAIN o : o[i] = r
      BY <2>3 DEF IsOrder
    <3>3. i \in 0 + 1 .. Len(o)
      BY <2>3 DEF IsOrder
    <3> QED
      BY <2>4, <3>1, <3>2, <3>3 DEF Fitting
  <2>8. 0 \in 0 .. Len(o)
    BY <2>3 DEF IsOrder
  <2> QED
    BY <1>1, <2>2, <2>3, <2>4, <2>6, <2>7, <2>8
<1> QED
  BY <1>2, <1>3

\* Min is the least element.
LEMMA MinIs ==
  ASSUME NEW T, T \subseteq Nat, T # {}
  PROVE  Min(T) \in T /\ \A y \in T : Min(T) <= y
  BY LeastNumber DEF Min

\* Sampler.next opens a record that fits.
LEMMA AdvancedSound ==
  ASSUME GeneratorAssumption(Nat), NEW sd \in Seeds, NEW w, NEW s, NEW g, NEW d \in Domains,
         SamplerSound(s, g, sd, w), s.document[d] = None,
         NEW capacity \in Nat, \E r \in Bucket[d] : Fits(r, capacity),
         NEW u, u = Advanced(s, d, capacity)
  PROVE  FoundOpen(s, u, g, d, capacity, sd, w)
<1>0. PICK t : t = Searched(s, d, capacity)
  OBVIOUS
<1> DEFINE F == Fitting(t, d, capacity)
           m == Min(F)
<1>1. /\ SamplerTypes(t, sd, w) /\ t.ce = s.ce /\ t.document = s.document /\ Elsewhere(s, t, d)
      /\ IsOrder(t.orders[d], d) /\ t.offsets[d] \in 0 .. Len(t.orders[d])
      /\ t.epochs[d] \in Nat
      /\ Counts(g, d, t.orders[d], t.offsets[d], t.epochs[d], None)
      /\ F # {}
  <2>1. FoundIn(s, t, g, d, capacity, sd, w)
    BY <1>0, SearchedSound
  <2> QED
    BY <2>1 DEF FoundIn
<1>2. IsFiniteSet(DOMAIN g)
  BY DEF SamplerSound
<1>3. u = [t EXCEPT !.offsets[d] = m, !.examples[d] = @ + 1]
  BY <1>0 DEF Advanced, Searched
<1>4. DOMAIN t.orders[d] = 1 .. Len(t.orders[d]) /\ Len(t.orders[d]) \in Nat
  BY <1>1 DEF IsOrder
<1>5. \A p : p \in F <=> /\ p \in t.offsets[d] + 1 .. Len(t.orders[d])
                         /\ Fits(t.orders[d][p], capacity)
  BY DEF Fitting
<1> HIDE DEF F
<1>6. F \subseteq Nat
  BY <1>1, <1>4, <1>5
<1>7. m \in F /\ \A y \in F : m <= y
  BY <1>1, <1>6, MinIs
<1> HIDE DEF m
<1>8. m \in t.offsets[d] + 1 .. Len(t.orders[d]) /\ m \in DOMAIN t.orders[d] /\ Fits(t.orders[d][m], capacity)
      /\ m \in Nat
  BY <1>1, <1>4, <1>5, <1>7
<1>9. \A i \in t.offsets[d] + 1 .. m - 1 : t.orders[d][i] \notin Windowable
  BY <1>1, <1>4, <1>5, <1>7, <1>8 DEF Fits
<1>10. Counts(g, d, t.orders[d], m, t.epochs[d], Opened(t.orders[d][m]))
  BY <1>1, <1>2, <1>8, <1>9, NextOpened
<1>11. /\ u.offsets = [t.offsets EXCEPT ![d] = m] /\ u.orders = t.orders /\ u.epochs = t.epochs
       /\ u.ce = t.ce /\ u.document = t.document /\ u.seed = t.seed /\ u.weights = t.weights
       /\ u.rng = t.rng
       /\ u = [seed |-> u.seed, weights |-> u.weights, orders |-> u.orders, offsets |-> u.offsets,
               ce |-> u.ce, examples |-> u.examples, epochs |-> u.epochs,
               document |-> u.document, rng |-> u.rng]
  BY <1>1, <1>3 DEF SamplerTypes
<1>12. u.offsets[d] = m /\ u.offsets \in [Domains -> Nat] /\ \A c \in Domains \ {d} : u.offsets[c] = t.offsets[c]
  BY <1>1, <1>8, <1>11 DEF SamplerTypes
<1>13. SamplerTypes(u, sd, w)
  BY <1>1, <1>11, <1>12 DEF SamplerTypes
<1>14. Elsewhere(s, u, d)
  BY <1>1, <1>11, <1>12 DEF Elsewhere
<1> QED
  BY <1>1, <1>8, <1>10, <1>11, <1>12, <1>13, <1>14 DEF FoundOpen

\* An item of the domain, and a sampler that is sound when it is read.
ChosenFor(c, s, g, d, sd, w) ==
  /\ c.item \in Item /\ c.item.domain = d /\ c.item.record \in Bucket[d]
  /\ c.item.size \in Nat /\ c.item.size >= 2
  /\ SamplerTypes(c.sampler, sd, w) /\ c.sampler.ce = s.ce
  /\ \A h, x : Extends(g, h, x, c.item) => \A e \in Domains : DomainSound(c.sampler, h, e)

\* Sampler.next_item: whoever trains the item keeps the counts.
LEMMA ChosenSound ==
  ASSUME GeneratorAssumption(Nat), NEW sd \in Seeds, NEW w, NEW s, NEW g, NEW d \in Domains,
         SamplerSound(s, g, sd, w),
         NEW capacity \in Nat, capacity >= 2, \E r \in Bucket[d] : Fits(r, capacity),
         NEW c, c = Chosen(s, d, capacity)
  PROVE  ChosenFor(c, s, g, d, sd, w)
<1> DEFINE t == IF s.document[d] = None THEN Advanced(s, d, capacity) ELSE s
           o == t.orders[d]
           n == t.offsets[d]
           start == IF s.document[d] = None THEN 0 ELSE s.document[d].start
           item == Read(d, o[n], start, capacity)
<1>1. SamplerTypes(s, sd, w) /\ IsFiniteSet(DOMAIN g) /\ \A e \in Domains : DomainSound(s, g, e)
  BY DEF SamplerSound
<1>2. /\ SamplerTypes(t, sd, w) /\ t.ce = s.ce /\ t.document = s.document /\ Elsewhere(s, t, d)
      /\ IsOrder(o, d) /\ n \in DOMAIN o
      /\ Counts(g, d, o, n, t.epochs[d], Open(o[n], start))
      /\ start \in Nat /\ start < Length[o[n]] - 1 /\ (o[n] \notin Windowable => start = 0)
  <2>1. CASE s.document[d] = None
    <3>1. t = Advanced(s, d, capacity) /\ start = 0
      BY <2>1
    <3> HIDE DEF t, start
    <3>2. /\ SamplerTypes(t, sd, w) /\ t.ce = s.ce /\ t.document = s.document /\ Elsewhere(s, t, d)
          /\ IsOrder(o, d) /\ n \in DOMAIN o
          /\ Counts(g, d, o, n, t.epochs[d], Opened(o[n]))
      <4>1. PICK u : u = t
        OBVIOUS
      <4>2. u = Advanced(s, d, capacity)
        BY <3>1, <4>1
      <4>3. /\ SamplerTypes(u, sd, w) /\ u.ce = s.ce /\ u.document = s.document /\ Elsewhere(s, u, d)
            /\ IsOrder(u.orders[d], d) /\ u.offsets[d] \in DOMAIN u.orders[d]
            /\ Counts(g, d, u.orders[d], u.offsets[d], u.epochs[d], Opened(u.orders[d][u.offsets[d]]))
        <5>1. FoundOpen(s, u, g, d, capacity, sd, w)
          BY <2>1, <4>2, AdvancedSound
        <5> QED
          BY <5>1 DEF FoundOpen
      <4> QED
        BY <4>1, <4>3
    <3>3. o[n] \in Bucket[d]
      BY <3>2 DEF IsOrder
    <3>4. Opened(o[n]) = Open(o[n], start) /\ start \in Nat /\ start < Length[o[n]] - 1
      BY <3>1, <3>3, RecordFacts DEF Opened, Open
    <3> QED
      BY <3>1, <3>2, <3>4
  <2>2. CASE s.document[d] # None
    <3>1. t = s /\ start = s.document[d].start
      BY <2>2
    <3> HIDE DEF t, start
    <3>2. /\ IsOrder(o, d) /\ DocumentSound(o, n, s.document[d])
          /\ Counts(g, d, o, n, t.epochs[d], s.document[d])
      BY <1>1, <3>1 DEF DomainSound
    <3>3. /\ n \in DOMAIN o /\ s.document[d] = Open(o[n], start) /\ o[n] \in Windowable
          /\ start \in Nat /\ start < Length[o[n]] - 1
      BY <2>2, <3>1, <3>2 DEF DocumentSound
    <3> QED
      BY <1>1, <3>1, <3>2, <3>3 DEF Elsewhere
  <2> QED
    BY <2>1, <2>2
<1>3. c.item = item /\ c.sampler = [t EXCEPT !.document[d] = Rest(item)]
  <2>1. CASE s.document[d] = None
    BY <2>1 DEF Chosen, Rest, Open
  <2>2. CASE s.document[d] # None
    <3>1. s.document[d].record = o[n]
      <4>1. DocumentSound(s.orders[d], s.offsets[d], s.document[d])
        BY <1>1 DEF DomainSound
      <4>2. s.document[d] = Open(s.orders[d][s.offsets[d]], s.document[d].start)
        BY <2>2, <4>1 DEF DocumentSound
      <4>3. \A r, k : Open(r, k).record = r
        BY DEF Open
      <4> QED
        BY <2>2, <4>2, <4>3
    <3> QED
      BY <2>2, <3>1 DEF Chosen, Rest, Open
  <2> QED
    BY <2>1, <2>2
<1> HIDE DEF t, start
<1>4. o[n] \in Bucket[d]
  BY <1>2 DEF IsOrder
<1>5. /\ item \in Item /\ item.domain = d /\ item.record = o[n] /\ item.size \in Nat /\ item.size >= 2
      /\ NextStart(item) \in Nat /\ 1 <= NextStart(item)
  <2>1. /\ item \in Item /\ item.domain = d /\ item.record = o[n]
        /\ item.size \in Nat /\ item.size >= 2
        /\ NextStart(item) = start + item.size - 1 /\ NextStart(item) \in Nat
    BY <1>2, <1>4, ReadFacts
  <2>2. start \in Nat
    BY <1>2
  <2> HIDE DEF item
  <2> QED
    BY <2>1, <2>2
<1> HIDE DEF item
<1>6. /\ c.sampler.orders = t.orders /\ c.sampler.offsets = t.offsets /\ c.sampler.epochs = t.epochs
      /\ c.sampler.ce = t.ce /\ c.sampler.seed = t.seed /\ c.sampler.weights = t.weights
      /\ c.sampler.rng = t.rng /\ c.sampler.document = [t.document EXCEPT ![d] = Rest(item)]
      /\ c.sampler = [seed |-> c.sampler.seed, weights |-> c.sampler.weights,
                      orders |-> c.sampler.orders, offsets |-> c.sampler.offsets,
                      ce |-> c.sampler.ce, examples |-> c.sampler.examples,
                      epochs |-> c.sampler.epochs, document |-> c.sampler.document,
                      rng |-> c.sampler.rng]
  BY <1>2, <1>3 DEF SamplerTypes
<1>7. /\ t.document = [e \in Domains |-> t.document[e]]
      /\ c.sampler.document = [e \in Domains |-> c.sampler.document[e]]
      /\ c.sampler.document[d] = Rest(item)
      /\ \A e \in Domains \ {d} : c.sampler.document[e] = t.document[e]
  <2>1. t.document = [e \in Domains |-> t.document[e]]
    BY <1>2 DEF SamplerTypes
  <2> QED
    BY <1>6, <2>1
<1>8. SamplerTypes(c.sampler, sd, w)
  BY <1>2, <1>6, <1>7 DEF SamplerTypes
<1>9. ASSUME NEW h, NEW x, Extends(g, h, x, item), NEW e \in Domains
      PROVE  DomainSound(c.sampler, h, e)
  <2>1. CASE e = d
    <3>1. Counts(h, d, o, n, t.epochs[d], Rest(item))
      <4>1. t.epochs[d] \in Nat
        BY <1>2 DEF SamplerTypes
      <4> QED
        BY <1>2, <1>9, <4>1, ReadOn DEF item
    <3>2. DocumentSound(o, n, Rest(item))
      <4>1. CASE Rest(item) = None
        BY <4>1 DEF DocumentSound
      <4>2. CASE Rest(item) # None
        <5>1. /\ Rest(item) = Open(o[n], NextStart(item)) /\ o[n] \in Windowable
              /\ NextStart(item) < Length[o[n]] - 1
          BY <1>5, <4>2 DEF Rest, TargetsLeft
        <5>2. Rest(item).start = NextStart(item)
          BY <5>1 DEF Open
        <5> QED
          BY <1>2, <1>5, <5>1, <5>2 DEF DocumentSound
      <4> QED
        BY <4>1, <4>2
    <3>3. n \in 0 .. Len(o)
      BY <1>2 DEF IsOrder
    <3> QED
      BY <1>2, <1>6, <1>7, <2>1, <3>1, <3>2, <3>3 DEF DomainSound
  <2>2. CASE e # d
    <3>1. DomainSound(s, g, e)
      BY <1>1
    <3>2. /\ c.sampler.orders[e] = s.orders[e] /\ c.sampler.offsets[e] = s.offsets[e]
          /\ c.sampler.epochs[e] = s.epochs[e] /\ c.sampler.document[e] = s.document[e]
      BY <1>2, <1>6, <1>7, <2>2 DEF Elsewhere
    <3>3. Counts(h, e, s.orders[e], s.offsets[e], s.epochs[e], s.document[e])
      BY <1>4, <1>5, <1>9, <2>2, <3>1, ReadElsewhere DEF DomainSound
    <3> QED
      BY <3>1, <3>2, <3>3 DEF DomainSound
  <2> QED
    BY <2>1, <2>2
<1> QED
  BY <1>2, <1>3, <1>4, <1>5, <1>6, <1>8, <1>9 DEF ChosenFor

\* A capacity every domain has a record for.
CapacitySound(capacity) ==
  /\ capacity \in Nat /\ capacity >= 2
  /\ \A d \in Domains : \E r \in Bucket[d] : Fits(r, capacity)

\* One count replaced.
LEMMA CountUpdated ==
  ASSUME NEW f \in [Domains -> Nat], NEW d \in Domains, NEW z \in Nat, NEW h, h = [f EXCEPT ![d] = z]
  PROVE  h \in [Domains -> Nat] /\ h[d] = z /\ \A e \in Domains \ {d} : h[e] = f[e]
  OBVIOUS

\* An item, and the sampler when it is read.
NextFor(item, t, g, sd, w) ==
  /\ item \in Item /\ item.size \in Nat /\ Cardinality(Supervised(item)) \in Nat
  /\ \A h, x : Extends(g, h, x, item) => SamplerSound(t, h, sd, w)

\* A turn of produce_window's loop, for the sampler.
LEMMA NextItemSound ==
  ASSUME GeneratorAssumption(Nat), NEW sd \in Seeds, NEW w \in [Domains -> Nat \ {0}],
         NEW s, NEW g, SamplerSound(s, g, sd, w), NEW capacity, CapacitySound(capacity),
         NEW d, d = Behind(s), NEW c, c = Chosen(s, d, capacity),
         NEW t, t = [c.sampler EXCEPT !.ce[d] = @ + Cardinality(Supervised(c.item))]
  PROVE  NextFor(c.item, t, g, sd, w)
<1> DEFINE v == Cardinality(Supervised(c.item))
<1>1. /\ SamplerTypes(s, sd, w) /\ \A y \in DOMAIN g : g[y] \in Item
      /\ \A e \in Domains : s.ce[e] = CeIn(g, e)
      /\ Balanced(s.ce, w, g) /\ s.ce \in [Domains -> Nat] /\ s.weights = w
  BY DEF SamplerSound, SamplerTypes
<1>2. d \in Domains /\ Foremost(d, s.ce, w)
  BY <1>1, BehindIs
<1>3. capacity \in Nat /\ capacity >= 2 /\ \E r \in Bucket[d] : Fits(r, capacity)
  BY <1>2 DEF CapacitySound
<1>4. /\ c.item \in Item /\ c.item.domain = d /\ c.item.record \in Bucket[d]
      /\ c.item.size \in Nat /\ c.item.size >= 2
      /\ SamplerTypes(c.sampler, sd, w) /\ c.sampler.ce = s.ce
      /\ \A h, x : Extends(g, h, x, c.item) => \A e \in Domains : DomainSound(c.sampler, h, e)
  <2>1. ChosenFor(c, s, g, d, sd, w)
    BY <1>2, <1>3, ChosenSound
  <2> QED
    BY <2>1 DEF ChosenFor
<1>5. v \in Nat
  BY <1>4, ValueType
<1> HIDE DEF v
<1>6. t = [c.sampler EXCEPT !.ce[d] = @ + v]
  BY DEF v
<1>7. /\ t.ce = [s.ce EXCEPT ![d] = @ + v]
      /\ t.orders = c.sampler.orders /\ t.offsets = c.sampler.offsets
      /\ t.epochs = c.sampler.epochs /\ t.document = c.sampler.document
      /\ t.seed = c.sampler.seed /\ t.weights = c.sampler.weights /\ t.rng = c.sampler.rng
      /\ t = [seed |-> t.seed, weights |-> t.weights, orders |-> t.orders, offsets |-> t.offsets,
              ce |-> t.ce, examples |-> t.examples, epochs |-> t.epochs,
              document |-> t.document, rng |-> t.rng]
  BY <1>4, <1>6 DEF SamplerTypes
<1>8. /\ t.ce \in [Domains -> Nat] /\ t.ce[d] = s.ce[d] + v
      /\ \A e \in Domains \ {d} : t.ce[e] = s.ce[e]
  <2>1. s.ce \in [Domains -> Nat] /\ s.ce[d] + v \in Nat
    BY <1>1, <1>2, <1>5
  <2>2. t.ce = [s.ce EXCEPT ![d] = s.ce[d] + v]
    BY <1>7
  <2>3. PICK z : z = s.ce[d] + v
    OBVIOUS
  <2>4. z \in Nat /\ t.ce = [s.ce EXCEPT ![d] = z]
    BY <2>1, <2>2, <2>3
  <2>5. /\ t.ce \in [Domains -> Nat] /\ t.ce[d] = z
        /\ \A e \in Domains \ {d} : t.ce[e] = s.ce[e]
    <3>1. PICK f, h : f = s.ce /\ h = t.ce
      OBVIOUS
    <3>2. f \in [Domains -> Nat] /\ h = [f EXCEPT ![d] = z]
      BY <2>1, <2>4, <3>1
    <3>3. h \in [Domains -> Nat] /\ h[d] = z /\ \A e \in Domains \ {d} : h[e] = f[e]
      BY <1>2, <2>4, <3>2, CountUpdated
    <3> QED
      BY <3>1, <3>3
  <2> QED
    BY <2>3, <2>5
<1>9. SamplerTypes(t, sd, w)
  BY <1>4, <1>7, <1>8 DEF SamplerTypes
<1>10. ASSUME NEW h, NEW x, Extends(g, h, x, c.item) PROVE SamplerSound(t, h, sd, w)
  <2>1. IsFiniteSet(DOMAIN h) /\ \A y \in DOMAIN h : h[y] \in Item
    <3>1. IsFiniteSet(DOMAIN g) /\ DOMAIN h = DOMAIN g \cup {x} /\ h[x] = c.item
          /\ \A y \in DOMAIN g : h[y] = g[y]
      BY <1>10 DEF Extends
    <3> QED
      BY <1>1, <1>4, <3>1, FS_AddElement
  <2>2. \A e \in Domains : DomainSound(t, h, e)
    <3>1. \A e \in Domains : DomainSound(c.sampler, h, e)
      BY <1>4, <1>10
    <3> QED
      BY <1>7, <3>1 DEF DomainSound
  <2>3. ASSUME NEW e \in Domains PROVE t.ce[e] = CeIn(h, e)
    <3>1. CeIn(h, e) = CeIn(g, e) + (IF d = e THEN v ELSE 0)
      BY <1>1, <1>4, <1>10, CeOneMore DEF v
    <3>2. s.ce[e] \in Nat /\ s.ce[e] = CeIn(g, e)
      BY <1>1
    <3> QED
      BY <1>8, <3>1, <3>2
  <2>4. Balanced(t.ce, w, h)
    BY <1>1, <1>2, <1>4, <1>7, <1>10, StaysBalanced DEF v
  <2> QED
    BY <1>9, <2>1, <2>2, <2>3, <2>4 DEF SamplerSound
<1> QED
  BY <1>4, <1>5, <1>10 DEF NextFor, v

\* Only the next draw differs.
Redrawn(s, t) ==
  /\ t.rng \in Nat
  /\ t = [s EXCEPT !.rng = t.rng]

\* Which changes nothing of what was read.
LEMMA RedrawnSound ==
  ASSUME NEW sd, NEW w, NEW s, NEW g, SamplerSound(s, g, sd, w), NEW t, Redrawn(s, t)
  PROVE  SamplerSound(t, g, sd, w)
<1>1. SamplerTypes(s, sd, w)
  BY DEF SamplerSound
<1>2. /\ t.ce = s.ce /\ t.orders = s.orders /\ t.offsets = s.offsets
      /\ t.epochs = s.epochs /\ t.document = s.document
      /\ t.seed = s.seed /\ t.weights = s.weights /\ t.rng \in Nat
      /\ t = [seed |-> t.seed, weights |-> t.weights, orders |-> t.orders, offsets |-> t.offsets,
              ce |-> t.ce, examples |-> t.examples, epochs |-> t.epochs,
              document |-> t.document, rng |-> t.rng]
  BY <1>1 DEF SamplerTypes, Redrawn
<1>3. SamplerTypes(t, sd, w)
  BY <1>1, <1>2 DEF SamplerTypes
<1>4. \A d \in Domains : DomainSound(t, g, d)
  BY <1>2 DEF SamplerSound, DomainSound
<1> QED
  BY <1>2, <1>3, <1>4 DEF SamplerSound

\* Nothing read yet.
NoItems == [x \in {} |-> None]

\* A phase of another mixture begins with a new sampler.
LEMMA FirstSound ==
  ASSUME GeneratorAssumption(Nat), NEW sd \in Seeds, NEW k \in Phase
  PROVE  SamplerSound(FirstSampler(sd, k), NoItems, sd, Weight[k])
<1> DEFINE s == FirstSampler(sd, k)
<1>1. /\ s.seed = sd /\ s.weights = Weight[k]
      /\ s.orders = [d \in Domains |-> Shuffle(sd, d, Rank[d])]
      /\ s.offsets = [d \in Domains |-> 0] /\ s.ce = [d \in Domains |-> 0]
      /\ s.epochs = [d \in Domains |-> 0] /\ s.document = [d \in Domains |-> None]
      /\ s.rng = Cardinality(Domains)
      /\ s = [seed |-> s.seed, weights |-> s.weights, orders |-> s.orders, offsets |-> s.offsets,
              ce |-> s.ce, examples |-> s.examples, epochs |-> s.epochs,
              document |-> s.document, rng |-> s.rng]
  BY DEF FirstSampler
<1> HIDE DEF s
<1>2. IsFiniteSet(Domains) /\ \A d \in Domains : Rank[d] \in Nat
  BY NativeAssumption
<1>3. s.rng \in Nat
  BY <1>1, <1>2, FS_CardinalityType
<1>4. SamplerTypes(s, sd, Weight[k])
  <2>1. /\ s.ce \in [Domains -> Nat] /\ s.epochs \in [Domains -> Nat] /\ s.offsets \in [Domains -> Nat]
        /\ s.orders = [d \in Domains |-> s.orders[d]]
        /\ s.document = [d \in Domains |-> s.document[d]]
    BY <1>1
  <2> QED
    BY <1>1, <1>3, <2>1 DEF SamplerTypes
<1>5. DOMAIN NoItems = {} /\ IsFiniteSet(DOMAIN NoItems) /\ \A d : PlacesIn(NoItems, d) = {}
  BY FS_EmptySet DEF NoItems, PlacesIn
<1>6. \A d : CeIn(NoItems, d) = 0
  BY <1>5, SumRecursion DEF CeIn
<1>7. \A d \in Domains : DomainSound(s, NoItems, d)
  <2> TAKE d \in Domains
  <2>1. IsOrder(s.orders[d], d) /\ s.offsets[d] = 0 /\ s.epochs[d] = 0 /\ s.document[d] = None
    BY <1>1, <1>2, ShuffleFacts
  <2>2. Len(s.orders[d]) \in Nat
    BY <2>1 DEF IsOrder
  <2>3. \A r, p : TimesIn(NoItems, r, p) = 0
    <3>1. \A r, p : Trainings(NoItems, r, p) = {}
      BY <1>5 DEF Trainings
    <3> QED
      BY <3>1, FS_EmptySet DEF TimesIn
  <2>4. \A r, p : PassOf(s.orders[d], 0, None, r, p) = 0
    BY DEF PassOf, Passed
  <2>5. Counts(NoItems, d, s.orders[d], 0, 0, None)
    BY <2>3, <2>4 DEF Counts
  <2> QED
    BY <2>1, <2>2, <2>5 DEF DomainSound, DocumentSound
<1>8. Balanced(s.ce, Weight[k], NoItems)
  <2>1. \A d, e \in Domains : s.ce[d] * Weight[k][e] <= s.ce[e] * Weight[k][d]
    <3>1. \A d \in Domains : Weight[k][d] \in Nat
      BY NativeAssumption
    <3> QED
      BY <1>1, <3>1
  <2> QED
    BY <2>1 DEF Balanced
<1> QED
  BY <1>1, <1>4, <1>5, <1>6, <1>7, <1>8 DEF SamplerSound, s

-----------------------------------------------------------------------------
(* The window filled (produce_window).                                     *)

\* The items of update n's rows, by place, with those of base before.
RowPlaces(n, rows) == {<<n, i, j>> : i \in DOMAIN rows, j \in UNION {DOMAIN rows[k] : k \in DOMAIN rows}}

\* are, and ...
Held(n, rows, x) == \E i \in DOMAIN rows : \E j \in DOMAIN rows[i] : x = <<n, i, j>>

\* ... they together with the items of base before.
Gathered(base, n, rows) ==
  [x \in DOMAIN base \cup {y \in RowPlaces(n, rows) : Held(n, rows, y)} |->
     IF x \in DOMAIN base THEN base[x] ELSE rows[x[2]][x[3]]]

\* No item of base has a place in update n.
Fresh(base, n) == \A x \in DOMAIN base : \A i, j : x # <<n, i, j>>

\* The items gathered, each at its place.
LEMMA GatheredDomain ==
  ASSUME NEW base, NEW n, NEW rows
  PROVE  /\ \A x : x \in DOMAIN Gathered(base, n, rows) <=> x \in DOMAIN base \/ Held(n, rows, x)
         /\ \A x \in DOMAIN base : Gathered(base, n, rows)[x] = base[x]
         /\ Fresh(base, n) => \A i \in DOMAIN rows : \A j \in DOMAIN rows[i] :
                                Gathered(base, n, rows)[<<n, i, j>>] = rows[i][j]
<1>1. \A x : Held(n, rows, x) => x \in RowPlaces(n, rows)
  BY DEF Held, RowPlaces
<1>2. \A x : x \in DOMAIN Gathered(base, n, rows) <=> x \in DOMAIN base \/ Held(n, rows, x)
  BY <1>1 DEF Gathered
<1>3. \A x \in DOMAIN base : Gathered(base, n, rows)[x] = base[x]
  BY DEF Gathered
<1>4. ASSUME Fresh(base, n), NEW i \in DOMAIN rows, NEW j \in DOMAIN rows[i]
      PROVE  Gathered(base, n, rows)[<<n, i, j>>] = rows[i][j]
  <2>1. Held(n, rows, <<n, i, j>>) /\ <<n, i, j>> \notin DOMAIN base
    BY <1>4 DEF Held, Fresh
  <2>2. <<n, i, j>> \in RowPlaces(n, rows)
    BY <1>1, <2>1
  <2> QED
    BY <2>1, <2>2 DEF Gathered
<1> QED
  BY <1>2, <1>3, <1>4

\* One item more in the rows.
Longer(rows, more, i, j, item) ==
  /\ i \in DOMAIN more /\ j \in DOMAIN more[i] /\ more[i][j] = item
  /\ ~(i \in DOMAIN rows /\ j \in DOMAIN rows[i])
  /\ \A a \in DOMAIN rows : \A b \in DOMAIN rows[a] :
       a \in DOMAIN more /\ b \in DOMAIN more[a] /\ more[a][b] = rows[a][b]
  /\ \A a \in DOMAIN more : \A b \in DOMAIN more[a] :
       (a = i /\ b = j) \/ (a \in DOMAIN rows /\ b \in DOMAIN rows[a])

\* It is one item more behind the sampler.
LEMMA LongerExtends ==
  ASSUME NEW base, NEW n, Fresh(base, n), NEW rows, IsFiniteSet(DOMAIN Gathered(base, n, rows)),
         NEW more, NEW i, NEW j, NEW item, Longer(rows, more, i, j, item)
  PROVE  Extends(Gathered(base, n, rows), Gathered(base, n, more), <<n, i, j>>, item)
<1> DEFINE g == Gathered(base, n, rows)
           h == Gathered(base, n, more)
           x == <<n, i, j>>
<1>1. /\ \A y : y \in DOMAIN g <=> y \in DOMAIN base \/ Held(n, rows, y)
      /\ \A y \in DOMAIN base : g[y] = base[y]
      /\ \A a \in DOMAIN rows : \A b \in DOMAIN rows[a] : g[<<n, a, b>>] = rows[a][b]
  BY GatheredDomain
<1>2. /\ \A y : y \in DOMAIN h <=> y \in DOMAIN base \/ Held(n, more, y)
      /\ \A y \in DOMAIN base : h[y] = base[y]
      /\ \A a \in DOMAIN more : \A b \in DOMAIN more[a] : h[<<n, a, b>>] = more[a][b]
  BY GatheredDomain
<1> HIDE DEF g, h
<1>3. x \notin DOMAIN base /\ ~Held(n, rows, x) /\ Held(n, more, x) /\ h[x] = item
  BY <1>2 DEF Fresh, Held, Longer
<1>4. \A y : Held(n, more, y) <=> Held(n, rows, y) \/ y = x
  BY DEF Held, Longer
<1>5. DOMAIN h = DOMAIN g \cup {x}
  BY <1>1, <1>2, <1>4
<1>6. ASSUME NEW y \in DOMAIN g PROVE h[y] = g[y]
  <2>1. CASE y \in DOMAIN base
    BY <1>1, <1>2, <2>1
  <2>2. CASE Held(n, rows, y)
    <3>1. PICK a \in DOMAIN rows : \E b \in DOMAIN rows[a] : y = <<n, a, b>>
      BY <2>2 DEF Held
    <3>0. PICK b \in DOMAIN rows[a] : y = <<n, a, b>>
      BY <3>1
    <3>2. a \in DOMAIN more /\ b \in DOMAIN more[a] /\ more[a][b] = rows[a][b]
      BY DEF Longer
    <3>3. g[<<n, a, b>>] = rows[a][b] /\ h[<<n, a, b>>] = more[a][b]
      BY <1>1, <1>2, <3>2
    <3> QED
      BY <3>0, <3>2, <3>3
  <2> QED
    BY <1>1, <2>1, <2>2
<1> QED
  BY <1>1, <1>3, <1>5, <1>6 DEF Extends, g, h

\* The item opens a row, or continues the last one.
LEMMA RowsGrow ==
  ASSUME NEW rows \in Seq(Seq(Item)), rows # <<>>, NEW item \in Item
  PROVE  /\ Append(rows, <<item>>) \in Seq(Seq(Item)) /\ Append(rows, <<item>>) # <<>>
         /\ Longer(rows, Append(rows, <<item>>), Len(rows) + 1, 1, item)
         /\ \A more : more = [rows EXCEPT ![Len(rows)] = Append(@, item)] =>
              /\ more \in Seq(Seq(Item)) /\ more # <<>>
              /\ Longer(rows, more, Len(rows), Len(rows[Len(rows)]) + 1, item)
<1> DEFINE n == Len(rows)
<1>1. n \in Nat /\ n >= 1 /\ DOMAIN rows = 1 .. n /\ \A a \in 1 .. n : rows[a] \in Seq(Item)
  OBVIOUS
<1>2. \A a \in 1 .. n : Len(rows[a]) \in Nat /\ DOMAIN rows[a] = 1 .. Len(rows[a])
  BY <1>1
<1>3. <<item>> \in Seq(Item) /\ DOMAIN <<item>> = 1 .. 1 /\ <<item>>[1] = item
  OBVIOUS
<1>4. PICK more : more = Append(rows, <<item>>)
  OBVIOUS
<1>5. /\ more \in Seq(Seq(Item)) /\ DOMAIN more = 1 .. n + 1 /\ more[n + 1] = <<item>>
      /\ \A a \in 1 .. n : more[a] = rows[a]
  BY <1>3, <1>4
<1>6. more # <<>> /\ Longer(rows, more, n + 1, 1, item)
  BY <1>1, <1>2, <1>3, <1>5 DEF Longer
<1>7. ASSUME NEW longer, longer = [rows EXCEPT ![n] = Append(@, item)]
      PROVE  /\ longer \in Seq(Seq(Item)) /\ longer # <<>>
             /\ Longer(rows, longer, n, Len(rows[n]) + 1, item)
  <2>1. PICK row : row = Append(rows[n], item)
    OBVIOUS
  <2>2. n \in 1 .. n /\ rows[n] \in Seq(Item) /\ Len(rows[n]) \in Nat
    BY <1>1, <1>2
  <2>3. /\ row \in Seq(Item) /\ DOMAIN row = 1 .. Len(rows[n]) + 1 /\ row[Len(rows[n]) + 1] = item
        /\ \A b \in 1 .. Len(rows[n]) : row[b] = rows[n][b]
    BY <2>1, <2>2
  <2>4. longer = [rows EXCEPT ![n] = row]
    BY <1>7, <2>1
  <2>5. DOMAIN longer = 1 .. n /\ longer[n] = row /\ \A a \in (1 .. n) \ {n} : longer[a] = rows[a]
    BY <1>1, <2>2, <2>4
  <2>6. longer \in Seq(Seq(Item)) /\ longer # <<>>
    <3>1. PICK S : S = Seq(Item)
      OBVIOUS
    <3>2. rows \in Seq(S) /\ row \in S /\ n \in 1 .. Len(rows)
      BY <2>2, <2>3, <3>1
    <3>3. longer \in Seq(S)
      BY <2>4, <3>2, ExceptSeq
    <3>4. longer # <<>>
      <4>1. n \in DOMAIN longer
        BY <2>2, <2>5
      <4>2. n \notin DOMAIN <<>>
        OBVIOUS
      <4> QED
        BY <4>1, <4>2
    <3> QED
      BY <3>1, <3>3, <3>4
  <2>7. Longer(rows, longer, n, Len(rows[n]) + 1, item)
    <3>1. n \in DOMAIN longer /\ Len(rows[n]) + 1 \in DOMAIN longer[n]
          /\ longer[n][Len(rows[n]) + 1] = item
      BY <2>2, <2>3, <2>5
    <3>2. ~(Len(rows[n]) + 1 \in DOMAIN rows[n])
      BY <1>2, <2>2
    <3>3. ASSUME NEW a \in DOMAIN rows, NEW b \in DOMAIN rows[a]
          PROVE  a \in DOMAIN longer /\ b \in DOMAIN longer[a] /\ longer[a][b] = rows[a][b]
      <4>1. CASE a = n
        <5>1. b \in 1 .. Len(rows[n])
          BY <1>2, <2>2, <4>1
        <5>2. n \in DOMAIN longer /\ b \in DOMAIN row /\ row[b] = rows[n][b]
          BY <2>2, <2>3, <2>5, <5>1
        <5> QED
          BY <2>5, <4>1, <5>2
      <4>2. CASE a # n
        BY <1>1, <2>5, <4>2
      <4> QED
        BY <4>1, <4>2
    <3>4. ASSUME NEW a \in DOMAIN longer, NEW b \in DOMAIN longer[a]
          PROVE  (a = n /\ b = Len(rows[n]) + 1) \/ (a \in DOMAIN rows /\ b \in DOMAIN rows[a])
      <4>1. CASE a = n
        <5>1. b \in 1 .. Len(rows[n]) + 1
          BY <1>1, <2>2, <2>3, <2>5, <4>1
        <5>2. b = Len(rows[n]) + 1 \/ (n \in DOMAIN rows /\ b \in DOMAIN rows[n])
          BY <1>1, <1>2, <2>2, <5>1
        <5> QED
          BY <4>1, <5>2
      <4>2. CASE a # n
        BY <1>1, <2>5, <4>2
      <4> QED
        BY <4>1, <4>2
    <3> QED
      BY <3>1, <3>2, <3>3, <3>4 DEF Longer
  <2> QED
    BY <2>6, <2>7
<1> QED
  BY <1>4, <1>5, <1>6, <1>7

\* The window being filled, as far as its data are concerned.
FillSound(f, base, n, sd, w) ==
  /\ f.rows \in Seq(Seq(Item)) /\ f.rows # <<>>
  /\ f.inputs \in Nat /\ f.ce \in Nat
  /\ SamplerSound(f.sampler, Gathered(base, n, f.rows), sd, w)

\* Every turn of the loop keeps it.
LEMMA AddedSound ==
  ASSUME GeneratorAssumption(Nat), NEW sd \in Seeds, NEW w \in [Domains -> Nat \ {0}],
         NEW capacity, CapacitySound(capacity), NEW base, NEW n, Fresh(base, n),
         NEW f, FillSound(f, base, n, sd, w), NEW a, a = Added(f, capacity)
  PROVE  FillSound(a, base, n, sd, w)
<1>1. PICK d : d = Behind(f.sampler)
  OBVIOUS
<1>2. PICK c : c = Chosen(f.sampler, d, capacity)
  OBVIOUS
<1>3. PICK t : t = [c.sampler EXCEPT !.ce[d] = @ + Cardinality(Supervised(c.item))]
  OBVIOUS
<1> DEFINE g == Gathered(base, n, f.rows)
<1>4. /\ f.rows \in Seq(Seq(Item)) /\ f.rows # <<>> /\ f.inputs \in Nat /\ f.ce \in Nat
      /\ SamplerSound(f.sampler, g, sd, w) /\ IsFiniteSet(DOMAIN g)
  BY DEF FillSound, SamplerSound
<1>5. /\ a.sampler = t
      /\ a.rows = IF c.item.size > f.room THEN Append(f.rows, <<c.item>>)
                  ELSE [f.rows EXCEPT ![Len(f.rows)] = Append(@, c.item)]
      /\ a.inputs = f.inputs + c.item.size
      /\ a.ce = f.ce + Cardinality(Supervised(c.item))
  BY <1>1, <1>2, <1>3 DEF Added
<1> HIDE DEF g
<1>6. /\ c.item \in Item /\ c.item.size \in Nat /\ Cardinality(Supervised(c.item)) \in Nat
      /\ \A h, x : Extends(g, h, x, c.item) => SamplerSound(t, h, sd, w)
  <2>1. NextFor(c.item, t, g, sd, w)
    BY <1>1, <1>2, <1>3, <1>4, NextItemSound
  <2> QED
    BY <2>1 DEF NextFor
<1>7. a.inputs \in Nat /\ a.ce \in Nat
  BY <1>4, <1>5, <1>6
<1>8. \E i, j : /\ a.rows \in Seq(Seq(Item)) /\ a.rows # <<>>
                /\ Longer(f.rows, a.rows, i, j, c.item)
  <2>1. CASE c.item.size > f.room
    BY <1>4, <1>5, <1>6, <2>1, RowsGrow
  <2>2. CASE ~(c.item.size > f.room)
    <3>1. a.rows = [f.rows EXCEPT ![Len(f.rows)] = Append(@, c.item)]
      BY <1>5, <2>2
    <3>2. PICK more : more = a.rows
      OBVIOUS
    <3> QED
      BY <1>4, <1>6, <3>1, <3>2, RowsGrow
  <2> QED
    BY <2>1, <2>2
<1>9. PICK i, j : /\ a.rows \in Seq(Seq(Item)) /\ a.rows # <<>>
                  /\ Longer(f.rows, a.rows, i, j, c.item)
  BY <1>8
<1>10. Extends(g, Gathered(base, n, a.rows), <<n, i, j>>, c.item)
  BY <1>4, <1>9, LongerExtends DEF g
<1>11. SamplerSound(t, Gathered(base, n, a.rows), sd, w)
  BY <1>6, <1>10
<1> QED
  BY <1>5, <1>7, <1>9, <1>11 DEF FillSound

\* A window without an item.
LEMMA EmptySound ==
  ASSUME NEW sd, NEW w, NEW base, NEW s, SamplerSound(s, base, sd, w), NEW n, NEW f,
         f.sampler = s, f.rows = << <<>> >>, f.inputs = 0, f.ce = 0,
         base = [x \in DOMAIN base |-> base[x]]
  PROVE  FillSound(f, base, n, sd, w)
<1>1. DOMAIN << <<>> >> = {1} /\ << <<>> >>[1] = <<>> /\ DOMAIN <<>> = {}
      /\ << <<>> >> \in Seq(Seq(Item)) /\ << <<>> >> # <<>>
  OBVIOUS
<1>2. \A x : ~Held(n, << <<>> >>, x)
  BY <1>1 DEF Held
<1>3. Gathered(base, n, << <<>> >>) = base
  BY <1>2 DEF Gathered
<1> QED
  BY <1>1, <1>3 DEF FillSound

\* A turn of the loop, unless the window is full.
Turned(f, capacity) == IF f.inputs >= InputBatch THEN f ELSE Added(f, capacity)

\* The first n turns of the loop.
IsFill(f, empty, capacity, n) ==
  f = [k \in 0 .. n |-> IF k = 0 THEN empty ELSE Turned(f[k - 1], capacity)]

\* The recursion of Produced has a solution.
LEMMA FillExists == \A empty, capacity : \A n \in Nat : \E f : IsFill(f, empty, capacity, n)
<1> TAKE empty, capacity
<1> DEFINE S == {n \in Nat : \E f : IsFill(f, empty, capacity, n)}
<1>1. 0 \in S
  <2> DEFINE f == [k \in 0 .. 0 |-> empty]
  <2>1. f = [k \in 0 .. 0 |-> IF k = 0 THEN empty ELSE Turned(f[k - 1], capacity)]
    OBVIOUS
  <2> HIDE DEF f
  <2>2. IsFill(f, empty, capacity, 0)
    BY <2>1 DEF IsFill
  <2> QED
    BY <2>2
<1>2. ASSUME NEW n \in Nat, n \in S PROVE n + 1 \in S
  <2>1. PICK f : IsFill(f, empty, capacity, n)
    BY <1>2
  <2> DEFINE g == [k \in 0 .. n + 1 |-> IF k = n + 1 THEN Turned(f[n], capacity) ELSE f[k]]
  <2>2. \A k \in 0 .. n + 1 : g[k] = IF k = n + 1 THEN Turned(f[n], capacity) ELSE f[k]
    OBVIOUS
  <2>3. g = [k \in 0 .. n + 1 |-> g[k]]
    OBVIOUS
  <2> HIDE DEF g
  <2>4. ASSUME NEW k \in 0 .. n + 1
        PROVE  g[k] = IF k = 0 THEN empty ELSE Turned(g[k - 1], capacity)
    <3>1. CASE k = n + 1
      <4>1. k # 0 /\ k - 1 = n /\ n # n + 1 /\ n \in 0 .. n + 1
        BY <3>1
      <4> QED
        BY <2>2, <3>1, <4>1
    <3>2. CASE k # n + 1
      <4>1. k \in 0 .. n /\ (k # 0 => k - 1 \in 0 .. n /\ k - 1 # n + 1 /\ k - 1 \in 0 .. n + 1)
        BY <3>2
      <4>2. f[k] = IF k = 0 THEN empty ELSE Turned(f[k - 1], capacity)
        BY <2>1, <4>1 DEF IsFill
      <4> QED
        BY <2>2, <3>2, <4>1, <4>2
    <3> QED
      BY <3>1, <3>2
  <2>5. IsFill(g, empty, capacity, n + 1)
    BY <2>3, <2>4 DEF IsFill
  <2> QED
    BY <2>5
<1> HIDE DEF S
<1>3. Nat \subseteq S
  BY <1>1, <1>2, Induction
<1> QED
  BY <1>3 DEF S

\* So that the filled window has it, after however many turns.
LEMMA FilledSound ==
  ASSUME GeneratorAssumption(Nat), NEW sd \in Seeds, NEW w \in [Domains -> Nat \ {0}],
         NEW capacity, CapacitySound(capacity), NEW base, NEW n, Fresh(base, n),
         NEW empty, FillSound(empty, base, n, sd, w),
         NEW last \in Nat, NEW f, IsFill(f, empty, capacity, last)
  PROVE  FillSound(f[last], base, n, sd, w)
<1> DEFINE S == {k \in Nat : k <= last => FillSound(f[k], base, n, sd, w)}
<1>0. \A k \in 0 .. last : f[k] = IF k = 0 THEN empty ELSE Turned(f[k - 1], capacity)
  BY DEF IsFill
<1>1. 0 \in S
  BY <1>0
<1>2. ASSUME NEW k \in Nat, k \in S PROVE k + 1 \in S
  <2>1. CASE ~(k + 1 <= last)
    BY <2>1
  <2>2. CASE k + 1 <= last
    <3>1. k <= last /\ k + 1 \in 0 .. last /\ k + 1 # 0 /\ (k + 1) - 1 = k
      BY <2>2
    <3>2. f[k + 1] = Turned(f[k], capacity) /\ FillSound(f[k], base, n, sd, w)
      BY <1>0, <1>2, <3>1
    <3>3. PICK a : a = Added(f[k], capacity)
      OBVIOUS
    <3>4. FillSound(a, base, n, sd, w)
      BY <3>2, <3>3, AddedSound
    <3>5. f[k + 1] = f[k] \/ f[k + 1] = a
      BY <3>2, <3>3 DEF Turned
    <3>6. FillSound(f[k + 1], base, n, sd, w)
      BY <3>2, <3>4, <3>5
    <3> QED
      BY <3>6
  <2> QED
    BY <2>1, <2>2
<1> HIDE DEF S
<1>3. Nat \subseteq S
  BY <1>1, <1>2, Induction
<1> QED
  BY <1>3 DEF S

\* What produce_window returns.
MadeSound(made, base, n, sd, w) ==
  /\ made.window.rows \in Seq(Seq(Item))
  /\ made.window.inputs \in Nat /\ made.window.ce \in Nat
  /\ SamplerSound(made.sampler, Gathered(base, n, made.window.rows), sd, w)

\* produce_window: the window it returns is behind the sampler it returns.
LEMMA ProducedSound ==
  ASSUME GeneratorAssumption(Nat), NEW sd \in Seeds, NEW k \in Phase, NEW tokens \in Nat,
         NEW w \in [Domains -> Nat \ {0}], NEW base, base = [x \in DOMAIN base |-> base[x]],
         NEW n, Fresh(base, n), NEW s, SamplerSound(s, base, sd, w),
         NEW made, made = Produced(k, s, tokens)
  PROVE  MadeSound(made, base, n, sd, w)
<1> DEFINE capacity == Context(s.seed, k, s.rng, tokens)
           empty == [sampler |-> [s EXCEPT !.rng = @ + 1], rows |-> << <<>> >>,
                     room |-> capacity, inputs |-> 0, ce |-> 0]
           fill == CHOOSE f : f = [i \in 0 .. InputBatch |->
                     IF i = 0 THEN empty
                     ELSE IF f[i - 1].inputs >= InputBatch THEN f[i - 1]
                          ELSE Added(f[i - 1], capacity)]
           f == fill[InputBatch]
<1>1. made = [window |-> [rows |-> f.rows, capacity |-> capacity, inputs |-> f.inputs, ce |-> f.ce],
              sampler |-> f.sampler]
  BY DEF Produced
<1>2. InputBatch \in Nat
  BY NativeAssumption
<1>3. SamplerTypes(s, sd, w)
  BY DEF SamplerSound
<1>4. CapacitySound(capacity)
  BY <1>3 DEF SamplerTypes, GeneratorAssumption, CapacitySound
<1>5. FillSound(empty, base, n, sd, w)
  <2>1. PICK t : t = [s EXCEPT !.rng = @ + 1]
    OBVIOUS
  <2>2. t.rng = s.rng + 1 /\ t = [s EXCEPT !.rng = t.rng]
    BY <1>3, <2>1 DEF SamplerTypes
  <2>3. t.rng \in Nat
    BY <1>3, <2>2 DEF SamplerTypes
  <2>4. SamplerSound(t, base, sd, w)
    BY <2>2, <2>3, RedrawnSound DEF Redrawn
  <2> QED
    BY <2>1, <2>4, EmptySound
<1> HIDE DEF capacity, empty
<1>6. fill = CHOOSE g : IsFill(g, empty, capacity, InputBatch)
  BY DEF IsFill, Turned
<1>7. IsFill(fill, empty, capacity, InputBatch)
  BY <1>2, <1>6, FillExists
<1> HIDE DEF fill
<1>8. FillSound(f, base, n, sd, w)
  BY <1>2, <1>4, <1>5, <1>7, FilledSound
<1> QED
  BY <1>1, <1>8 DEF MadeSound, FillSound

-----------------------------------------------------------------------------
(* The chain of updates.                                                   *)

\* An update of phase k, and its sampler behind its window and what base has.
EntryGood(e, k, base, n, sd) ==
  /\ e.phase = k /\ e.ledger.phaseTokens \in Nat
  /\ SamplerSound(e.sampler, Gathered(base, n, e.window.rows), sd, Weight[k])

\* A whole update: its window, and p2's draws for its attention.
LEMMA EntryAtSound ==
  ASSUME GeneratorAssumption(Nat), NEW sd \in Seeds, NEW k \in Phase,
         NEW base, base = [x \in DOMAIN base |-> base[x]], NEW n, Fresh(base, n),
         NEW s, SamplerSound(s, base, sd, Weight[k]), NEW l, l.phaseTokens \in Nat,
         NEW e, e = EntryAt(k, s, l)
  PROVE  EntryGood(e, k, base, n, sd)
<1>1. PICK made : made = Produced(k, s, l.phaseTokens)
  OBVIOUS
<1>2. /\ e.phase = k /\ e.window = made.window
      /\ e.sampler = Drawn(k, made.window, made.sampler)
      /\ e.ledger.phaseTokens = l.phaseTokens + Tokens(k, made.window)
  BY <1>1 DEF EntryAt, Made, Trained, Counted
<1>3. Weight[k] \in [Domains -> Nat \ {0}]
  BY NativeAssumption
<1>4. MadeSound(made, base, n, sd, Weight[k])
  BY <1>1, <1>3, ProducedSound
<1>5. /\ made.window.rows \in Seq(Seq(Item))
      /\ made.window.inputs \in Nat /\ made.window.ce \in Nat
      /\ SamplerSound(made.sampler, Gathered(base, n, made.window.rows), sd, Weight[k])
  BY <1>4 DEF MadeSound
<1>6. e.ledger.phaseTokens \in Nat
  BY <1>2, <1>5 DEF Tokens
<1>7. SamplerSound(e.sampler, Gathered(base, n, e.window.rows), sd, Weight[k])
  <2>1. CASE Phases[k] = "p2"
    <3>1. e.sampler = [made.sampler EXCEPT !.rng = @ + Len(made.window.rows)]
      BY <1>2, <2>1 DEF Drawn
    <3>2. SamplerTypes(made.sampler, sd, Weight[k]) /\ Len(made.window.rows) \in Nat
      BY <1>5 DEF SamplerSound
    <3>3. e.sampler.rng = made.sampler.rng + Len(made.window.rows) /\ made.sampler.rng \in Nat
      BY <3>1, <3>2 DEF SamplerTypes
    <3>4. Redrawn(made.sampler, e.sampler)
      BY <3>1, <3>2, <3>3 DEF Redrawn
    <3> QED
      BY <1>2, <1>5, <3>4, RedrawnSound
  <2>2. CASE Phases[k] # "p2"
    BY <1>2, <1>5, <2>2 DEF Drawn
  <2> QED
    BY <2>1, <2>2
<1> QED
  BY <1>2, <1>6, <1>7 DEF EntryGood

\* The items of a lineage that its last sampler chose, by place.
Items(m) == [x \in Places(m) |-> ItemAt(m, x)]

\* The places of a lineage.
IsPlace(m, n, i, j) == n \in OfSampler(m) /\ i \in DOMAIN m[n].window.rows /\ j \in DOMAIN m[n].window.rows[i]

\* Which is what Places has.
LEMMA PlacesAre ==
  ASSUME NEW m
  PROVE  /\ \A x : x \in Places(m) <=> \E n, i, j : IsPlace(m, n, i, j) /\ x = <<n, i, j>>
         /\ \A n, i, j : IsPlace(m, n, i, j) => Items(m)[<<n, i, j>>] = m[n].window.rows[i][j]
<1>1. ASSUME NEW x PROVE x \in Places(m) <=> \E n, i, j : IsPlace(m, n, i, j) /\ x = <<n, i, j>>
  <2>1. x \in Places(m) <=>
          \E n \in OfSampler(m) : \E i \in DOMAIN m[n].window.rows :
            x \in {<<n, i, j>> : j \in DOMAIN m[n].window.rows[i]}
    BY DEF Places
  <2> QED
    BY <2>1 DEF IsPlace
<1>2. ASSUME NEW n, NEW i, NEW j, IsPlace(m, n, i, j)
      PROVE  Items(m)[<<n, i, j>>] = m[n].window.rows[i][j]
  <2>1. <<n, i, j>> \in Places(m)
    BY <1>1, <1>2
  <2> QED
    BY <2>1 DEF Items, ItemAt
<1> QED
  BY <1>1, <1>2

\* The first n updates of the history.
Prefix(h, n) == [i \in 1 .. n |-> h[i]]

\* They are a sequence.
LEMMA PrefixFacts ==
  ASSUME NEW h, NEW n \in Nat
  PROVE  /\ Len(Prefix(h, n)) = n /\ DOMAIN Prefix(h, n) = 1 .. n
         /\ \A i \in 1 .. n : Prefix(h, n)[i] = h[i]
         /\ n > 0 => Last(Prefix(h, n)) = h[n]
<1>1. DOMAIN Prefix(h, n) = 1 .. n /\ \A i \in 1 .. n : Prefix(h, n)[i] = h[i]
  BY DEF Prefix
<1>2. Len(Prefix(h, n)) = n
  BY <1>1
<1> QED
  BY <1>1, <1>2 DEF Last

\* Every lineage in use is one of these.
LEMMA HistoryIsPrefix ==
  ASSUME NEW h, NEW m, OfHistory(m, h)
  PROVE  m = Prefix(h, Len(m)) /\ Len(m) \in Nat
<1>1. PICK S : m \in Seq(S)
  BY DEF OfHistory, IsSeq
<1>2. m = [i \in 1 .. Len(m) |-> m[i]] /\ Len(m) \in Nat
  BY <1>1
<1>3. \A i \in 1 .. Len(m) : m[i] = h[i]
  BY DEF OfHistory
<1> QED
  BY <1>2, <1>3 DEF Prefix

\* What an update adds to: the items so far, unless it begins another mixture.
Before(h, n) ==
  IF n > 0 /\ (h[n + 1].phase = h[n].phase \/ Inherits(h[n + 1].phase)) THEN Items(Prefix(h, n)) ELSE NoItems

\* The items of a lineage with an update more: those of its window, with those
\* before it if they are the same sampler's.
LEMMA ItemsExtended ==
  ASSUME NEW h, NEW n \in Nat, \A i \in 1 .. n + 1 : h[i].phase \in Nat,
         \A i \in 1 .. n : h[i].phase <= h[n].phase,
         n > 0 => h[n + 1].phase \in {h[n].phase, h[n].phase + 1}
  PROVE  /\ Fresh(Before(h, n), n + 1)
         /\ Items(Prefix(h, n + 1)) = Gathered(Before(h, n), n + 1, h[n + 1].window.rows)
<1> DEFINE m == Prefix(h, n)
           o == Prefix(h, n + 1)
           rows == h[n + 1].window.rows
           base == Before(h, n)
           kept == n > 0 /\ (h[n + 1].phase = h[n].phase \/ Inherits(h[n + 1].phase))
<1>1. /\ DOMAIN m = 1 .. n /\ \A i \in 1 .. n : m[i] = h[i]
      /\ n > 0 => m[Len(m)] = h[n]
  BY PrefixFacts DEF Last
<1>2. /\ DOMAIN o = 1 .. n + 1 /\ \A i \in 1 .. n + 1 : o[i] = h[i]
      /\ o[Len(o)] = h[n + 1]
  <2>1. n + 1 \in Nat /\ n + 1 > 0
    OBVIOUS
  <2> QED
    BY <2>1, PrefixFacts DEF Last
<1> HIDE DEF m, o, rows
<1>3. n + 1 \in OfSampler(o)
  <2>1. n + 1 \in 1 .. n + 1 /\ h[n + 1].phase \in Nat
    OBVIOUS
  <2>2. h[n + 1].phase + 1 .. h[n + 1].phase = {}
    BY <2>1
  <2> QED
    BY <1>2, <2>1, <2>2 DEF OfSampler
<1>4. \A i \in 1 .. n : i \in OfSampler(o) <=> kept /\ i \in OfSampler(m)
  <2> TAKE i \in 1 .. n
  <2>0. n > 0
    OBVIOUS
  <2>1. i \in OfSampler(o) <=> \A k \in h[i].phase + 1 .. h[n + 1].phase : Inherits(k)
    BY <1>2 DEF OfSampler
  <2>2. i \in OfSampler(m) <=> \A k \in h[i].phase + 1 .. h[n].phase : Inherits(k)
    BY <1>1, <2>0 DEF OfSampler
  <2>3. h[i].phase \in Nat /\ h[n].phase \in Nat /\ h[i].phase <= h[n].phase
    OBVIOUS
  <2>4. CASE h[n + 1].phase = h[n].phase
    BY <2>0, <2>1, <2>2, <2>4
  <2>5. CASE h[n + 1].phase = h[n].phase + 1
    <3>1. h[i].phase + 1 .. h[n + 1].phase = (h[i].phase + 1 .. h[n].phase) \cup {h[n + 1].phase}
      BY <2>3, <2>5
    <3>2. h[n + 1].phase # h[n].phase
      BY <2>3, <2>5
    <3> QED
      BY <2>0, <2>1, <2>2, <3>1, <3>2
  <2> QED
    BY <2>0, <2>4, <2>5
<1>5. OfSampler(o) \subseteq 1 .. n + 1 /\ OfSampler(m) \subseteq 1 .. n
  BY <1>1, <1>2 DEF OfSampler
<1>6. base = IF kept THEN Items(m) ELSE NoItems
  BY DEF Before, m
<1> HIDE DEF base, kept
<1>7. /\ \A x : x \in DOMAIN base <=> kept /\ \E a, i, j : IsPlace(m, a, i, j) /\ x = <<a, i, j>>
      /\ \A a, i, j : kept /\ IsPlace(m, a, i, j) => base[<<a, i, j>>] = h[a].window.rows[i][j]
  <2>1. CASE kept
    <3>1. base = Items(m) /\ DOMAIN base = Places(m)
      BY <1>6, <2>1 DEF Items
    <3>2. \A a, i, j : IsPlace(m, a, i, j) => m[a] = h[a]
      BY <1>1, <1>5 DEF IsPlace
    <3> QED
      BY <2>1, <3>1, <3>2, PlacesAre
  <2>2. CASE ~kept
    <3>1. DOMAIN base = {}
      BY <1>6, <2>2 DEF NoItems
    <3> QED
      BY <2>2, <3>1
  <2> QED
    BY <2>1, <2>2
<1>8. Fresh(base, n + 1)
  <2>1. \A a, i, j : IsPlace(m, a, i, j) => a # n + 1
    BY <1>5 DEF IsPlace
  <2> QED
    BY <1>7, <2>1 DEF Fresh
<1>9. \A a, i, j :
        IsPlace(o, a, i, j) <=>
          \/ kept /\ IsPlace(m, a, i, j)
          \/ a = n + 1 /\ i \in DOMAIN rows /\ j \in DOMAIN rows[i]
  <2> TAKE a, i, j
  <2>1. CASE a \in 1 .. n
    <3>1. a # n + 1 /\ m[a] = h[a] /\ o[a] = h[a] /\ (a \in OfSampler(o) <=> kept /\ a \in OfSampler(m))
      BY <1>1, <1>2, <1>4, <2>1
    <3> QED
      BY <3>1 DEF IsPlace
  <2>2. CASE a = n + 1
    <3>1. a \notin OfSampler(m) /\ a \in OfSampler(o) /\ o[a] = h[n + 1]
      BY <1>2, <1>3, <1>5, <2>2
    <3> QED
      BY <2>2, <3>1 DEF IsPlace, rows
  <2>3. CASE a \notin 1 .. n + 1
    <3>1. a # n + 1 /\ a \notin OfSampler(m) /\ a \notin OfSampler(o)
      BY <1>5, <2>3
    <3> QED
      BY <3>1 DEF IsPlace
  <2> QED
    BY <2>1, <2>2, <2>3
<1>10. \A x : x \in Places(o) <=> x \in DOMAIN base \/ Held(n + 1, rows, x)
  <2> TAKE x
  <2>1. x \in Places(o) <=> \E a, i, j : IsPlace(o, a, i, j) /\ x = <<a, i, j>>
    BY PlacesAre
  <2> QED
    BY <1>7, <1>9, <2>1 DEF Held
<1> DEFINE g == Gathered(base, n + 1, rows)
<1>11. /\ \A x : x \in DOMAIN g <=> x \in DOMAIN base \/ Held(n + 1, rows, x)
       /\ \A x \in DOMAIN base : g[x] = base[x]
       /\ \A i \in DOMAIN rows : \A j \in DOMAIN rows[i] : g[<<n + 1, i, j>>] = rows[i][j]
  BY <1>8, GatheredDomain
<1>12. g = [x \in DOMAIN g |-> g[x]]
  BY DEF Gathered
<1> HIDE DEF g
<1>13. DOMAIN g = Places(o)
  BY <1>10, <1>11
<1>14. ASSUME NEW x \in Places(o) PROVE g[x] = Items(o)[x]
  <2>1. PICK a, i, j : IsPlace(o, a, i, j) /\ x = <<a, i, j>>
    BY PlacesAre
  <2>2. Items(o)[x] = h[a].window.rows[i][j]
    <3>1. o[a] = h[a]
      BY <1>2, <1>5, <2>1 DEF IsPlace
    <3> QED
      BY <2>1, <3>1, PlacesAre
  <2>3. CASE kept /\ IsPlace(m, a, i, j)
    <3>1. x \in DOMAIN base /\ base[x] = h[a].window.rows[i][j]
      BY <1>7, <2>1, <2>3
    <3> QED
      BY <1>11, <2>2, <3>1
  <2>4. CASE a = n + 1 /\ i \in DOMAIN rows /\ j \in DOMAIN rows[i]
    BY <1>11, <2>1, <2>2, <2>4 DEF rows
  <2> QED
    BY <1>9, <2>1, <2>3, <2>4
<1>15. Items(o) = [x \in Places(o) |-> Items(o)[x]]
  BY DEF Items
<1>16. Items(o) = g
  BY <1>12, <1>13, <1>14, <1>15
<1> QED
  BY <1>8, <1>16 DEF base, g, o, rows

\* The updates are made in phases of the program.
PhasesKnown(h) == \A n \in 1 .. Len(h) : h[n].phase \in Phase

\* The first n updates: their last sampler is behind the items it chose, across
\* the phases that keep its mixture.
LineageGood(h, n, sd) ==
  /\ h[n].phase \in Phase /\ h[n].ledger.phaseTokens \in Nat
  /\ \A i \in 1 .. n : h[i].phase <= h[n].phase
  /\ SamplerSound(h[n].sampler, Items(Prefix(h, n)), sd, Weight[h[n].phase])

\* The first update adds to no items.
LEMMA FirstGood ==
  ASSUME GeneratorAssumption(Nat), NEW sd \in Seeds, NEW h, ChainSound(h, sd), PhasesKnown(h),
         Len(h) \in Nat, Len(h) > 0
  PROVE  LineageGood(h, 1, sd)
<1>1. h[1] = EntryAt(1, FirstSampler(sd, 1), FirstLedger) /\ h[1].phase \in Phase
  BY DEF ChainSound, PhasesKnown
<1>2. 1 \in Phase /\ \A k \in Phase : k \in Nat
  BY NativeAssumption DEF Phase
<1>3. NoItems = [x \in DOMAIN NoItems |-> NoItems[x]] /\ Fresh(NoItems, 1)
  BY DEF NoItems, Fresh
<1>4. SamplerSound(FirstSampler(sd, 1), NoItems, sd, Weight[1])
  BY <1>2, FirstSound
<1>5. PICK e : e = h[1]
  OBVIOUS
<1>6. FirstLedger.phaseTokens \in Nat
  BY DEF FirstLedger
<1>7. EntryGood(e, 1, NoItems, 1, sd)
  BY <1>1, <1>2, <1>3, <1>4, <1>5, <1>6, EntryAtSound
<1>8. Before(h, 0) = NoItems
  BY DEF Before
<1>9. h[1].phase = 1 /\ h[1].phase \in Nat
  BY <1>5, <1>7 DEF EntryGood
<1>10. PICK z \in Nat : z = 0
  OBVIOUS
<1>11. /\ \A i \in 1 .. z + 1 : h[i].phase \in Nat
       /\ \A i \in 1 .. z : h[i].phase <= h[z].phase
       /\ ~(z > 0) /\ z + 1 = 1
  BY <1>9, <1>10
<1>12. Items(Prefix(h, z + 1)) = Gathered(Before(h, z), z + 1, h[z + 1].window.rows)
  BY <1>11, ItemsExtended
<1>13. Items(Prefix(h, 1)) = Gathered(NoItems, 1, h[1].window.rows)
  BY <1>8, <1>10, <1>11, <1>12
<1>14. \A i \in 1 .. 1 : h[i].phase <= h[1].phase
  BY <1>9
<1>15. h[1].ledger.phaseTokens \in Nat
       /\ SamplerSound(h[1].sampler, Items(Prefix(h, 1)), sd, Weight[h[1].phase])
  BY <1>5, <1>7, <1>9, <1>13 DEF EntryGood
<1> QED
  BY <1>1, <1>14, <1>15 DEF LineageGood

\* Every further one adds to those of its sampler.
LEMMA NextGood ==
  ASSUME GeneratorAssumption(Nat), NEW sd \in Seeds, NEW h, ChainSound(h, sd), PhasesKnown(h),
         Len(h) \in Nat, NEW n \in Nat, n > 0, n + 1 <= Len(h), LineageGood(h, n, sd)
  PROVE  LineageGood(h, n + 1, sd)
<1> DEFINE p == h[n].phase
           k == h[n + 1].phase
           w == Weight[k]
           base == Before(h, n)
           items == Items(Prefix(h, n))
<1>1. h[n + 1] = Entry(h[n], sd) /\ k \in Phase
  BY DEF ChainSound, PhasesKnown
<1>2. \A j \in Phase : j \in Nat
  BY DEF Phase
<1>3. /\ p \in Phase /\ h[n].ledger.phaseTokens \in Nat
      /\ \A i \in 1 .. n : h[i].phase <= p
      /\ SamplerSound(h[n].sampler, items, sd, Weight[p])
  BY DEF LineageGood
<1>4. PICK e : e = h[n + 1]
  OBVIOUS
<1>5. \E s, l : /\ e = EntryAt(k, s, l) /\ l.phaseTokens \in Nat
                /\ SamplerSound(s, base, sd, w)
                /\ k \in {p, p + 1}
  <2>1. CASE ~Finished(p, h[n].ledger)
    <3>1. h[n + 1] = EntryAt(p, h[n].sampler, h[n].ledger)
      BY <1>1, <2>1 DEF Entry
    <3>2. k = p
      BY <3>1 DEF EntryAt, Trained
    <3>3. base = items
      BY <3>2 DEF Before
    <3>4. SamplerSound(h[n].sampler, base, sd, w)
      BY <1>3, <3>2, <3>3
    <3> QED
      BY <1>3, <1>4, <3>1, <3>2, <3>4
  <2>2. CASE Finished(p, h[n].ledger)
    <3> DEFINE s == Inherited(p + 1, h[n].sampler, sd)
               l == NextLedger(h[n].ledger)
    <3>1. h[n + 1] = EntryAt(p + 1, s, l)
      BY <1>1, <2>2 DEF Entry
    <3>2. k = p + 1 /\ k # p
      <4>1. k = p + 1
        BY <3>1 DEF EntryAt, Trained
      <4>2. p \in Nat
        BY <1>2, <1>3
      <4> QED
        BY <4>1, <4>2
    <3>3. l.phaseTokens \in Nat
      BY DEF NextLedger, FirstLedger
    <3>4. SamplerSound(s, base, sd, w)
      <4>1. CASE Inherits(k)
        <5>1. s = h[n].sampler /\ base = items
          BY <3>2, <4>1 DEF Inherited, Before
        <5>2. w = Weight[p]
          <6>1. Weight[k] = Weight[k - 1] /\ k - 1 = p
            BY <1>2, <1>3, <3>2, <4>1 DEF Inherits
          <6> QED
            BY <6>1
        <5> QED
          BY <1>3, <5>1, <5>2
      <4>2. CASE ~Inherits(k)
        <5>1. s = FirstSampler(sd, k) /\ base = NoItems
          BY <3>2, <4>2 DEF Inherited, Before
        <5> QED
          BY <1>1, <5>1, FirstSound
      <4> QED
        BY <4>1, <4>2
    <3> QED
      BY <1>4, <3>1, <3>2, <3>3, <3>4
  <2> QED
    BY <2>1, <2>2
<1>6. PICK s, l : /\ e = EntryAt(k, s, l) /\ l.phaseTokens \in Nat
                  /\ SamplerSound(s, base, sd, w)
                  /\ k \in {p, p + 1}
  BY <1>5
<1>7. \A i \in 1 .. n + 1 : h[i].phase \in Nat
  BY <1>2 DEF PhasesKnown
<1>8. /\ Fresh(base, n + 1)
      /\ Items(Prefix(h, n + 1)) = Gathered(base, n + 1, h[n + 1].window.rows)
  BY <1>3, <1>6, <1>7, ItemsExtended
<1>9. base = [x \in DOMAIN base |-> base[x]]
  BY DEF Before, Items, NoItems
<1>10. PICK m : m = n + 1
  OBVIOUS
<1> HIDE DEF base, w, k, p, items
<1>11. EntryGood(e, k, base, m, sd)
  BY <1>1, <1>6, <1>8, <1>9, <1>10, EntryAtSound DEF w
<1>12. /\ h[n + 1].ledger.phaseTokens \in Nat
       /\ SamplerSound(h[n + 1].sampler, Items(Prefix(h, n + 1)), sd, Weight[k])
  BY <1>4, <1>8, <1>10, <1>11 DEF EntryGood
<1>13. \A i \in 1 .. n + 1 : h[i].phase <= k
  <2>1. p \in Nat /\ k \in Nat /\ p <= k
    BY <1>1, <1>2, <1>3, <1>6
  <2> TAKE i \in 1 .. n + 1
  <2>2. CASE i \in 1 .. n
    <3>1. h[i].phase \in Nat /\ h[i].phase <= p
      BY <1>3, <1>7, <2>2
    <3> QED
      BY <2>1, <3>1
  <2>3. CASE i = n + 1
    BY <2>1, <2>3 DEF k
  <2> QED
    BY <2>2, <2>3
<1> QED
  BY <1>1, <1>12, <1>13 DEF LineageGood, k

\* By induction over the history.
LEMMA ChainGood ==
  ASSUME GeneratorAssumption(Nat), NEW sd \in Seeds, NEW h, ChainSound(h, sd), PhasesKnown(h)
  PROVE  \A n \in 1 .. Len(h) : LineageGood(h, n, sd)
<1> DEFINE S == {n \in Nat : n > 0 /\ n <= Len(h) => LineageGood(h, n, sd)}
<1>0. Len(h) \in Nat
  BY Lengths DEF ChainSound
<1>1. 0 \in S
  OBVIOUS
<1>2. ASSUME NEW n \in Nat, n \in S PROVE n + 1 \in S
  <2>1. CASE ~(n + 1 <= Len(h))
    BY <2>1
  <2>2. CASE n + 1 <= Len(h) /\ n = 0
    <3>1. LineageGood(h, 1, sd) /\ n + 1 = 1
      BY <1>0, <2>2, FirstGood
    <3> QED
      BY <3>1
  <2>3. CASE n + 1 <= Len(h) /\ n > 0
    <3>1. LineageGood(h, n, sd)
      BY <1>0, <1>2, <2>3
    <3>2. LineageGood(h, n + 1, sd)
      BY <1>0, <2>3, <3>1, NextGood
    <3> QED
      BY <3>2
  <2> QED
    BY <2>1, <2>2, <2>3
<1> HIDE DEF S
<1>3. Nat \subseteq S
  BY <1>1, <1>2, Induction
<1> QED
  BY <1>0, <1>3 DEF S

-----------------------------------------------------------------------------
(* Every target once, the mixture held, and checkpoints that load.         *)

\* The phases of the updates are phases of the program.
Known == seed \in Seeds /\ PhasesKnown(first)

\* Which every step keeps.
LEMMA KnownStep == IInv /\ Known /\ [Next]_vars => Known'
<1> SUFFICES ASSUME IInv, Known, [Next]_vars PROVE Known'
  OBVIOUS
<1>1. CASE Update
  <2> DEFINE e == Trained(process.phase, Cursor(process), process.ledger, process.window)
             h == Append(first, e)
  <2>1. /\ UNCHANGED seed /\ process # None
        /\ first' = first \/ first' = h
    BY <1>1 DEF Update, At
  <2>2. process.phase \in Phase /\ IsSeq(first)
    BY <2>1 DEF IInv, ProcessSound, TrainerSound, LineageSound, ChainSound
  <2>3. e.phase \in Phase
    BY <2>2 DEF Trained
  <2> HIDE DEF e
  <2>4. /\ Len(first) \in Nat /\ Len(h) = Len(first) + 1 /\ h[Len(first) + 1] = e
        /\ \A n \in 1 .. Len(first) : h[n] = first[n]
    BY <2>2, Appended
  <2> HIDE DEF h
  <2>5. PhasesKnown(h)
    <3> SUFFICES ASSUME NEW n \in 1 .. Len(h) PROVE h[n].phase \in Phase
      BY DEF PhasesKnown
    <3>1. CASE n \in 1 .. Len(first)
      BY <2>4, <3>1 DEF Known, PhasesKnown
    <3>2. CASE n = Len(first) + 1
      BY <2>3, <2>4, <3>2
    <3> QED
      BY <2>4, <3>1, <3>2
  <2> QED
    BY <2>1, <2>5 DEF Known
<1>2. CASE ~Update
  <2>1. UNCHANGED <<seed, first>>
    BY <1>2 DEF Next, Operator, Loop, Save, Start, Resume, RequestPause, Fetch, Submit, Take,
         Decide, MemoryLimit, Leave, Produce, SaveCheckpoint, SaveManifest, SaveStatus, Unlink,
         Evaluate, Close, Crash, vars
  <2> QED
    BY <2>1 DEF Known, PhasesKnown
<1> QED
  BY <1>1, <1>2

\* What the properties say of a lineage in training.
LEMMA TrainingSound ==
  ASSUME GeneratorAssumption(Nat), IInv, Known, NEW m \in Training
  PROVE  /\ Len(m) \in Nat /\ Len(m) > 0 /\ m[Len(m)].phase \in Phase
         /\ SamplerSound(LastSampler(m), Items(m), seed, Weight[m[Len(m)].phase])
<1>1. process # None /\ m = process.model /\ m # <<>>
  BY DEF Training
<1>2. OfHistory(m, first) /\ ChainSound(first, seed)
  BY <1>1 DEF IInv, ProcessSound, TrainerSound, LineageSound
<1>3. m = Prefix(first, Len(m)) /\ Len(m) \in Nat
  BY <1>2, HistoryIsPrefix
<1>4. Len(m) > 0
  <2>1. PICK S : m \in Seq(S)
    BY <1>2 DEF OfHistory, IsSeq
  <2> QED
    BY <1>1, <2>1
<1>5. Len(m) \in 1 .. Len(first) /\ m[Len(m)] = first[Len(m)]
  <2>1. Len(first) \in Nat /\ Len(m) <= Len(first)
    BY <1>2, Lengths DEF OfHistory, ChainSound
  <2> QED
    BY <1>2, <1>3, <1>4, <2>1 DEF OfHistory
<1>6. LineageGood(first, Len(m), seed)
  BY <1>2, <1>5, ChainGood DEF Known
<1> QED
  BY <1>3, <1>4, <1>5, <1>6 DEF LineageGood, LastSampler

\* A pass trains each target of a document once, in order.
LEMMA TargetsOnceHere == ASSUME GeneratorAssumption(Nat), IInv, Known PROVE TargetsOnce
<1> SUFFICES ASSUME NEW m \in Training, NEW d \in Domains, NEW r \in Bucket[d], NEW p \in Targets[r]
             PROVE  /\ Times(m, r, p) <= LastSampler(m).epochs[d] + 1
                    /\ r \in Windowable => Times(m, r, p) >= LastSampler(m).epochs[d]
                    /\ \A q \in Targets[r] : p < q => Times(m, r, q) <= Times(m, r, p)
  BY DEF TargetsOnce
<1> DEFINE s == LastSampler(m)
           g == Items(m)
           pass(q) == PassOf(s.orders[d], s.offsets[d], s.document[d], r, q)
<1>1. SamplerSound(s, g, seed, Weight[m[Len(m)].phase])
  BY TrainingSound
<1>2. /\ s.epochs[d] \in Nat /\ IsFiniteSet(DOMAIN g)
      /\ Counts(g, d, s.orders[d], s.offsets[d], s.epochs[d], s.document[d])
      /\ DocumentSound(s.orders[d], s.offsets[d], s.document[d])
  BY <1>1 DEF SamplerSound, DomainSound, SamplerTypes
<1>3. \A q : Times(m, r, q) = TimesIn(g, r, q)
  BY DEF Times, TimesIn, Trainings, Items
<1> HIDE DEF s, g
<1>4. \A q \in Targets[r] :
        /\ TimesIn(g, r, q) \in Nat /\ TimesIn(g, r, q) <= s.epochs[d] + pass(q)
        /\ r \in Windowable => TimesIn(g, r, q) = s.epochs[d] + pass(q)
        /\ r \notin Windowable => \A t \in Targets[r] : TimesIn(g, r, t) = TimesIn(g, r, q)
        /\ pass(q) \in {0, 1} /\ q \in Nat
  BY <1>2, TimesType, RecordFacts DEF Counts, PassOf
<1>5. ASSUME NEW q \in Targets[r], p < q PROVE pass(q) <= pass(p)
  <2>1. p \in Nat /\ q \in Nat
    BY <1>4
  <2>2. s.document[d] # None => s.document[d].start \in Nat
    BY <1>2 DEF DocumentSound
  <2>3. Passed(s.orders[d], s.offsets[d], s.document[d], r, q) =>
          Passed(s.orders[d], s.offsets[d], s.document[d], r, p)
    BY <1>5, <2>1, <2>2 DEF Passed
  <2> QED
    BY <2>3 DEF PassOf
<1> HIDE DEF pass
<1>6. ASSUME NEW q \in Targets[r], p < q PROVE TimesIn(g, r, q) <= TimesIn(g, r, p)
  <2>1. CASE r \in Windowable
    BY <1>2, <1>4, <1>5, <1>6, <2>1
  <2>2. CASE r \notin Windowable
    <3>1. TimesIn(g, r, q) = TimesIn(g, r, p) /\ TimesIn(g, r, p) \in Nat
      BY <1>4, <2>2
    <3> QED
      BY <3>1
  <2> QED
    BY <2>1, <2>2
<1>7. TimesIn(g, r, p) <= s.epochs[d] + 1 /\ (r \in Windowable => TimesIn(g, r, p) >= s.epochs[d])
  BY <1>2, <1>4
<1> QED
  BY <1>3, <1>6, <1>7 DEF s

\* CeOf is a sum over the items.
LEMMA CeOfIs == ASSUME NEW m, NEW d, IsFiniteSet(PlacesIn(Items(m), d))
                PROVE  CeOf(m, d) = CeIn(Items(m), d) /\ PlacesOf(m, d) = PlacesIn(Items(m), d)
<1> DEFINE S == PlacesOf(m, d)
           h == ValueAt(Items(m))
<1>1. S = PlacesIn(Items(m), d) /\ S \subseteq Places(m)
  BY DEF PlacesOf, PlacesIn, Items
<1>2. \A x \in S : h[x] = CeAt(m, x)
  BY <1>1 DEF ValueAt, CeAt, Items
<1> DEFINE Body(g) == [s \in SUBSET S |->
             IF s = {} THEN 0 ELSE CeAt(m, Choice(s)) + g[s \ {Choice(s)}]]
           it == CHOOSE g : g = Body(g)
<1>3. MapThenSumSet(LAMBDA x : CeAt(m, x), S) = it[S]
  BY DEF MapThenSumSet, MapThenFoldSet, Choice
<1> HIDE DEF h, S
<1>4. ASSUME NEW g PROVE PartialSums(g, h, S) <=> g = Body(g)
  <2>1. \A s \in SUBSET S : s # {} => h[Choice(s)] = CeAt(m, Choice(s))
    BY <1>2 DEF Choice
  <2> QED
    BY <2>1 DEF PartialSums
<1> HIDE DEF Body
<1>5. it = Body(it)
  BY <1>1, <1>4, AllSummed DEF Summed
<1>6. it[S] = Sum(h, S)
  BY <1>1, <1>4, <1>5, AllSummed DEF Summed
<1> QED
  BY <1>1, <1>3, <1>6 DEF CeOf, CeIn, h, S

\* No domain is ahead of another by more than an item.
LEMMA MixtureHeldHere == ASSUME GeneratorAssumption(Nat), IInv, Known PROVE MixtureHeld
<1> SUFFICES ASSUME NEW m \in Training, NEW d \in Domains, NEW e \in Domains
             PROVE  /\ LastSampler(m).ce[d] = CeOf(m, d)
                    /\ \/ CeOf(m, d) * Share(m, e) <= CeOf(m, e) * Share(m, d)
                       \/ \E x \in PlacesOf(m, d) :
                            (CeOf(m, d) - CeAt(m, x)) * Share(m, e) <= CeOf(m, e) * Share(m, d)
  BY DEF MixtureHeld
<1> DEFINE s == LastSampler(m)
           g == Items(m)
           w == Weight[m[Len(m)].phase]
<1>1. SamplerSound(s, g, seed, w)
  BY TrainingSound
<1>2. /\ IsFiniteSet(DOMAIN g) /\ \A y \in DOMAIN g : g[y] \in Item
      /\ \A c \in Domains : s.ce[c] = CeIn(g, c)
      /\ Balanced(s.ce, w, g)
  BY <1>1 DEF SamplerSound
<1>3. \A c \in Domains : s.ce[c] = CeOf(m, c) /\ PlacesOf(m, c) = PlacesIn(g, c)
  <2>1. \A c \in Domains : IsFiniteSet(PlacesIn(g, c))
    BY <1>2, CeType
  <2> QED
    BY <1>2, <2>1, CeOfIs
<1>4. \A x \in PlacesIn(g, d) : ValueAt(g)[x] = CeAt(m, x)
  BY DEF PlacesIn, ValueAt, CeAt, Items
<1> HIDE DEF s, g
<1>5. w = Weight[m[Len(m)].phase] /\ Share(m, d) = w[d] /\ Share(m, e) = w[e]
  BY DEF Share
<1> HIDE DEF w
<1>6. \/ s.ce[d] * w[e] <= s.ce[e] * w[d]
      \/ \E x \in PlacesIn(g, d) : (s.ce[d] - ValueAt(g)[x]) * w[e] <= s.ce[e] * w[d]
  BY <1>2 DEF Balanced
<1>7. \/ CeOf(m, d) * Share(m, e) <= CeOf(m, e) * Share(m, d)
      \/ \E x \in PlacesOf(m, d) :
           (CeOf(m, d) - CeAt(m, x)) * Share(m, e) <= CeOf(m, e) * Share(m, d)
  BY <1>3, <1>4, <1>5, <1>6
<1> QED
  BY <1>3, <1>7 DEF s

\* A checkpoint's sampler stands behind the items it chose, so that its open
\* documents are where load_state_dict wants them.
LEMMA CheckpointsLoadHere == ASSUME GeneratorAssumption(Nat), IInv, Known PROVE CheckpointsLoad
<1> SUFFICES ASSUME NEW k \in Phase, Exists(k), NEW s, s = files[k].checkpoint.sampler
             PROVE  /\ s.seed = seed /\ s.weights = Weight[k]
                    /\ \A d \in Domains : s.document[d] # None =>
                         /\ s.document[d].record \in Bucket[d] \cap Windowable
                         /\ 1 <= s.document[d].start
                         /\ s.document[d].start < Length[s.document[d].record] - 1
  BY DEF CheckpointsLoad
<1>1. PICK m : m = files[k].checkpoint.model
  OBVIOUS
<1>2. /\ OfHistory(m, first) /\ InPhase(k, m) /\ s = Last(m).sampler
      /\ ChainSound(first, seed)
  BY <1>1 DEF IInv, FilesSound, FileSound, CheckpointSound, Exists
<1>3. m = Prefix(first, Len(m)) /\ Len(m) \in Nat /\ Len(m) > 0 /\ Len(first) \in Nat
  BY <1>2, HistoryIsPrefix, Lengths DEF InPhase, ChainSound
<1>4. Len(m) \in 1 .. Len(first) /\ Last(m) = first[Len(m)]
  BY <1>2, <1>3 DEF OfHistory, Last
<1>5. LineageGood(first, Len(m), seed)
  BY <1>2, <1>4, ChainGood DEF Known
<1>6. SamplerSound(s, Items(m), seed, Weight[k])
  BY <1>2, <1>3, <1>4, <1>5 DEF LineageGood, InPhase
<1>7. s.seed = seed /\ s.weights = Weight[k] /\ \A d \in Domains : DomainSound(s, Items(m), d)
  BY <1>6 DEF SamplerSound, SamplerTypes
<1>8. ASSUME NEW d \in Domains, s.document[d] # None
      PROVE  /\ s.document[d].record \in Bucket[d] \cap Windowable
             /\ 1 <= s.document[d].start
             /\ s.document[d].start < Length[s.document[d].record] - 1
  <2> DEFINE doc == s.document[d]
             o == s.orders[d]
             n == s.offsets[d]
  <2>1. /\ IsOrder(o, d) /\ n \in DOMAIN o /\ doc = Open(o[n], doc.start)
        /\ o[n] \in Windowable /\ 1 <= doc.start /\ doc.start < Length[o[n]] - 1
    BY <1>7, <1>8 DEF DomainSound, DocumentSound
  <2>2. o[n] \in Bucket[d]
    <3> HIDE DEF o, n, doc
    <3>1. IsOrder(o, d) /\ n \in DOMAIN o
      BY <2>1
    <3>2. o[n] \in Range(o)
      BY <3>1 DEF Range
    <3> QED
      BY <3>1, <3>2 DEF IsOrder
  <2>3. doc.record = o[n]
    BY <2>1 DEF Open
  <2> QED
    BY <2>1, <2>2, <2>3
<1> QED
  BY <1>7, <1>8

\* So that it holds throughout.
LEMMA KnownAlways == Spec => []Known
<1>1. Init => Known
  BY DEF Init, Known, PhasesKnown
<1> QED
  BY <1>1, KnownStep, Invariant, PTL DEF Spec

\* For every data set, mixture, seed and chain of phases, and every generator
\* that shuffles: each target of a document is read in one window of every pass
\* over its domain, in the order of the text, and a target of a record that is
\* not windowed in at most one, whatever the capacities of the windows and
\* wherever the program is paused, killed or resumed (Sampler.next_item and
\* window_at).  A window of the indexer phase counts as one that read it.
THEOREM ReadsTargetsOnce == ASSUME GeneratorAssumption(Nat) PROVE Spec => []TargetsOnce
<1>1. IInv /\ Known => TargetsOnce
  BY TargetsOnceHere
<1> QED
  BY <1>1, Invariant, KnownAlways, PTL

\* Likewise, the samplers count the targets that were read, and no domain is
\* ahead of another, for its share, by more than an item: over all the phases
\* with that mixture, the indexer phase included (Sampler.next_item, which takes the domain with the least count).
THEOREM HoldsMixture == ASSUME GeneratorAssumption(Nat) PROVE Spec => []MixtureHeld
<1>1. IInv /\ Known => MixtureHeld
  BY MixtureHeldHere
<1> QED
  BY <1>1, Invariant, KnownAlways, PTL

\* Likewise, every checkpoint is accepted by Sampler.load_state_dict: it has the
\* run's seed and the phase's mixture, and each open document is a windowed
\* record of its domain with a token before the cursor and a target behind it.
THEOREM CheckpointsAreLoaded == ASSUME GeneratorAssumption(Nat) PROVE Spec => []CheckpointsLoad
<1>1. IInv /\ Known => CheckpointsLoad
  BY CheckpointsLoadHere
<1> QED
  BY <1>1, Invariant, KnownAlways, PTL

=============================================================================
