------------------------- MODULE DataParallelProofs -------------------------
(***************************************************************************)
(* For any number of ranks: a rank leaves only with its work in            *)
(* checkpoint.pt, the ranks stay in step unless a pause is requested while *)
(* they run, and every update trains the next window of the stream.        *)
(***************************************************************************)
EXTENDS DataParallel, FiniteSetTheorems, WellFoundedInduction, TLAPS

Pcs == Collective \cup Local \cup {"down", "ended", "failed"}

\* The part of TypeOK the other invariants need.
Control ==
  /\ pc \in [Rank -> Pcs]
  /\ purpose \in [Rank -> {"none", "pause", "cadence"}]

\* All ranks hold the same weights.
SameModel == model = Everywhere(model[Writer])

\* checkpoint.pt is of the same update for all ranks.
Whole == HasCheckpoint => \A r \in Rank : checkpoint.rng[r] = Len(checkpoint.model)

\* checkpoint.pt holds the weights in memory.
Saved == HasCheckpoint /\ checkpoint.model = model[Writer]

\* What rank 0 has gathered belongs to the weights it is about to write.
Fresh == pc[Writer] = "write" => \A r \in Rank : gathered[r] = Len(model[Writer])

\* From the write of checkpoint.pt on, until the next window.
WriterSaved == pc[Writer] \in {"report", "barrier", "publish", "close"} => Saved
RankSaved == \A r \in Rank : pc[r] \in {"leave", "ended"} => Saved

LEMMA WriterIsRank == Writer \in Rank
  BY DataParallelAssumption DEF Writer, Rank

\* Next, with the steps that only end a rank taken together.
RankStops ==
  /\ \E r \in Rank : pc[r] \in Collective \cup Local /\ pc' = [pc EXCEPT ![r] = "failed"]
  /\ UNCHANGED <<stream, capacity, ranks, stopAfter, files, outside, attempts>>

LEMMA Steps1 ==
  ASSUME [Next]_vars
  PROVE  \/ Launch \/ RankStops \/ RequestPause \/ (\E r \in Rank : Draw(r))
         \/ Reduce \/ Update \/ (\E r \in Rank : Judge(r)) \/ Verify \/ Gather
         \/ WriteCheckpoint \/ WriteStatus \/ Barrier \/ (\E r \in Rank : Leave(r))
         \/ Publish \/ Close \/ UNCHANGED vars
  BY DEF Next, WriterStep, Together, RankStep, RankFails, TimeOut, Hopeless, Terminate,
         RankStops

LEMMA ControlInit == Init => Control
  BY DEF Init, Control, Pcs, Everywhere

LEMMA ControlStep ==
  ASSUME Control, [Next]_vars
  PROVE  Control'
<1> USE WriterIsRank DEF Control, Pcs, Collective, Local, Everywhere
<1>1. CASE Launch BY <1>1 DEF Launch
<1>2. CASE RankStops BY <1>2 DEF RankStops, ranks
<1>3. CASE RequestPause BY <1>3 DEF RequestPause, ranks
<1>4. CASE \E r \in Rank : Draw(r) BY <1>4 DEF Draw
<1>5. CASE Reduce BY <1>5 DEF Reduce
<1>6. CASE Update BY <1>6 DEF Update
<1>7. CASE \E r \in Rank : Judge(r) BY <1>7 DEF Judge
<1>8. CASE Verify BY <1>8 DEF Verify, ranks
<1>9. CASE Gather BY <1>9 DEF Gather, SaveTurn
<1>10. CASE WriteCheckpoint BY <1>10 DEF WriteCheckpoint, ranks
<1>11. CASE WriteStatus BY <1>11 DEF WriteStatus, ranks
<1>12. CASE Barrier BY <1>12 DEF Barrier, AfterSave
<1>13. CASE \E r \in Rank : Leave(r) BY <1>13 DEF Leave, ranks
<1>14. CASE Publish BY <1>14 DEF Publish, ranks
<1>15. CASE Close BY <1>15 DEF Close, ranks
<1>16. CASE UNCHANGED vars BY <1>16 DEF vars, ranks
<1> QED
  BY <1>1, <1>2, <1>3, <1>4, <1>5, <1>6, <1>7, <1>8, <1>9, <1>10, <1>11, <1>12, <1>13,
     <1>14, <1>15, <1>16, Steps1

-----------------------------------------------------------------------------
(* A rank leaves with its work.                                            *)

SavedInv == SameModel /\ Whole /\ Fresh /\ WriterSaved /\ RankSaved

LEMMA SavedInit == Init => SavedInv
  BY WriterIsRank DEF Init, SavedInv, SameModel, Whole, Fresh, WriterSaved, RankSaved,
     Everywhere, Absent, HasCheckpoint

LEMMA SameModelStep ==
  ASSUME SameModel, [Next]_vars
  PROVE  SameModel'
<1> USE WriterIsRank DEF SameModel, Everywhere
<1>1. CASE Launch BY <1>1 DEF Launch
<1>2. CASE Update BY <1>2 DEF Update
<1>3. CASE UNCHANGED model BY <1>3
<1> QED
  BY <1>1, <1>2, <1>3, Steps1 DEF RankStops, RequestPause, Draw, Reduce, Judge, Verify,
     Gather, WriteCheckpoint, WriteStatus, Barrier, Leave, Publish, Close, vars, ranks

LEMMA WholeStep ==
  ASSUME SavedInv, Control, [Next]_vars
  PROVE  Whole'
<1> USE DEF Whole, HasCheckpoint
<1>1. CASE WriteCheckpoint BY <1>1 DEF WriteCheckpoint, SavedInv, Fresh
<1>2. CASE UNCHANGED checkpoint BY <1>2 DEF SavedInv
<1> QED
  BY <1>1, <1>2, Steps1 DEF RankStops, RequestPause, Draw, Reduce, Judge, Verify,
     Gather, Launch, Update, files, WriteStatus, Barrier, Leave, Publish, Close, vars

\* Steps of one rank towards a place from which nothing is claimed.
LEMMA Sidestep ==
  ASSUME SavedInv, Control, NEW r \in Rank, NEW place,
         place \notin {"write", "report", "barrier", "publish", "close", "leave", "ended"},
         pc' = [pc EXCEPT ![r] = place], UNCHANGED <<model, gathered, checkpoint>>
  PROVE  (Fresh /\ WriterSaved /\ RankSaved)'
  BY WriterIsRank DEF SavedInv, Fresh, WriterSaved, RankSaved, Saved, HasCheckpoint, Control

LEMMA SavedStep ==
  ASSUME SavedInv, Control, [Next]_vars
  PROVE  SavedInv'
<1>1. SameModel' BY SameModelStep DEF SavedInv
<1>2. Whole' BY WholeStep
<1>3. (Fresh /\ WriterSaved /\ RankSaved)'
  <2> USE WriterIsRank
  <2> DEFINE Claim == Fresh /\ WriterSaved /\ RankSaved
  <2> SUFFICES Claim' OBVIOUS
  <2> USE DEF Fresh, WriterSaved, RankSaved, Saved, HasCheckpoint
  <2>1. CASE Launch
    BY <2>1, DataParallelAssumption DEF Launch, Everywhere, HasCheckpoint, files
  <2>2. CASE RankStops BY <2>2, Sidestep DEF RankStops, ranks, files
  <2>3. CASE RequestPause BY <2>3 DEF RequestPause, ranks, files, SavedInv
  <2>4. CASE \E r \in Rank : Draw(r) BY <2>4, Sidestep DEF Draw, files
  <2>5. CASE Reduce BY <2>5 DEF Reduce, Everywhere
  <2>6. CASE Update BY <2>6 DEF Update, Everywhere
  <2>7. CASE \E r \in Rank : Judge(r)
    <3>1. PICK r \in Rank : Judge(r) BY <2>7
    <3>2. PICK place \in {"draw", "verify", "gather"} : pc' = [pc EXCEPT ![r] = place]
      BY <3>1 DEF Judge
    <3> QED BY <3>1, <3>2, Sidestep DEF Judge, files
  <2>8. CASE Verify BY <2>8 DEF Verify, Everywhere
  <2>9. CASE Gather
    BY <2>9 DEF Gather, Meets, SaveTurn, Step, SavedInv, SameModel, Everywhere
  <2>10. CASE WriteCheckpoint
    BY <2>10 DEF WriteCheckpoint, ranks, SavedInv, Control
  <2>11. CASE WriteStatus BY <2>11 DEF WriteStatus, ranks, SavedInv, Control
  <2>12. CASE Barrier
    BY <2>12 DEF Barrier, Meets, AfterSave, files, SavedInv
  <2>13. CASE \E r \in Rank : Leave(r)
    BY <2>13 DEF Leave, ranks, files, SavedInv, Control
  <2>14. CASE Publish BY <2>14 DEF Publish, ranks, SavedInv, Control
  <2>15. CASE Close BY <2>15 DEF Close, Meets, ranks, files, Everywhere, SavedInv
  <2>16. CASE UNCHANGED vars BY <2>16 DEF vars, ranks, files, SavedInv
  <2> HIDE DEF Claim
  <2> QED
    BY <2>1, <2>2, <2>3, <2>4, <2>5, <2>6, <2>7, <2>8, <2>9, <2>10, <2>11, <2>12, <2>13,
       <2>14, <2>15, <2>16, Steps1
<1> QED BY <1>1, <1>2, <1>3 DEF SavedInv

-----------------------------------------------------------------------------
(* The ranks stay in step.                                                 *)

\* What every rank decides after an update.
Verdict == IF PauseDue(Writer) THEN "pause" ELSE IF SaveDue(Writer) THEN "cadence" ELSE "none"

Drawing == \A r \in Rank : pc[r] \in {"draw", "reduce"}
Updating == \A r \in Rank : pc[r] = "update"
Judging ==
  \A r \in Rank :
    \/ pc[r] = "judge"
    \/ Verdict = "none" /\ pc[r] \in {"draw", "reduce"}
    \/ Verdict # "none" /\ purpose[r] = Verdict
       /\ pc[r] = IF Finished(Writer) THEN "verify" ELSE "gather"
OnePurpose == \A r \in Rank : purpose[r] = purpose[Writer]
Gathering == OnePurpose /\ \A r \in Rank : pc[r] = "gather"
Saving ==
  /\ OnePurpose
  /\ pc[Writer] \in {"write", "report", "barrier"}
  /\ \A r \in Rank \ {Writer} : pc[r] = "barrier"
Leaving == \A r \in Rank : pc[r] \in {"leave", "ended"}
Closing ==
  /\ pc[Writer] \in {"publish", "close"}
  /\ \A r \in Rank \ {Writer} : pc[r] = "close"
Resting == \A r \in Rank : pc[r] \in {"down", "ended"}

InStep == \/ Drawing \/ Updating \/ Judging \/ Gathering \/ Saving
          \/ Leaving \/ Closing \/ Resting

Undisturbed == asked = "no" /\ \A r \in Rank : pc[r] # "failed"
LockInv == Undisturbed => InStep

LEMMA InStepNotHopeless ==
  ASSUME InStep
  PROVE  \A r \in Rank : ~Hopeless(r)
  BY WriterIsRank DEF InStep, Drawing, Updating, Judging, Gathering, Saving, Leaving, Closing,
     Resting, Hopeless, Collective

LEMMA SameSteps ==
  ASSUME SameModel, NEW r \in Rank
  PROVE  /\ Step(r) = Step(Writer) /\ (Finished(r) <=> Finished(Writer))
         /\ (PauseDue(r) <=> PauseDue(Writer)) /\ (SaveDue(r) <=> SaveDue(Writer))
<1>1. model[r] = model[Writer] BY WriterIsRank DEF SameModel, Everywhere
<1> QED BY <1>1 DEF Step, Finished, PauseDue, SaveDue

LEMMA SameVerdict ==
  ASSUME UNCHANGED <<model, stopAfter, pauseRequest>>
  PROVE  Verdict' = Verdict /\ (Finished(Writer)' <=> Finished(Writer))
  BY DEF Verdict, PauseDue, SaveDue, Finished, Step

LEMMA LockInit == Init => LockInv
  BY DEF Init, LockInv, InStep, Resting, Everywhere

LEMMA LockStep ==
  ASSUME LockInv, SameModel, Control, [Next]_vars
  PROVE  LockInv'
<1> SUFFICES ASSUME Undisturbed' PROVE InStep' BY DEF LockInv
<1> USE WriterIsRank
<1>1. CASE Launch
  BY <1>1 DEF Launch, InStep, Drawing, Closing, Everywhere
<1>2. CASE ~Launch
  <2> DEFINE Frame == UNCHANGED <<model, stopAfter, pauseRequest>>
  <2>1. Undisturbed /\ InStep
    <3>1. asked = "no"
      BY <1>2, Steps1 DEF RankStops, RequestPause, Draw, Reduce, Judge, Verify, outside, Update,
         Gather, WriteCheckpoint, WriteStatus, Barrier, Leave, Publish, Close, vars, Undisturbed
    <3>2. \A r \in Rank : pc[r] # "failed"
      BY <1>2, Steps1 DEF RankStops, RequestPause, Draw, Reduce, Judge, Verify, Update, Meets,
         Gather, WriteCheckpoint, WriteStatus, Barrier, Leave, Publish, Close, vars, Undisturbed,
         Control, Everywhere, Collective, Local
    <3> QED BY <3>1, <3>2 DEF Undisturbed, LockInv
  <2>2. CASE RankStops BY <2>2 DEF RankStops, Undisturbed, Control
  <2>3. CASE RequestPause BY <2>3 DEF RequestPause, Undisturbed
  <2>4. CASE \E r \in Rank : Draw(r)
    <3>1. PICK r \in Rank : Draw(r) BY <2>4
    <3>2. Verdict' = Verdict BY <3>1, SameVerdict DEF Draw, outside
    <3>3. Drawing \/ (Judging /\ Verdict = "none")
      BY <2>1, <3>1 DEF InStep, Draw, Drawing, Updating, Judging, Gathering, Saving, Leaving,
         Closing, Resting
    <3> QED BY <3>1, <3>2, <3>3 DEF Draw, Control, InStep, Drawing, Judging
  <2>5. CASE Reduce
    BY <2>5 DEF Reduce, Undisturbed, Everywhere, InStep, Drawing, Updating
  <2>6. CASE Update BY <2>6 DEF Update, Everywhere, InStep, Judging
  <2>7. CASE \E r \in Rank : Judge(r)
    <3>1. PICK r \in Rank : Judge(r) BY <2>7
    <3>2. Verdict' = Verdict /\ (Finished(Writer)' <=> Finished(Writer))
      BY <3>1, SameVerdict DEF Judge, outside
    <3>3. Judging
      BY <2>1, <3>1 DEF InStep, Judge, Drawing, Updating, Judging, Gathering, Saving, Leaving,
         Closing, Resting
    <3>4. /\ purpose' = [purpose EXCEPT ![r] = Verdict]
          /\ pc' = [pc EXCEPT ![r] = IF Verdict = "none" THEN "draw"
                                     ELSE IF Finished(Writer) THEN "verify" ELSE "gather"]
      BY <3>1, SameSteps DEF Judge, Verdict, Control
    <3>5. Judging' BY <3>2, <3>3, <3>4 DEF Judging, Control
    <3> QED BY <3>5 DEF InStep
  <2>8. CASE Verify
    <3>1. Judging
      BY <2>1, <2>8 DEF InStep, Verify, Meets, Drawing, Updating, Judging, Gathering, Saving,
         Leaving, Closing, Resting
    <3>2. OnePurpose BY <3>1, <2>8 DEF Verify, Meets, Judging, OnePurpose
    <3> QED
      BY <3>2, <2>8 DEF Verify, Undisturbed, Everywhere, OnePurpose, ranks, InStep, Gathering
  <2>9. CASE Gather
    <3>1. OnePurpose
      BY <2>1, <2>9 DEF InStep, Gather, Meets, Drawing, Updating, Judging, Gathering, Saving,
         Leaving, Closing, Resting, OnePurpose
    <3> QED BY <3>1, <2>9 DEF Gather, SaveTurn, OnePurpose, InStep, Saving
  <2>10. CASE WriteCheckpoint
    BY <2>1, <2>10 DEF WriteCheckpoint, ranks, Control, InStep, Drawing, Updating, Judging,
       Gathering, Saving, Leaving, Closing, Resting, OnePurpose
  <2>11. CASE WriteStatus
    BY <2>1, <2>11 DEF WriteStatus, ranks, Control, InStep, Drawing, Updating, Judging,
       Gathering, Saving, Leaving, Closing, Resting, OnePurpose
  <2>12. CASE Barrier
    <3>1. OnePurpose
      BY <2>1, <2>12 DEF InStep, Barrier, Meets, Drawing, Updating, Judging, Gathering, Saving,
         Leaving, Closing, Resting, OnePurpose
    <3>2. \A r \in Rank : Finished(r) <=> Finished(Writer) BY SameSteps
    <3> QED
      BY <3>1, <3>2, <2>12 DEF Barrier, AfterSave, OnePurpose, InStep, Drawing, Leaving, Closing
  <2>13. CASE \E r \in Rank : Leave(r)
    <3>1. PICK r \in Rank : Leave(r) BY <2>13
    <3>2. Leaving
      BY <2>1, <3>1 DEF InStep, Leave, Drawing, Updating, Judging, Gathering, Saving, Leaving,
         Closing, Resting
    <3> QED BY <3>1, <3>2 DEF Leave, Control, InStep, Leaving
  <2>14. CASE Publish
    BY <2>1, <2>14 DEF Publish, Control, InStep, Drawing, Updating, Judging, Gathering, Saving,
       Leaving, Closing, Resting
  <2>15. CASE Close BY <2>15 DEF Close, Everywhere, InStep, Resting
  <2>16. CASE UNCHANGED vars
    <3>1. UNCHANGED <<pc, purpose, model, stopAfter, pauseRequest>>
      BY <2>16 DEF vars, ranks, outside
    <3>2. Verdict' = Verdict /\ (Finished(Writer)' <=> Finished(Writer)) BY <3>1, SameVerdict
    <3> QED
      BY <2>1, <3>1, <3>2 DEF InStep, Drawing, Updating, Judging, Gathering, Saving, Leaving,
         Closing, Resting, OnePurpose
  <2> QED
    BY <1>2, <2>2, <2>3, <2>4, <2>5, <2>6, <2>7, <2>8, <2>9, <2>10, <2>11, <2>12, <2>13,
       <2>14, <2>15, <2>16, Steps1
<1> QED BY <1>1, <1>2

-----------------------------------------------------------------------------
(* Types, and the shares of a group of rows.                               *)

LEMMA TypeStep ==
  ASSUME TypeOK, [Next]_vars
  PROVE  TypeOK'
<1>1. (Control)' BY ControlStep DEF TypeOK, Control, Pcs
<1>2. UNCHANGED <<stream, capacity>> /\ stopAfter' \in StopPoints
  BY Steps1 DEF TypeOK, Launch, RankStops, RequestPause, Draw, Reduce, Update, Judge, Verify,
     Gather, WriteCheckpoint, WriteStatus, Barrier, Leave, Publish, Close, vars
<1>3. /\ checkpoint'.file \in {"absent", "present"} /\ modelFile'.file \in {"absent", "present"}
      /\ status'.state \in {"none", "running", "paused", "complete"}
  BY Steps1 DEF TypeOK, Launch, RankStops, RequestPause, Draw, Reduce, Update, Judge, Verify,
     Gather, WriteCheckpoint, WriteStatus, Barrier, Leave, Publish, Close, vars, files
<1>4. pauseRequest' \in {"absent", "present"} /\ asked' \in {"no", "yes"}
  BY Steps1 DEF TypeOK, Launch, RankStops, RequestPause, Draw, Reduce, Update, Judge, Verify,
     Gather, WriteCheckpoint, WriteStatus, Barrier, Leave, Publish, Close, vars, outside
<1>5. attempts' \in 0 .. MaxAttempts /\ requests' \in 0 .. MaxRequests
  BY Steps1, DataParallelAssumption
     DEF TypeOK, Launch, RankStops, RequestPause, Draw, Reduce, Update, Judge, Verify,
     Gather, WriteCheckpoint, WriteStatus, Barrier, Leave, Publish, Close, vars, outside
<1>6. faults' \in 0 .. MaxFaults
  BY DataParallelAssumption
     DEF TypeOK, Next, WriterStep, Together, RankStep, RankFails, TimeOut, Terminate,
     Launch, RequestPause, Draw, Reduce, Update, Judge, Verify,
     Gather, WriteCheckpoint, WriteStatus, Barrier, Leave, Publish, Close, vars
<1> QED BY <1>1, <1>2, <1>3, <1>4, <1>5, <1>6 DEF TypeOK, Control, Pcs

LEMMA Quotient ==
  ASSUME NEW d \in Nat, NEW c \in Nat \ {0}
  PROVE  /\ d \div c \in Nat
         /\ (d \div c) * c <= d /\ d < (d \div c) * c + c
  OBVIOUS

LEMMA Factor ==
  ASSUME NEW k \in Nat, NEW m \in Nat, NEW c \in Nat \ {0}, k * c < m * c
  PROVE  k < m
<1>1. CASE m <= k
  <2>1. PICK e \in Nat : k = m + e BY <1>1
  <2>2. k * c = m * c + e * c BY <2>1
  <2>3. e * c \in Nat OBVIOUS
  <2> QED BY <2>2, <2>3
<1> QED BY <1>1

\* The shares of a group of rows: every row goes to exactly one rank, for any
\* number of ranks and any count (BatchCursor.next).
THEOREM SharesPartition ==
  ASSUME NEW from \in Nat, NEW count \in Nat \ {0}
  PROVE  /\ UNION {Share(r, from, count) : r \in Rank} = from .. from + World * count - 1
         /\ \A q, r \in Rank : q # r => Share(q, from, count) \cap Share(r, from, count) = {}
<1>1. ASSUME NEW row \in from .. from + World * count - 1
      PROVE  \E r \in Rank : row \in Share(r, from, count)
  <2>1. World * count \in Nat BY DataParallelAssumption
  <2>2. PICK d \in Nat : row = from + d /\ d < World * count BY <2>1
  <2> DEFINE r == d \div count
  <2>3. r \in Nat /\ r * count <= d /\ d < r * count + count BY Quotient
  <2>4. r * count \in Nat /\ r * count < World * count BY <2>1, <2>2, <2>3
  <2>5. r < World BY <2>3, <2>4, Factor, DataParallelAssumption
  <2>6. r \in Rank BY <2>3, <2>5, DataParallelAssumption DEF Rank
  <2>7. row \in Share(r, from, count) BY <2>2, <2>3 DEF Share
  <2> HIDE DEF r
  <2> QED BY <2>6, <2>7
<1>2. ASSUME NEW r \in Rank, NEW row \in Share(r, from, count)
      PROVE  row \in from .. from + World * count - 1
  <2>1. r \in Nat /\ r + 1 <= World BY DataParallelAssumption DEF Rank
  <2>2. PICK e \in Nat : World = r + 1 + e BY <2>1, DataParallelAssumption
  <2>3. World * count = r * count + count + e * count BY <2>1, <2>2
  <2>4. r * count \in Nat /\ e * count \in Nat BY <2>1
  <2> QED BY <2>3, <2>4 DEF Share
<1>3. ASSUME NEW q \in Rank, NEW r \in Rank, q < r
      PROVE  Share(q, from, count) \cap Share(r, from, count) = {}
  <2>1. q \in Nat /\ r \in Nat BY DataParallelAssumption DEF Rank
  <2>2. PICK e \in Nat : r = q + 1 + e BY <2>1, <1>3
  <2>3. r * count = q * count + count + e * count BY <2>1, <2>2
  <2>4. q * count \in Nat /\ e * count \in Nat /\ r * count \in Nat BY <2>1
  <2> QED BY <2>3, <2>4 DEF Share
<1>4. \A q, r \in Rank : q # r => q < r \/ r < q BY DataParallelAssumption DEF Rank
<1>5. UNION {Share(r, from, count) : r \in Rank} = from .. from + World * count - 1
  BY <1>1, <1>2
<1>6. \A q, r \in Rank : q # r => Share(q, from, count) \cap Share(r, from, count) = {}
  BY <1>3, <1>4
<1> QED BY <1>5, <1>6

-----------------------------------------------------------------------------

IInv == Control /\ SavedInv /\ LockInv

LEMMA Invariant == Spec => []IInv
<1>1. Init => IInv BY ControlInit, SavedInit, LockInit DEF IInv
<1>2. IInv /\ [Next]_vars => IInv'
  BY ControlStep, SavedStep, LockStep DEF IInv, SavedInv
<1> QED BY <1>1, <1>2, PTL DEF Spec

\* Where every rank stands, and the bounds of the environment.
THEOREM TypesAreKept == Spec => []TypeOK
<1>1. Init => TypeOK
  BY DataParallelAssumption DEF Init, TypeOK, Everywhere, Absent
<1>2. TypeOK /\ [Next]_vars => TypeOK' BY TypeStep
<1> QED BY <1>1, <1>2, PTL DEF Spec

\* A rank leaves only with its work in checkpoint.pt, also when a pause was
\* seen by some ranks only (save in train.py).
THEOREM WorkIsSaved == Spec => []LeavesWithItsWork
<1>1. IInv => LeavesWithItsWork
  BY WriterIsRank DEF IInv, SavedInv, RankSaved, Saved, Whole, SameModel, Everywhere,
     LeavesWithItsWork, Step
<1> QED BY <1>1, Invariant, PTL

\* Cadence, --stop-after-updates and a request from before the launch never put
\* the ranks out of step (the decisions after an update in train.py).
THEOREM StayInStep == Spec => []LockstepUntilRequest
<1>1. IInv => LockstepUntilRequest
  BY InStepNotHopeless DEF IInv, LockInv, Undisturbed, LockstepUntilRequest
<1> QED BY <1>1, Invariant, PTL

-----------------------------------------------------------------------------
(* The numbers, finite sets and their sums.                                *)

\* Nonempty sets of naturals have a least element ...
LEMMA Least ==
  ASSUME NEW T, T \subseteq Nat, T # {}
  PROVE  \E x \in T : \A y \in T : x <= y
<1> DEFINE R == OpToRel(<, Nat)
<1>1. IsWellFoundedOn(R, Nat)
  BY NatLessThanWellFounded
<1>2. \A x, y \in Nat : <<y, x>> \in R <=> y < x
  BY DEF OpToRel
<1> HIDE DEF R
<1>3. \E x \in T : \A y \in T : ~ (<<y, x>> \in R)
  BY <1>1, WFMin
<1>4. PICK x \in T : \A y \in T : ~ (<<y, x>> \in R)
  BY <1>3
<1>5. \A y \in T : x \in Nat /\ y \in Nat /\ ~(y < x)
  BY <1>2, <1>4
<1> QED
  BY <1>5

\* ... so that what holds of 0, and of n + 1 when of n, holds of every number.
LEMMA Induction ==
  ASSUME NEW S, 0 \in S, \A n \in Nat : n \in S => n + 1 \in S
  PROVE  Nat \subseteq S
<1> SUFFICES ASSUME Nat \ S # {} PROVE FALSE
  OBVIOUS
<1>1. PICK x \in Nat \ S : \A y \in Nat \ S : x <= y
  BY Least
<1>2. x # 0
  OBVIOUS
<1>3. x - 1 \in Nat /\ (x - 1) + 1 = x /\ ~(x <= x - 1)
  BY <1>2
<1>4. x - 1 \in S
  BY <1>1, <1>3
<1> QED
  BY <1>3, <1>4

\* A set without one of its elements.
LEMMA OneLess ==
  ASSUME NEW T, IsFiniteSet(T), NEW n \in Nat, Cardinality(T) = n + 1, NEW x \in T
  PROVE  Cardinality(T \ {x}) = n
<1>1. Cardinality(T \ {x}) = Cardinality(T) - 1
  BY FS_RemoveElement
<1> QED
  BY <1>1

\* What holds of {}, and with one more element, holds of every finite set.
LEMMA SetInduction ==
  ASSUME NEW S, IsFiniteSet(S), NEW Good, {} \in Good,
         \A T \in SUBSET S : \A x \in S \ T : T \in Good => T \cup {x} \in Good
  PROVE  S \in Good
<1> DEFINE N == {n \in Nat : \A T \in SUBSET S : Cardinality(T) = n => T \in Good}
<1>1. 0 \in N
  BY FS_EmptySet, FS_Subset
<1>2. ASSUME NEW n \in Nat, n \in N PROVE n + 1 \in N
  <2> SUFFICES ASSUME NEW T \in SUBSET S, Cardinality(T) = n + 1 PROVE T \in Good
    OBVIOUS
  <2>1. IsFiniteSet(T) /\ T # {}
    BY FS_Subset, FS_EmptySet
  <2>2. PICK x \in T : TRUE
    BY <2>1
  <2>3. Cardinality(T \ {x}) = n
    BY <2>1, <2>2, OneLess
  <2>4. T \ {x} \in Good
    BY <1>2, <2>3
  <2>5. (T \ {x}) \cup {x} = T
    BY <2>2
  <2> QED
    BY <2>2, <2>4, <2>5
<1> HIDE DEF N
<1>3. Nat \subseteq N
  BY <1>1, <1>2, Induction
<1>4. Cardinality(S) \in Nat
  BY FS_CardinalityType
<1> QED
  BY <1>3, <1>4 DEF N

\* The sum of the values of f over S, as MapThenSumSet computes it.
Sum(f, S) == MapThenSumSet(LAMBDA x : f[x], S)

\* The element that MapThenSumSet takes first.
Choice(S) == CHOOSE x \in S : TRUE

\* The partial sums that MapThenSumSet chooses.
PartialSums(g, f, S) ==
  g = [s \in SUBSET S |-> IF s = {} THEN 0 ELSE f[Choice(s)] + g[s \ {Choice(s)}]]

\* A sum is the last of its partial sums.
LEMMA SumIsPartial ==
  ASSUME NEW f, NEW S, \E g : PartialSums(g, f, S)
  PROVE  \E g : PartialSums(g, f, S) /\ Sum(f, S) = g[S]
<1> DEFINE h == CHOOSE g : PartialSums(g, f, S)
<1>1. PartialSums(h, f, S)
  OBVIOUS
<1>2. Sum(f, S) = h[S]
  BY DEF MapThenSumSet, MapThenFoldSet, Sum, PartialSums, Choice
<1> QED
  BY <1>1, <1>2

\* Partial sums up to T exist, and all agree on the value of T.
Summed(f, T) ==
  /\ \E g : PartialSums(g, f, T)
  /\ \A g, S : PartialSums(g, f, S) /\ T \subseteq S => g[T] = Sum(f, T)

\* The recursion that defines a sum is well founded: it has one solution.
LEMMA AllSummed ==
  ASSUME NEW f, NEW S, IsFiniteSet(S)
  PROVE  Summed(f, S)
<1> DEFINE N == {n \in Nat : \A T : IsFiniteSet(T) /\ Cardinality(T) <= n => Summed(f, T)}
<1>1. 0 \in N
  <2> SUFFICES ASSUME NEW T, IsFiniteSet(T), Cardinality(T) <= 0 PROVE Summed(f, T)
    OBVIOUS
  <2>1. T = {}
    BY FS_EmptySet, FS_CardinalityType
  <2> DEFINE g == [s \in SUBSET T |-> 0]
  <2>2. PartialSums(g, f, T)
    BY <2>1 DEF PartialSums
  <2> HIDE DEF g
  <2>3. \A h, R : PartialSums(h, f, R) => h[{}] = 0
    BY DEF PartialSums
  <2>4. Sum(f, T) = 0
    BY <2>1, <2>2, <2>3, SumIsPartial
  <2> QED
    BY <2>1, <2>2, <2>3, <2>4 DEF Summed
<1>2. ASSUME NEW n \in Nat, n \in N PROVE n + 1 \in N
  <2> SUFFICES ASSUME NEW T, IsFiniteSet(T), Cardinality(T) = n + 1 PROVE Summed(f, T)
    <3>1. \A T : IsFiniteSet(T) /\ Cardinality(T) <= n + 1 =>
            Cardinality(T) <= n \/ Cardinality(T) = n + 1
      BY FS_CardinalityType
    <3> QED
      BY <1>2, <3>1
  <2> DEFINE x == Choice(T)
             R == T \ {x}
  <2>1. x \in T /\ R \in SUBSET T /\ R # T /\ T # {}
    BY FS_EmptySet DEF Choice
  <2>2. ASSUME NEW u \in SUBSET T, u # T PROVE Summed(f, u)
    <3>1. IsFiniteSet(u) /\ Cardinality(u) \in Nat /\ Cardinality(u) <= n + 1 /\ Cardinality(u) # n + 1
      BY <2>2, FS_Subset, FS_CardinalityType
    <3> QED
      BY <1>2, <3>1
  <2> HIDE DEF x, R
  <2> DEFINE h == [u \in SUBSET T |-> IF u = T THEN f[x] + Sum(f, R) ELSE Sum(f, u)]
  <2>3. \A u \in SUBSET T : h[u] = IF u = T THEN f[x] + Sum(f, R) ELSE Sum(f, u)
    OBVIOUS
  <2>4. h = [u \in SUBSET T |-> h[u]]
    OBVIOUS
  <2> HIDE DEF h
  <2>5. ASSUME NEW u \in SUBSET T
        PROVE  h[u] = IF u = {} THEN 0 ELSE f[Choice(u)] + h[u \ {Choice(u)}]
    <3>1. CASE u = T
      <4>1. h[R] = Sum(f, R)
        BY <2>1, <2>3
      <4> QED
        BY <2>1, <2>3, <3>1, <4>1 DEF x, R
    <3>2. CASE u # T
      <4> DEFINE v == u \ {Choice(u)}
      <4>1. PICK g : PartialSums(g, f, u)
        BY <2>2, <3>2 DEF Summed
      <4>2. g[u] = Sum(f, u) /\ h[u] = Sum(f, u)
        BY <2>2, <2>3, <3>2, <4>1 DEF Summed
      <4>3. g[u] = IF u = {} THEN 0 ELSE f[Choice(u)] + g[v]
        BY <4>1 DEF PartialSums
      <4>4. v \in SUBSET T /\ v # T /\ v \subseteq u
        BY <3>2
      <4>5. g[v] = Sum(f, v) /\ h[v] = Sum(f, v)
        BY <2>2, <2>3, <4>1, <4>4 DEF Summed
      <4> QED
        BY <4>2, <4>3, <4>5
    <3> QED
      BY <3>1, <3>2
  <2>6. PartialSums(h, f, T)
    BY <2>4, <2>5 DEF PartialSums
  <2>7. ASSUME NEW g, NEW Q, PartialSums(g, f, Q), T \subseteq Q
        PROVE  g[T] = f[x] + Sum(f, R)
    <3>1. g[T] = f[x] + g[R]
      BY <2>1, <2>7 DEF PartialSums, x, R
    <3>2. R \subseteq Q
      BY <2>1, <2>7
    <3>3. g[R] = Sum(f, R)
      BY <2>1, <2>2, <2>7, <3>2 DEF Summed
    <3> QED
      BY <3>1, <3>3
  <2>8. Sum(f, T) = f[x] + Sum(f, R)
    <3>1. PICK g : PartialSums(g, f, T) /\ Sum(f, T) = g[T]
      BY <2>6, SumIsPartial
    <3> QED
      BY <2>7, <3>1
  <2> QED
    BY <2>6, <2>7, <2>8 DEF Summed
<1> HIDE DEF N
<1>3. Nat \subseteq N
  BY <1>1, <1>2, Induction
<1>4. Cardinality(S) \in Nat
  BY FS_CardinalityType
<1>5. Cardinality(S) \in N /\ Cardinality(S) <= Cardinality(S)
  BY <1>3, <1>4
<1> QED
  BY <1>5 DEF N

\* What a sum is, without the recursion.
LEMMA SumRecursion ==
  ASSUME NEW f
  PROVE  /\ Sum(f, {}) = 0
         /\ \A S : IsFiniteSet(S) /\ S # {} =>
              Sum(f, S) = f[Choice(S)] + Sum(f, S \ {Choice(S)})
<1>1. ASSUME NEW S, IsFiniteSet(S)
      PROVE  Sum(f, S) = IF S = {} THEN 0 ELSE f[Choice(S)] + Sum(f, S \ {Choice(S)})
  <2>1. PICK g : PartialSums(g, f, S) /\ Sum(f, S) = g[S]
    BY <1>1, AllSummed, SumIsPartial DEF Summed
  <2>2. g[S] = IF S = {} THEN 0 ELSE f[Choice(S)] + g[S \ {Choice(S)}]
    BY <2>1 DEF PartialSums
  <2>3. IsFiniteSet(S \ {Choice(S)})
    BY <1>1, FS_RemoveElement
  <2>4. g[S \ {Choice(S)}] = Sum(f, S \ {Choice(S)})
    BY <2>1, <2>3, AllSummed DEF Summed
  <2> QED
    BY <2>1, <2>2, <2>4
<1> QED
  BY <1>1, FS_EmptySet

\* A sum of naturals is one.
LEMMA SumType ==
  ASSUME NEW f, NEW S, IsFiniteSet(S), \A x \in S : f[x] \in Nat
  PROVE  Sum(f, S) \in Nat
<1> DEFINE N == {n \in Nat : \A T \in SUBSET S : Cardinality(T) = n => Sum(f, T) \in Nat}
<1>1. 0 \in N
  BY FS_EmptySet, FS_Subset, SumRecursion
<1>2. ASSUME NEW n \in Nat, n \in N PROVE n + 1 \in N
  <2> SUFFICES ASSUME NEW T \in SUBSET S, Cardinality(T) = n + 1 PROVE Sum(f, T) \in Nat
    OBVIOUS
  <2>1. IsFiniteSet(T) /\ T # {}
    BY FS_Subset, FS_EmptySet
  <2>2. Choice(T) \in T
    BY <2>1 DEF Choice
  <2>3. Cardinality(T \ {Choice(T)}) = n
    BY <2>1, <2>2, OneLess
  <2>4. Sum(f, T \ {Choice(T)}) \in Nat /\ f[Choice(T)] \in Nat
    BY <1>2, <2>2, <2>3
  <2> QED
    BY <2>1, <2>4, SumRecursion
<1> HIDE DEF N
<1>3. Nat \subseteq N
  BY <1>1, <1>2, Induction
<1>4. Cardinality(S) \in Nat
  BY FS_CardinalityType
<1> QED
  BY <1>3, <1>4 DEF N

\* The order of the summands does not matter.
LEMMA SumRemove ==
  ASSUME NEW f, NEW S, IsFiniteSet(S), \A x \in S : f[x] \in Nat
  PROVE  \A x \in S : Sum(f, S) = f[x] + Sum(f, S \ {x})
<1> DEFINE N == {n \in Nat : \A T \in SUBSET S : Cardinality(T) = n =>
                               \A x \in T : Sum(f, T) = f[x] + Sum(f, T \ {x})}
<1>1. 0 \in N
  BY FS_EmptySet, FS_Subset
<1>2. ASSUME NEW n \in Nat, n \in N PROVE n + 1 \in N
  <2> SUFFICES ASSUME NEW T \in SUBSET S, Cardinality(T) = n + 1, NEW x \in T
               PROVE  Sum(f, T) = f[x] + Sum(f, T \ {x})
    OBVIOUS
  <2> DEFINE p == Choice(T)
  <2>1. IsFiniteSet(T) /\ T # {} /\ p \in T
    BY FS_Subset, FS_EmptySet DEF Choice
  <2>2. Sum(f, T) = f[p] + Sum(f, T \ {p})
    BY <2>1, SumRecursion
  <2> HIDE DEF p
  <2>3. CASE x = p
    BY <2>2, <2>3
  <2>4. CASE x # p
    <3> DEFINE U == T \ {p, x}
    <3>1. Cardinality(T \ {p}) = n /\ Cardinality(T \ {x}) = n
      BY <2>1, OneLess
    <3>2. x \in T \ {p} /\ p \in T \ {x} /\ (T \ {p}) \ {x} = U /\ (T \ {x}) \ {p} = U
      BY <2>1, <2>4
    <3> HIDE DEF U
    <3>3. Sum(f, T \ {p}) = f[x] + Sum(f, U)
      BY <1>2, <3>1, <3>2
    <3>4. Sum(f, T \ {x}) = f[p] + Sum(f, U)
      BY <1>2, <3>1, <3>2
    <3>5. Sum(f, U) \in Nat /\ f[x] \in Nat /\ f[p] \in Nat
      <4>1. U \subseteq S /\ IsFiniteSet(U)
        BY <2>1, FS_Subset DEF U
      <4> QED
        BY <2>1, <4>1, SumType
    <3> QED
      BY <2>2, <3>3, <3>4, <3>5
  <2> QED
    BY <2>3, <2>4
<1> HIDE DEF N
<1>3. Nat \subseteq N
  BY <1>1, <1>2, Induction
<1>4. Cardinality(S) \in Nat
  BY FS_CardinalityType
<1> QED
  BY <1>3, <1>4 DEF N

\* A further summand adds its value.
LEMMA SumAdd ==
  ASSUME NEW f, NEW S, IsFiniteSet(S), NEW x, x \notin S, \A y \in S \cup {x} : f[y] \in Nat
  PROVE  Sum(f, S \cup {x}) = f[x] + Sum(f, S)
<1>1. IsFiniteSet(S \cup {x}) /\ (S \cup {x}) \ {x} = S /\ x \in S \cup {x}
  BY FS_AddElement
<1> QED
  BY <1>1, SumRemove

\* The sum over disjoint sets.
LEMMA SumUnion ==
  ASSUME NEW f, NEW S, NEW T, IsFiniteSet(S), IsFiniteSet(T), S \cap T = {},
         \A x \in S \cup T : f[x] \in Nat
  PROVE  Sum(f, S \cup T) = Sum(f, S) + Sum(f, T)
<1> DEFINE Good == {U \in SUBSET T : Sum(f, S \cup U) = Sum(f, S) + Sum(f, U)}
<1>0. Sum(f, S) \in Nat
  BY SumType
<1>1. {} \in Good
  BY <1>0, SumRecursion
<1>2. ASSUME NEW U \in SUBSET T, NEW x \in T \ U, U \in Good PROVE U \cup {x} \in Good
  <2>1. IsFiniteSet(U) /\ IsFiniteSet(S \cup U)
    BY FS_Subset, FS_Union
  <2>2. x \notin S \cup U /\ (S \cup U) \cup {x} = S \cup (U \cup {x})
    OBVIOUS
  <2>3. Sum(f, (S \cup U) \cup {x}) = f[x] + Sum(f, S \cup U)
    BY <2>1, <2>2, SumAdd
  <2>4. Sum(f, U \cup {x}) = f[x] + Sum(f, U)
    BY <2>1, SumAdd
  <2>5. Sum(f, U) \in Nat /\ f[x] \in Nat
    BY <2>1, SumType
  <2>6. Sum(f, S \cup U) = Sum(f, S) + Sum(f, U)
    BY <1>2
  <2>7. Sum(f, S \cup (U \cup {x})) = Sum(f, S) + Sum(f, U \cup {x})
    <3>1. Sum(f, S \cup (U \cup {x})) = f[x] + Sum(f, S \cup U)
      BY <2>2, <2>3
    <3> QED
      BY <1>0, <2>4, <2>5, <2>6, <3>1
  <2> QED
    BY <2>7
<1> HIDE DEF Good
<1>3. T \in Good
  BY <1>1, <1>2, SetInduction
<1> QED
  BY <1>3 DEF Good

\* The sum of the sums over the sets of a family.
LEMMA SumFamily ==
  ASSUME NEW f, NEW I, IsFiniteSet(I), NEW F, \A i \in I : IsFiniteSet(F[i]),
         \A i, j \in I : i # j => F[i] \cap F[j] = {},
         \A i \in I : \A x \in F[i] : f[x] \in Nat
  PROVE  Sum([i \in I |-> Sum(f, F[i])], I) = Sum(f, UNION {F[i] : i \in I})
<1> DEFINE s == [i \in I |-> Sum(f, F[i])]
           All(J) == UNION {F[i] : i \in J}
           Good == {J \in SUBSET I : IsFiniteSet(All(J)) /\ Sum(s, J) = Sum(f, All(J))}
<1>1. {} \in Good
  <2>1. All({}) = {}
    OBVIOUS
  <2> QED
    BY <2>1, SumRecursion, FS_EmptySet
<1>2. \A i \in I : s[i] = Sum(f, F[i]) /\ s[i] \in Nat
  BY SumType
<1>3. ASSUME NEW J \in SUBSET I, NEW i \in I \ J, J \in Good PROVE J \cup {i} \in Good
  <2>1. All(J \cup {i}) = All(J) \cup F[i] /\ All(J) \cap F[i] = {}
    OBVIOUS
  <2>2. /\ IsFiniteSet(J) /\ IsFiniteSet(All(J)) /\ IsFiniteSet(F[i])
        /\ \A x \in All(J) \cup F[i] : f[x] \in Nat
    BY <1>3, FS_Subset
  <2>3. IsFiniteSet(All(J \cup {i}))
    <3> HIDE DEF All
    <3>1. IsFiniteSet(All(J) \cup F[i])
      BY <2>2, FS_Union
    <3> QED
      BY <2>1, <3>1
  <2> HIDE DEF All, s
  <2>4. Sum(f, All(J \cup {i})) = Sum(f, All(J)) + Sum(f, F[i])
    BY <2>1, <2>2, SumUnion
  <2>5. Sum(s, J \cup {i}) = s[i] + Sum(s, J)
    BY <1>2, <2>2, SumAdd
  <2>6. Sum(s, J) = Sum(f, All(J)) /\ Sum(f, All(J)) \in Nat /\ Sum(f, F[i]) \in Nat
    BY <1>3, <2>2, SumType
  <2> QED
    BY <1>2, <2>3, <2>4, <2>5, <2>6
<1> HIDE DEF Good
<1>4. I \in Good
  BY <1>1, <1>3, SetInduction
<1> QED
  BY <1>4 DEF Good

\* A sum of values up to m.
LEMMA SumBound ==
  ASSUME NEW f, NEW S, IsFiniteSet(S), NEW m \in Nat, \A x \in S : f[x] \in 0 .. m
  PROVE  Sum(f, S) <= m * Cardinality(S)
<1> DEFINE Good == {T \in SUBSET S : Sum(f, T) <= m * Cardinality(T)}
<1>1. {} \in Good
  BY SumRecursion, FS_EmptySet
<1>2. ASSUME NEW T \in SUBSET S, NEW x \in S \ T, T \in Good PROVE T \cup {x} \in Good
  <2>1. IsFiniteSet(T) /\ Cardinality(T) \in Nat /\ Cardinality(T \cup {x}) = Cardinality(T) + 1
    BY FS_Subset, FS_CardinalityType, FS_AddElement
  <2>2. Sum(f, T \cup {x}) = f[x] + Sum(f, T) /\ Sum(f, T) \in Nat
    BY <2>1, SumAdd, SumType
  <2>3. m * (Cardinality(T) + 1) = m * Cardinality(T) + m /\ m * Cardinality(T) \in Nat
    BY <2>1
  <2>4. Sum(f, T) <= m * Cardinality(T) /\ f[x] \in Nat /\ f[x] <= m
    BY <1>2
  <2>5. Sum(f, T \cup {x}) <= m * Cardinality(T \cup {x})
    BY <2>1, <2>2, <2>3, <2>4
  <2> QED
    BY <2>5
<1> HIDE DEF Good
<1>3. S \in Good
  BY <1>1, <1>2, SetInduction
<1> QED
  BY <1>3 DEF Good

-----------------------------------------------------------------------------
(* The rows of the stream and where its windows end.                       *)

\* The positions of every row of a stream s.
PositionsOf(s) == [row \in Nat |-> s[(row % Len(s)) + 1]]

\* InputsOf as a sum over rows.
LEMMA InputsAreSum ==
  ASSUME NEW rows \in SUBSET Nat
  PROVE  InputsOf(rows) = Sum(PositionsOf(stream), rows)
  BY DEF InputsOf, Positions, MapThenSumSet, MapThenFoldSet, Sum, PositionsOf

\* A row has as many positions as fit the sequence length, or fewer.
LEMMA PositionsType ==
  ASSUME stream \in Streams, NEW row \in Nat
  PROVE  PositionsOf(stream)[row] \in 0 .. SequenceLength
<1>1. stream \in Seq(0 .. SequenceLength) /\ stream # <<>>
  BY DataParallelAssumption
<1>2. Len(stream) \in Nat \ {0}
  BY <1>1
<1>3. row % Len(stream) \in 0 .. Len(stream) - 1
  BY <1>2
<1>4. (row % Len(stream)) + 1 \in 1 .. Len(stream)
  BY <1>2, <1>3
<1>5. stream[(row % Len(stream)) + 1] \in 0 .. SequenceLength
  <2>1. \A T : \A s \in Seq(T) : \A i \in 1 .. Len(s) : s[i] \in T
    OBVIOUS
  <2> QED
    BY <1>1, <1>4, <2>1
<1> QED
  BY <1>5 DEF PositionsOf

\* The positions of a stretch of the stream: they add up over adjacent stretches,
\* and a row adds the sequence length at most.
LEMMA Stretch ==
  ASSUME stream \in Streams, NEW a \in Nat, NEW b \in Nat, NEW c \in Nat, a <= b, b <= c
  PROVE  /\ InputsOf(a .. b - 1) \in Nat
         /\ InputsOf(a .. c - 1) = InputsOf(a .. b - 1) + InputsOf(b .. c - 1)
         /\ InputsOf(a .. b - 1) <= SequenceLength * (b - a)
<1> DEFINE f == PositionsOf(stream)
<1>1. \A row \in Nat : f[row] \in 0 .. SequenceLength /\ f[row] \in Nat /\ SequenceLength \in Nat
  BY PositionsType, DataParallelAssumption
<1> HIDE DEF f
<1>2. /\ a .. b - 1 \in SUBSET Nat /\ b .. c - 1 \in SUBSET Nat /\ a .. c - 1 \in SUBSET Nat
      /\ a .. c - 1 = (a .. b - 1) \cup (b .. c - 1) /\ (a .. b - 1) \cap (b .. c - 1) = {}
  OBVIOUS
<1>3. IsFiniteSet(a .. b - 1) /\ IsFiniteSet(b .. c - 1) /\ Cardinality(a .. b - 1) = b - a
  <2>1. a \in Int /\ b - 1 \in Int /\ b \in Int /\ c - 1 \in Int
    OBVIOUS
  <2>2. Cardinality(a .. b - 1) = IF a > b - 1 THEN 0 ELSE (b - 1) - a + 1
    BY <2>1, FS_Interval
  <2>3. IsFiniteSet(a .. b - 1) /\ IsFiniteSet(b .. c - 1)
    BY <2>1, FS_Interval
  <2> QED
    BY <2>2, <2>3
<1>4. /\ InputsOf(a .. b - 1) = Sum(f, a .. b - 1) /\ InputsOf(b .. c - 1) = Sum(f, b .. c - 1)
      /\ InputsOf(a .. c - 1) = Sum(f, a .. c - 1)
  BY <1>2, InputsAreSum DEF f
<1>5. Sum(f, a .. b - 1) \in Nat
  BY <1>1, <1>2, <1>3, SumType
<1>6. Sum(f, (a .. b - 1) \cup (b .. c - 1)) = Sum(f, a .. b - 1) + Sum(f, b .. c - 1)
  BY <1>1, <1>2, <1>3, SumUnion
<1>7. Sum(f, a .. b - 1) <= SequenceLength * Cardinality(a .. b - 1)
  BY <1>1, <1>2, <1>3, SumBound
<1> QED
  BY <1>2, <1>3, <1>4, <1>5, <1>6, <1>7

\* There are finitely many ranks.
LEMMA RankFinite == IsFiniteSet(Rank)
  BY DataParallelAssumption, FS_Interval DEF Rank

\* The all_reduce of the shares is the sum over the rows of the group.
LEMMA SharesSum ==
  ASSUME stream \in Streams, NEW base \in Nat, NEW count \in Nat \ {0}, NEW d \in [Rank -> SUBSET Nat],
         \A r \in Rank : d[r] = Share(r, base, count)
  PROVE  /\ MapThenSumSet(LAMBDA r : InputsOf(d[r]), Rank) = InputsOf(base .. base + World * count - 1)
         /\ \A r \in Rank : IsFiniteSet(d[r]) /\ Cardinality(d[r]) = count
<1> DEFINE f == PositionsOf(stream)
<1>1. \A row \in Nat : f[row] \in Nat
  BY PositionsType, DataParallelAssumption
<1> HIDE DEF f
<1>2. \A r \in Rank : IsFiniteSet(d[r]) /\ Cardinality(d[r]) = count /\ d[r] \in SUBSET Nat
  <2> SUFFICES ASSUME NEW r \in Rank PROVE IsFiniteSet(d[r]) /\ Cardinality(d[r]) = count
    OBVIOUS
  <2>1. r \in Nat /\ r * count \in Nat
    BY DataParallelAssumption DEF Rank
  <2>2. PICK a \in Nat : a = base + r * count
    BY <2>1
  <2>3. d[r] = a .. a + count - 1
    BY <2>2 DEF Share
  <2>4. a \in Int /\ a + count - 1 \in Int /\ ~(a > a + count - 1) /\ (a + count - 1) - a + 1 = count
    OBVIOUS
  <2>5. IsFiniteSet(a .. a + count - 1) /\ Cardinality(a .. a + count - 1) = (a + count - 1) - a + 1
    BY <2>4, FS_Interval
  <2> QED
    BY <2>3, <2>4, <2>5
<1>3. /\ UNION {d[r] : r \in Rank} = base .. base + World * count - 1
      /\ \A q, r \in Rank : q # r => d[q] \cap d[r] = {}
  BY SharesPartition
<1>4. Sum([r \in Rank |-> Sum(f, d[r])], Rank) = Sum(f, UNION {d[r] : r \in Rank})
  BY <1>1, <1>2, <1>3, RankFinite, SumFamily
<1>5. \A r \in Rank : InputsOf(d[r]) = Sum(f, d[r])
  BY <1>2, InputsAreSum DEF f
<1>6. MapThenSumSet(LAMBDA r : InputsOf(d[r]), Rank) = Sum([r \in Rank |-> Sum(f, d[r])], Rank)
  <2> DEFINE h == [r \in Rank |-> InputsOf(d[r])]
  <2>2. h = [r \in Rank |-> Sum(f, d[r])]
    BY <1>5
  <2> DEFINE Body(g) == [s \in SUBSET Rank |->
               IF s = {} THEN 0 ELSE InputsOf(d[Choice(s)]) + g[s \ {Choice(s)}]]
             it == CHOOSE g : g = Body(g)
  <2>1. ASSUME NEW g PROVE PartialSums(g, h, Rank) <=> g = Body(g)
    <3>1. \A s \in SUBSET Rank : s # {} => h[Choice(s)] = InputsOf(d[Choice(s)])
      BY DEF Choice
    <3> QED
      BY <3>1 DEF PartialSums
  <2>3. MapThenSumSet(LAMBDA r : InputsOf(d[r]), Rank) = it[Rank]
    BY DEF MapThenSumSet, MapThenFoldSet, Choice
  <2> HIDE DEF h, Body
  <2>4. it = Body(it)
    BY <2>1, RankFinite, AllSummed DEF Summed
  <2>5. it[Rank] = Sum(h, Rank)
    BY <2>1, <2>4, RankFinite, AllSummed DEF Summed
  <2> QED
    BY <2>2, <2>3, <2>5
<1>7. InputsOf(base .. base + World * count - 1) = Sum(f, base .. base + World * count - 1)
  <2>1. World * count \in Nat
    BY DataParallelAssumption
  <2>2. base .. base + World * count - 1 \in SUBSET Nat
    BY <2>1
  <2> QED
    BY <2>2, InputsAreSum DEF f
<1> QED
  BY <1>2, <1>3, <1>4, <1>6, <1>7

\* microbatch_count: at least one row, no more than fit, and as many only as
\* cannot reach the target before the last group.
LEMMA CountBounds ==
  ASSUME NEW limit \in Nat \ {0}, NEW remaining \in Nat
  PROVE  /\ MicrobatchCount(limit, remaining) \in 1 .. limit
         /\ MicrobatchCount(limit, remaining) > 1 =>
              MicrobatchCount(limit, remaining) * (SequenceLength * World) <= remaining
<1> DEFINE size == SequenceLength * World
           q == remaining \div size
<1>1. size \in Nat \ {0}
  BY DataParallelAssumption
<1>2. q \in Nat /\ q * size <= remaining
  BY <1>1, Quotient
<1> HIDE DEF q, size
<1>3. \A a, b \in Nat : Max({a, b}) = IF a >= b THEN a ELSE b
  BY DEF Max
<1>4. \A a, b \in Nat : Min({a, b}) = IF a <= b THEN a ELSE b
  BY DEF Min
<1> DEFINE m == MicrobatchCount(limit, remaining)
<1>5. PICK p \in Nat : p = Max({1, q}) /\ p = (IF 1 >= q THEN 1 ELSE q)
  BY <1>2, <1>3
<1>6. m = (IF limit <= p THEN limit ELSE p)
  BY <1>4, <1>5 DEF MicrobatchCount, q, size
<1> HIDE DEF m
<1>7. m \in 1 .. limit /\ (m > 1 => m <= q)
  BY <1>2, <1>5, <1>6
<1>8. m > 1 => m * size <= q * size
  <2> SUFFICES ASSUME m > 1 PROVE m * size <= q * size
    OBVIOUS
  <2>1. PICK e \in Nat : q = m + e
    BY <1>2, <1>7
  <2>2. q * size = m * size + e * size /\ e * size \in Nat /\ m * size \in Nat
    BY <1>1, <1>7, <2>1
  <2> QED
    BY <2>2
<1>9. m * size \in Nat /\ q * size \in Nat
  BY <1>1, <1>2, <1>7
<1> QED
  BY <1>2, <1>7, <1>8, <1>9 DEF m, size

-----------------------------------------------------------------------------

\* A row that ends a window is known by the single rows.
LEMMA WindowEndIs ==
  ASSUME NEW from \in Nat, NEW n \in 1 .. (MaxMicrobatches + 1) * capacity,
         InputsOf(from .. from + n * World - 1) >= InputTarget,
         \A k \in 1 .. n - 1 : ~(InputsOf(from .. from + k * World - 1) >= InputTarget)
  PROVE  WindowEnd(from) = from + World * n
<1> DEFINE E == {k \in 1 .. (MaxMicrobatches + 1) * capacity :
                  InputsOf(from .. from + k * World - 1) >= InputTarget}
<1>1. n \in E /\ E \subseteq Int /\ \A k \in E : n <= k
  OBVIOUS
<1>2. WindowEnd(from) = from + World * Min(E)
  BY DEF WindowEnd
<1> HIDE DEF E
<1>3. Min(E) = n
  <2>1. \A x \in E : (\A y \in E : x <= y) => x = n
    BY <1>1
  <2> QED
    BY <1>1, <2>1 DEF Min
<1> QED
  BY <1>2, <1>3

\* The first n ends of windows.
IsEnds(f, n) == f = [i \in 0 .. n |-> IF i = 0 THEN 0 ELSE WindowEnd(f[i - 1])]

\* The recursion of Boundary has a solution ...
LEMMA EndsExist == \A n \in Nat : \E f : IsEnds(f, n)
<1> DEFINE S == {n \in Nat : \E f : IsEnds(f, n)}
<1>1. 0 \in S
  <2> DEFINE f == [k \in 0 .. 0 |-> 0]
  <2>1. f = [k \in 0 .. 0 |-> IF k = 0 THEN 0 ELSE WindowEnd(f[k - 1])]
    OBVIOUS
  <2> HIDE DEF f
  <2>2. IsEnds(f, 0)
    BY <2>1 DEF IsEnds
  <2> QED
    BY <2>2
<1>2. ASSUME NEW n \in Nat, n \in S PROVE n + 1 \in S
  <2>1. PICK f : IsEnds(f, n)
    BY <1>2
  <2> DEFINE g == [k \in 0 .. n + 1 |-> IF k = n + 1 THEN WindowEnd(f[n]) ELSE f[k]]
  <2>2. \A k \in 0 .. n + 1 : g[k] = IF k = n + 1 THEN WindowEnd(f[n]) ELSE f[k]
    OBVIOUS
  <2>3. g = [k \in 0 .. n + 1 |-> g[k]]
    OBVIOUS
  <2> HIDE DEF g
  <2>4. ASSUME NEW k \in 0 .. n + 1
        PROVE  g[k] = IF k = 0 THEN 0 ELSE WindowEnd(g[k - 1])
    <3>1. CASE k = n + 1
      <4>1. k # 0 /\ k - 1 = n /\ n # n + 1 /\ n \in 0 .. n + 1
        BY <3>1
      <4> QED
        BY <2>2, <3>1, <4>1
    <3>2. CASE k # n + 1
      <4>1. k \in 0 .. n /\ (k # 0 => k - 1 \in 0 .. n /\ k - 1 # n + 1 /\ k - 1 \in 0 .. n + 1)
        BY <3>2
      <4>2. f[k] = IF k = 0 THEN 0 ELSE WindowEnd(f[k - 1])
        BY <2>1, <4>1 DEF IsEnds
      <4> QED
        BY <2>2, <3>2, <4>1, <4>2
    <3> QED
      BY <3>1, <3>2
  <2>5. IsEnds(g, n + 1)
    BY <2>3, <2>4 DEF IsEnds
  <2> QED
    BY <2>5
<1> HIDE DEF S
<1>3. Nat \subseteq S
  BY <1>1, <1>2, Induction
<1> QED
  BY <1>3 DEF S

\* ... and only one.
LEMMA EndsAgree ==
  ASSUME NEW m \in Nat, NEW n \in Nat, m <= n
  PROVE  \A f, g : IsEnds(f, m) /\ IsEnds(g, n) => \A k \in 0 .. m : f[k] = g[k]
<1> SUFFICES ASSUME NEW f, NEW g, IsEnds(f, m), IsEnds(g, n)
             PROVE  \A k \in 0 .. m : f[k] = g[k]
  OBVIOUS
<1> DEFINE S == {k \in Nat : k <= m => f[k] = g[k]}
<1>1. 0 \in S
  BY DEF IsEnds
<1>2. ASSUME NEW k \in Nat, k \in S PROVE k + 1 \in S
  <2> SUFFICES ASSUME k + 1 <= m PROVE f[k + 1] = g[k + 1]
    OBVIOUS
  <2>1. f[k] = g[k]
    BY <1>2
  <2>2. k + 1 \in 0 .. m /\ k + 1 \in 0 .. n /\ k + 1 # 0 /\ (k + 1) - 1 = k
    OBVIOUS
  <2>3. f[k + 1] = WindowEnd(f[k]) /\ g[k + 1] = WindowEnd(g[k])
    BY <2>2 DEF IsEnds
  <2> QED
    BY <2>1, <2>3
<1> HIDE DEF S
<1>3. Nat \subseteq S
  BY <1>1, <1>2, Induction
<1> QED
  BY <1>3 DEF S

\* The nth boundary is the last of the first n.
LEMMA BoundaryIs ==
  ASSUME NEW n \in Nat
  PROVE  \E f : IsEnds(f, n) /\ Boundary(n) = f[n]
<1> DEFINE e == CHOOSE f : IsEnds(f, n)
<1>1. IsEnds(e, n)
  BY EndsExist
<1>2. Boundary(n) = e[n]
  BY DEF Boundary, IsEnds
<1> QED
  BY <1>1, <1>2

\* The recursion of Boundary, unfolded.
LEMMA BoundaryStep ==
  ASSUME NEW n \in Nat
  PROVE  Boundary(0) = 0 /\ Boundary(n + 1) = WindowEnd(Boundary(n))
<1>1. Boundary(0) = 0
  <2>1. PICK f : IsEnds(f, 0) /\ Boundary(0) = f[0]
    BY BoundaryIs
  <2> QED
    BY <2>1 DEF IsEnds
<1>2. PICK f : IsEnds(f, n) /\ Boundary(n) = f[n]
  BY BoundaryIs
<1>3. PICK g : IsEnds(g, n + 1) /\ Boundary(n + 1) = g[n + 1]
  BY BoundaryIs
<1>4. f[n] = g[n]
  <2>1. PICK m \in Nat : m = n + 1
    OBVIOUS
  <2>2. IsEnds(g, m) /\ n <= m
    BY <1>3, <2>1
  <2>3. \A k \in 0 .. n : f[k] = g[k]
    BY <1>2, <2>2, EndsAgree
  <2> QED
    BY <2>3
<1>5. n + 1 \in 0 .. n + 1 /\ n + 1 # 0 /\ (n + 1) - 1 = n
  OBVIOUS
<1>6. g[n + 1] = WindowEnd(g[n])
  BY <1>3, <1>5 DEF IsEnds
<1> QED
  BY <1>1, <1>2, <1>3, <1>4, <1>6

\* What the sums and the boundaries depend on.
LEMMA StreamFixed ==
  ASSUME UNCHANGED <<stream, capacity>>
  PROVE  /\ \A rows : InputsOf(rows)' = InputsOf(rows)
         /\ \A n : Boundary(n)' = Boundary(n)
  BY DEF InputsOf, Positions, MapThenSumSet, MapThenFoldSet, WindowEnd, Boundary

-----------------------------------------------------------------------------
(* The strengthened invariant, and the steps that leave it alone.          *)

\* The rows of a window, for each rank.
Window == [Rank -> SUBSET Nat]
\* Where a rank is between the update and the next window.
Later == {"judge", "verify", "gather", "write", "report", "barrier", "leave", "publish", "close"}

\* The types of the data, which TypeOK leaves out.
WindowTypes ==
  /\ stream \in Streams /\ capacity \in Capacities
  /\ model \in [Rank -> Seq(Window)] /\ offset \in [Rank -> Nat]
  /\ held \in Window /\ drawn \in Window /\ inputs \in Nat
  /\ HasCheckpoint => checkpoint.model \in Seq(Window)

\* The windows behind the weights are the first of the stream, without a gap.
Contiguous(weights) ==
  /\ \A n \in 0 .. Len(weights) : Boundary(n) \in Nat
  /\ TrainedOnce(weights)

\* That holds of the weights in memory and of those in checkpoint.pt, and the
\* row_offset saved with them is where the next window begins.
Accounts ==
  /\ Contiguous(model[Writer])
  /\ HasCheckpoint =>
       Contiguous(checkpoint.model) /\ checkpoint.offset = Boundary(Len(checkpoint.model))

\* The groups of World rows the open window holds, the row it began with, the row
\* to go on from, the size of the next group, and the input positions up to
\* the kth group.
Rows == Cardinality(held[Writer])
From == Boundary(Len(model[Writer]))
Base == From + Rows * World
Count == MicrobatchCount(capacity, InputTarget - inputs)
InputsTo(k) == InputsOf(From .. From + k * World - 1)
\* Rank r has its share of the next group, and has not summed it yet.
HasDrawn(r) == drawn[r] = Share(r, Base, Count) /\ offset[r] = Base + Count * World

\* Every rank stands before the next group, or has its share of it.
Shares ==
  \A r \in Rank :
    \/ drawn[r] = {} /\ offset[r] = Base /\ pc[r] # "reduce"
    \/ HasDrawn(r) /\ pc[r] \in {"reduce", "failed"}

\* The ranks hold, each once, the rows from From to Base, and count their inputs.
Group ==
  /\ Rows \in Nat
  /\ UNION {held[r] : r \in Rank} = From .. Base - 1
  /\ \A q, r \in Rank : q # r => held[q] \cap held[r] = {}
  /\ inputs = InputsTo(Rows)

\* No earlier group reached the target. That is why the window ends with the
\* group the single rows say, however many rows a microbatch has.
Reached ==
  /\ \A k \in 0 .. Rows - 1 : InputsTo(k) < InputTarget
  /\ \A r \in Rank :
       /\ pc[r] \in {"draw", "reduce"} =>
            inputs < InputTarget /\ (Rows = 0 \/ Rows < MaxMicrobatches * capacity)
       /\ pc[r] = "update" =>
            inputs >= InputTarget /\ Rows <= (MaxMicrobatches + 1) * capacity
       /\ pc[r] \in Later => Rows = 0

\* The strengthening of ExactStream that every step keeps.
StreamInv == WindowTypes /\ Accounts /\ Shares /\ Group /\ Reached

\* An empty program has trained on nothing.
LEMMA StreamInit == Init => StreamInv
<1> SUFFICES ASSUME Init PROVE StreamInv
  OBVIOUS
<1>1. WindowTypes
  BY DEF Init, WindowTypes, Window, Everywhere, Absent, HasCheckpoint
<1>2. /\ model[Writer] = <<>> /\ Len(model[Writer]) = 0 /\ held[Writer] = {} /\ Boundary(0) = 0
      /\ Cardinality({}) = 0
  BY WriterIsRank, BoundaryStep, FS_EmptySet DEF Init, Everywhere
<1>3. Accounts
  BY <1>2 DEF Init, Accounts, Contiguous, TrainedOnce, Absent, HasCheckpoint
<1>4. Rows = 0 /\ From = 0 /\ Base = 0
  BY <1>2, DataParallelAssumption DEF Rows, From, Base
<1>5. InputsTo(0) = 0
  <2>1. 0 .. 0 + 0 * World - 1 = {} /\ {} \in SUBSET Nat
    BY DataParallelAssumption
  <2> QED
    BY <1>4, <2>1, InputsAreSum, SumRecursion DEF InputsTo
<1>6. Shares
  BY <1>4 DEF Init, Shares, Everywhere
<1>7. Group
  BY <1>4, <1>5 DEF Init, Group, Everywhere
<1>8. Reached
  BY <1>4 DEF Init, Reached, Everywhere, Later
<1> QED
  BY <1>1, <1>3, <1>6, <1>7, <1>8 DEF StreamInv

\* Steps that leave the windows and the stream alone.
Onward ==
  /\ UNCHANGED <<stream, capacity, model, offset, held, drawn, inputs>>
  /\ \A r \in Rank :
       \/ pc'[r] = pc[r] \/ pc'[r] = "failed"
       \/ pc[r] \in Later /\ pc'[r] \in Later \cup {"draw", "ended"}

\* The steps of the program, as far as the stream is concerned.
LEMMA StepsOfStream ==
  ASSUME Control, [Next]_vars
  PROVE  /\ \/ Launch \/ (\E r \in Rank : Draw(r)) \/ Reduce \/ Update
            \/ Onward
         /\ checkpoint' = checkpoint \/ WriteCheckpoint
<1>1. checkpoint' = checkpoint \/ WriteCheckpoint
  BY Steps1 DEF RankStops, RequestPause, Draw, Reduce, Judge, Verify,
     Gather, Launch, Update, files, WriteStatus, Barrier, Leave, Publish, Close, vars
<1> SUFFICES Launch \/ (\E r \in Rank : Draw(r)) \/ Reduce \/ Update \/ Onward
  BY <1>1
<1> USE WriterIsRank DEF Onward, Control, Pcs, Later, Everywhere
<1>2. CASE RankStops BY <1>2 DEF RankStops, ranks, window
<1>3. CASE RequestPause BY <1>3 DEF RequestPause, ranks, window
<1>4. CASE \E r \in Rank : Judge(r) BY <1>4 DEF Judge, window
<1>5. CASE Verify BY <1>5 DEF Verify, Meets, ranks, window
<1>6. CASE Gather BY <1>6 DEF Gather, Meets, SaveTurn, window
<1>7. CASE WriteCheckpoint BY <1>7 DEF WriteCheckpoint, ranks, window
<1>8. CASE WriteStatus BY <1>8 DEF WriteStatus, ranks, window
<1>9. CASE Barrier BY <1>9 DEF Barrier, Meets, AfterSave, window
<1>10. CASE \E r \in Rank : Leave(r) BY <1>10 DEF Leave, ranks, window
<1>11. CASE Publish BY <1>11 DEF Publish, ranks, window
<1>12. CASE Close BY <1>12 DEF Close, Meets, ranks, window
<1>13. CASE UNCHANGED vars BY <1>13 DEF vars, ranks, window
<1> QED
  BY <1>1, <1>2, <1>3, <1>4, <1>5, <1>6, <1>7, <1>8, <1>9, <1>10, <1>11, <1>12, <1>13, Steps1

-----------------------------------------------------------------------------
(* What it says of a step.                                                 *)

\* What every step may rely on.
LEMMA StreamFacts ==
  ASSUME StreamInv
  PROVE  /\ World \in Nat \ {0} /\ InputTarget \in Nat \ {0} /\ SequenceLength \in Nat \ {0}
         /\ MaxMicrobatches \in Nat \ {0} /\ capacity \in Nat \ {0} /\ stream \in Streams
         /\ model[Writer] \in Seq(Window) /\ Len(model[Writer]) \in Nat
         /\ Rows \in Nat /\ From \in Nat /\ Base \in Nat /\ Base = From + Rows * World
         /\ Rows * World \in Nat /\ From <= Base
<1>1. /\ World \in Nat \ {0} /\ InputTarget \in Nat \ {0} /\ SequenceLength \in Nat \ {0}
      /\ MaxMicrobatches \in Nat \ {0} /\ capacity \in Nat \ {0} /\ stream \in Streams
  BY DataParallelAssumption DEF StreamInv, WindowTypes
<1>2. model[Writer] \in Seq(Window) /\ Len(model[Writer]) \in Nat
  BY WriterIsRank DEF StreamInv, WindowTypes
<1>3. From \in Nat
  BY <1>2 DEF StreamInv, Accounts, Contiguous, From
<1>4. Rows \in Nat
  BY DEF StreamInv, Group
<1>5. Rows * World \in Nat
  BY <1>1, <1>4
<1> QED
  BY <1>1, <1>2, <1>3, <1>4, <1>5 DEF Base

\* While a window is drawn, a group is of one row per rank at least.
LEMMA GroupSize ==
  ASSUME StreamInv, NEW r \in Rank, pc[r] \in {"draw", "reduce"}
  PROVE  /\ InputTarget - inputs \in Nat \ {0} /\ Count \in 1 .. capacity
         /\ Count > 1 => Count * (SequenceLength * World) <= InputTarget - inputs
<1>1. inputs < InputTarget /\ inputs \in Nat /\ InputTarget \in Nat /\ capacity \in Nat \ {0}
  BY StreamFacts DEF StreamInv, Reached, WindowTypes
<1>2. InputTarget - inputs \in Nat \ {0}
  BY <1>1
<1> QED
  BY <1>1, <1>2, CountBounds DEF Count

\* The positions of the n rows from row a on.
LEMMA StretchType ==
  ASSUME stream \in Streams, NEW a \in Nat, NEW n \in Nat
  PROVE  InputsOf(a .. a + n - 1) \in Nat
<1>1. PICK b \in Nat : b = a + n /\ a <= b /\ b <= b
  OBVIOUS
<1>2. InputsOf(a .. b - 1) \in Nat
  BY <1>1, Stretch
<1> QED
  BY <1>1, <1>2

\* A share is a set of rows.
LEMMA ShareType ==
  ASSUME NEW r \in Rank, NEW from \in Nat, NEW count \in Nat
  PROVE  Share(r, from, count) \in SUBSET Nat
<1>1. r * count \in Nat
  BY DataParallelAssumption DEF Rank
<1> QED
  BY <1>1 DEF Share

\* Every step keeps the types of the data.
LEMMA WindowTypesStep ==
  ASSUME StreamInv, Control, [Next]_vars
  PROVE  WindowTypes'
<1>1. checkpoint' = checkpoint \/ WriteCheckpoint
  BY StepsOfStream
<1>2. HasCheckpoint' => checkpoint'.model \in Seq(Window)
  <2>1. CASE checkpoint' = checkpoint
    BY <2>1 DEF StreamInv, WindowTypes, HasCheckpoint
  <2>2. CASE WriteCheckpoint
    BY <2>2, WriterIsRank DEF WriteCheckpoint, StreamInv, WindowTypes
  <2> QED
    BY <1>1, <2>1, <2>2
<1>3. CASE Launch
  <2>1. (IF HasCheckpoint THEN checkpoint.model ELSE <<>>) \in Seq(Window)
    BY DEF StreamInv, WindowTypes
  <2>2. (IF HasCheckpoint THEN checkpoint.offset ELSE 0) \in Nat
    BY DEF StreamInv, WindowTypes, Accounts, Contiguous
  <2> QED
    BY <1>2, <1>3, <2>1, <2>2 DEF Launch, Everywhere, StreamInv, WindowTypes, Window
<1>4. CASE \E r \in Rank : Draw(r)
  <2>1. PICK r \in Rank : Draw(r)
    BY <1>4
  <2>2. Count \in Nat /\ World * 1 \in Nat
    BY <2>1, GroupSize, StreamFacts DEF Draw
  <2>3. offset[r] \in Nat /\ Count * World \in Nat /\ offset[r] + Count * World \in Nat
    <3>1. offset[r] \in Nat
      BY DEF StreamInv, WindowTypes
    <3>2. Count * World \in Nat
      BY <2>2, StreamFacts
    <3> QED
      BY <3>1, <3>2
  <2>4. Share(r, offset[r], Count) \in SUBSET Nat
    BY <2>2, <2>3, ShareType
  <2>5. /\ drawn' = [drawn EXCEPT ![r] = Share(r, offset[r], Count)]
        /\ offset' = [offset EXCEPT ![r] = offset[r] + Count * World]
        /\ UNCHANGED <<stream, capacity, model, held, inputs>>
    BY <2>1 DEF Draw, Count
  <2>6. drawn' \in Window
    BY <2>4, <2>5 DEF StreamInv, WindowTypes, Window
  <2>7. offset' \in [Rank -> Nat]
    BY <2>3, <2>5 DEF StreamInv, WindowTypes
  <2> QED
    BY <1>2, <2>5, <2>6, <2>7 DEF StreamInv, WindowTypes
<1>5. CASE Reduce
  <2>1. \A r \in Rank : HasDrawn(r) /\ pc[r] = "reduce"
    BY <1>5 DEF Reduce, Meets, StreamInv, Shares
  <2>2. Count \in 1 .. capacity
    BY <2>1, WriterIsRank, GroupSize
  <2>3. Count \in Nat \ {0} /\ Base \in Nat /\ World * Count \in Nat
    BY <2>2, StreamFacts
  <2>4. MapThenSumSet(LAMBDA r : InputsOf(drawn[r]), Rank) = InputsOf(Base .. Base + World * Count - 1)
    BY <2>1, <2>3, StreamFacts, SharesSum DEF HasDrawn, StreamInv, WindowTypes, Window
  <2>5. InputsOf(Base .. Base + World * Count - 1) \in Nat
    BY <2>3, StreamFacts, StretchType
  <2>6. inputs' \in Nat
    <3>1. inputs' = inputs + MapThenSumSet(LAMBDA r : InputsOf(drawn[r]), Rank)
      BY <1>5 DEF Reduce
    <3>2. inputs \in Nat
      BY DEF StreamInv, WindowTypes
    <3> QED
      BY <2>4, <2>5, <3>1, <3>2
  <2>7. held' \in Window /\ drawn' \in Window
    BY <1>5 DEF Reduce, Everywhere, StreamInv, WindowTypes, Window
  <2> QED
    BY <1>2, <1>5, <2>6, <2>7 DEF Reduce, StreamInv, WindowTypes
<1>6. CASE Update
  <2>1. model' \in [Rank -> Seq(Window)]
    BY <1>6 DEF Update, StreamInv, WindowTypes
  <2> QED
    BY <1>2, <1>6, <2>1 DEF Update, Everywhere, StreamInv, WindowTypes, Window
<1>7. CASE Onward
  BY <1>2, <1>7 DEF Onward, StreamInv, WindowTypes
<1> QED
  BY <1>3, <1>4, <1>5, <1>6, <1>7, StepsOfStream

\* Steps that do not exchange the stream keep what the weights are.
LEMMA ContiguousFixed ==
  ASSUME UNCHANGED <<stream, capacity>>, NEW w, Contiguous(w)
  PROVE  Contiguous(w)'
  BY StreamFixed DEF Contiguous, TrainedOnce

\* The window that is complete ends where the stream's next window ends.
LEMMA Completes ==
  ASSUME StreamInv, NEW r \in Rank, pc[r] = "update"
  PROVE  Boundary(Len(model[Writer]) + 1) = Base
<1>1. inputs >= InputTarget /\ Rows <= (MaxMicrobatches + 1) * capacity
  BY DEF StreamInv, Reached
<1>2. Rows # 0
  <2> SUFFICES ASSUME Rows = 0 PROVE FALSE
    OBVIOUS
  <2>1. From .. From + 0 * World - 1 = {} /\ {} \in SUBSET Nat
    BY StreamFacts
  <2>2. InputsTo(0) = 0
    BY <2>1, InputsAreSum, SumRecursion DEF InputsTo
  <2> QED
    BY <1>1, <2>2, StreamFacts DEF StreamInv, Group
<1>3. Rows \in 1 .. (MaxMicrobatches + 1) * capacity
  BY <1>1, <1>2, StreamFacts
<1>4. InputsOf(From .. From + Rows * World - 1) >= InputTarget
  BY <1>1 DEF StreamInv, Group, InputsTo
<1>5. \A k \in 1 .. Rows - 1 : ~(InputsOf(From .. From + k * World - 1) >= InputTarget)
  <2> SUFFICES ASSUME NEW k \in 1 .. Rows - 1 PROVE ~(InputsTo(k) >= InputTarget)
    BY DEF InputsTo
  <2>1. k \in Nat /\ From \in Nat /\ k \in 0 .. Rows - 1
    BY StreamFacts
  <2>2. k * World \in Nat
    BY <2>1, StreamFacts
  <2>3. InputsTo(k) \in Nat
    BY <2>1, <2>2, StreamFacts, StretchType DEF InputsTo
  <2>4. InputsTo(k) < InputTarget
    BY <2>1 DEF StreamInv, Reached
  <2> QED
    BY <2>3, <2>4, StreamFacts
<1>6. WindowEnd(From) = From + World * Rows
  BY <1>3, <1>4, <1>5, StreamFacts, WindowEndIs
<1>7. Boundary(Len(model[Writer]) + 1) = WindowEnd(From)
  BY StreamFacts, BoundaryStep DEF From
<1>8. World * Rows = Rows * World
  BY StreamFacts
<1> QED
  BY <1>6, <1>7, <1>8, StreamFacts

-----------------------------------------------------------------------------
(* The windows behind the weights.                                         *)

\* No step exchanges the stream or the capacity.
LEMMA StreamKept == [Next]_vars => UNCHANGED <<stream, capacity>>
  BY DEF Next, WriterStep, Together, RankStep, RankFails, TimeOut, Terminate,
     Launch, RequestPause, Draw, Reduce, Update, Judge, Verify,
     Gather, WriteCheckpoint, WriteStatus, Barrier, Leave, Publish, Close, vars

\* Weights without an update have trained on nothing.
LEMMA NothingTrained == Contiguous(<<>>)
  BY BoundaryStep DEF Contiguous, TrainedOnce

\* Rank 0 saves between two windows.
LEMMA Between ==
  ASSUME StreamInv, NEW r \in Rank, pc[r] \in Later
  PROVE  Rows = 0 /\ Base = From /\ drawn[r] = {} /\ offset[r] = From
<1>1. Rows = 0
  BY DEF StreamInv, Reached
<1>2. Base = From
  BY <1>1, StreamFacts
<1> QED
  BY <1>1, <1>2 DEF StreamInv, Shares, Later

\* The update adds the window that follows.
LEMMA ContiguousAppend ==
  ASSUME StreamInv, Meets("update")
  PROVE  /\ Contiguous(Append(model[Writer], held))
         /\ Len(Append(model[Writer], held)) = Len(model[Writer]) + 1
<1> DEFINE w == model[Writer]
           u == Append(w, held)
           n == Len(w)
<1>1. /\ w \in Seq(Window) /\ held \in Window /\ n \in Nat /\ Len(u) = n + 1 /\ u[n + 1] = held
      /\ \A k \in 1 .. n : u[k] = w[k]
      /\ DOMAIN w = 1 .. n /\ DOMAIN u = 1 .. n + 1
  BY StreamFacts DEF StreamInv, WindowTypes
<1>2. Boundary(n + 1) = Base /\ Base \in Nat /\ Boundary(n) = From
  BY Completes, StreamFacts, WriterIsRank DEF Meets, From
<1>3. Contiguous(w)
  BY DEF StreamInv, Accounts
<1> HIDE DEF w, u, n
<1>4. ASSUME NEW k \in 0 .. Len(u) PROVE Boundary(k) \in Nat
  <2>1. k \in 0 .. n \/ k = n + 1
    BY <1>1
  <2> QED
    BY <1>2, <1>3, <2>1 DEF Contiguous, n
<1>5. ASSUME NEW k \in DOMAIN u
      PROVE  /\ UNION {u[k][r] : r \in Rank} = Boundary(k - 1) .. Boundary(k) - 1
             /\ \A q, r \in Rank : q # r => u[k][q] \cap u[k][r] = {}
  <2>1. CASE k \in 1 .. n
    BY <1>1, <1>3, <2>1 DEF Contiguous, TrainedOnce
  <2>2. CASE k = n + 1
    <3>1. k - 1 = n /\ u[k] = held
      BY <1>1, <2>2
    <3> QED
      BY <1>2, <2>2, <3>1 DEF StreamInv, Group
  <2> QED
    BY <1>1, <2>1, <2>2
<1> QED
  BY <1>1, <1>4, <1>5 DEF Contiguous, TrainedOnce, w, u, n

\* Memory and checkpoint.pt keep the windows of the stream.
LEMMA AccountsStep ==
  ASSUME StreamInv, Control, [Next]_vars
  PROVE  Accounts'
<1>0. UNCHANGED <<stream, capacity>> /\ Writer \in Rank
  BY StreamKept, WriterIsRank
<1>1. ASSUME NEW w, Contiguous(w), model'[Writer] = w PROVE Contiguous(model[Writer])'
  <2>1. Contiguous(w)'
    BY <1>0, <1>1, ContiguousFixed
  <2> QED
    BY <1>1, <2>1 DEF Contiguous, TrainedOnce
<1>2. Contiguous(model[Writer])'
  <2>1. Contiguous(model[Writer])
    BY DEF StreamInv, Accounts
  <2>2. CASE Launch
    <3>1. model'[Writer] = IF HasCheckpoint THEN checkpoint.model ELSE <<>>
      BY <1>0, <2>2 DEF Launch, Everywhere
    <3>2. Contiguous(IF HasCheckpoint THEN checkpoint.model ELSE <<>>)
      BY NothingTrained DEF StreamInv, Accounts
    <3> QED
      BY <1>1, <3>1, <3>2
  <2>3. CASE Update
    <3>1. model'[Writer] = Append(model[Writer], held)
      BY <1>0, <2>3 DEF Update
    <3>2. Contiguous(Append(model[Writer], held))
      BY <2>3, ContiguousAppend DEF Update
    <3> QED
      BY <1>1, <3>1, <3>2
  <2>4. CASE model' = model
    BY <1>1, <2>1, <2>4
  <2> QED
    BY <2>2, <2>3, <2>4, StepsOfStream DEF Draw, Reduce, Onward
<1>3. ASSUME HasCheckpoint'
      PROVE  (Contiguous(checkpoint.model) /\ checkpoint.offset = Boundary(Len(checkpoint.model)))'
  <2>1. PICK w : w = checkpoint'.model
    OBVIOUS
  <2>2. Contiguous(w) /\ checkpoint'.offset = Boundary(Len(w))
    <3>1. CASE checkpoint' = checkpoint
      BY <1>3, <2>1, <3>1 DEF StreamInv, Accounts, HasCheckpoint
    <3>2. CASE WriteCheckpoint
      <4>1. w = model[Writer] /\ checkpoint'.offset = offset[Writer] /\ pc[Writer] \in Later
        BY <2>1, <3>2 DEF WriteCheckpoint, Later
      <4>2. offset[Writer] = From
        BY <1>0, <4>1, Between
      <4> QED
        BY <4>1, <4>2 DEF From, StreamInv, Accounts
    <3> QED
      BY <3>1, <3>2, StepsOfStream
  <2>3. Contiguous(w)' /\ Boundary(Len(w))' = Boundary(Len(w))
    BY <1>0, <2>2, ContiguousFixed, StreamFixed
  <2>4. Contiguous(checkpoint.model)'
    BY <2>1, <2>3 DEF Contiguous, TrainedOnce
  <2>5. Boundary(Len(checkpoint.model))' = Boundary(Len(w))
    BY <1>0, <2>1, StreamFixed
  <2> QED
    BY <2>2, <2>4, <2>5
<1> QED
  BY <1>2, <1>3 DEF Accounts

-----------------------------------------------------------------------------
(* The window that is being drawn.                                         *)

\* No rows, no input positions.
LEMMA NoInputs == ASSUME NEW a \in Nat PROVE InputsOf(a .. a + 0 * World - 1) = 0
<1>1. a .. a + 0 * World - 1 = {} /\ {} \in SUBSET Nat
  BY DataParallelAssumption
<1> QED
  BY <1>1, InputsAreSum, SumRecursion

\* What the input positions of the window depend on.
LEMMA StretchFixed ==
  ASSUME UNCHANGED <<stream, capacity>>
  PROVE  \A k : InputsTo(k)' = InputsOf(From' .. From' + k * World - 1)
  BY StreamFixed DEF InputsTo

\* A window begins where the last one ended.
LEMMA NewWindow ==
  ASSUME UNCHANGED <<stream, capacity>>, From' \in Nat,
         \A r \in Rank : held'[r] = {} /\ drawn'[r] = {} /\ offset'[r] = From',
         inputs' = 0, \A r \in Rank : pc'[r] \in Later \cup {"draw"}
  PROVE  (Shares /\ Group /\ Reached)'
<1>1. Rows' = 0 /\ Base' = From'
  <2>1. held'[Writer] = {}
    BY WriterIsRank
  <2>2. Rows' = 0
    BY <2>1, FS_EmptySet DEF Rows
  <2>3. World \in Nat
    BY DataParallelAssumption
  <2>4. Base' = From' + Rows' * World
    BY DEF Base
  <2>5. \A f, w \in Nat : f + 0 * w = f
    OBVIOUS
  <2>6. Base' = From' + 0 * World
    BY <2>2, <2>4
  <2> QED
    BY <2>2, <2>3, <2>5, <2>6
<1>2. InputsTo(0)' = 0
  BY NoInputs, StretchFixed
<1>3. Shares'
  BY <1>1 DEF Shares, Later
<1>4. Group'
  <2>1. UNION {held'[r] : r \in Rank} = {} /\ From' .. From' - 1 = {}
    <3>1. \A a \in Nat : a .. a - 1 = {}
      OBVIOUS
    <3>2. UNION {held'[r] : r \in Rank} = {}
      OBVIOUS
    <3> QED
      BY <3>1, <3>2
  <2>2. (inputs = InputsTo(Rows))'
    BY <1>1, <1>2 DEF InputsTo
  <2> QED
    BY <1>1, <2>1, <2>2 DEF Group
<1>5. Reached'
  BY <1>1, DataParallelAssumption DEF Reached, Later
<1> QED
  BY <1>3, <1>4, <1>5

\* Between two windows nothing is held, so that nothing changes.
LEMMA OnwardStep ==
  ASSUME StreamInv, Onward
  PROVE  (Shares /\ Group /\ Reached)'
<1>1. /\ UNCHANGED <<stream, capacity, offset, held, drawn, inputs>>
      /\ Rows' = Rows /\ From' = From /\ Base' = Base /\ Count' = Count
      /\ \A k : InputsTo(k)' = InputsTo(k)
  <2>1. Rows' = Rows /\ From' = From
    BY StreamFixed DEF Onward, Rows, From
  <2> QED
    BY <2>1, StretchFixed DEF Onward, Base, Count, MicrobatchCount, InputsTo
<1>2. Shares'
  BY <1>1 DEF Onward, StreamInv, Shares, HasDrawn, Later
<1>3. Group'
  <2>1. (inputs = InputsTo(Rows))'
    <3>1. InputsTo(Rows)' = InputsTo(Rows)
      BY <1>1, StreamFixed DEF InputsTo
    <3> QED
      BY <1>1, <3>1 DEF StreamInv, Group
  <2> QED
    BY <1>1, <2>1 DEF StreamInv, Group
<1>4. Reached'
  <2>1. \A k \in 0 .. Rows' - 1 : InputsTo(k)' < InputTarget
    BY <1>1 DEF StreamInv, Reached
  <2>2. ASSUME NEW r \in Rank
        PROVE  /\ pc'[r] \in {"draw", "reduce"} =>
                    inputs' < InputTarget /\ (Rows' = 0 \/ Rows' < MaxMicrobatches * capacity')
               /\ pc'[r] = "update" =>
                    inputs' >= InputTarget /\ Rows' <= (MaxMicrobatches + 1) * capacity'
               /\ pc'[r] \in Later => Rows' = 0
    <3>1. CASE pc'[r] = pc[r]
      BY <1>1, <3>1 DEF StreamInv, Reached
    <3>2. CASE pc'[r] = "failed"
      BY <3>2 DEF Later
    <3>3. CASE pc[r] \in Later /\ pc'[r] \in Later \cup {"draw", "ended"}
      <4>1. Rows = 0
        BY <3>3 DEF StreamInv, Reached
      <4>2. InputsTo(0) = 0
        BY NoInputs, StreamFacts DEF InputsTo
      <4>3. inputs = 0
        BY <4>1, <4>2 DEF StreamInv, Group
      <4> QED
        BY <1>1, <3>3, <4>1, <4>3, StreamFacts DEF Later
    <3> QED
      BY <3>1, <3>2, <3>3 DEF Onward
  <2> QED
    BY <2>1, <2>2 DEF Reached
<1> QED
  BY <1>2, <1>3, <1>4

\* A rank draws its share of the group: the other ranks are not disturbed.
LEMMA DrawStep ==
  ASSUME StreamInv, Control, NEW r \in Rank, Draw(r)
  PROVE  (Shares /\ Group /\ Reached)'
<1>0. pc[r] = "draw" /\ pc' = [pc EXCEPT ![r] = "reduce"] /\ pc \in [Rank -> Pcs]
  BY DEF Draw, Control
<1>1. /\ UNCHANGED <<stream, capacity, held, inputs>>
      /\ Rows' = Rows /\ From' = From /\ Base' = Base /\ Count' = Count
      /\ \A k : InputsTo(k)' = InputsTo(k)
  <2>1. UNCHANGED <<stream, capacity, model, held, inputs>>
    BY DEF Draw
  <2>2. Rows' = Rows /\ From' = From
    BY <2>1, StreamFixed DEF Rows, From
  <2> QED
    BY <2>1, <2>2, StretchFixed DEF Base, Count, MicrobatchCount, InputsTo
<1>2. Shares'
  <2>1. drawn[r] = {} /\ offset[r] = Base
    BY <1>0 DEF StreamInv, Shares
  <2>2. /\ drawn' = [drawn EXCEPT ![r] = Share(r, Base, Count)]
        /\ offset' = [offset EXCEPT ![r] = Base + Count * World]
    BY <2>1 DEF Draw, Count
  <2>3. HasDrawn(r)' /\ pc'[r] = "reduce"
    BY <1>0, <1>1, <2>2 DEF HasDrawn, StreamInv, WindowTypes, Window, Share
  <2>4. ASSUME NEW q \in Rank, q # r
        PROVE  drawn'[q] = drawn[q] /\ offset'[q] = offset[q] /\ pc'[q] = pc[q]
    BY <1>0, <2>2, <2>4 DEF StreamInv, WindowTypes, Window
  <2>5. ASSUME NEW q \in Rank
        PROVE  \/ drawn'[q] = {} /\ offset'[q] = Base' /\ pc'[q] # "reduce"
               \/ HasDrawn(q)' /\ pc'[q] \in {"reduce", "failed"}
    <3>1. CASE q = r
      BY <2>3, <3>1 DEF HasDrawn
    <3>2. CASE q # r
      BY <1>1, <2>4, <3>2 DEF StreamInv, Shares, HasDrawn
    <3> QED
      BY <3>1, <3>2
  <2> QED
    BY <2>5 DEF Shares
<1>3. Group'
  <2>1. (inputs = InputsTo(Rows))'
    <3>1. InputsTo(Rows)' = InputsTo(Rows)
      BY <1>1, StreamFixed DEF InputsTo
    <3> QED
      BY <1>1, <3>1 DEF StreamInv, Group
  <2> QED
    BY <1>1, <2>1 DEF StreamInv, Group
<1>4. Reached'
  <2>1. \A k \in 0 .. Rows' - 1 : InputsTo(k)' < InputTarget
    BY <1>1 DEF StreamInv, Reached
  <2>2. \A q \in Rank : pc'[q] = pc[q] \/ (pc[r] = "draw" /\ pc'[q] = "reduce")
    BY <1>0
  <2> QED
    BY <1>1, <2>1, <2>2 DEF StreamInv, Reached, Later
<1> QED
  BY <1>2, <1>3, <1>4

\* The update closes the window where the stream says.
LEMMA UpdateStep ==
  ASSUME StreamInv, Control, Update
  PROVE  (Shares /\ Group /\ Reached)'
<1>1. UNCHANGED <<stream, capacity>> /\ Writer \in Rank
  BY WriterIsRank DEF Update
<1>2. \A r \in Rank : pc[r] = "update"
  BY DEF Update, Meets
<1>3. From' = Base /\ Base \in Nat
  <2>1. model'[Writer] = Append(model[Writer], held)
    BY <1>1 DEF Update
  <2>2. Len(model'[Writer]) = Len(model[Writer]) + 1
    BY <2>1, ContiguousAppend DEF Update
  <2>3. From' = Boundary(Len(model[Writer]) + 1)
    BY <1>1, <2>2, StreamFixed DEF From
  <2> QED
    BY <1>1, <1>2, <2>3, Completes, StreamFacts
<1>4. \A r \in Rank : drawn[r] = {} /\ offset[r] = Base
  BY <1>2 DEF StreamInv, Shares
<1>5. \A r \in Rank : held'[r] = {} /\ drawn'[r] = {} /\ offset'[r] = From'
  BY <1>3, <1>4 DEF Update, Everywhere
<1>6. inputs' = 0 /\ \A r \in Rank : pc'[r] \in Later \cup {"draw"}
  BY DEF Update, Everywhere, Later
<1> QED
  BY <1>1, <1>3, <1>5, <1>6, NewWindow

\* A launch begins the window after the last one in checkpoint.pt.
LEMMA LaunchStep ==
  ASSUME StreamInv, Control, Launch
  PROVE  (Shares /\ Group /\ Reached)'
<1>1. UNCHANGED <<stream, capacity>> /\ Writer \in Rank
  BY WriterIsRank DEF Launch
<1>2. model'[Writer] = IF HasCheckpoint THEN checkpoint.model ELSE <<>>
  BY <1>1 DEF Launch, Everywhere
<1>3. From' = (IF HasCheckpoint THEN checkpoint.offset ELSE 0) /\ From' \in Nat
  <2>1. PICK w : w = model'[Writer]
    OBVIOUS
  <2>2. From' = Boundary(Len(w))
    BY <1>1, <2>1, StreamFixed DEF From
  <2>3. CASE HasCheckpoint
    <3>1. checkpoint.model \in Seq(Window) /\ Len(checkpoint.model) \in 0 .. Len(checkpoint.model)
      BY <2>3 DEF StreamInv, WindowTypes
    <3> QED
      BY <1>2, <2>1, <2>2, <2>3, <3>1 DEF StreamInv, Accounts, Contiguous
  <2>4. CASE ~HasCheckpoint
    BY <1>2, <2>1, <2>2, <2>4, BoundaryStep
  <2> QED
    BY <2>3, <2>4
<1>4. \A r \in Rank : held'[r] = {} /\ drawn'[r] = {} /\ offset'[r] = From'
  BY <1>3 DEF Launch, Everywhere
<1>5. inputs' = 0 /\ \A r \in Rank : pc'[r] \in Later \cup {"draw"}
  BY DEF Launch, Everywhere, Later
<1> QED
  BY <1>1, <1>3, <1>4, <1>5, NewWindow

-----------------------------------------------------------------------------
(* The group that the ranks sum.                                           *)

\* The first e rows of a group of c have fewer positions than the group has room for.
LEMMA GroupFits ==
  ASSUME NEW a \in Nat \ {0}, NEW w \in Nat \ {0}, NEW e \in Nat, NEW c \in Nat, e < c
  PROVE  a * (e * w) \in Nat /\ c * (a * w) \in Nat /\ a * (e * w) < c * (a * w)
<1>1. PICK d \in Nat : c = e + 1 + d
  OBVIOUS
<1>2. PICK s \in Nat \ {0} : s = a * w
  OBVIOUS
<1>3. c * s = e * s + s + d * s /\ d * s \in Nat /\ e * s \in Nat
  BY <1>1
<1>4. a * (e * w) = e * s
  BY <1>2
<1> QED
  BY <1>2, <1>3, <1>4

\* The rows of a group follow those of the window, and do not overlap them.
LEMMA GroupRows ==
  ASSUME NEW from \in Nat, NEW rows \in Nat, NEW w \in Nat, NEW c \in Nat, NEW base \in Nat,
         base = from + rows * w
  PROVE  /\ w * c \in Nat /\ c * w = w * c
         /\ from + (rows + c) * w = base + w * c
         /\ (from .. base - 1) \cap (base .. base + w * c - 1) = {}
         /\ (from .. base - 1) \cup (base .. base + w * c - 1) = from .. base + w * c - 1
<1>1. PICK n \in Nat : n = w * c
  OBVIOUS
<1>2. c * w = n /\ (rows + c) * w = rows * w + n /\ rows * w \in Nat
  BY <1>1
<1>3. from <= base
  BY <1>2
<1>4. (from .. base - 1) \cap (base .. base + n - 1) = {}
  OBVIOUS
<1>5. (from .. base - 1) \cup (base .. base + n - 1) = from .. base + n - 1
  BY <1>3
<1> QED
  BY <1>1, <1>2, <1>4, <1>5

\* Whoever has less than a group that fits does not reach the target.
LEMMA FullGroup ==
  ASSUME NEW target \in Nat, NEW i \in Nat, i < target, NEW p \in Nat, NEW s \in Nat, NEW t \in Nat,
         p <= s, s < t, t <= target - i
  PROVE  i + p < target
  OBVIOUS

\* A last group of up to c rows per rank.
LEMMA MostRows ==
  ASSUME NEW m \in Nat, NEW c \in Nat, NEW rows \in Nat, NEW n \in Nat, n <= c,
         rows = 0 \/ rows < m * c
  PROVE  /\ rows + n <= (m + 1) * c /\ m * c \in Nat
<1>1. (m + 1) * c = m * c + c /\ m * c \in Nat
  OBVIOUS
<1> QED
  BY <1>1

\* The numbers among the facts above.
LEMMA Numbers ==
  ASSUME StreamInv
  PROVE  /\ World \in Nat \ {0} /\ InputTarget \in Nat \ {0} /\ SequenceLength \in Nat \ {0}
         /\ Rows \in Nat /\ From \in Nat /\ Base \in Nat /\ Base = From + Rows * World
         /\ Rows * World \in Nat /\ From <= Base
  BY StreamFacts

\* The all_reduce: the group joins the window, and its positions the count. Only
\* the group of one row per rank can pass the target, so that no window ends
\* a group late.
LEMMA ReduceStep ==
  ASSUME StreamInv, Control, Reduce
  PROVE  (Shares /\ Group /\ Reached)'
<1> DEFINE c == Count
<1>0. /\ UNCHANGED <<stream, capacity, model, offset>> /\ Writer \in Rank
      /\ \A r \in Rank : HasDrawn(r) /\ pc[r] = "reduce"
  BY WriterIsRank DEF Reduce, Meets, StreamInv, Shares
<1>1. /\ c \in 1 .. capacity /\ c \in Nat \ {0} /\ World * c \in Nat /\ c * World = World * c
      /\ (c > 1 => c * (SequenceLength * World) <= InputTarget - inputs)
      /\ inputs < InputTarget /\ inputs \in Nat
      /\ (Rows = 0 \/ Rows < MaxMicrobatches * capacity)
  <2>0. capacity \in Nat \ {0}
    BY StreamFacts
  <2>1. c \in 1 .. capacity /\ (c > 1 => c * (SequenceLength * World) <= InputTarget - inputs)
    BY <1>0, GroupSize
  <2>2. c \in Nat \ {0}
    BY <2>0, <2>1
  <2>3. World * c \in Nat /\ c * World = World * c
    BY <2>2, Numbers
  <2>4. inputs \in Nat
    BY DEF StreamInv, WindowTypes
  <2>5. inputs < InputTarget /\ (Rows = 0 \/ Rows < MaxMicrobatches * capacity)
    BY <1>0 DEF StreamInv, Reached
  <2> QED
    BY <2>1, <2>2, <2>3, <2>4, <2>5
<1>2. /\ \A r \in Rank : drawn[r] = Share(r, Base, c) /\ offset[r] = Base + c * World
      /\ UNION {drawn[r] : r \in Rank} = Base .. Base + World * c - 1
      /\ \A q, r \in Rank : q # r => drawn[q] \cap drawn[r] = {}
      /\ \A r \in Rank : IsFiniteSet(drawn[r]) /\ Cardinality(drawn[r]) = c
      /\ MapThenSumSet(LAMBDA r : InputsOf(drawn[r]), Rank) = InputsOf(Base .. Base + World * c - 1)
  <2>1. \A r \in Rank : drawn[r] = Share(r, Base, c) /\ offset[r] = Base + c * World
    BY <1>0 DEF HasDrawn
  <2>2. drawn \in [Rank -> SUBSET Nat] /\ stream \in Streams /\ Base \in Nat
    BY StreamFacts DEF StreamInv, WindowTypes, Window
  <2> HIDE DEF c
  <2>5. c \in Nat \ {0}
    BY <1>1
  <2>3. /\ UNION {drawn[r] : r \in Rank} = Base .. Base + World * c - 1
        /\ \A q, r \in Rank : q # r => drawn[q] \cap drawn[r] = {}
    BY <1>1, <2>1, <2>2, SharesPartition
  <2>4. /\ \A r \in Rank : IsFiniteSet(drawn[r]) /\ Cardinality(drawn[r]) = c
        /\ MapThenSumSet(LAMBDA r : InputsOf(drawn[r]), Rank) = InputsOf(Base .. Base + World * c - 1)
    BY <2>1, <2>2, <2>5, SharesSum
  <2> QED
    BY <2>1, <2>3, <2>4
<1> HIDE DEF c
<1>f. /\ From \in Nat /\ Rows \in Nat /\ World \in Nat /\ c \in Nat /\ Base \in Nat
      /\ Base = From + Rows * World
  BY <1>1, Numbers
<1>3. /\ held' = [r \in Rank |-> held[r] \cup drawn[r]] /\ drawn' = Everywhere({})
      /\ inputs' = inputs + InputsOf(Base .. Base + World * c - 1)
      /\ pc' = Everywhere(IF inputs' >= InputTarget THEN "update"
                          ELSE IF Cardinality(held'[Writer]) >= MaxMicrobatches * capacity
                               THEN "failed" ELSE "draw")
  <2>1. inputs' = inputs + MapThenSumSet(LAMBDA r : InputsOf(drawn[r]), Rank)
    BY DEF Reduce
  <2>2. /\ held' = [r \in Rank |-> held[r] \cup drawn[r]] /\ drawn' = Everywhere({})
        /\ pc' = Everywhere(IF inputs' >= InputTarget THEN "update"
                            ELSE IF Cardinality(held'[Writer]) >= MaxMicrobatches * capacity
                                 THEN "failed" ELSE "draw")
    BY DEF Reduce
  <2> QED
    BY <1>2, <2>1, <2>2
<1>4. /\ UNION {held[r] : r \in Rank} = From .. Base - 1
      /\ \A q, r \in Rank : q # r => held[q] \cap held[r] = {}
      /\ inputs = InputsTo(Rows) /\ \A k \in 0 .. Rows - 1 : InputsTo(k) < InputTarget
  BY DEF StreamInv, Group, Reached
<1>5. Rows' = Rows + c
  <2>1. held[Writer] \subseteq From .. Base - 1 /\ drawn[Writer] \subseteq Base .. Base + World * c - 1
    BY <1>0, <1>2, <1>4
  <2>2. held[Writer] \cap drawn[Writer] = {}
    <3>1. (From .. Base - 1) \cap (Base .. Base + World * c - 1) = {}
      BY <1>f, GroupRows
    <3> QED
      BY <2>1, <3>1
  <2>3. IsFiniteSet(held[Writer])
    <3>1. From \in Int /\ Base - 1 \in Int
      BY Numbers
    <3>2. IsFiniteSet(From .. Base - 1)
      BY <3>1, FS_Interval
    <3> QED
      BY <2>1, <3>2, FS_Subset
  <2>4. Cardinality(held[Writer] \cup drawn[Writer])
          = Cardinality(held[Writer]) + Cardinality(drawn[Writer]) - Cardinality({})
    BY <1>0, <1>2, <2>2, <2>3, FS_Union
  <2>5. Cardinality({}) = 0 /\ Cardinality(drawn[Writer]) = c
    BY <1>0, <1>2, FS_EmptySet
  <2>6. held'[Writer] = held[Writer] \cup drawn[Writer]
    BY <1>0, <1>3
  <2> QED
    BY <1>1, <2>4, <2>5, <2>6, Numbers DEF Rows
<1>6. From' = From /\ Base' = Base + World * c /\ Base' \in Nat /\ \A k : InputsTo(k)' = InputsTo(k)
  <2>1. From' = From
    BY <1>0, StreamFixed DEF From
  <2>2. Base' = From + (Rows + c) * World
    BY <1>5, <2>1 DEF Base
  <2>3. (Rows + c) * World = Rows * World + World * c
    BY <1>1, Numbers
  <2>5. From + (Rows + c) * World = Base + World * c /\ World * c \in Nat
    BY <1>f, GroupRows
  <2>4. \A k : InputsTo(k)' = InputsTo(k)
    BY <1>0, <2>1, StretchFixed DEF InputsTo
  <2> QED
    <3>1. Base + World * c \in Nat
      BY <1>f, <2>5
    <3> QED
      BY <2>1, <2>2, <2>4, <2>5, <3>1
\* The rows of the window are the next ones of the stream.
<1>7. ASSUME NEW e \in Nat
      PROVE  /\ InputsTo(Rows + e) = inputs + InputsOf(Base .. Base + e * World - 1)
             /\ InputsOf(Base .. Base + e * World - 1) \in Nat
             /\ InputsOf(Base .. Base + e * World - 1) <= SequenceLength * (e * World)
  <2>1. PICK n \in Nat : n = World * e /\ n = e * World /\ From + (Rows + e) * World = Base + n
    BY <1>f, GroupRows
  <2>2. PICK b \in Nat : b = Base + n /\ Base <= b /\ b <= b /\ b - Base = n
    BY <1>f
  <2>3. From <= Base /\ stream \in Streams
    BY StreamFacts
  <2>8. PICK from \in Nat, base \in Nat : from = From /\ base = Base /\ from <= base /\ base <= b
    BY <1>f, <2>2, <2>3
  <2>9. InputsOf(from .. b - 1) = InputsOf(from .. base - 1) + InputsOf(base .. b - 1)
    BY <2>3, <2>8, Stretch
  <2>4. InputsOf(From .. b - 1) = InputsOf(From .. Base - 1) + InputsOf(Base .. b - 1)
    BY <2>8, <2>9
  <2>5. InputsOf(Base .. b - 1) \in Nat /\ InputsOf(Base .. b - 1) <= SequenceLength * (b - Base)
    BY <1>f, <2>2, <2>3, Stretch
  <2>6. InputsOf(From .. Base - 1) = inputs
    <3>1. InputsTo(Rows) = InputsOf(From .. Base - 1)
      BY <1>f DEF InputsTo
    <3> QED
      BY <1>4, <3>1
  <2>7. InputsTo(Rows + e) = InputsOf(From .. b - 1) /\ Base + e * World - 1 = b - 1
    <3>1. From + (Rows + e) * World = b /\ Base + e * World = b
      BY <2>1, <2>2
    <3>2. InputsTo(Rows + e) = InputsOf(From .. From + (Rows + e) * World - 1)
      BY DEF InputsTo
    <3>3. From + (Rows + e) * World - 1 = b - 1 /\ Base + e * World - 1 = b - 1
      <4>1. \A x, y, z \in Nat : x + y = z => x + y - 1 = z - 1
        OBVIOUS
      <4>2. (Rows + e) * World \in Nat /\ e * World \in Nat
        BY <1>f
      <4> QED
        BY <1>f, <3>1, <4>1, <4>2
    <3> QED
      BY <3>2, <3>3
  <2> QED
    BY <2>1, <2>2, <2>4, <2>5, <2>6, <2>7
<1>8. Shares'
  BY <1>0, <1>1, <1>2, <1>3, <1>6 DEF Shares, Everywhere
<1>9. Group'
  <2>1. UNION {held'[r] : r \in Rank} = From' .. Base' - 1
    <3>1. \A r \in Rank : held'[r] = held[r] \cup drawn[r]
      BY <1>3
    <3>2. UNION {held'[r] : r \in Rank}
            = (UNION {held[r] : r \in Rank}) \cup (UNION {drawn[r] : r \in Rank})
      BY <3>1
    <3>3. (From .. Base - 1) \cup (Base .. Base + World * c - 1) = From .. Base + World * c - 1
      BY <1>f, GroupRows
    <3>4. UNION {held'[r] : r \in Rank} = From .. Base + World * c - 1
      BY <1>2, <1>4, <3>2, <3>3
    <3>5. From' .. Base' - 1 = From .. Base + World * c - 1
      <4>1. \A x, y, z \in Nat : x = y + z => x - 1 = y + z - 1
        OBVIOUS
      <4>2. World * c \in Nat
        BY <1>1
      <4>3. Base' - 1 = Base + World * c - 1
        BY <1>f, <1>6, <4>1, <4>2
      <4> QED
        BY <1>6, <4>3
    <3> QED
      BY <3>4, <3>5
  <2>2. ASSUME NEW q \in Rank, NEW r \in Rank, q # r PROVE held'[q] \cap held'[r] = {}
    <3>1. /\ held[q] \subseteq From .. Base - 1 /\ held[r] \subseteq From .. Base - 1
          /\ drawn[q] \subseteq Base .. Base + World * c - 1
          /\ drawn[r] \subseteq Base .. Base + World * c - 1
      BY <1>2, <1>4
    <3>2. (From .. Base - 1) \cap (Base .. Base + World * c - 1) = {}
      BY <1>f, GroupRows
    <3>3. held[q] \cap held[r] = {} /\ drawn[q] \cap drawn[r] = {}
      BY <1>2, <1>4, <2>2
    <3>4. held'[q] = held[q] \cup drawn[q] /\ held'[r] = held[r] \cup drawn[r]
      BY <1>3
    <3> QED
      BY <3>1, <3>2, <3>3, <3>4
  <2>3. (inputs = InputsTo(Rows))'
    <3>1. c * World = World * c
      BY <1>1
    <3>2. InputsTo(Rows + c) = inputs'
      BY <1>1, <1>3, <1>7, <3>1
    <3>3. InputsTo(Rows)' = InputsTo(Rows + c)
      BY <1>0, <1>5, <1>6, StreamFixed DEF InputsTo
    <3> QED
      BY <3>2, <3>3
  <2>4. Rows' \in Nat
    BY <1>5, <1>f
  <2> QED
    BY <2>1, <2>2, <2>3, <2>4 DEF Group
<1>10. Reached'
  <2>1. ASSUME NEW k \in 0 .. Rows' - 1 PROVE InputsTo(k)' < InputTarget
    <3>1. k \in Nat /\ k < Rows + c /\ Rows \in Nat
      BY <1>1, <1>5, Numbers
    <3>2. CASE k < Rows
      <4>1. k \in 0 .. Rows - 1
        BY <3>1, <3>2
      <4> QED
        BY <1>4, <1>6, <4>1
    <3>3. CASE ~(k < Rows)
      <4>1. PICK e \in Nat : k = Rows + e /\ e < c /\ e <= c
        BY <1>1, <3>1, <3>3
      <4>2. PICK p \in Nat : /\ p = InputsOf(Base .. Base + e * World - 1)
                             /\ InputsTo(k) = inputs + p /\ p <= SequenceLength * (e * World)
        BY <1>7, <4>1
      <4>3. SequenceLength * (e * World) < c * (SequenceLength * World)
            /\ SequenceLength * (e * World) \in Nat /\ c * (SequenceLength * World) \in Nat
        BY <1>1, <4>1, Numbers, GroupFits
      <4>4. CASE c > 1
        <5>1. c * (SequenceLength * World) <= InputTarget - inputs /\ inputs < InputTarget
              /\ inputs \in Nat /\ InputTarget \in Nat
          BY <1>1, <4>4, Numbers
        <5>2. PICK s \in Nat : s = SequenceLength * (e * World)
          BY <4>3
        <5>3. PICK t \in Nat : t = c * (SequenceLength * World)
          BY <4>3
        <5>4. inputs + p < InputTarget
          BY <4>2, <4>3, <5>1, <5>2, <5>3, FullGroup
        <5> QED
          BY <1>6, <4>2, <5>4
      <4>5. CASE c = 1
        <5>1. e = 0
          BY <4>1, <4>5
        <5>2. SequenceLength * (e * World) = 0
          BY <5>1, Numbers
        <5> QED
          BY <1>1, <1>6, <4>2, <5>2, Numbers
      <4> QED
        BY <1>1, <4>4, <4>5
    <3> QED
      BY <3>2, <3>3
  <2>2. Rows' <= (MaxMicrobatches + 1) * capacity
    <3>1. MaxMicrobatches \in Nat /\ capacity \in Nat
      BY StreamFacts
    <3>2. c <= capacity /\ (Rows = 0 \/ Rows < MaxMicrobatches * capacity)
      BY <1>1, <3>1
    <3> QED
      BY <1>5, <1>f, <3>1, <3>2, MostRows
  <2>3. inputs' \in Nat
    <3>1. InputsOf(Base .. Base + World * c - 1) \in Nat
      BY <1>1, StreamFacts, StretchType
    <3> QED
      BY <1>1, <1>3, <3>1
  <2>4. ASSUME NEW r \in Rank
        PROVE  \/ pc'[r] = "update" /\ inputs' >= InputTarget
               \/ pc'[r] = "failed"
               \/ pc'[r] = "draw" /\ inputs' < InputTarget /\ Rows' < MaxMicrobatches * capacity
    <3>1. pc'[r] = (IF inputs' >= InputTarget THEN "update"
                          ELSE IF Rows' >= MaxMicrobatches * capacity THEN "failed" ELSE "draw")
      BY <1>3 DEF Everywhere, Rows
    <3>3. MaxMicrobatches \in Nat /\ capacity \in Nat /\ InputTarget \in Nat
      BY StreamFacts
    <3>2. MaxMicrobatches * capacity \in Nat /\ Rows' \in Nat
      <4>1. Rows' \in Nat
        BY <1>5, <1>f
      <4>2. \A m, n \in Nat : m * n \in Nat
        OBVIOUS
      <4> QED
        BY <3>3, <4>1, <4>2
    <3> QED
      BY <2>3, <3>1, <3>2, <3>3
  <2> QED
    BY <1>0, <2>1, <2>2, <2>4 DEF Reached, Later
<1> QED
  BY <1>8, <1>9, <1>10

\* Every step keeps the strengthening.
LEMMA StreamStep ==
  ASSUME StreamInv, Control, [Next]_vars
  PROVE  StreamInv'
<1>1. WindowTypes' /\ Accounts'
  BY WindowTypesStep, AccountsStep
<1>2. (Shares /\ Group /\ Reached)'
  BY LaunchStep, DrawStep, ReduceStep, UpdateStep, OnwardStep, StepsOfStream
<1> QED
  BY <1>1, <1>2 DEF StreamInv

\* For any number of ranks, any stream and any capacities: however the ranks
\* divide the rows into microbatches, and wherever they are stopped and launched
\* again, update n trains each row of the nth window of the stream once, and the
\* saved row_offset is where the next window begins (distributed_train_step and
\* the resume of the cursor in train.py).
THEOREM TrainsExactly == Spec => []ExactStream
<1>1. Init => Control /\ SavedInv /\ StreamInv
  BY ControlInit, SavedInit, StreamInit
<1>2. Control /\ SavedInv /\ StreamInv /\ [Next]_vars => (Control /\ SavedInv /\ StreamInv)'
  BY ControlStep, SavedStep, StreamStep
<1>3. SavedInv /\ StreamInv => ExactStream
  BY DEF SavedInv, SameModel, Everywhere, StreamInv, Accounts, Contiguous, ExactStream
<1> QED
  BY <1>1, <1>2, <1>3, PTL DEF Spec

=============================================================================
