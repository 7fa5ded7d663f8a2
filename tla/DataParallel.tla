---------------------------- MODULE DataParallel ----------------------------
(***************************************************************************)
(* The ranks of a data-parallel run of minifrontier/training/train.py.     *)
(* Each rank draws its share of the global row stream (BatchCursor),       *)
(* meets the others in the collectives of an update, decides on its own    *)
(* whether to pause or to save, and meets them again in save.  Only rank 0 *)
(* writes files.  A collective completes when every rank has entered a     *)
(* collective of that kind; ranks that wait in different ones wait until   *)
(* the process group's timeout ends them.                                  *)
(*                                                                         *)
(* A row is its absolute position in the stream.  The weights of a rank    *)
(* are the windows they were trained on; a window says which rank took     *)
(* which rows.  The run counts updates (--steps); every window has targets.*)
(***************************************************************************)
EXTENDS Integers, Sequences, FiniteSets, FiniteSetsExt

CONSTANTS
  World,            \* WORLD_SIZE, the number of ranks
  Streams,          \* input positions of the rows of an epoch, repeated
  Capacities,       \* --batch-size, the rows that fit a microbatch
  SequenceLength,   \* no row has more positions
  InputTarget,      \* input positions of a global window
  MaxMicrobatches,  \* microbatches to a window, 1024 in the code
  Steps,            \* --steps
  SaveEvery,        \* --save-every
  StopPoints,       \* values of --stop-after-updates
  MaxAttempts, MaxFaults, MaxRequests  \* bounds

VARIABLES
  stream, capacity,  \* the recipe, the same for every rank and attempt
  pc,                \* where each rank stands
  model,             \* the weights of each rank
  offset,            \* BatchCursor.offset of each rank
  held, drawn,       \* the rows of the window, and those not yet counted
  inputs,            \* accumulated_inputs, the same on every rank
  purpose,           \* why a rank saves
  gathered,          \* the generator states rank 0 has collected
  stopAfter,         \* --stop-after-updates of this attempt
  checkpoint,        \* checkpoint.pt
  status,            \* status.json
  modelFile,         \* model.pt
  pauseRequest,      \* "present" when pause.request exists
  asked,             \* history: the request was made while the ranks ran
  attempts, faults, requests

window == <<held, drawn, inputs>>
ranks == <<model, offset, window, purpose, gathered>>
files == <<checkpoint, status, modelFile>>
outside == <<pauseRequest, asked, requests>>
vars == <<stream, capacity, pc, ranks, stopAfter, files, outside, attempts, faults>>

Rank == 0 .. World - 1
Writer == 0
Collective == {"reduce", "update", "verify", "gather", "barrier", "close"}
Local == {"draw", "judge", "write", "report", "leave", "publish"}

ASSUME DataParallelAssumption ==
  /\ World \in Nat \ {0}
  /\ SequenceLength \in Nat \ {0} /\ InputTarget \in Nat \ {0}
  /\ Streams \subseteq Seq(0 .. SequenceLength) /\ <<>> \notin Streams
  /\ Capacities \subseteq Nat \ {0} /\ MaxMicrobatches \in Nat \ {0}
  /\ Steps \in Nat \ {0} /\ SaveEvery \in Nat \ {0} /\ StopPoints \subseteq Nat \ {0}
  /\ MaxAttempts \in Nat /\ MaxFaults \in Nat /\ MaxRequests \in Nat

\* Where everyone stands.  What they have drawn and trained on is the subject
\* of ExactStream.
TypeOK ==
  /\ stream \in Streams /\ capacity \in Capacities
  /\ pc \in [Rank -> Collective \cup Local \cup {"down", "ended", "failed"}]
  /\ purpose \in [Rank -> {"none", "pause", "cadence"}]
  /\ stopAfter \in StopPoints
  /\ checkpoint.file \in {"absent", "present"} /\ modelFile.file \in {"absent", "present"}
  /\ status.state \in {"none", "running", "paused", "complete"}
  /\ pauseRequest \in {"absent", "present"} /\ asked \in {"no", "yes"}
  /\ attempts \in 0 .. MaxAttempts /\ faults \in 0 .. MaxFaults
  /\ requests \in 0 .. MaxRequests

\* A file that is absent, and whether there is one to resume from.
Absent == [file |-> "absent"]
HasCheckpoint == checkpoint.file = "present"

Everywhere(value) == [r \in Rank |-> value]

Init ==
  /\ stream \in Streams /\ capacity \in Capacities
  /\ pc = Everywhere("down")
  /\ model = Everywhere(<<>>) /\ offset = Everywhere(0)
  /\ held = Everywhere({}) /\ drawn = Everywhere({}) /\ inputs = 0
  /\ purpose = Everywhere("none") /\ gathered = Everywhere(0)
  /\ stopAfter \in StopPoints
  /\ checkpoint = Absent /\ status = [state |-> "none", step |-> 0] /\ modelFile = Absent
  /\ pauseRequest = "absent" /\ asked = "no"
  /\ attempts = 0 /\ faults = 0 /\ requests = 0

-----------------------------------------------------------------------------
(* The stream and the windows drawn from it.                               *)

\* Input positions of the row at an absolute position: every epoch has all rows.
Positions(row) == stream[(row % Len(stream)) + 1]
InputsOf(rows) == MapThenSumSet(Positions, rows)

\* Variant for checking ExactStream: the share of one rank for that of all.
MicrobatchCountPerRank(limit, remaining) ==
  Min({limit, Max({1, remaining \div SequenceLength})})

\* microbatch_count: as many rows as cannot cross the target, at least one.
MicrobatchCount(limit, remaining) ==
  Min({limit, Max({1, remaining \div (SequenceLength * World)})})

\* BatchCursor.next: this rank's share of the next World * count rows.
Share(r, from, count) == from + r * count .. from + r * count + count - 1

Step(r) == Len(model[r])
Finished(r) == Step(r) = Steps

-----------------------------------------------------------------------------
(* Starting and ending the ranks.                                          *)

AtRest == \A r \in Rank : pc[r] \in {"down", "ended", "failed"}

\* All ranks are launched together; each loads checkpoint.pt where there is
\* one, its own generator state included.  A finished run goes on to model.pt.
Launch ==
  /\ AtRest /\ attempts < MaxAttempts
  /\ attempts' = attempts + 1
  /\ stopAfter' \in StopPoints
  /\ model' = Everywhere(IF HasCheckpoint THEN checkpoint.model ELSE <<>>)
  /\ offset' = Everywhere(IF HasCheckpoint THEN checkpoint.offset ELSE 0)
  /\ pc' = [r \in Rank |-> IF Len(model'[r]) < Steps THEN "draw"
                           ELSE IF r = Writer THEN "publish" ELSE "close"]
  /\ held' = Everywhere({}) /\ drawn' = Everywhere({}) /\ inputs' = 0
  /\ purpose' = Everywhere("none") /\ gathered' = Everywhere(0)
  /\ asked' = "no"
  /\ UNCHANGED <<stream, capacity, files, pauseRequest, requests, faults>>

\* An exception of one rank: memory, a nonfinite loss, a refused write.
RankFails(r) ==
  /\ pc[r] \in Collective \cup Local /\ faults < MaxFaults
  /\ faults' = faults + 1
  /\ pc' = [pc EXCEPT ![r] = "failed"]
  /\ UNCHANGED <<stream, capacity, ranks, stopAfter, files, outside, attempts>>

\* Variant for checking EveryAttemptEnds: only a failed rank is noticed.
HopelessIfFailed(r) ==
  pc[r] \in Collective /\ \E q \in Rank : pc[q] = "failed"

\* A rank waits for another that has ended or waits for something else.
Hopeless(r) ==
  /\ pc[r] \in Collective
  /\ \E q \in Rank : pc[q] \in (Collective \ {pc[r]}) \cup {"ended", "failed"}

\* The process group's timeout raises in a rank that waits in vain.
TimeOut(r) ==
  /\ Hopeless(r)
  /\ pc' = [pc EXCEPT ![r] = "failed"]
  /\ UNCHANGED <<stream, capacity, ranks, stopAfter, files, outside, attempts, faults>>

\* The launcher ends the other ranks when one has failed.
Terminate(r) ==
  /\ pc[r] \in Collective \cup Local
  /\ \E q \in Rank : pc[q] = "failed"
  /\ pc' = [pc EXCEPT ![r] = "failed"]
  /\ UNCHANGED <<stream, capacity, ranks, stopAfter, files, outside, attempts, faults>>

\* The operator asks for a pause by creating pause.request.
RequestPause ==
  /\ requests < MaxRequests /\ ~AtRest
  /\ requests' = requests + 1
  /\ pauseRequest' = "present" /\ asked' = "yes"
  /\ UNCHANGED <<stream, capacity, pc, ranks, stopAfter, files, attempts, faults>>

-----------------------------------------------------------------------------
(* One update.                                                             *)

\* Every rank is in a collective of this kind.
Meets(kind) == \A r \in Rank : pc[r] = kind

\* A rank takes its rows of the next group and enters the sum of their inputs.
Draw(r) ==
  /\ pc[r] = "draw"
  /\ LET count == MicrobatchCount(capacity, InputTarget - inputs)
     IN /\ drawn' = [drawn EXCEPT ![r] = Share(r, offset[r], count)]
        /\ offset' = [offset EXCEPT ![r] = @ + count * World]
  /\ pc' = [pc EXCEPT ![r] = "reduce"]
  /\ UNCHANGED <<stream, capacity, model, held, inputs, purpose, gathered, stopAfter,
                 files, outside, attempts, faults>>

\* all_reduce of the input positions: the window is complete, needs another
\* group, or has too many rows, which every rank sees alike.
Reduce ==
  LET total == inputs + MapThenSumSet(LAMBDA r : InputsOf(drawn[r]), Rank)
      rows == [r \in Rank |-> held[r] \cup drawn[r]]
      tooMany == Cardinality(rows[Writer]) >= MaxMicrobatches * capacity
  IN /\ Meets("reduce")
     /\ inputs' = total
     /\ held' = rows /\ drawn' = Everywhere({})
     /\ pc' = Everywhere(IF total >= InputTarget THEN "update"
                         ELSE IF tooMany THEN "failed" ELSE "draw")
     /\ UNCHANGED <<stream, capacity, model, offset, purpose, gathered, stopAfter,
                    files, outside, attempts, faults>>

\* The collectives of the update (counts, gradients, router counts, metrics)
\* and of the validation that may follow.  Every rank's weights have then seen
\* the rows of all ranks.
Update ==
  /\ Meets("update")
  /\ model' = [r \in Rank |-> Append(model[r], held)]
  /\ held' = Everywhere({}) /\ inputs' = 0
  /\ pc' = Everywhere("judge")
  /\ UNCHANGED <<stream, capacity, offset, drawn, purpose, gathered, stopAfter,
                 files, outside, attempts, faults>>

\* Variant for checking LockstepUntilRequest: rank 0 alone keeps the cadence.
SaveDueOnWriter(r) == (r = Writer /\ Step(r) % SaveEvery = 0) \/ Finished(r)

SaveDue(r) == Step(r) % SaveEvery = 0 \/ Finished(r)

PauseDue(r) == (Step(r) >= stopAfter \/ pauseRequest = "present") /\ ~Finished(r)

\* Each rank looks for pause.request by itself.
Judge(r) ==
  /\ pc[r] = "judge"
  /\ purpose' = [purpose EXCEPT ![r] = IF PauseDue(r) THEN "pause"
                                       ELSE IF SaveDue(r) THEN "cadence" ELSE "none"]
  /\ pc' = [pc EXCEPT ![r] = IF purpose'[r] = "none" THEN "draw"
                             ELSE IF Finished(r) THEN "verify" ELSE "gather"]
  /\ UNCHANGED <<stream, capacity, model, offset, window, gathered, stopAfter,
                 files, outside, attempts, faults>>

-----------------------------------------------------------------------------
(* save and the end of the run.                                            *)

\* The broadcast comparison of the final parameters.
Verify ==
  /\ Meets("verify")
  /\ pc' = Everywhere(IF \A r \in Rank : model[r] = model[Writer] THEN "gather" ELSE "failed")
  /\ UNCHANGED <<stream, capacity, ranks, stopAfter, files, outside, attempts, faults>>

\* Where a rank goes on after save, as it had decided before.
AfterSave(r) == IF purpose[r] = "pause" THEN "leave"
                ELSE IF ~Finished(r) THEN "draw"
                ELSE IF r = Writer THEN "publish" ELSE "close"

\* Variant for checking LeavesWithItsWork: only rank 0 waits in the barrier.
SaveTurnWithoutBarrier(r) == IF r = Writer THEN "write" ELSE AfterSave(r)

\* Rank 0 has files to write, the others wait for it.
SaveTurn(r) == IF r = Writer THEN "write" ELSE "barrier"

\* all_gather_object: the generator state of every rank as of its last update.
Gather ==
  /\ Meets("gather")
  /\ gathered' = [r \in Rank |-> Step(r)]
  /\ pc' = [r \in Rank |-> SaveTurn(r)]
  /\ UNCHANGED <<stream, capacity, model, offset, window, purpose, stopAfter,
                 files, outside, attempts, faults>>

\* Rank 0 replaces checkpoint.pt.
WriteCheckpoint ==
  /\ pc[Writer] = "write"
  /\ checkpoint' = [file |-> "present", model |-> model[Writer], offset |-> offset[Writer],
                    rng |-> gathered]
  /\ pc' = [pc EXCEPT ![Writer] = "report"]
  /\ UNCHANGED <<stream, capacity, ranks, stopAfter, status, modelFile, outside,
                 attempts, faults>>

WriteStatus ==
  /\ pc[Writer] = "report"
  /\ status' = [state |-> IF Finished(Writer) THEN "complete"
                          ELSE IF purpose[Writer] = "pause" THEN "paused" ELSE "running",
                step |-> Step(Writer)]
  /\ pc' = [pc EXCEPT ![Writer] = "barrier"]
  /\ UNCHANGED <<stream, capacity, ranks, stopAfter, checkpoint, modelFile, outside,
                 attempts, faults>>

\* The barrier that ends save; each rank goes on as it had decided.
Barrier ==
  /\ Meets("barrier")
  /\ pc' = [r \in Rank |-> AfterSave(r)]
  /\ purpose' = Everywhere("none") /\ gathered' = Everywhere(0)
  /\ UNCHANGED <<stream, capacity, model, offset, window, stopAfter, files, outside,
                 attempts, faults>>

\* Every pausing rank removes the request and returns.
Leave(r) ==
  /\ pc[r] = "leave"
  /\ pauseRequest' = "absent"
  /\ pc' = [pc EXCEPT ![r] = "ended"]
  /\ UNCHANGED <<stream, capacity, ranks, stopAfter, files, asked, requests, attempts, faults>>

\* Rank 0 writes model.pt and meets the others a last time.
Publish ==
  /\ pc[Writer] = "publish"
  /\ modelFile' = [file |-> "present", model |-> model[Writer]]
  /\ pc' = [pc EXCEPT ![Writer] = "close"]
  /\ UNCHANGED <<stream, capacity, ranks, stopAfter, checkpoint, status, outside,
                 attempts, faults>>

Close ==
  /\ Meets("close")
  /\ pc' = Everywhere("ended")
  /\ UNCHANGED <<stream, capacity, ranks, stopAfter, files, outside, attempts, faults>>

-----------------------------------------------------------------------------

RankStep(r) == Draw(r) \/ Judge(r) \/ Leave(r)
WriterStep == WriteCheckpoint \/ WriteStatus \/ Publish
Together == Reduce \/ Update \/ Verify \/ Gather \/ Barrier \/ Close

Next ==
  \/ Launch \/ RequestPause \/ WriterStep \/ Together
  \/ \E r \in Rank : RankStep(r) \/ RankFails(r) \/ TimeOut(r) \/ Terminate(r)

Spec == Init /\ [][Next]_vars

\* Ranks and collectives make progress, and the timeout fires; nobody need
\* launch, fail or ask.
Fairness ==
  /\ WF_vars(WriterStep) /\ WF_vars(Together)
  /\ \A r \in Rank : WF_vars(RankStep(r)) /\ WF_vars(TimeOut(r)) /\ WF_vars(Terminate(r))

FairSpec == Spec /\ Fairness

-----------------------------------------------------------------------------
(* Properties.                                                             *)

\* Where a window that begins at a row ends, with single rows instead of
\* microbatches: after the first group of World rows that reaches the target.
\* (Only the last group may reach past the most rows of a window.)
WindowEnd(from) ==
  LET Enough(k) == InputsOf(from .. from + k * World - 1) >= InputTarget
  IN from + World * Min({k \in 1 .. (MaxMicrobatches + 1) * capacity : Enough(k)})

\* Where the windows of the stream end.
Boundary(n) ==
  LET end[i \in 0 .. n] == IF i = 0 THEN 0 ELSE WindowEnd(end[i - 1])
  IN end[n]

TrainedOnce(weights) ==
  \A n \in DOMAIN weights :
    /\ UNION {weights[n][r] : r \in Rank} = Boundary(n - 1) .. Boundary(n) - 1
    /\ \A q, r \in Rank : q # r => weights[n][q] \cap weights[n][r] = {}

\* The ranks together train on every row of the stream once and in its order,
\* in windows whose ends do not depend on the microbatch capacity, whatever
\* pauses, failures and resumptions come between (microbatch_count's
\* docstring, BatchCursor, --resume).
ExactStream ==
  /\ \A r \in Rank : TrainedOnce(model[r])
  /\ HasCheckpoint =>
       TrainedOnce(checkpoint.model) /\ checkpoint.offset = Boundary(Len(checkpoint.model))

\* A rank leaves only with its work in checkpoint.pt: weights and its own
\* generator state as of its last update, even when it took part in the save
\* for another reason than rank 0 did (save, pause.request, final barrier).
LeavesWithItsWork ==
  \A r \in Rank : pc[r] \in {"leave", "ended"} =>
    /\ HasCheckpoint
    /\ checkpoint.model = model[r] /\ checkpoint.rng[r] = Step(r)

\* Without a request made while the ranks run, and as long as no rank fails,
\* no rank ever waits for another in vain: cadence, --stop-after-updates and a
\* request that was there from the start are judged alike by all.
LockstepUntilRequest ==
  asked = "no" /\ (\A r \in Rank : pc[r] # "failed") => \A r \in Rank : ~Hopeless(r)

\* Every attempt ends on every rank, however the ranks have fallen out of
\* step: nobody waits for ever (the timeout of init_process_group).
EveryAttemptEnds == \A r \in Rank : (pc[r] \in Collective \cup Local) ~> AtRest

=============================================================================
