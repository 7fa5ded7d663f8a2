--------------------------- MODULE NativeTraining ---------------------------
(***************************************************************************)
(* The native trainer, minifrontier/training/minifrontier1.py: the chain   *)
(* of phases p0, p1, indexer, p2, p3, each in a directory of its own, with *)
(* the Sampler that chooses the records of every window, the lookahead     *)
(* that prepares one window ahead (prefetch.py), and save, pause, kill and *)
(* resume.                                                                 *)
(*                                                                         *)
(* A random generator is the number of draws made from it: Shuffle,        *)
(* Context and Sparse say what a draw returns.  The weights are the        *)
(* updates that made them, each with its window and the counts and the     *)
(* sampler it left.  Formal runs: a phase ends at its token budget, and    *)
(* every window is filled at a capacity drawn for it.                      *)
(***************************************************************************)
EXTENDS Integers, Sequences, FiniteSets, FiniteSetsExt

CONSTANTS
  Phases,             \* the sequence of phases trained
  Budget,             \* token budget of each of them
  Seeds,              \* values of --seed
  Domains, Rank,      \* the mixture's domains, and their order in the data
  Weight,             \* their shares, in each phase
  Bucket,             \* the records of a domain
  Length,             \* tokens of a record
  Targets,            \* its supervised positions
  Windowable,         \* records that are documents, read in windows
  InputBatch,         \* --input-batch-tokens
  SaveEvery,          \* --save-every
  Shuffle(_, _, _),   \* order of a domain's records, at a draw
  Context(_, _, _, _),  \* capacity of a window, at a draw and a token count
  Sparse(_, _, _),    \* attention of a row of p2, likewise
  None,
  MaxCrashes, MaxRequests  \* bounds

VARIABLES
  seed,          \* --seed, the same in every run of the program
  process,       \* the trainer, or None
  files,         \* of each phase: checkpoint, manifest, status, evaluation
  pauseRequest,  \* phases whose directory holds pause.request
  first,         \* history: the updates, as each was made the first time
  crashes, requests

vars == <<seed, process, files, pauseRequest, first, crashes, requests>>

Records == UNION {Bucket[d] : d \in Domains}
Phase == 1 .. Len(Phases)
MainPhase(k) == Phases[k] \in {"p0", "p1", "p2", "p3"}
Supported(k) == Phases[k] \in {"p0", "p1", "p3"}

ASSUME NativeAssumption ==
  /\ Phases \in Seq({"p0", "p1", "indexer", "p2", "p3"}) /\ Phases # <<>>
  /\ Budget \in [Phase -> Nat \ {0}]
  /\ Weight \in [Phase -> [Domains -> Nat \ {0}]]
  /\ IsFiniteSet(Domains) /\ Domains # {}
  /\ Rank \in [Domains -> Nat] /\ \A d, e \in Domains : d # e => Rank[d] # Rank[e]
  /\ \A d \in Domains : Bucket[d] # {}
  /\ \A d, e \in Domains : d # e => Bucket[d] \cap Bucket[e] = {}
  /\ \A r \in Records : /\ Length[r] \in Nat
                        /\ Targets[r] \subseteq 1 .. Length[r] - 1 /\ Targets[r] # {}
  /\ None \notin [record : Records, start : Nat]
  /\ InputBatch \in Nat \ {0} /\ SaveEvery \in Nat \ {0}
  /\ MaxCrashes \in Nat /\ MaxRequests \in Nat

-----------------------------------------------------------------------------
\* The Sampler.

Shuffled(s, d) ==
  [s EXCEPT !.orders[d] = Shuffle(s.seed, d, s.rng), !.offsets[d] = 0, !.rng = @ + 1]

FirstSampler(sd, k) ==
  [seed |-> sd, weights |-> Weight[k],
   orders |-> [d \in Domains |-> Shuffle(sd, d, Rank[d])],
   offsets |-> [d \in Domains |-> 0],
   ce |-> [d \in Domains |-> 0],
   examples |-> [d \in Domains |-> 0],
   epochs |-> [d \in Domains |-> 0],
   document |-> [d \in Domains |-> None],
   rng |-> Cardinality(Domains)]

\* The domain with the least count for its share; the first in the data on a tie.
Least(s, count) ==
  CHOOSE d \in Domains : \A e \in Domains \ {d} :
    \/ count[d] * s.weights[e] < count[e] * s.weights[d]
    \/ count[d] * s.weights[e] = count[e] * s.weights[d] /\ Rank[d] < Rank[e]

\* Variant for checking MixtureHeld: records are balanced, not their targets.
BehindInRecords(s) == Least(s, s.examples)

Behind(s) == Least(s, s.ce)

Fits(r, capacity) == r \in Windowable \/ Length[r] <= capacity

\* What the theorems assume of the generator, at the draws and token counts of
\* a set (they take all of Nat, a run a part of it): an order is one of the
\* domain's records, a window has room for two tokens at least (window_at
\* raises otherwise), and every domain has a record that fits (or next raises).
GeneratorAssumption(draws) ==
  \A sd \in Seeds : \A n \in draws :
    /\ \A d \in Domains :
         /\ Shuffle(sd, d, n) \in Seq(Bucket[d])
         /\ \A r \in Bucket[d] : \E i \in DOMAIN Shuffle(sd, d, n) : Shuffle(sd, d, n)[i] = r
         /\ \A i, j \in DOMAIN Shuffle(sd, d, n) :
              i # j => Shuffle(sd, d, n)[i] # Shuffle(sd, d, n)[j]
    /\ \A k \in Phase : \A tokens \in draws :
         /\ Context(sd, k, n, tokens) \in Nat /\ Context(sd, k, n, tokens) >= 2
         /\ \A d \in Domains : \E r \in Bucket[d] : Fits(r, Context(sd, k, n, tokens))

\* Where the rest of the domain's order has records that fit.
Fitting(s, d, capacity) ==
  {p \in s.offsets[d] + 1 .. Len(s.orders[d]) : Fits(s.orders[d][p], capacity)}

\* Sampler.next: the next record of the domain that fits; the records it
\* passes over are consumed, and an order that is used up is drawn anew.
Advanced(s, d, capacity) ==
  LET t == IF Fitting(s, d, capacity) # {} THEN s
           ELSE [Shuffled(s, d) EXCEPT !.epochs[d] = @ + 1]
  IN [t EXCEPT !.offsets[d] = Min(Fitting(t, d, capacity)), !.examples[d] = @ + 1]

Read(d, r, start, capacity) ==
  [domain |-> d, record |-> r, start |-> start,
   size |-> IF r \in Windowable THEN Min({Length[r] - start, capacity}) ELSE Length[r]]

\* The supervised positions of an item; its first one is context.
Supervised(item) == Targets[item.record] \cap (item.start + 1 .. item.start + item.size - 1)

\* Variant for checking TargetsOnce: the next window starts behind this one.
NextStartBehind(item) == item.start + item.size

\* Where the next window of a document starts: on the last token of this one.
NextStart(item) == item.start + item.size - 1

\* Whether a document has a target behind the item.
TargetsLeft(item) == NextStart(item) < Length[item.record] - 1

\* Sampler.next_item: a document is read on, window after window, until
\* its last target.
Chosen(s, d, capacity) ==
  LET t == IF s.document[d] = None THEN Advanced(s, d, capacity) ELSE s
      item == IF s.document[d] = None
              THEN Read(d, t.orders[d][t.offsets[d]], 0, capacity)
              ELSE Read(d, s.document[d].record, s.document[d].start, capacity)
  IN [item |-> item,
      sampler |-> [t EXCEPT !.document[d] =
                     IF item.record \in Windowable /\ TargetsLeft(item)
                     THEN [record |-> item.record, start |-> NextStart(item)] ELSE None]]

\* One turn of produce_window's loop.  A row takes items up to the capacity.
Added(f, capacity) ==
  LET d == Behind(f.sampler)
      c == Chosen(f.sampler, d, capacity)
      ce == Cardinality(Supervised(c.item))
  IN [sampler |-> [c.sampler EXCEPT !.ce[d] = @ + ce],
      rows |-> IF c.item.size > f.room THEN Append(f.rows, <<c.item>>)
               ELSE [f.rows EXCEPT ![Len(f.rows)] = Append(@, c.item)],
      room |-> (IF c.item.size > f.room THEN capacity ELSE f.room) - c.item.size,
      inputs |-> f.inputs + c.item.size,
      ce |-> f.ce + ce]

\* produce_window: what it returns from a sampler and a count of the phase's
\* tokens.  The loop ends within InputBatch turns.
Produced(k, s, tokens) ==
  LET capacity == Context(s.seed, k, s.rng, tokens)
      empty == [sampler |-> [s EXCEPT !.rng = @ + 1], rows |-> << <<>> >>,
                room |-> capacity, inputs |-> 0, ce |-> 0]
      fill[n \in 0 .. InputBatch] ==
        IF n = 0 THEN empty
        ELSE LET f == fill[n - 1] IN IF f.inputs >= InputBatch THEN f ELSE Added(f, capacity)
      f == fill[InputBatch]
  IN [window |-> [rows |-> f.rows, capacity |-> capacity, inputs |-> f.inputs, ce |-> f.ce],
      sampler |-> f.sampler]

\* p2 draws the attention of each row from the same generator, when it trains.
Attention(k, window, s, tokens) ==
  IF Phases[k] = "p2"
  THEN [n \in 1 .. Len(window.rows) |-> Sparse(s.seed, s.rng + n - 1, tokens)] ELSE <<>>
Drawn(k, window, s) ==
  IF Phases[k] = "p2" THEN [s EXCEPT !.rng = @ + Len(window.rows)] ELSE s

-----------------------------------------------------------------------------
\* The counts of a phase, and a whole update: what it trains on and leaves.

FirstLedger == [updates |-> 0, input |-> 0, ce |-> 0, mainCe |-> 0, phaseTokens |-> 0]
NextLedger(l) == [FirstLedger EXCEPT !.mainCe = l.mainCe]

Tokens(k, window) == IF Phases[k] = "indexer" THEN window.inputs ELSE window.ce

Counted(k, l, window) ==
  [updates |-> l.updates + 1,
   input |-> l.input + window.inputs,
   ce |-> l.ce + IF Phases[k] = "indexer" THEN 0 ELSE window.ce,
   mainCe |-> l.mainCe + IF MainPhase(k) THEN window.ce ELSE 0,
   phaseTokens |-> l.phaseTokens + Tokens(k, window)]

Finished(k, l) == l.phaseTokens >= Budget[k]

Trained(k, s, l, window) ==
  [phase |-> k, window |-> window, attention |-> Attention(k, window, s, l.phaseTokens),
   ledger |-> Counted(k, l, window), sampler |-> Drawn(k, window, s)]

-----------------------------------------------------------------------------
\* The trainer.

NoFuture == [state |-> "none"]
Running == [state |-> "running"]

Begun(k, ahead, model, sampler, ledger) ==
  [pc |-> "loop", phase |-> k, ahead |-> ahead, model |-> model, ledger |-> ledger,
   sampler |-> sampler, producerTokens |-> ledger.phaseTokens,
   committed |-> sampler, future |-> NoFuture, window |-> None,
   pause |-> FALSE, saving |-> None]

NoCheckpoint == [written |-> FALSE]
Exists(k) == files[k].checkpoint.written
Complete == "budget_complete_unqualified"

\* The sampler goes on in the next phase if that has the same mixture.
Inherits(k) == k > 1 /\ Weight[k] = Weight[k - 1]

\* A first start: without weights, or from the finished phase before.
Initialized(k, ahead) ==
  IF k = 1 THEN Begun(k, ahead, <<>>, FirstSampler(seed, k), FirstLedger)
  ELSE LET saved == files[k - 1].checkpoint
       IN Begun(k, ahead, saved.model,
                IF Inherits(k) THEN saved.sampler ELSE FirstSampler(seed, k),
                NextLedger(saved.ledger))

Start(k, ahead) ==
  /\ process = None
  /\ ahead => Supported(k)
  /\ ~Exists(k)
  /\ k > 1 => files[k - 1].status = Complete
  /\ process' = Initialized(k, ahead)
  /\ UNCHANGED <<seed, files, pauseRequest, first, crashes, requests>>

\* --resume; the lookahead may be switched on or off.
Resume(k, ahead) ==
  /\ process = None
  /\ ahead => Supported(k)
  /\ Exists(k)
  /\ LET saved == files[k].checkpoint
     IN process' = Begun(k, ahead, saved.model, saved.sampler, saved.ledger)
  /\ UNCHANGED <<seed, files, pauseRequest, first, crashes, requests>>

At(pc) == process # None /\ process.pc = pc
Ready == At("loop") /\ ~process.pause /\ ~Finished(process.phase, process.ledger)

\* produce_window advances the one sampler the process has.
AfterWindow(p, made) ==
  [p EXCEPT !.sampler = made.sampler, !.producerTokens = @ + Tokens(p.phase, made.window)]

\* Without lookahead the loop calls produce_window itself.
Fetch ==
  /\ Ready /\ ~process.ahead
  /\ LET made == Produced(process.phase, process.sampler, process.producerTokens)
     IN process' = [AfterWindow(process, made) EXCEPT !.window = made.window, !.pc = "update"]
  /\ UNCHANGED <<seed, files, pauseRequest, first, crashes, requests>>

\* OrderedPrefetch.next: the first submission.
Submit ==
  /\ Ready /\ process.ahead /\ process.future = NoFuture
  /\ process' = [process EXCEPT !.future = Running]
  /\ UNCHANGED <<seed, files, pauseRequest, first, crashes, requests>>

\* The pool's thread, whatever the trainer does meanwhile.
Produce ==
  /\ process # None /\ process.future = Running
  /\ LET made == Produced(process.phase, process.sampler, process.producerTokens)
     IN process' = [AfterWindow(process, made) EXCEPT !.future =
                      [state |-> "done", window |-> made.window, sampler |-> made.sampler]]
  /\ UNCHANGED <<seed, files, pauseRequest, first, crashes, requests>>

\* OrderedPrefetch.next: takes the window and its cursor, submits the next.
Take ==
  /\ Ready /\ process.future.state = "done"
  /\ process' = [process EXCEPT !.window = process.future.window,
                   !.committed = process.future.sampler, !.future = Running, !.pc = "update"]
  /\ UNCHANGED <<seed, files, pauseRequest, first, crashes, requests>>

\* Variant for checking Replays: the sampler the thread has advanced.
CursorAhead(p) == p.sampler

\* The cursor a checkpoint holds: that of the last window taken.
Cursor(p) == IF p.ahead THEN p.committed ELSE p.sampler

\* The optimizer's step and the counts.  A window without a target raises, but
\* in the indexer phase, whose objective is not CE: that is a Crash.
Update ==
  /\ At("update")
  /\ MainPhase(process.phase) => process.window.ce > 0
  /\ LET entry == Trained(process.phase, Cursor(process), process.ledger, process.window)
         model == Append(process.model, entry)
     IN /\ process' = [process EXCEPT !.model = model, !.ledger = entry.ledger, !.window = None,
                         !.sampler = IF process.ahead THEN @ ELSE entry.sampler,
                         !.pc = "decide"]
        /\ first' = IF Len(model) > Len(first) THEN Append(first, entry) ELSE first
  /\ UNCHANGED <<seed, files, pauseRequest, crashes, requests>>

\* save: the state it reports, and whether it is the last one.
Saving(p, state, last) ==
  [p EXCEPT !.saving = [state |-> state, last |-> last], !.pc = "checkpoint"]

\* pause.request is read after every update.
Decide ==
  /\ At("decide")
  /\ LET pause == process.phase \in pauseRequest
         p == [process EXCEPT !.pause = pause]
     IN process' = IF pause THEN Saving(p, "paused", FALSE)
                   ELSE IF process.ledger.updates % SaveEvery = 0 THEN Saving(p, "running", FALSE)
                   ELSE [p EXCEPT !.pc = "loop"]
  /\ UNCHANGED <<seed, files, pauseRequest, first, crashes, requests>>

\* Beyond 22 GiB of memory the trainer saves and raises.
MemoryLimit ==
  /\ At("decide") /\ crashes < MaxCrashes
  /\ process' = Saving(process, "memory_limit", TRUE)
  /\ crashes' = crashes + 1
  /\ UNCHANGED <<seed, files, pauseRequest, first, requests>>

\* save writes three files in turn.
SaveCheckpoint ==
  /\ At("checkpoint")
  /\ files' = [files EXCEPT ![process.phase].checkpoint =
                 [written |-> TRUE, model |-> process.model, sampler |-> Cursor(process),
                  ledger |-> process.ledger]]
  /\ process' = [process EXCEPT !.pc = "manifest"]
  /\ UNCHANGED <<seed, pauseRequest, first, crashes, requests>>

SaveManifest ==
  /\ At("manifest")
  /\ files' = [files EXCEPT ![process.phase].manifest = process.saving.state]
  /\ process' = [process EXCEPT !.pc = "status"]
  /\ UNCHANGED <<seed, pauseRequest, first, crashes, requests>>

\* After a save in the loop the trainer goes on, or takes the request away
\* and leaves the loop; after the last one it evaluates, or has raised.
SaveStatus ==
  /\ At("status")
  /\ files' = [files EXCEPT ![process.phase].status = process.saving.state]
  /\ process' = [process EXCEPT !.pc =
       IF process.saving.state = "memory_limit" THEN "close"
       ELSE IF process.saving.last THEN "evaluate"
       ELSE IF process.pause THEN "unlink" ELSE "loop"]
  /\ UNCHANGED <<seed, pauseRequest, first, crashes, requests>>

Unlink ==
  /\ At("unlink")
  /\ pauseRequest' = pauseRequest \ {process.phase}
  /\ process' = [process EXCEPT !.pc = "loop"]
  /\ UNCHANGED <<seed, files, first, crashes, requests>>

\* The loop is left: a pause after the last update counts as the end.
Leave ==
  /\ At("loop")
  /\ \/ /\ Finished(process.phase, process.ledger)
        /\ process' = Saving(process, Complete, TRUE)
     \/ /\ ~Finished(process.phase, process.ledger) /\ process.pause
        /\ process' = Saving(process, "paused", TRUE)
  /\ UNCHANGED <<seed, files, pauseRequest, first, crashes, requests>>

\* evaluation.json names the checkpoint it was computed from.
Evaluate ==
  /\ At("evaluate")
  /\ files' = [files EXCEPT ![process.phase].evaluation = Len(process.model)]
  /\ process' = [process EXCEPT !.pc = "close"]
  /\ UNCHANGED <<seed, pauseRequest, first, crashes, requests>>

\* The lookahead is closed, its thread awaited, and the process ends.
Close ==
  /\ At("close") /\ process.future # Running
  /\ process' = None
  /\ UNCHANGED <<seed, files, pauseRequest, first, crashes, requests>>

-----------------------------------------------------------------------------
\* Outside the trainer.

\* A kill, or an error anywhere but in save's own states.
Crash ==
  /\ process # None /\ crashes < MaxCrashes
  /\ process' = None
  /\ crashes' = crashes + 1
  /\ UNCHANGED <<seed, files, pauseRequest, first, requests>>

RequestPause(k) ==
  /\ k \notin pauseRequest /\ requests < MaxRequests
  /\ pauseRequest' = pauseRequest \cup {k}
  /\ requests' = requests + 1
  /\ UNCHANGED <<seed, process, files, first, crashes>>

NoFiles == [checkpoint |-> NoCheckpoint, manifest |-> "absent", status |-> "absent", evaluation |-> 0]

Init ==
  /\ seed \in Seeds
  /\ process = None
  /\ files = [k \in Phase |-> NoFiles]
  /\ pauseRequest = {}
  /\ first = <<>>
  /\ crashes = 0 /\ requests = 0

Operator ==
  \E k \in Phase : (\E ahead \in BOOLEAN : Start(k, ahead) \/ Resume(k, ahead)) \/ RequestPause(k)
Loop == Fetch \/ Submit \/ Take \/ Update \/ Decide \/ MemoryLimit \/ Leave
Save == SaveCheckpoint \/ SaveManifest \/ SaveStatus \/ Unlink \/ Evaluate \/ Close

Next == Operator \/ Loop \/ Produce \/ Save \/ Crash

Spec == Init /\ [][Next]_vars

-----------------------------------------------------------------------------
\* Properties.

\* Updates that reached weights still in use.
Lineages ==
  {files[k].checkpoint.model : k \in {j \in Phase : Exists(j)}} \cup
  (IF process = None THEN {} ELSE {process.model})

\* Exact resume (infrastructure.md, the serial, lookahead and pause-resume
\* comparison): update n of the program trains on the same window at the same
\* attention, and leaves the same counts and the same sampler, however often
\* it was paused or killed, with or without lookahead, and across phases.
Replays ==
  \A m \in Lineages : Len(m) <= Len(first) /\ \A n \in 1 .. Len(m) : m[n] = first[n]

\* Every checkpoint is one that load_state_dict accepts, in the phase that wrote
\* it: of the seed and mixture of the run, and with every open document at a
\* position that has a token before it and a target behind it.  It raises on
\* any other, so that a run that wrote one could never be resumed.
CheckpointsLoad ==
  \A k \in Phase : Exists(k) =>
    LET s == files[k].checkpoint.sampler
    IN /\ s.seed = seed /\ s.weights = Weight[k]
       /\ \A d \in Domains : s.document[d] # None =>
            /\ s.document[d].record \in Bucket[d] \cap Windowable
            /\ 1 <= s.document[d].start
            /\ s.document[d].start < Length[s.document[d].record] - 1

\* The updates of a lineage whose windows its last sampler chose.
OfSampler(m) ==
  {n \in DOMAIN m : \A k \in m[n].phase + 1 .. m[Len(m)].phase : Inherits(k)}

\* Their items by place: the update, its row, the item.
Places(m) ==
  UNION {UNION {{<<n, i, j>> : j \in DOMAIN m[n].window.rows[i]} :
                i \in DOMAIN m[n].window.rows} : n \in OfSampler(m)}
ItemAt(m, place) == m[place[1]].window.rows[place[2]][place[3]]
PlacesOf(m, d) == {x \in Places(m) : ItemAt(m, x).domain = d}

\* How often the target at a position of a record was read, in a window of any
\* phase: those of the indexer phase read targets without training their CE.
Times(m, r, position) ==
  Cardinality({x \in Places(m) : ItemAt(m, x).record = r /\ position \in Supervised(ItemAt(m, x))})

\* The lineage in training, once it has an update.
Training == IF process = None THEN {} ELSE {process.model} \ {<<>>}

LastSampler(m) == m[Len(m)].sampler

\* Every target of a document is read in exactly one window of every pass over
\* the data, in the order of the text: the windows of a document leave no target
\* out and overlap in none, however their capacities change, at pauses, kills and
\* phase transitions that keep the mixture included; a target of a record that
\* is not windowed is read at most once.  So the CE phases train none twice in a
\* pass, and leave out only what the indexer phase has read.
TargetsOnce ==
  \A m \in Training : \A d \in Domains : \A r \in Bucket[d] : \A p \in Targets[r] :
    /\ Times(m, r, p) <= LastSampler(m).epochs[d] + 1
    /\ r \in Windowable => Times(m, r, p) >= LastSampler(m).epochs[d]
    /\ \A q \in Targets[r] : p < q => Times(m, r, q) <= Times(m, r, p)

\* The CE of an item, and of a domain in a lineage.
CeAt(m, place) == Cardinality(Supervised(ItemAt(m, place)))
CeOf(m, d) == MapThenSumSet(LAMBDA x : CeAt(m, x), PlacesOf(m, d))

Share(m, d) == Weight[m[Len(m)].phase][d]

\* The mixture is one of targets read: the domains' counts of CE are those of the
\* windows used in updates, the indexer phase's included, and no domain is ahead
\* of another, for its share, by more than an item, over all the phases with that
\* mixture (minifrontier1.md: domains are balanced by their CE deficit).
MixtureHeld ==
  \A m \in Training : \A d, e \in Domains :
    /\ LastSampler(m).ce[d] = CeOf(m, d)
    /\ \/ CeOf(m, d) * Share(m, e) <= CeOf(m, e) * Share(m, d)
       \/ \E x \in PlacesOf(m, d) :
            (CeOf(m, d) - CeAt(m, x)) * Share(m, e) <= CeOf(m, e) * Share(m, d)

=============================================================================
