-------------------------- MODULE DataEventsProofs --------------------------
(***************************************************************************)
(* What the data-event service guarantees for every set of tasks and       *)
(* hooks, however often tasks are run and observer and supervisor restart. *)
(***************************************************************************)
EXTENDS DataEvents, TLAPS

\* What a record on disk says of its run is history ...
RecordTrue ==
  \A t \in Tasks :
    /\ process[t] = "alive" \/ record[t].state # "absent" => record[t].run \in Runs
    /\ record[t].state = "done" => <<t, record[t].run>> \in completed
    /\ record[t].state = "working" /\ process[t] = "gone" => <<t, record[t].run>> \in died

\* ... and so is what the observer has read of it, while the record may have
\* been overtaken by that of another run.
SeenTrue ==
  obs = "open" =>
    /\ seen.state = "done" => <<subject, seen.run>> \in completed
    /\ seen.state = "working" /\ record[subject].run # seen.run => subject \in overtaken

Dead(t) == t \in overtaken \/ \E r \in Runs : <<t, r>> \in died

\* A report says no more than what has happened, however late it is read.
Truthful(e) ==
  /\ Completes(e) => <<e.task, e.rec.run>> \in completed
  /\ Missing(e) => Dead(e.task)

ReportsTrue ==
  /\ \A i \in 1 .. Len(stream) : Truthful(stream[i])
  /\ svc \notin {"down", "idle"} => Truthful(event)

Busy == {"bound", "intended", "waiting", "timeout"}

\* Hooks are considered only for the completion that has been received.
InHand ==
  /\ obs # "down" \/ svc # "down" => starts # 0
  /\ todo # {} => svc \notin {"down", "idle"} /\ Completes(event)
  /\ \A h \in todo : TaskOf[h] = event.task
  /\ svc \in Busy => current \in todo

\* A hook is started after its intent and its task's completion; until then
\* the supervisor has the intent yet to write, or to act upon.
Intents ==
  /\ svc = "bound" => marker[current][event.rec.run] = "none"
  /\ svc = "intended" => launches[current][event.rec.run] = 0
  /\ svc \in {"intended", "waiting", "timeout"} => marker[current][event.rec.run] # "none"
  /\ \A h \in Hooks, r \in Runs :
       /\ launches[h][r] \in {0, 1}
       /\ marker[h][r] = "none" => launches[h][r] = 0
       /\ launches[h][r] = 1 => <<TaskOf[h], r>> \in completed

IInv ==
  /\ TypeOK /\ RecordTrue /\ SeenTrue /\ ReportsTrue /\ InHand /\ Intents
  /\ EventBound /\ NoFalseAlarm

-----------------------------------------------------------------------------
(* Which steps touch what.                                                 *)

LEMMA ProducerSteps ==
  ASSUME [Next]_vars
  PROVE  \/ UNCHANGED producerVars
         \/ \E t \in Tasks : Begin(t) \/ Complete(t) \/ ProcessEnds(t)
  BY DEF Next, vars, Supervisor, Observer, Timeout, StopOrCrash, ObserverDies, HookEnds, Start,
         Receive, RecordIntent, Launch, RecordOutcome, FinishEvent, Disconnected, Recall,
         BindEvent, Select, OpenPid, ProcessMissing, NoProcessExpected, Look

LEMMA ObserverSteps ==
  ASSUME [Next]_vars
  PROVE  \/ UNCHANGED <<obs, due, subject, seen, watched, last, stream>>
         \/ Observer \/ ObserverDies \/ Start \/ Receive \/ Disconnected \/ StopOrCrash
  BY DEF Next, vars, observerVars, Supervisor, Timeout, HookEnds, RecordIntent, Launch,
         RecordOutcome, FinishEvent, Recall, BindEvent, Begin, Complete, ProcessEnds

LEMMA ServiceSteps ==
  ASSUME [Next]_vars
  PROVE  \/ UNCHANGED <<memoryVars, published, starts>>
         \/ Supervisor \/ Timeout \/ StopOrCrash
  BY DEF Next, vars, memoryVars, controlVars, Observer, ObserverDies, HookEnds, Begin, Complete,
         ProcessEnds, Select, OpenPid, ProcessMissing, NoProcessExpected, Look

LEMMA ActionSteps ==
  ASSUME [Next]_vars
  PROVE  \/ UNCHANGED <<eventFile, marker, bound, hookProc, launches>>
         \/ RecordIntent \/ Launch \/ Timeout \/ RecordOutcome
         \/ \E h \in Hooks : BindEvent(h)
         \/ \E h \in Hooks, r \in Runs : HookEnds(h, r)
  BY DEF Next, vars, controlVars, hookVars, Supervisor, Observer, ObserverDies, StopOrCrash,
         Begin, Complete, ProcessEnds, Select, OpenPid, ProcessMissing, NoProcessExpected, Look,
         Start, Receive, FinishEvent, Disconnected, Recall, EventKept

-----------------------------------------------------------------------------
(* Types.                                                                  *)

LEMMA ProducerTypesStep ==
  ASSUME IInv, [Next]_vars
  PROVE  ProducerTypes'
<1> USE DEF IInv, TypeOK, ProducerTypes, Record, Life, Runs
<1>1. ASSUME NEW t \in Tasks, Begin(t) PROVE ProducerTypes'
  <2>1. record[t].run + 1 \in 0 .. MaxRuns
    BY <1>1, DataEventsAssumption DEF Begin
  <2>2. record' \in [Tasks -> Record]
    BY <1>1, <2>1 DEF Begin
  <2> QED
    BY <1>1, <2>2 DEF Begin
<1>2. ASSUME NEW t \in Tasks, Complete(t) PROVE ProducerTypes'
  <2>1. record' \in [Tasks -> Record]
    BY <1>2 DEF Complete
  <2>2. <<t, record[t].run>> \in Tasks \X Runs
    BY <1>2, DataEventsAssumption DEF Complete, RecordTrue
  <2> QED
    BY <1>2, <2>1, <2>2 DEF Complete
<1>3. ASSUME NEW t \in Tasks, ProcessEnds(t) PROVE ProducerTypes'
  <2>1. <<t, record[t].run>> \in Tasks \X Runs
    BY <1>3, DataEventsAssumption DEF ProcessEnds, RecordTrue
  <2>2. process' \in [Tasks -> Life]
    BY <1>3 DEF ProcessEnds
  <2> QED
    BY <1>3, <2>1, <2>2 DEF ProcessEnds
<1>4. CASE UNCHANGED producerVars
  BY <1>4 DEF producerVars
<1> QED
  BY <1>1, <1>2, <1>3, <1>4, ProducerSteps

\* A report of the observer is an event, and takes its place in the stream.
LEMMA EmitTypes ==
  ASSUME ObserverTypes, NEW t \in Tasks, NEW rec \in Record, NEW life \in Life,
         starts \in 1 .. MaxStarts, Emit(t, rec, life),
         UNCHANGED <<due, subject, seen, changed>>,
         watched' \in [Tasks -> 0 .. MaxRuns]
  PROVE  ObserverTypes'
<1>1. [task |-> t, rec |-> rec, process |-> life, at |-> starts] \in Event
  BY DEF Event
<1>2. stream' \in Seq(Event)
  BY <1>1 DEF Emit, ObserverTypes
<1>3. last' \in [Tasks -> Record \X Life]
  BY DEF Emit, ObserverTypes
<1> QED
  BY <1>2, <1>3 DEF Emit, ObserverTypes

LEMMA ObserverStarted ==
  ASSUME IInv, obs # "down" \/ svc # "down"
  PROVE  starts \in 1 .. MaxStarts
  BY DataEventsAssumption DEF IInv, TypeOK, ServiceTypes, InHand

LEMMA StartTypes ==
  NoRecord \in Record /\ Unreported \in [Tasks -> Record \X Life]
  BY DataEventsAssumption DEF NoRecord, Record, Unreported, Life

LEMMA ObserverTypesStep ==
  ASSUME IInv, [Next]_vars
  PROVE  ObserverTypes'
<1>1. ObserverTypes /\ ProducerTypes
  BY DEF IInv, TypeOK
<1>2. changed' \subseteq Tasks
  BY <1>1 DEF ObserverTypes, Next, vars, observerVars, Supervisor, Timeout, HookEnds, RecordIntent,
         Launch, RecordOutcome, FinishEvent, Recall, BindEvent, Begin, Complete, ProcessEnds,
         Notified, Observer, ObserverDies, Start, Receive, Disconnected, StopOrCrash, Leave,
         Select, OpenPid, ProcessMissing, NoProcessExpected, Look
<1>3. CASE Select
  BY <1>1, <1>2, <1>3 DEF Select, ObserverTypes, Exited
<1>4. ASSUME NEW t \in Tasks, Look(t) PROVE ObserverTypes'
  <2>1. seen' \in Record
    BY <1>1, <1>4 DEF Look, ProducerTypes
  <2>2. watched' \in [Tasks -> 0 .. MaxRuns]
    BY <1>1, <1>4, DataEventsAssumption DEF Look, ObserverTypes
  <2> QED
    BY <1>1, <1>4, <2>1, <2>2 DEF Look, ObserverTypes
<1>5. CASE OpenPid
  <2>1. watched' \in [Tasks -> 0 .. MaxRuns]
    BY <1>1, <1>5 DEF OpenPid, ObserverTypes, Record
  <2> QED
    BY <1>1, <1>5, <2>1, EmitTypes, ObserverStarted DEF OpenPid, ObserverTypes, Life
<1>6. CASE ProcessMissing
  BY <1>1, <1>6, EmitTypes, ObserverStarted
     DEF ProcessMissing, Reread, ObserverTypes, ProducerTypes, Life
<1>7. CASE NoProcessExpected
  BY <1>1, <1>7, EmitTypes, ObserverStarted DEF NoProcessExpected, ObserverTypes, Life
<1>8. ASSUME watched' = [t \in Tasks |-> 0], last' = Unreported, due' \subseteq Tasks,
             obs' \in {"down", "select"}, stream' \in {stream, <<>>}, UNCHANGED <<subject, seen>>
      PROVE  ObserverTypes'
  <2>1. watched' \in [Tasks -> 0 .. MaxRuns]
    BY <1>8, DataEventsAssumption
  <2>2. stream' \in Seq(Event)
    <3>1. <<>> \in Seq(Event)
      OBVIOUS
    <3> QED
      BY <1>1, <1>8, <3>1 DEF ObserverTypes
  <2> QED
    BY <1>1, <1>2, <1>8, <2>1, <2>2, StartTypes DEF ObserverTypes
<1>9. CASE ObserverDies \/ Start \/ Disconnected \/ StopOrCrash
  BY <1>8, <1>9 DEF ObserverDies, Start, Disconnected, StopOrCrash, Leave
<1>10. CASE Receive
  BY <1>1, <1>10 DEF Receive, observerVars, ObserverTypes
<1>11. CASE UNCHANGED <<obs, due, subject, seen, watched, last, stream>>
  BY <1>1, <1>2, <1>11 DEF ObserverTypes
<1> QED
  BY <1>3, <1>4, <1>5, <1>6, <1>7, <1>9, <1>10, <1>11, ObserverSteps DEF Observer

\* While hooks are considered, their run is one that completed.
LEMMA RunInHand ==
  ASSUME IInv, svc \notin {"down", "idle"}, todo # {}
  PROVE  /\ event \in Event /\ event.rec.run \in Runs /\ event.at \in 1 .. MaxStarts
         /\ <<event.task, event.rec.run>> \in completed
<1>1. event \in Event /\ event.at \in 1 .. MaxStarts
  BY DEF IInv, TypeOK, ServiceTypes, Event
<1>2. <<event.task, event.rec.run>> \in completed
  BY DEF IInv, InHand, ReportsTrue, Truthful
<1> QED
  BY <1>1, <1>2 DEF IInv, TypeOK, ProducerTypes

LEMMA HookInHand ==
  ASSUME IInv, svc \in Busy
  PROVE  /\ current \in Hooks /\ current \in todo /\ TaskOf[current] = event.task
         /\ event \in Event /\ event.rec.run \in Runs
         /\ <<event.task, event.rec.run>> \in completed
<1>1. current \in todo
  BY DEF IInv, InHand
<1> QED
  BY <1>1, RunInHand DEF IInv, TypeOK, ServiceTypes, InHand, Busy

\* A notice is one of those that the service lists.
LEMMA SettleTypes ==
  ASSUME ServiceTypes, event \in Event, NEW h \in Hooks, NEW state, Settle(h, state),
         UNCHANGED <<event, published, starts>>
  PROVE  ServiceTypes'
<1>1. attention' \in [Tasks -> Notice]
  BY DEF Settle, ServiceTypes, Notice
<1> QED
  BY <1>1 DEF Settle, ServiceTypes

LEMMA ServiceTypesStep ==
  ASSUME IInv, [Next]_vars
  PROVE  ServiceTypes'
<1>1. ServiceTypes /\ ObserverTypes
  BY DEF IInv, TypeOK
<1>2. CASE Start
  <2>1. attention' \in [Tasks -> Notice]
    BY <1>2 DEF Start, Notice
  <2> QED
    BY <1>1, <1>2, <2>1, DataEventsAssumption DEF Start, ServiceTypes
<1>3. CASE Receive
  <2>1. Head(stream) \in Event
    BY <1>1, <1>3 DEF Receive, ObserverTypes
  <2>2. attention' \in [Tasks -> Notice]
    BY <1>1, <1>3 DEF Receive, ServiceTypes, Notice
  <2> QED
    BY <1>1, <1>3, <2>1, <2>2 DEF Receive, ServiceTypes, controlVars
<1>4. ASSUME NEW h \in Hooks, Recall(h) PROVE ServiceTypes'
  BY <1>1, <1>4, SettleTypes DEF Recall, ServiceTypes
<1>5. ASSUME NEW h \in Hooks, BindEvent(h) PROVE ServiceTypes'
  BY <1>1, <1>5 DEF BindEvent, ServiceTypes
<1>6. CASE RecordIntent \/ Launch \/ Timeout
  BY <1>1, <1>6 DEF RecordIntent, Launch, Timeout, ServiceTypes, controlVars
<1>7. CASE RecordOutcome
  BY <1>1, <1>7, HookInHand, SettleTypes DEF RecordOutcome, Busy, ServiceTypes
<1>8. CASE FinishEvent
  BY <1>1, <1>8 DEF FinishEvent, ServiceTypes
<1>9. CASE Disconnected \/ StopOrCrash
  BY <1>1, <1>9 DEF Disconnected, StopOrCrash, Leave, ServiceTypes
<1>10. CASE UNCHANGED <<memoryVars, published, starts>>
  BY <1>1, <1>10 DEF memoryVars, ServiceTypes
<1> QED
  BY <1>2, <1>3, <1>4, <1>5, <1>6, <1>7, <1>8, <1>9, <1>10, ServiceSteps DEF Supervisor

LEMMA ActionTypesStep ==
  ASSUME IInv, [Next]_vars
  PROVE  ActionTypes'
<1>1. ActionTypes
  BY DEF IInv, TypeOK
<1>2. ASSUME NEW h \in Hooks, BindEvent(h) PROVE ActionTypes'
  <2>1. event.rec.run \in Runs /\ event.at \in 0 .. MaxStarts
    BY <1>2, RunInHand, DataEventsAssumption DEF BindEvent
  <2> QED
    BY <1>1, <1>2, <2>1 DEF BindEvent, ActionTypes, hookVars
<1>3. CASE RecordIntent
  <2>1. current \in Hooks /\ event.rec.run \in Runs
    BY <1>3, HookInHand DEF RecordIntent, Busy
  <2> QED
    BY <1>1, <1>3, <2>1 DEF RecordIntent, ActionTypes, hookVars
<1>4. CASE Launch
  <2>1. current \in Hooks /\ event.rec.run \in Runs
    BY <1>4, HookInHand DEF Launch, Busy
  <2>2. launches[current][event.rec.run] + 1 \in Nat
    BY <1>1, <2>1 DEF ActionTypes
  <2> QED
    BY <1>1, <1>4, <2>1, <2>2 DEF Launch, ActionTypes, controlVars
<1>5. CASE Timeout
  <2>1. current \in Hooks /\ event.rec.run \in Runs
    BY <1>5, HookInHand DEF Timeout, Busy
  <2> QED
    BY <1>1, <1>5, <2>1 DEF Timeout, ActionTypes, controlVars
<1>6. CASE RecordOutcome
  <2>1. current \in Hooks /\ event.rec.run \in Runs
    BY <1>6, HookInHand DEF RecordOutcome, Busy
  <2> QED
    BY <1>1, <1>6, <2>1 DEF RecordOutcome, Outcome, ActionTypes, hookVars
<1>7. ASSUME NEW h \in Hooks, NEW r \in Runs, HookEnds(h, r) PROVE ActionTypes'
  BY <1>1, <1>7 DEF HookEnds, ActionTypes, controlVars
<1>8. CASE UNCHANGED <<eventFile, marker, bound, hookProc, launches>>
  BY <1>1, <1>8 DEF ActionTypes
<1> QED
  BY <1>2, <1>3, <1>4, <1>5, <1>6, <1>7, <1>8, ActionSteps

-----------------------------------------------------------------------------
(* The records, and what is reported of them.                              *)

LEMMA RecordTrueStep ==
  ASSUME IInv, [Next]_vars
  PROVE  RecordTrue'
<1>1. RecordTrue /\ ProducerTypes
  BY DEF IInv, TypeOK
<1>2. ASSUME NEW t \in Tasks, Begin(t) PROVE RecordTrue'
  <2>1. record'[t].run = record[t].run + 1 /\ record'[t].state = "working" /\ process'[t] = "alive"
    BY <1>1, <1>2 DEF Begin, ProducerTypes
  <2>2. record[t].run + 1 \in Runs
    BY <1>1, <1>2, DataEventsAssumption DEF Begin, ProducerTypes, Record, Runs
  <2>3. \A u \in Tasks \ {t} : record'[u] = record[u] /\ process'[u] = process[u]
    BY <1>1, <1>2 DEF Begin, ProducerTypes
  <2> QED
    BY <1>1, <1>2, <2>1, <2>2, <2>3 DEF Begin, RecordTrue
<1>3. ASSUME NEW t \in Tasks, Complete(t) PROVE RecordTrue'
  <2>1. record'[t].run = record[t].run /\ record'[t].state = "done"
    BY <1>1, <1>3 DEF Complete, ProducerTypes, Record
  <2>2. \A u \in Tasks \ {t} : record'[u] = record[u]
    BY <1>1, <1>3 DEF Complete, ProducerTypes
  <2> QED
    BY <1>1, <1>3, <2>1, <2>2 DEF Complete, RecordTrue
<1>4. ASSUME NEW t \in Tasks, ProcessEnds(t) PROVE RecordTrue'
  <2>1. \A u \in Tasks \ {t} : process'[u] = process[u]
    BY <1>1, <1>4 DEF ProcessEnds, ProducerTypes
  <2>2. record[t].state = "working" => <<t, record[t].run>> \in died'
    BY <1>4 DEF ProcessEnds
  <2> QED
    BY <1>1, <1>4, <2>1, <2>2 DEF ProcessEnds, RecordTrue
<1>5. CASE UNCHANGED producerVars
  BY <1>1, <1>5 DEF producerVars, RecordTrue
<1> QED
  BY <1>2, <1>3, <1>4, <1>5, ProducerSteps

\* History is never forgotten.
LEMMA HistoryGrows ==
  ASSUME [Next]_vars
  PROVE  completed \subseteq completed' /\ died \subseteq died' /\ overtaken \subseteq overtaken'
  BY ProducerSteps DEF producerVars, Begin, Complete, ProcessEnds

LEMMA SeenTrueStep ==
  ASSUME IInv, [Next]_vars
  PROVE  SeenTrue'
<1>1. SeenTrue /\ RecordTrue /\ ProducerTypes /\ ObserverTypes
  BY DEF IInv, TypeOK
<1>2. ASSUME NEW t \in Tasks, Look(t) PROVE SeenTrue'
  BY <1>1, <1>2 DEF Look, SeenTrue, RecordTrue, producerVars
<1>3. CASE obs' # "open"
  BY <1>3 DEF SeenTrue
<1>4. ASSUME NEW t \in Tasks, Begin(t), UNCHANGED <<obs, subject, seen>> PROVE SeenTrue'
  <2>1. subject # t => record'[subject] = record[subject]
    BY <1>1, <1>4 DEF Begin, ProducerTypes, ObserverTypes
  <2> QED
    BY <1>1, <1>4, <2>1 DEF Begin, SeenTrue
<1>5. ASSUME NEW t \in Tasks, Complete(t), UNCHANGED <<obs, subject, seen>> PROVE SeenTrue'
  <2>1. record'[subject].run = record[subject].run
    BY <1>1, <1>5 DEF Complete, ProducerTypes, ObserverTypes, Record
  <2> QED
    BY <1>1, <1>5, <2>1 DEF Complete, SeenTrue
<1>6. ASSUME NEW t \in Tasks, ProcessEnds(t), UNCHANGED <<obs, subject, seen>> PROVE SeenTrue'
  BY <1>1, <1>6 DEF ProcessEnds, SeenTrue
<1>7. CASE UNCHANGED producerVars /\ UNCHANGED <<obs, subject, seen>>
  BY <1>1, <1>7 DEF producerVars, SeenTrue
<1>8. \/ \E t \in Tasks : Look(t)
      \/ obs' # "open"
      \/ UNCHANGED <<obs, subject, seen>>
  BY ObserverSteps DEF Observer, ObserverDies, Start, Receive, Disconnected, StopOrCrash, Leave,
         Select, OpenPid, ProcessMissing, NoProcessExpected, Emit, observerVars
<1> QED
  BY <1>2, <1>3, <1>4, <1>5, <1>6, <1>7, <1>8, ProducerSteps

\* What was true of the past stays true.
LEMMA TruthLasts ==
  ASSUME NEW e, Truthful(e), [Next]_vars
  PROVE  Truthful(e)'
  BY HistoryGrows DEF Truthful, Dead, Completes, Missing

LEMMA EmitTruth ==
  ASSUME ObserverTypes, ReportsTrue, NEW t \in Tasks, NEW rec, NEW life, [Next]_vars,
         Emit(t, rec, life), UNCHANGED <<svc, event, starts>>,
         Completes([rec |-> rec]) => <<t, rec.run>> \in completed,
         Missing([rec |-> rec, process |-> life]) => Dead(t)
  PROVE  ReportsTrue'
<1> DEFINE report == [task |-> t, rec |-> rec, process |-> life, at |-> starts]
<1>1. \A e : e = report => Truthful(e)'
  <2>1. Truthful(report)
    BY DEF Truthful, Completes, Missing
  <2> QED
    BY <2>1, TruthLasts
<1>2. svc \notin {"down", "idle"} => Truthful(event)'
  BY TruthLasts DEF ReportsTrue
<1>3. \A i \in 1 .. Len(stream) : \A e : e = stream[i] => Truthful(e)'
  BY TruthLasts DEF ReportsTrue
<1>4. \A i \in 1 .. Len(stream') : \A e : e = stream'[i] => Truthful(e)'
  <2>1. CASE stream' = stream
    BY <1>3, <2>1
  <2>2. CASE stream' = Append(stream, report)
    <3>1. /\ Len(stream) \in Nat /\ Len(stream') = Len(stream) + 1
          /\ \A i \in 1 .. Len(stream) : stream'[i] = stream[i]
          /\ stream'[Len(stream) + 1] = report
      BY <2>2 DEF ObserverTypes
    <3>2. \A i \in 1 .. Len(stream') : i \in 1 .. Len(stream) \/ i = Len(stream) + 1
      BY <3>1
    <3> HIDE DEF report
    <3> QED
      BY <1>1, <1>3, <3>1, <3>2
  <2> QED
    BY <2>1, <2>2 DEF Emit
<1> QED
  BY <1>2, <1>4 DEF ReportsTrue

LEMMA ReportsTrueStep ==
  ASSUME IInv, [Next]_vars
  PROVE  ReportsTrue'
<1>1. ReportsTrue /\ RecordTrue /\ SeenTrue /\ ProducerTypes /\ ObserverTypes
  BY DEF IInv, TypeOK
<1>2. CASE OpenPid
  <2>1. Emit(subject, seen, "alive") /\ UNCHANGED <<svc, event, starts>>
    BY <1>2 DEF OpenPid, memoryVars
  <2>2. ~Completes([rec |-> seen]) /\ ~Missing([rec |-> seen, process |-> "alive"])
    BY <1>2 DEF OpenPid, Completes, Missing
  <2> QED
    BY <1>1, <2>1, <2>2, EmitTruth DEF ObserverTypes
<1>3. CASE ProcessMissing
  <2>1. Emit(subject, record[subject], "gone") /\ UNCHANGED <<svc, event, starts>>
    BY <1>3 DEF ProcessMissing, Reread, memoryVars
  <2>2. Completes([rec |-> record[subject]]) => <<subject, record[subject].run>> \in completed
    BY <1>1 DEF Completes, RecordTrue, ObserverTypes
  <2>3. Missing([rec |-> record[subject], process |-> "gone"]) => Dead(subject)
    <3> SUFFICES ASSUME record[subject].state = "working" PROVE Dead(subject)
      BY DEF Missing
    <3>1. CASE record[subject].run # seen.run
      BY <1>1, <1>3, <3>1 DEF ProcessMissing, SeenTrue, Dead
    <3>2. CASE record[subject].run = seen.run
      <4>1. process[subject] = "gone"
        BY <1>1, <1>3, <3>2 DEF ProcessMissing, Running, ProducerTypes, ObserverTypes, Life
      <4> QED
        BY <1>1, <4>1 DEF RecordTrue, ObserverTypes, Dead
    <3> QED
      BY <3>1, <3>2
  <2> QED
    BY <1>1, <2>1, <2>2, <2>3, EmitTruth DEF ObserverTypes
<1>4. CASE NoProcessExpected
  <2>1. Emit(subject, seen, "gone") /\ UNCHANGED <<svc, event, starts>>
    BY <1>4 DEF NoProcessExpected, memoryVars
  <2>2. /\ Completes([rec |-> seen]) => <<subject, seen.run>> \in completed
        /\ ~Missing([rec |-> seen, process |-> "gone"])
    BY <1>1, <1>4 DEF NoProcessExpected, Completes, Missing, SeenTrue
  <2> QED
    BY <1>1, <2>1, <2>2, EmitTruth DEF ObserverTypes
<1>5. CASE Receive
  <2>1. /\ stream # <<>> /\ stream \in Seq(Event)
        /\ event' = Head(stream) /\ stream' = Tail(stream)
    BY <1>1, <1>5 DEF Receive, ObserverTypes
  <2>2. \A i \in 1 .. Len(stream) : \A e : e = stream[i] => Truthful(e)'
    BY <1>1, TruthLasts DEF ReportsTrue
  <2>3. 1 \in 1 .. Len(stream) /\ event' = stream[1]
    BY <2>1
  <2>4. \A i \in 1 .. Len(stream') : i + 1 \in 1 .. Len(stream) /\ stream'[i] = stream[i + 1]
    BY <2>1
  <2>5. \A e : e = event' => Truthful(e)'
    BY <2>2, <2>3
  <2>6. \A i \in 1 .. Len(stream') : \A e : e = stream'[i] => Truthful(e)'
    BY <2>2, <2>4
  <2> QED
    BY <2>5, <2>6 DEF ReportsTrue
<1> DEFINE KeepsEvent == svc \notin {"down", "idle"} /\ UNCHANGED event
<1>6. CASE stream' \in {stream, <<>>} /\ (svc' \in {"down", "idle"} \/ KeepsEvent)
  <2>1. \A i \in 1 .. Len(stream) : \A e : e = stream[i] => Truthful(e)'
    BY <1>1, TruthLasts DEF ReportsTrue
  <2>2. svc' \notin {"down", "idle"} => \A e : e = event => Truthful(e)'
    BY <1>1, <1>6, TruthLasts DEF ReportsTrue
  <2> QED
    BY <1>6, <2>1, <2>2 DEF ReportsTrue
<1>7. \/ OpenPid \/ ProcessMissing \/ NoProcessExpected \/ Receive
      \/ /\ stream' \in {stream, <<>>}
         /\ svc' \in {"down", "idle"} \/ KeepsEvent
  <2>1. \/ OpenPid \/ ProcessMissing \/ NoProcessExpected \/ Receive
        \/ stream' \in {stream, <<>>}
    BY ObserverSteps DEF Observer, ObserverDies, Start, Disconnected, StopOrCrash, Leave, Select,
           Look
  <2>2. svc' \in {"down", "idle"} \/ Receive \/ KeepsEvent
    <3>1. CASE UNCHANGED memoryVars
      BY <3>1 DEF memoryVars
    <3>2. CASE Supervisor \/ Timeout \/ StopOrCrash
      BY <3>2 DEF Supervisor, Timeout, StopOrCrash, Leave, Start, Recall, BindEvent, RecordIntent,
             Launch, RecordOutcome, FinishEvent, Disconnected, Settle
    <3> QED
      BY <3>1, <3>2, ServiceSteps
  <2> QED
    BY <2>1, <2>2
<1> QED
  BY <1>2, <1>3, <1>4, <1>5, <1>6, <1>7

-----------------------------------------------------------------------------
(* The supervisor and its hooks.                                           *)

LEMMA InHandStep ==
  ASSUME IInv, [Next]_vars
  PROVE  InHand'
<1>1. InHand /\ ServiceTypes
  BY DEF IInv, TypeOK
<1>2. obs' # "down" \/ svc' # "down" => starts' # 0
  <2>1. CASE Start
    BY <1>1, <2>1, DataEventsAssumption DEF Start, ServiceTypes
  <2>2. ASSUME ~Start
        PROVE  starts' = starts /\ (obs' # "down" => obs # "down") /\ (svc' # "down" => svc # "down")
    <3>1. obs' # "down" => obs # "down"
      BY <2>2, ObserverSteps DEF Observer, ObserverDies, Receive, Disconnected, StopOrCrash, Leave,
             Select, OpenPid, ProcessMissing, NoProcessExpected, Look, observerVars
    <3>2. starts' = starts /\ (svc' # "down" => svc # "down")
      BY <2>2, ServiceSteps DEF memoryVars, Supervisor, Receive, Disconnected, StopOrCrash,
             Timeout, RecordIntent, Launch, RecordOutcome, FinishEvent, Recall, BindEvent
    <3> QED
      BY <3>1, <3>2
  <2> QED
    BY <1>1, <2>1, <2>2 DEF InHand
<1> DEFINE Hand == /\ todo # {} => svc \notin {"down", "idle"} /\ Completes(event)
                   /\ \A h \in todo : TaskOf[h] = event.task
                   /\ svc \in Busy => current \in todo
<1> SUFFICES Hand'
  BY <1>2 DEF InHand
<1>3. CASE Start \/ Disconnected \/ StopOrCrash
  BY <1>3 DEF Start, Disconnected, StopOrCrash, Leave, Busy
<1>4. CASE Receive
  BY <1>4 DEF Receive, Completes, Busy
<1>5. ASSUME NEW h \in Hooks, Recall(h) PROVE Hand'
  BY <1>1, <1>5 DEF Recall, Settle, InHand, Completes, Busy
<1>6. ASSUME NEW h \in Hooks, BindEvent(h) PROVE Hand'
  BY <1>1, <1>6 DEF BindEvent, InHand, Completes, Busy
<1>7. CASE RecordIntent \/ Launch \/ Timeout
  BY <1>1, <1>7 DEF RecordIntent, Launch, Timeout, InHand, Completes, Busy
<1>8. CASE RecordOutcome
  BY <1>1, <1>8 DEF RecordOutcome, Settle, InHand, Completes, Busy
<1>9. CASE FinishEvent
  BY <1>1, <1>9 DEF FinishEvent, InHand, Completes, Busy
<1>10. CASE UNCHANGED <<memoryVars, published, starts>>
  BY <1>1, <1>10 DEF memoryVars, InHand, Completes, Busy
<1> HIDE DEF Hand
<1> QED
  BY <1>3, <1>4, <1>5, <1>6, <1>7, <1>8, <1>9, <1>10, ServiceSteps DEF Supervisor

LEMMA IntentsStep ==
  ASSUME IInv, [Next]_vars
  PROVE  Intents'
<1>1. Intents /\ ActionTypes /\ ServiceTypes
  BY DEF IInv, TypeOK
<1>2. completed \subseteq completed'
  BY HistoryGrows
<1>3. CASE UNCHANGED <<marker, launches>> /\ svc' \notin Busy
  BY <1>1, <1>2, <1>3 DEF Intents, Busy
<1>4. ASSUME NEW h \in Hooks, BindEvent(h) PROVE Intents'
  <2>1. current' = h /\ svc' = "bound" /\ UNCHANGED <<event, marker, launches, completed>>
    BY <1>4 DEF BindEvent, producerVars, hookVars
  <2>2. marker[h][event.rec.run] = "none"
    BY <1>4 DEF BindEvent, Handled
  <2> QED
    BY <1>1, <2>1, <2>2 DEF Intents
<1>5. CASE RecordIntent
  <2>1. current \in Hooks /\ event.rec.run \in Runs
    BY <1>5, HookInHand DEF RecordIntent, Busy
  <2>2. /\ svc' = "intended" /\ UNCHANGED <<event, current, launches, completed>>
        /\ marker' = [marker EXCEPT ![current][event.rec.run] = "started"]
        /\ marker[current][event.rec.run] = "none"
    BY <1>1, <1>5 DEF RecordIntent, producerVars, hookVars, Intents
  <2>3. marker'[current][event.rec.run] = "started"
    BY <1>1, <2>1, <2>2 DEF ActionTypes
  <2>4. \A h \in Hooks, r \in Runs : marker'[h][r] = "none" => marker[h][r] = "none"
    BY <1>1, <2>1, <2>2 DEF ActionTypes
  <2> QED
    BY <1>1, <2>1, <2>2, <2>3, <2>4 DEF Intents
<1>6. CASE Launch
  <2>1. /\ current \in Hooks /\ event.rec.run \in Runs
        /\ <<TaskOf[current], event.rec.run>> \in completed
    BY <1>6, HookInHand DEF Launch, Busy
  <2>2. /\ svc' = "waiting" /\ UNCHANGED <<event, current, marker, completed>>
        /\ launches' = [launches EXCEPT ![current][event.rec.run] = @ + 1]
        /\ marker[current][event.rec.run] # "none"
        /\ launches[current][event.rec.run] = 0
    BY <1>1, <1>6 DEF Launch, producerVars, controlVars, Intents
  <2>3. launches'[current][event.rec.run] = 1
    BY <1>1, <2>1, <2>2 DEF ActionTypes
  <2>4. \A h \in Hooks, r \in Runs :
          h # current \/ r # event.rec.run => launches'[h][r] = launches[h][r]
    BY <1>1, <2>1, <2>2 DEF ActionTypes
  <2> QED
    BY <1>1, <2>1, <2>2, <2>3, <2>4 DEF Intents
<1>7. CASE RecordOutcome
  <2>1. current \in Hooks /\ event.rec.run \in Runs
    BY <1>7, HookInHand DEF RecordOutcome, Busy
  <2>2. \A h \in Hooks, r \in Runs : marker'[h][r] = "none" => marker[h][r] = "none"
    BY <1>1, <1>7, <2>1 DEF RecordOutcome, Outcome, ActionTypes
  <2>3. svc' = "hooks" /\ UNCHANGED <<launches, completed>>
    BY <1>7 DEF RecordOutcome, Settle, producerVars, hookVars
  <2> QED
    BY <1>1, <2>2, <2>3 DEF Intents
<1>8. CASE UNCHANGED <<marker, launches, svc, current, event>>
  BY <1>1, <1>2, <1>8 DEF Intents
<1>9. CASE Timeout
  BY <1>1, <1>2, <1>9 DEF Timeout, controlVars, Intents
<1>10. \/ UNCHANGED <<marker, launches>> /\ svc' \notin Busy
       \/ RecordIntent \/ Launch \/ RecordOutcome
       \/ Timeout
       \/ \E h \in Hooks : BindEvent(h)
       \/ UNCHANGED <<marker, launches, svc, current, event>>
  <2>1. ASSUME NEW h \in Hooks, NEW r \in Runs, HookEnds(h, r)
        PROVE  UNCHANGED <<marker, launches, svc, current, event>>
    BY <2>1 DEF HookEnds, memoryVars, controlVars
  <2>2. ASSUME UNCHANGED <<marker, launches>>, UNCHANGED memoryVars
        PROVE  UNCHANGED <<marker, launches, svc, current, event>>
    BY <2>2 DEF memoryVars
  <2>3. CASE UNCHANGED <<marker, launches>> /\ (Supervisor \/ StopOrCrash)
    BY <2>3 DEF Supervisor, Receive, Disconnected, StopOrCrash, Leave, FinishEvent, Recall, Settle,
       Start, Busy
  <2> QED
    BY <2>1, <2>2, <2>3, ActionSteps, ServiceSteps
<1> QED
  BY <1>3, <1>4, <1>5, <1>6, <1>7, <1>8, <1>9, <1>10

LEMMA EventBoundStep ==
  ASSUME IInv, [Next]_vars
  PROVE  EventBound'
<1>1. EventBound /\ ActionTypes
  BY DEF IInv, TypeOK
<1>2. ASSUME NEW h \in Hooks, BindEvent(h) PROVE EventBound'
  <2>1. event.rec.run \in Runs /\ marker[h][event.rec.run] = "none"
    BY <1>2, RunInHand DEF BindEvent, Handled
  <2> QED
    BY <1>1, <1>2, <2>1 DEF BindEvent, EventBound, ActionTypes
<1>3. CASE RecordIntent
  <2>1. current \in Hooks /\ event.rec.run \in Runs
    BY <1>3, HookInHand DEF RecordIntent, Busy
  <2> QED
    BY <1>1, <1>3, <2>1 DEF RecordIntent, EventBound, ActionTypes
<1>4. CASE RecordOutcome
  <2>1. current \in Hooks /\ event.rec.run \in Runs /\ marker[current][event.rec.run] # "none"
    BY <1>4, HookInHand DEF RecordOutcome, Busy, IInv, Intents
  <2> QED
    BY <1>1, <1>4, <2>1 DEF RecordOutcome, EventBound, ActionTypes
<1>5. CASE UNCHANGED <<marker, bound, eventFile>>
  BY <1>1, <1>5 DEF EventBound
<1> QED
  BY <1>2, <1>3, <1>4, <1>5, ActionSteps DEF Launch, Timeout, HookEnds, controlVars

LEMMA NoFalseAlarmStep ==
  ASSUME IInv, [Next]_vars
  PROVE  NoFalseAlarm'
<1>1. NoFalseAlarm /\ ReportsTrue /\ ServiceTypes /\ ObserverTypes
  BY DEF IInv, TypeOK
<1>2. \A t \in Tasks : Dead(t) => Dead(t)'
  BY HistoryGrows DEF Dead
<1>3. CASE Receive
  <2>1. event' = Head(stream) /\ Truthful(event') /\ event'.task \in Tasks
    <3>1. event' = stream[1] /\ 1 \in 1 .. Len(stream) /\ event' \in Event
      BY <1>1, <1>3 DEF Receive, ObserverTypes
    <3> QED
      BY <1>1, <1>3, <3>1 DEF Receive, ReportsTrue, Event
  <2>2. \A t \in Tasks : attention'[t] = "missing" => attention[t] = "missing" \/ Dead(t)
    BY <1>1, <1>3, <2>1 DEF Receive, Truthful, ServiceTypes
  <2>3. UNCHANGED published
    BY <1>3 DEF Receive, controlVars
  <2> QED
    BY <1>1, <1>2, <2>2, <2>3 DEF NoFalseAlarm, Dead
<1>4. ASSUME \A t \in Tasks : attention'[t] = "missing" => attention[t] = "missing",
             \A t \in Tasks : published'[t] = "missing" => "missing" \in {attention[t], published[t]}
      PROVE  NoFalseAlarm'
  BY <1>1, <1>2, <1>4 DEF NoFalseAlarm, Dead
<1>5. CASE Start
  BY <1>4, <1>5 DEF Start
<1>6. ASSUME NEW h \in Hooks, NEW state, Settle(h, state), UNCHANGED published
      PROVE  NoFalseAlarm'
  BY <1>1, <1>4, <1>6 DEF Settle, ServiceTypes
<1>7. CASE FinishEvent \/ Disconnected \/ StopOrCrash
  BY <1>4, <1>7 DEF FinishEvent, Disconnected, StopOrCrash
<1>8. CASE UNCHANGED <<attention, published>>
  BY <1>4, <1>8
<1>9. \/ Receive \/ Start \/ FinishEvent \/ Disconnected \/ StopOrCrash
      \/ \E h \in Hooks : \E state : Settle(h, state) /\ UNCHANGED published
      \/ UNCHANGED <<attention, published>>
  <2>1. ASSUME NEW h \in Hooks, Recall(h)
        PROVE  \E state : Settle(h, state) /\ UNCHANGED published
    BY <2>1 DEF Recall
  <2>2. CASE RecordOutcome
    <3>1. \E state : Settle(current, state) /\ UNCHANGED published
      BY <2>2 DEF RecordOutcome
    <3> QED
      BY <2>2, <3>1, HookInHand DEF RecordOutcome, Busy
  <2> QED
    BY <2>1, <2>2, ServiceSteps DEF memoryVars, Supervisor, BindEvent, RecordIntent, Launch,
       Timeout, controlVars
<1> QED
  BY <1>3, <1>5, <1>6, <1>7, <1>8, <1>9

-----------------------------------------------------------------------------
LEMMA InitIInv == Init => IInv
<1> SUFFICES ASSUME Init PROVE IInv
  OBVIOUS
<1>1. ProducerTypes
  BY DataEventsAssumption DEF Init, ProducerTypes, NoRecord, Record, Life
<1>2. ObserverTypes
  <2>1. <<>> \in Seq(Event)
    OBVIOUS
  <2>2. watched \in [Tasks -> 0 .. MaxRuns]
    BY DataEventsAssumption DEF Init
  <2> QED
    BY <2>1, <2>2, StartTypes DEF Init, ObserverTypes
<1>3. ServiceTypes
  BY DataEventsAssumption DEF Init, ServiceTypes, Notice
<1>4. ActionTypes
  BY DataEventsAssumption DEF Init, ActionTypes, ForEachRun
<1>5. RecordTrue
  BY DEF Init, RecordTrue, NoRecord
<1>6. SeenTrue /\ ReportsTrue /\ InHand
  BY DEF Init, SeenTrue, ReportsTrue, InHand, Busy
<1>7. Intents /\ EventBound
  BY DEF Init, Intents, EventBound, ForEachRun
<1>8. NoFalseAlarm
  BY DEF Init, NoFalseAlarm
<1> QED
  BY <1>1, <1>2, <1>3, <1>4, <1>5, <1>6, <1>7, <1>8 DEF IInv, TypeOK

LEMMA Invariant == Spec => []IInv
<1>1. IInv /\ [Next]_vars => IInv'
  BY ProducerTypesStep, ObserverTypesStep, ServiceTypesStep, ActionTypesStep, RecordTrueStep,
     SeenTrueStep, ReportsTrueStep, InHandStep, IntentsStep, EventBoundStep, NoFalseAlarmStep
     DEF IInv, TypeOK
<1> QED
  BY <1>1, InitIInv, PTL DEF Spec

\* The state keeps its types: in particular every event in the stream, and
\* every mark of a hook, is of a run that a task has had.
THEOREM TypeCorrect == Spec => []TypeOK
  BY Invariant, PTL DEF IInv

\* No completion starts a hook twice, and none is started before it, whatever
\* the supervisor and the observer were doing when they stopped (run_hook).
THEOREM LaunchedOnce == Spec => []OneLaunchPerCompletion
<1>1. IInv => OneLaunchPerCompletion
  <2> SUFFICES ASSUME IInv, NEW h \in Hooks, NEW r \in Runs
               PROVE  launches[h][r] <= IF <<TaskOf[h], r>> \in completed THEN 1 ELSE 0
    BY DEF OneLaunchPerCompletion
  <2>1. launches[h][r] \in {0, 1} /\ (launches[h][r] = 1 => <<TaskOf[h], r>> \in completed)
    BY DEF IInv, Intents
  <2> QED
    BY <2>1
<1> QED
  BY <1>1, Invariant, PTL

\* The event a hook reads is the one its intent names, although reconnections
\* report the same completion at other times (event_sha256).
THEOREM EventKeptForHook == Spec => []EventBound
  BY Invariant, PTL DEF IInv

\* needs_attention lists as missing only tasks that died before completing, or
\* that were begun anew between two reads of their record (observe, supervise).
THEOREM AlarmsAreTrue == Spec => []NoFalseAlarm
  BY Invariant, PTL DEF IInv

=============================================================================
