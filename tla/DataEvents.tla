----------------------------- MODULE DataEvents -----------------------------
(***************************************************************************)
(* scripts/pretraining_data_events.py: an observer reports changes of the  *)
(* data tasks' run records and the exits of their processes; a supervisor  *)
(* reads its stream and runs the hooks declared for a completed task, each *)
(* at most once for a completion.  Both may die at any point and be        *)
(* started again; a hook that was running goes on.                         *)
(*                                                                         *)
(* A completion is identified by the task and the number of its run, which *)
(* stands for the fields that completion_key digests.                      *)
(***************************************************************************)
EXTENDS Naturals, Sequences

CONSTANTS
  Tasks,
  Hooks,      \* the declared hooks ...
  TaskOf,     \* ... and the task whose completion each one follows
  NoHook,
  MaxRuns,    \* bound: how often a data task is run
  MaxStarts   \* bound: how often the supervisor is started

Runs == 1 .. MaxRuns

ASSUME DataEventsAssumption ==
  /\ TaskOf \in [Hooks -> Tasks]
  /\ NoHook \notin Hooks
  /\ MaxRuns \in Nat /\ MaxStarts \in Nat

VARIABLES
  record,     \* run.json of each task: the number of its run and its state
  process,    \* whether the process of that run exists
  completed,  \* history: the runs that completed
  died,       \* history: the runs whose process ended before it completed
  overtaken,  \* history: tasks begun anew between two reads of a snapshot
  obs,        \* the observer: "down", "select" or "open"
  due,        \* tasks it still has to take a snapshot of
  subject,    \* the task of the snapshot under way ...
  seen,       \* ... and the record it has read
  watched,    \* the run whose process it holds a pidfd of, or 0
  changed,    \* tasks with file notifications it has not read
  last,       \* what it last reported of each task
  stream,     \* the observer's output that the supervisor has not read
  svc,        \* the supervisor: "down", "idle", "hooks", "bound", "intended",
              \* "waiting" or "timeout"
  event,      \* the event it handles
  todo,       \* hooks it still has to consider for that event
  current,    \* the hook it is running
  attention,  \* needs_attention in memory ...
  published,  \* ... and in the service's run.json
  eventFile,  \* events/: when the event handed to a hook was observed
  marker,     \* actions/: the state of each hook and run ...
  bound,      \* ... and the event it names
  hookProc,   \* the processes of the hooks
  launches,   \* history: how often each was started
  starts

producerVars == <<record, process, completed, died, overtaken>>
observerVars == <<obs, due, subject, seen, watched, changed, last>>
memoryVars   == <<svc, event, todo, current, attention>>
controlVars  == <<published, eventFile, marker, bound>>
hookVars     == <<hookProc, launches>>
vars == <<producerVars, observerVars, stream, memoryVars, controlVars, hookVars, starts>>

Life     == {"alive", "gone"}
Record   == [run : 0 .. MaxRuns, state : {"absent", "working", "done"}]
NoRecord == [run |-> 0, state |-> "absent"]
Event    == [task : Tasks, rec : Record, process : Life, at : 1 .. MaxStarts]
Notice   == {"none", "missing", "hook"}

ProducerTypes ==
  /\ record \in [Tasks -> Record] /\ process \in [Tasks -> Life]
  /\ completed \subseteq Tasks \X Runs /\ died \subseteq Tasks \X Runs
  /\ overtaken \subseteq Tasks

ObserverTypes ==
  /\ obs \in {"down", "select", "open"}
  /\ due \subseteq Tasks /\ subject \in Tasks /\ seen \in Record
  /\ watched \in [Tasks -> 0 .. MaxRuns] /\ changed \subseteq Tasks
  /\ last \in [Tasks -> Record \X Life]
  /\ stream \in Seq(Event)

ServiceTypes ==
  /\ svc \in {"down", "idle", "hooks", "bound", "intended", "waiting", "timeout"}
  /\ svc \notin {"down", "idle"} => event \in Event
  /\ todo \subseteq Hooks /\ current \in Hooks \cup {NoHook}
  /\ attention \in [Tasks -> Notice] /\ published \in [Tasks -> Notice]
  /\ starts \in 0 .. MaxStarts

ActionTypes ==
  /\ eventFile \in [Hooks -> [Runs -> 0 .. MaxStarts]]
  /\ marker \in [Hooks -> [Runs -> {"none", "started", "complete", "failed"}]]
  /\ bound \in [Hooks -> [Runs -> 0 .. MaxStarts]]
  /\ hookProc \in [Hooks -> [Runs -> {"none", "running", "ok", "bad"}]]
  /\ launches \in [Hooks -> [Runs -> Nat]]

TypeOK == ProducerTypes /\ ObserverTypes /\ ServiceTypes /\ ActionTypes

NoEvent == [task |-> NoHook, rec |-> NoRecord, process |-> "gone", at |-> 0]
Unreported == [t \in Tasks |-> <<NoRecord, "alive">>]
ForEachRun(value) == [h \in Hooks |-> [r \in Runs |-> value]]

Init ==
  /\ record = [t \in Tasks |-> NoRecord] /\ process = [t \in Tasks |-> "gone"]
  /\ completed = {} /\ died = {} /\ overtaken = {}
  /\ obs = "down" /\ due = {} /\ subject \in Tasks /\ seen = NoRecord
  /\ watched = [t \in Tasks |-> 0] /\ changed = {} /\ last = Unreported
  /\ stream = <<>>
  /\ svc = "down" /\ event = NoEvent /\ todo = {} /\ current = NoHook
  /\ attention = [t \in Tasks |-> "none"] /\ published = attention
  /\ eventFile = ForEachRun(0) /\ marker = ForEachRun("none") /\ bound = ForEachRun(0)
  /\ hookProc = ForEachRun("none") /\ launches = ForEachRun(0)
  /\ starts = 0

-----------------------------------------------------------------------------
(* The data tasks: independent processes that replace their record.        *)

\* Variant for checking EndsAreHandled: a busy observer misses a change.
NotifiedWhenIdle(t) == IF obs = "select" /\ due = {} THEN changed \cup {t} ELSE changed

\* The kernel queues a notification for a running observer.
Notified(t) == IF obs # "down" THEN changed \cup {t} ELSE changed

Begin(t) ==
  /\ process[t] = "gone" /\ record[t].run < MaxRuns
  /\ process' = [process EXCEPT ![t] = "alive"]
  /\ record' = [record EXCEPT ![t] = [run |-> @.run + 1, state |-> "working"]]
  /\ changed' = Notified(t)
  /\ overtaken' = IF obs = "open" /\ subject = t THEN overtaken \cup {t} ELSE overtaken
  /\ UNCHANGED <<completed, died, obs, due, subject, seen, watched, last, stream,
                 memoryVars, controlVars, hookVars, starts>>

Complete(t) ==
  /\ process[t] = "alive" /\ record[t].state = "working"
  /\ record' = [record EXCEPT ![t].state = "done"]
  /\ completed' = completed \cup {<<t, record[t].run>>}
  /\ changed' = Notified(t)
  /\ UNCHANGED <<process, died, overtaken, obs, due, subject, seen, watched, last, stream,
                 memoryVars, controlVars, hookVars, starts>>

ProcessEnds(t) ==
  /\ process[t] = "alive"
  /\ process' = [process EXCEPT ![t] = "gone"]
  /\ died' = IF record[t].state = "done" THEN died ELSE died \cup {<<t, record[t].run>>}
  /\ UNCHANGED <<record, completed, overtaken, observerVars, stream, memoryVars, controlVars,
                 hookVars, starts>>

-----------------------------------------------------------------------------
(* observe: snapshots on file notifications and on the exit of a process.  *)

\* A pidfd belongs to one process, the one of the run it was opened for.
Running(t, run) == process[t] = "alive" /\ record[t].run = run
Exited == {t \in Tasks : watched[t] > 0 /\ ~Running(t, watched[t])}

Select ==
  /\ obs = "select" /\ due = {}
  /\ changed \cup Exited # {}
  /\ due' = changed \cup Exited
  /\ changed' = {}
  /\ UNCHANGED <<producerVars, obs, subject, seen, watched, last, stream, memoryVars,
                 controlVars, hookVars, starts>>

\* snapshot: close the old pidfd, read the record ...
Look(t) ==
  /\ obs = "select" /\ t \in due
  /\ subject' = t /\ due' = due \ {t}
  /\ seen' = record[t]
  /\ watched' = [watched EXCEPT ![t] = 0]
  /\ obs' = "open"
  /\ UNCHANGED <<producerVars, changed, last, stream, memoryVars, controlVars, hookVars, starts>>

Emit(t, rec, life) ==
  /\ last' = [last EXCEPT ![t] = <<rec, life>>]
  /\ stream' = IF last[t] = <<rec, life>> THEN stream
               ELSE Append(stream, [task |-> t, rec |-> rec, process |-> life, at |-> starts])
  /\ obs' = "select"

\* ... and, of a task under way, open a pidfd of its process.
OpenPid ==
  /\ obs = "open" /\ seen.state = "working"
  /\ Running(subject, seen.run)
  /\ watched' = [watched EXCEPT ![subject] = seen.run]
  /\ Emit(subject, seen, "alive")
  /\ UNCHANGED <<producerVars, due, subject, seen, changed, memoryVars, controlVars,
                 hookVars, starts>>

\* Variant for checking NoFalseAlarm: the record is read once only.
ReadOnce(t) == seen

\* "A final atomic record may have arrived between the first read and
\* pidfd_open."
Reread(t) == record[t]

ProcessMissing ==
  /\ obs = "open" /\ seen.state = "working"
  /\ ~Running(subject, seen.run)
  /\ Emit(subject, Reread(subject), "gone")
  /\ UNCHANGED <<producerVars, due, subject, seen, watched, changed, memoryVars, controlVars,
                 hookVars, starts>>

NoProcessExpected ==
  /\ obs = "open" /\ seen.state # "working"
  /\ Emit(subject, seen, "gone")
  /\ UNCHANGED <<producerVars, due, subject, seen, watched, changed, memoryVars, controlVars,
                 hookVars, starts>>

\* A record or a transport fails; what was written can still be read.
ObserverDies ==
  /\ obs # "down" /\ starts < MaxStarts
  /\ obs' = "down" /\ due' = {} /\ changed' = {} /\ last' = Unreported
  /\ watched' = [t \in Tasks |-> 0]
  /\ UNCHANGED <<producerVars, subject, seen, stream, memoryVars, controlVars, hookVars, starts>>

Observer ==
  \/ Select \/ OpenPid \/ ProcessMissing \/ NoProcessExpected
  \/ \E t \in Tasks : Look(t)

-----------------------------------------------------------------------------
(* supervise and run_hook.                                                 *)

\* The observers are started and take a first snapshot of every task; the
\* service's record is written before anything is known of the tasks.
Start ==
  /\ svc = "down" /\ starts < MaxStarts
  /\ starts' = starts + 1
  /\ svc' = "idle" /\ todo' = {} /\ current' = NoHook
  /\ attention' = [t \in Tasks |-> "none"] /\ published' = attention'
  /\ obs' = "select" /\ due' = Tasks /\ changed' = {} /\ last' = Unreported
  /\ watched' = [t \in Tasks |-> 0]
  /\ stream' = <<>>
  /\ UNCHANGED <<producerVars, subject, seen, event, eventFile, marker, bound, hookVars>>

\* completion_key is not None.
Completes(e) == e.rec.state = "done"

\* "process missing or identity differs; no automatic restart"
Missing(e) == e.rec.state = "working" /\ e.process = "gone"

Receive ==
  /\ svc = "idle" /\ stream # <<>>
  /\ LET e == Head(stream)
     IN /\ event' = e
        /\ attention' = IF Missing(e) THEN [attention EXCEPT ![e.task] = "missing"]
                        ELSE attention
        /\ todo' = IF Completes(e) THEN {h \in Hooks : TaskOf[h] = e.task} ELSE {}
  /\ stream' = Tail(stream)
  /\ svc' = "hooks"
  /\ UNCHANGED <<producerVars, observerVars, current, controlVars, hookVars, starts>>

\* Variant for checking OneLaunchPerCompletion: an intent is no outcome yet.
HandledOnceFinal(h, r) == marker[h][r] \in {"complete", "failed"}

\* The marker, whatever it says, prevents a replay.
Handled(h, r) == marker[h][r] # "none"

\* Variant for checking InterruptedIsRaised: an intent is not a failure.
RaisedOnFailure(state) == state = "failed"

Raised(state) == state # "complete"

\* The hook's action is recorded; what is not complete needs attention.
Settle(h, state) ==
  /\ attention' = IF Raised(state) THEN [attention EXCEPT ![event.task] = "hook"]
                  ELSE attention
  /\ todo' = todo \ {h}
  /\ current' = NoHook
  /\ svc' = "hooks"

\* Variant for checking EventBound: the event is written whether or not the
\* hook has been handled.
EventRewritten(h, r) == [eventFile EXCEPT ![h][r] = event.at]

EventKept(h, r) == eventFile

Recall(h) ==
  /\ svc = "hooks" /\ h \in todo
  /\ LET r == event.rec.run
     IN /\ Handled(h, r)
        /\ Settle(h, marker[h][r])
        /\ eventFile' = EventKept(h, r)
  /\ UNCHANGED <<producerVars, observerVars, stream, event, published, marker, bound,
                 hookVars, starts>>

\* The event is written, then the intent that names it, then the hook starts.
BindEvent(h) ==
  /\ svc = "hooks" /\ h \in todo
  /\ ~Handled(h, event.rec.run)
  /\ eventFile' = [eventFile EXCEPT ![h][event.rec.run] = event.at]
  /\ current' = h
  /\ svc' = "bound"
  /\ UNCHANGED <<producerVars, observerVars, stream, event, todo, attention, published,
                 marker, bound, hookVars, starts>>

RecordIntent ==
  /\ svc = "bound"
  /\ LET r == event.rec.run
     IN /\ marker' = [marker EXCEPT ![current][r] = "started"]
        /\ bound' = [bound EXCEPT ![current][r] = eventFile[current][r]]
  /\ svc' = "intended"
  /\ UNCHANGED <<producerVars, observerVars, stream, event, todo, current, attention,
                 published, eventFile, hookVars, starts>>

Launch ==
  /\ svc = "intended"
  /\ LET r == event.rec.run
     IN /\ hookProc' = [hookProc EXCEPT ![current][r] = "running"]
        /\ launches' = [launches EXCEPT ![current][r] = @ + 1]
  /\ svc' = "waiting"
  /\ UNCHANGED <<producerVars, observerVars, stream, event, todo, current, attention,
                 controlVars, starts>>

\* timeout_seconds: the hook is killed, or ends just before the signal.
Timeout ==
  /\ svc = "waiting" /\ hookProc[current][event.rec.run] = "running"
  /\ \E end \in {"ok", "bad"} : hookProc' = [hookProc EXCEPT ![current][event.rec.run] = end]
  /\ svc' = "timeout"
  /\ UNCHANGED <<producerVars, observerVars, stream, event, todo, current, attention,
                 controlVars, launches, starts>>

\* The state of an action whose hook ended like this.
Outcome(end) == IF svc = "waiting" /\ end = "ok" THEN "complete" ELSE "failed"

RecordOutcome ==
  /\ svc \in {"waiting", "timeout"}
  /\ LET r == event.rec.run
         state == Outcome(hookProc[current][r])
     IN /\ hookProc[current][r] # "running"
        /\ marker' = [marker EXCEPT ![current][r] = state]
        /\ Settle(current, state)
  /\ UNCHANGED <<producerVars, observerVars, stream, event, published, eventFile, bound,
                 hookVars, starts>>

\* save(), then the observer's next line.
FinishEvent ==
  /\ svc = "hooks" /\ todo = {}
  /\ published' = attention
  /\ svc' = "idle"
  /\ UNCHANGED <<producerVars, observerVars, stream, event, todo, current, attention,
                 eventFile, marker, bound, hookVars, starts>>

\* The service stops its observers; hooks are in sessions of their own.
Leave ==
  /\ svc' = "down" /\ todo' = {} /\ current' = NoHook
  /\ obs' = "down" /\ due' = {} /\ changed' = {} /\ last' = Unreported
  /\ watched' = [t \in Tasks |-> 0]
  /\ stream' = <<>>

\* "event observer disconnected; no producer restarted"
Disconnected ==
  /\ svc = "idle" /\ stream = <<>> /\ obs = "down"
  /\ published' = attention
  /\ Leave
  /\ UNCHANGED <<producerVars, subject, seen, event, attention, eventFile, marker, bound,
                 hookVars, starts>>

\* A kill; or an exception (a changed hook input, a failing on_event, the wall
\* budget, SIGTERM), after which the attention so far is saved.
StopOrCrash ==
  /\ svc # "down" /\ starts < MaxStarts
  /\ published' \in {published, attention}
  /\ Leave
  /\ UNCHANGED <<producerVars, subject, seen, event, attention, eventFile, marker, bound,
                 hookVars, starts>>

HookEnds(h, r) ==
  /\ hookProc[h][r] = "running"
  /\ \E end \in {"ok", "bad"} : hookProc' = [hookProc EXCEPT ![h][r] = end]
  /\ UNCHANGED <<producerVars, observerVars, stream, memoryVars, controlVars, launches, starts>>

Supervisor ==
  \/ Start \/ Receive \/ RecordIntent \/ Launch \/ RecordOutcome \/ FinishEvent \/ Disconnected
  \/ \E h \in Hooks : Recall(h) \/ BindEvent(h)

Next ==
  \/ Supervisor \/ Timeout \/ StopOrCrash
  \/ Observer \/ ObserverDies
  \/ \E t \in Tasks : Begin(t) \/ Complete(t) \/ ProcessEnds(t)
  \/ \E h \in Hooks, r \in Runs : HookEnds(h, r)

Spec == Init /\ [][Next]_vars

\* The operating system schedules observer and supervisor, the operator starts
\* a stopped service again, and hooks end; data tasks need not.
FairSpec ==
  /\ Spec
  /\ WF_vars(Supervisor) /\ WF_vars(Observer)
  /\ \A h \in Hooks, r \in Runs : WF_vars(HookEnds(h, r))

-----------------------------------------------------------------------------
(* Properties.                                                             *)

\* "A persisted intent prevents replay after an ambiguous interrupted hook",
\* and experiment-management.md: no completion starts a hook twice through a
\* reconnection or a restart; and a hook runs only after its task completed.
OneLaunchPerCompletion ==
  \A h \in Hooks, r \in Runs :
    launches[h][r] <= IF <<TaskOf[h], r>> \in completed THEN 1 ELSE 0

\* event_sha256: the event file a hook was given is the one its intent names,
\* although every reconnection reports the completion anew.
EventBound ==
  \A h \in Hooks, r \in Runs : marker[h][r] # "none" => bound[h][r] = eventFile[h][r]

\* A missing process is reported only of a task that died on its way, although
\* it may finish and exit between the two reads of its record.  (A task begun
\* anew just there is reported missing with its new record.)
NoFalseAlarm ==
  \A t \in Tasks : "missing" \in {attention[t], published[t]} =>
    t \in overtaken \/ \E r \in Runs : <<t, r>> \in died

\* Without any timer, the end of a run is noticed: its hooks have all been
\* considered, or its death is listed, unless it was started again meanwhile.
EndsAreHandled ==
  \A t \in Tasks, r \in Runs :
    /\ record[t] = [run |-> r, state |-> "done"] ~>
         \/ record[t].run > r
         \/ \A h \in Hooks : TaskOf[h] = t => marker[h][r] # "none"
    /\ record[t] = [run |-> r, state |-> "working"] /\ process[t] = "gone" ~>
         record[t].run > r \/ published[t] = "missing"

\* "needs_attention": a hook whose supervisor stopped while it ran is listed
\* in the service's record in the end, as long as its run is the task's last.
InterruptedIsRaised ==
  \A h \in Hooks, r \in Runs :
    svc = "down" /\ marker[h][r] = "started" ~>
      record[TaskOf[h]].run > r \/ published[TaskOf[h]] = "hook"

=============================================================================
