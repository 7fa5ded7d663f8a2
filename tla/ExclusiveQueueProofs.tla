------------------------ MODULE ExclusiveQueueProofs ------------------------
(***************************************************************************)
(* What ExclusiveQueue guarantees for every plan, every set of devices and *)
(* any number of crashes and restarts.                                     *)
(*                                                                         *)
(* The records of this queue say little after a crash.  What carries the   *)
(* proof is who holds the locks (Locks), the log file that every launch    *)
(* leaves behind (Launched), and that what a gate has read does not change *)
(* any more (GateRead).                                                    *)
(***************************************************************************)
EXTENDS ExclusiveQueue, FiniteSetTheorems, TLAPS

\* A live worker holds its device's lock, and a lock has at most one holder
\* beside the controller.
WorkersHold ==
  \A j \in Jobs : Alive(j) => placed[j] \in Gpus /\ j \in lease[placed[j]]
HoldersLive ==
  \A g \in Gpus : \A j \in Jobs \cap lease[g] : Alive(j) /\ placed[j] = g
OneWorker ==
  \A g \in Gpus : \A h, k \in lease[g] : h # Ctl /\ k # Ctl => h = k
PeerAlone == \A g \in Gpus : peer[g] # "none" => lease[g] = {Peer}

\* Adopted processes hold no lock: they are resident from the start, so their
\* devices read busy until they are gone.
AdoptedSeen == \A p \in Adopted : proc[p] \in {"resident", "exited"}
AdoptedUnleased ==
  \A p \in Adopted : Alive(p) => \A g \in AdoptedOn[p] \cap Gpus : lease[g] \subseteq {Ctl}

\* The controller's own share of a lock, and the launch in progress.
CtlHolds ==
  \A g \in Gpus : Ctl \in lease[g] =>
    (ctl = "leased" /\ handled.gpu = g) \/ \E j \in owned : placed[j] = g
LeasedNow ==
  ctl = "leased" => handled.gpu \in Gpus /\ lease[handled.gpu] = {Ctl}

Locks ==
  /\ WorkersHold /\ HoldersLive /\ OneWorker /\ PeerAlone
  /\ AdoptedSeen /\ AdoptedUnleased /\ CtlHolds /\ LeasedNow

\* Every launch leaves a log file, which forbids another one.
Launched ==
  \A j \in Jobs : proc[j] # "none" \/ launches[j] > 0 \/ j \in owned => j \in logFile

\* A record says running only of a started job, and a result is written by a
\* resident process.
Started ==
  \A j \in Jobs :
    /\ mem[j] = "running" \/ disk[j] = "running" => proc[j] # "none"
    /\ proc[j] \in {"none", "starting"} => result[j] = "absent"

\* What the gate of the job under way has read is still so.
GateRead == \A j \in Jobs : handled.job = j => Gate(j) = "ready"

\* A gate that was read as closed for good stays closed.
Shut(j) == \/ GateOf[j] # NoGate /\ result[GateOf[j]] = "failed"
           \/ verdict[j] = "blocked"
GateKept ==
  \A j \in Jobs :
    /\ launches[j] > 0 /\ GateOf[j] # NoGate => result[GateOf[j]] = "complete"
    /\ mem[j] = "blocked" \/ disk[j] = "blocked" => Shut(j)

\* The first controller starts with nothing on record, and holds the process
\* handle of every job it finds running, so it knows how each of them exits.
FirstController ==
  /\ starts = 0 => ctl = "down" /\ \A j \in Jobs : mem[j] = "waiting" /\ disk[j] = "waiting"
  /\ starts = 1 /\ ctl # "down" => \A j \in Jobs : mem[j] = "running" => j \in owned

Records == Launched /\ Started /\ GateRead /\ GateKept /\ FirstController /\ CompleteIsFinal

IInv == TypeOK /\ Locks /\ Records

-----------------------------------------------------------------------------
(* Types.                                                                  *)

LEMMA Names ==
  /\ Procs = Jobs \cup Adopted /\ Jobs \cap Adopted = {}
  /\ Holders = Jobs \cup {Ctl, Peer}
  /\ Ctl \notin Procs /\ Peer \notin Procs /\ Peer # Ctl
  /\ NoGate \notin Jobs /\ NoGpu \notin Gpus
  /\ GateOf \in [Jobs -> Jobs \cup {NoGate}] /\ Allowed \in [Jobs -> SUBSET Gpus]
  /\ \A p, q \in Adopted : AdoptedOn[p] \cap AdoptedOn[q] # {} => p = q
  /\ AdoptedOn \in [Adopted -> SUBSET Gpus]
  /\ MaxStarts \in Nat /\ MaxExternal \in Nat
BY ExclusiveQueueAssumption DEF Procs, Holders

\* The states of TypeOK, by the steps that change them.
JobStates == Terminal \cup {"waiting", "running"}
PassTypes ==
  /\ ctl \in {"down", "sample", "reap", "dispatch", "leased", "sleep"}
  /\ visited \subseteq Jobs /\ tried \subseteq Gpus /\ sampled \subseteq Gpus
  /\ handled \in {Nothing} \cup [job : Jobs, gpu : Gpus \cup {NoGpu}]
RecordTypes ==
  /\ mem \in [Jobs -> JobStates] /\ disk \in [Jobs -> JobStates]
  /\ owned \subseteq Jobs
LeaseTypes == lease \in [Gpus -> SUBSET Holders]
WorkTypes ==
  /\ proc \in [Procs -> {"none", "starting", "resident", "exited"}]
  /\ exitCode \in [Procs -> {0, 1}]
  /\ result \in [Jobs -> {"absent", "running", "complete", "failed"}]
  /\ placed \in [Jobs -> Gpus \cup {NoGpu}]
  /\ launches \in [Jobs -> Nat] /\ logFile \subseteq Jobs
HostTypes ==
  /\ verdict \in [Jobs -> {"waiting", "ready", "blocked"}]
  /\ peer \in [Gpus -> {"none", "starting", "resident"}]
FlagTypes ==
  /\ paused \in BOOLEAN /\ spaceOk \in BOOLEAN /\ external \in [Gpus -> BOOLEAN]
CountTypes == starts \in 0 .. MaxStarts /\ externals \in 0 .. MaxExternal

LEMMA TypeParts ==
  TypeOK <=> /\ PassTypes /\ reserved \subseteq Gpus /\ RecordTypes /\ LeaseTypes /\ WorkTypes
             /\ HostTypes /\ FlagTypes /\ CountTypes
BY DEF TypeOK, PassTypes, RecordTypes, JobStates, LeaseTypes, WorkTypes, HostTypes, FlagTypes,
       CountTypes

LEMMA TypeInit == Init => TypeOK
<1> SUFFICES ASSUME Init PROVE TypeOK OBVIOUS
<1>1. PassTypes BY DEF Init, PassTypes
<1>2. reserved \subseteq Gpus BY DEF Init
<1>3. RecordTypes BY DEF Init, RecordTypes, JobStates, Terminal
<1>4. LeaseTypes BY DEF Init, LeaseTypes
<1>5. WorkTypes BY Names DEF Init, WorkTypes
<1>6. HostTypes BY DEF Init, HostTypes
<1>7. FlagTypes BY DEF Init, FlagTypes
<1>8. CountTypes BY Names DEF Init, CountTypes
<1> QED BY <1>1, <1>2, <1>3, <1>4, <1>5, <1>6, <1>7, <1>8, TypeParts

\* Next, flat.
LEMMA Steps ==
  ASSUME [Next]_vars
  PROVE  \/ Start \/ Sample \/ ReapAll \/ EndPass \/ PollAgain \/ StopOrCrash
         \/ (\E j \in Jobs : Hold(j) \/ OfferDevices(j) \/ NoDevice(j))
         \/ (\E j \in Jobs, g \in Gpus : TakeLease(j, g))
         \/ (\E j \in Jobs, g \in Gpus :
               GiveUpDevice(j, g) \/ WaitForSpace(j, g) \/ Refuse(j, g) \/ LaunchFails(j, g))
         \/ (\E j \in Jobs, g \in Gpus : Spawn(j, g))
         \/ (\E j \in Jobs : BecomeResident(j))
         \/ (\E j \in Jobs, state \in {"complete", "failed"} : WriteResult(j, state))
         \/ (\E p \in Procs, code \in {0, 1} : Exit(p, code))
         \/ (\E j \in Jobs, v \in {"ready", "blocked"} : Evidence(j, v))
         \/ Hinder \/ Relieve
         \/ (\E g \in Gpus : PeerLaunch(g)) \/ (\E g \in Gpus : PeerResident(g))
         \/ (\E g \in Gpus : PeerExit(g))
         \/ UNCHANGED vars
BY Zenon DEF Next, Controller, Environment

LEMMA PassTypesStep ==
  ASSUME PassTypes, [Next]_vars PROVE PassTypes'
<1>1. CASE Sample \/ ReapAll \/ Start \/ EndPass \/ PollAgain \/ StopOrCrash
  BY <1>1 DEF PassTypes, Sample, ReapAll, Start, EndPass, PollAgain, StopOrCrash, Leave, passVars
<1>2. ASSUME NEW j \in Jobs, Hold(j) \/ OfferDevices(j) \/ NoDevice(j) PROVE PassTypes'
  BY <1>2 DEF PassTypes, Hold, OfferDevices, NoDevice, PassOver
<1>3. ASSUME NEW j \in Jobs, NEW g \in Gpus, TakeLease(j, g) PROVE PassTypes'
  BY <1>3 DEF PassTypes, TakeLease
<1>4. ASSUME NEW j \in Jobs, NEW g \in Gpus, GiveUpDevice(j, g) PROVE PassTypes'
  <2>1. handled' = [job |-> j, gpu |-> NoGpu] BY <1>4 DEF GiveUpDevice, Handling
  <2>2. handled' \in [job : Jobs, gpu : Gpus \cup {NoGpu}] BY <2>1
  <2>3. ctl' = "dispatch" /\ tried' \subseteq Gpus /\ UNCHANGED <<visited, sampled>>
    BY <1>4 DEF PassTypes, GiveUpDevice
  <2> QED BY <2>2, <2>3 DEF PassTypes
<1>5. ASSUME NEW j \in Jobs, NEW g \in Gpus, WaitForSpace(j, g) \/ Refuse(j, g) \/ LaunchFails(j, g) \/ Spawn(j, g)
      PROVE PassTypes'
  BY <1>5 DEF PassTypes, WaitForSpace, Refuse, LaunchFails, Spawn, PassOver
<1>6. CASE UNCHANGED <<ctl, passVars>>
  BY <1>6 DEF PassTypes, passVars
<1> QED
  BY <1>1, <1>2, <1>3, <1>4, <1>5, <1>6, Steps
  DEF BecomeResident, WriteResult, Exit, Evidence, Hinder, Relieve, PeerLaunch, PeerResident,
      PeerExit, ctlVars, vars, passVars

LEMMA RecordTypesStep ==
  ASSUME RecordTypes, [Next]_vars PROVE RecordTypes'
<1>1. CASE ReapAll
  BY <1>1 DEF RecordTypes, ReapAll, Outcome, JobStates, Terminal
<1>2. CASE Start \/ EndPass \/ StopOrCrash
  BY <1>2 DEF RecordTypes, Start, EndPass, StopOrCrash, Leave, passVars
<1>3. ASSUME NEW j \in Jobs, Hold(j) \/ NoDevice(j) PROVE RecordTypes'
  BY <1>3 DEF RecordTypes, Hold, NoDevice, PassOver, JobStates, Terminal
<1>4. ASSUME NEW j \in Jobs, NEW g \in Gpus, WaitForSpace(j, g) \/ Refuse(j, g) \/ LaunchFails(j, g)
      PROVE RecordTypes'
  BY <1>4 DEF RecordTypes, WaitForSpace, Refuse, LaunchFails, PassOver, JobStates, Terminal
<1>5. ASSUME NEW j \in Jobs, NEW g \in Gpus, Spawn(j, g) PROVE RecordTypes'
  BY <1>5 DEF RecordTypes, Spawn, PassOver, JobStates
<1>6. CASE UNCHANGED <<mem, disk, owned>>
  BY <1>6 DEF RecordTypes
<1> QED
  BY <1>1, <1>2, <1>3, <1>4, <1>5, <1>6, Steps
  DEF Sample, PollAgain, OfferDevices, TakeLease, GiveUpDevice, BecomeResident, WriteResult,
      Exit, Evidence, Hinder, Relieve, PeerLaunch, PeerResident, PeerExit, ctlVars, vars

LEMMA LeaseTypesStep ==
  ASSUME LeaseTypes, [Next]_vars PROVE LeaseTypes'
<1>1. CASE ReapAll \/ EndPass \/ StopOrCrash
  BY <1>1, Names DEF LeaseTypes, ReapAll, EndPass, StopOrCrash, Leave
<1>2. ASSUME NEW j \in Jobs, NEW g \in Gpus,
             \/ TakeLease(j, g) \/ GiveUpDevice(j, g) \/ WaitForSpace(j, g)
             \/ Refuse(j, g) \/ LaunchFails(j, g) \/ Spawn(j, g)
      PROVE LeaseTypes'
  BY <1>2, Names DEF LeaseTypes, TakeLease, GiveUpDevice, WaitForSpace, Refuse, LaunchFails,
     Spawn, DropLease, LeaseInherited
<1>3. ASSUME NEW p \in Procs, NEW code \in {0, 1}, Exit(p, code) PROVE LeaseTypes'
  BY <1>3 DEF LeaseTypes, Exit
<1>4. ASSUME NEW g \in Gpus, PeerLaunch(g) \/ PeerExit(g) PROVE LeaseTypes'
  BY <1>4, Names DEF LeaseTypes, PeerLaunch, PeerExit
<1>5. CASE UNCHANGED lease
  BY <1>5 DEF LeaseTypes
<1> QED
  BY <1>1, <1>2, <1>3, <1>4, <1>5, Steps
  DEF Start, Sample, PollAgain, Hold, OfferDevices, NoDevice, BecomeResident, WriteResult,
      Evidence, Hinder, Relieve, PeerResident, vars

LEMMA WorkTypesStep ==
  ASSUME WorkTypes, [Next]_vars PROVE WorkTypes'
<1>1. ASSUME NEW j \in Jobs, NEW g \in Gpus, LaunchFails(j, g) PROVE WorkTypes'
  BY <1>1 DEF WorkTypes, LaunchFails
<1>2. ASSUME NEW j \in Jobs, NEW g \in Gpus, Spawn(j, g) PROVE WorkTypes'
  BY <1>2, Names DEF WorkTypes, Spawn
<1>3. ASSUME NEW j \in Jobs, BecomeResident(j) PROVE WorkTypes'
  BY <1>3, Names DEF WorkTypes, BecomeResident
<1>4. ASSUME NEW j \in Jobs, NEW state \in {"complete", "failed"}, WriteResult(j, state)
      PROVE WorkTypes'
  BY <1>4 DEF WorkTypes, WriteResult
<1>5. ASSUME NEW p \in Procs, NEW code \in {0, 1}, Exit(p, code) PROVE WorkTypes'
  BY <1>5 DEF WorkTypes, Exit
<1>6. CASE UNCHANGED workVars
  BY <1>6 DEF WorkTypes, workVars
<1> QED
  BY <1>1, <1>2, <1>3, <1>4, <1>5, <1>6, Steps
  DEF Start, Sample, ReapAll, EndPass, PollAgain, StopOrCrash, Hold, OfferDevices, NoDevice,
      TakeLease, GiveUpDevice, WaitForSpace, Refuse, Evidence, Hinder, Relieve, PeerLaunch,
      PeerResident, PeerExit, vars, workVars

LEMMA HostTypesStep ==
  ASSUME HostTypes, [Next]_vars PROVE HostTypes'
<1>1. ASSUME NEW j \in Jobs, NEW v \in {"ready", "blocked"}, Evidence(j, v) PROVE HostTypes'
  BY <1>1 DEF HostTypes, Evidence
<1>2. ASSUME NEW g \in Gpus, PeerLaunch(g) \/ PeerResident(g) \/ PeerExit(g) PROVE HostTypes'
  BY <1>2 DEF HostTypes, PeerLaunch, PeerResident, PeerExit
<1>3. CASE UNCHANGED <<verdict, peer>>
  BY <1>3 DEF HostTypes
<1> QED
  BY <1>1, <1>2, <1>3, Steps
  DEF Start, Sample, ReapAll, EndPass, PollAgain, StopOrCrash, Hold, OfferDevices, NoDevice,
      TakeLease, GiveUpDevice, WaitForSpace, Refuse, LaunchFails, Spawn, BecomeResident,
      WriteResult, Exit, Hinder, Relieve, hostVars, vars

LEMMA FlagTypesStep ==
  ASSUME FlagTypes, [Next]_vars PROVE FlagTypes'
<1>1. CASE Hinder BY <1>1 DEF FlagTypes, Hinder
<1>2. CASE Relieve BY <1>2 DEF FlagTypes, Relieve
<1>3. CASE UNCHANGED <<paused, spaceOk, external>>
  BY <1>3 DEF FlagTypes
<1> QED
  BY <1>1, <1>2, <1>3, Steps
  DEF Start, Sample, ReapAll, EndPass, PollAgain, StopOrCrash, Hold, OfferDevices, NoDevice,
      TakeLease, GiveUpDevice, WaitForSpace, Refuse, LaunchFails, Spawn, BecomeResident,
      WriteResult, Exit, Evidence, PeerLaunch, PeerResident, PeerExit, hostVars, vars

LEMMA CountTypesStep ==
  ASSUME CountTypes, [Next]_vars PROVE CountTypes'
<1>1. CASE Start BY <1>1, Names DEF CountTypes, Start, hostVars
<1>2. CASE Hinder BY <1>2, Names DEF CountTypes, Hinder, ctlVars
<1>3. ASSUME NEW g \in Gpus, PeerLaunch(g) PROVE CountTypes'
  BY <1>3, Names DEF CountTypes, PeerLaunch, ctlVars
<1>4. CASE UNCHANGED <<starts, externals>>
  BY <1>4 DEF CountTypes
<1> QED
  BY <1>1, <1>2, <1>3, <1>4, Steps
  DEF Sample, ReapAll, EndPass, PollAgain, StopOrCrash, Hold, OfferDevices, NoDevice,
      TakeLease, GiveUpDevice, WaitForSpace, Refuse, LaunchFails, Spawn, BecomeResident,
      WriteResult, Exit, Evidence, Relieve, PeerResident, PeerExit, ctlVars, hostVars, vars

\* The devices of running jobs are among those the controller knows: a job
\* that is alive has a place.
LEMMA ReservedStep ==
  ASSUME reserved \subseteq Gpus, WorkersHold, [Next]_vars PROVE reserved' \subseteq Gpus
<1>1. CASE Sample BY <1>1, Names DEF Sample
<1>2. CASE ReapAll BY <1>2 DEF ReapAll, WorkersHold
<1>3. ASSUME NEW j \in Jobs, NEW g \in Gpus, Spawn(j, g) PROVE reserved' \subseteq Gpus
  BY <1>3 DEF Spawn
<1>4. CASE UNCHANGED reserved
  BY <1>4
<1> QED
  BY <1>1, <1>2, <1>3, <1>4, Steps
  DEF Start, EndPass, PollAgain, StopOrCrash, Hold, OfferDevices, NoDevice,
      TakeLease, GiveUpDevice, WaitForSpace, Refuse, LaunchFails, BecomeResident, WriteResult,
      Exit, Evidence, Hinder, Relieve, PeerLaunch, PeerResident, PeerExit, ctlVars, passVars, vars

LEMMA TypeStep ==
  ASSUME TypeOK, WorkersHold, [Next]_vars PROVE TypeOK'
<1>1. PassTypes' BY TypeParts, PassTypesStep
<1>2. (reserved \subseteq Gpus)' BY TypeParts, ReservedStep
<1>3. RecordTypes' BY TypeParts, RecordTypesStep
<1>4. LeaseTypes' BY TypeParts, LeaseTypesStep
<1>5. WorkTypes' BY TypeParts, WorkTypesStep
<1>6. HostTypes' BY TypeParts, HostTypesStep
<1>7. FlagTypes' BY TypeParts, FlagTypesStep
<1>8. CountTypes' BY TypeParts, CountTypesStep
<1> QED
  BY <1>1, <1>2, <1>3, <1>4, <1>5, <1>6, <1>7, <1>8
  DEF TypeOK, PassTypes, RecordTypes, JobStates, LeaseTypes, WorkTypes, HostTypes, FlagTypes,
      CountTypes

-----------------------------------------------------------------------------
(* The locks.                                                              *)

\* The types the locks' proofs use.
Plain ==
  /\ lease \in [Gpus -> SUBSET Holders]
  /\ proc \in [Procs -> {"none", "starting", "resident", "exited"}]
  /\ placed \in [Jobs -> Gpus \cup {NoGpu}]
  /\ peer \in [Gpus -> {"none", "starting", "resident"}]
  /\ owned \subseteq Jobs

LEMMA PlainTypes == TypeOK => Plain
BY DEF TypeOK, Plain

\* Steps that only take the controller's share of some locks away.
Release == \A g \in Gpus : lease'[g] = lease[g] \/ lease'[g] = lease[g] \ {Ctl}

LEMMA Releases ==
  ASSUME Plain,
         \/ ReapAll \/ EndPass \/ StopOrCrash
         \/ \E j \in Jobs, g \in Gpus :
              GiveUpDevice(j, g) \/ WaitForSpace(j, g) \/ Refuse(j, g) \/ LaunchFails(j, g)
  PROVE  Release /\ lease' \in [Gpus -> SUBSET Holders]
         /\ UNCHANGED <<proc, placed, peer>>
<1>1. CASE ReapAll \/ EndPass \/ StopOrCrash
  BY <1>1 DEF Plain, Release, ReapAll, EndPass, StopOrCrash, Leave, workVars, hostVars
<1>2. ASSUME NEW j \in Jobs, NEW g \in Gpus,
             GiveUpDevice(j, g) \/ WaitForSpace(j, g) \/ Refuse(j, g) \/ LaunchFails(j, g)
      PROVE  Release /\ lease' \in [Gpus -> SUBSET Holders]
             /\ UNCHANGED <<proc, placed, peer>>
  BY <1>2 DEF Plain, Release, GiveUpDevice, WaitForSpace, Refuse, LaunchFails, DropLease,
     workVars, hostVars
<1> QED BY <1>1, <1>2

\* Next by what it does to locks and processes.
LEMMA LockSteps ==
  ASSUME Plain, [Next]_vars
  PROVE  \/ Release /\ lease' \in [Gpus -> SUBSET Holders] /\ UNCHANGED <<proc, placed, peer>>
         \/ (\E j \in Jobs, g \in Gpus : TakeLease(j, g))
         \/ (\E j \in Jobs, g \in Gpus : Spawn(j, g))
         \/ (\E j \in Jobs : BecomeResident(j))
         \/ (\E p \in Procs, code \in {0, 1} : Exit(p, code))
         \/ (\E g \in Gpus : PeerLaunch(g)) \/ (\E g \in Gpus : PeerResident(g))
         \/ (\E g \in Gpus : PeerExit(g))
<1>1. CASE UNCHANGED <<lease, proc, placed, peer>>
  BY <1>1 DEF Plain, Release
<1> QED
  BY <1>1, Steps, Releases
  DEF Start, Sample, PollAgain, Hold, OfferDevices, NoDevice, WriteResult, Evidence, Hinder,
      Relieve, ctlVars, workVars, hostVars, vars

\* What a launch, a peer's launch and an exit find.
LEMMA AtLaunch ==
  ASSUME Plain, Locks, Launched, NEW j \in Jobs, NEW g \in Gpus, Spawn(j, g)
  PROVE  /\ lease[g] = {Ctl} /\ lease' = [lease EXCEPT ![g] = {Ctl, j}]
         /\ proc[j] = "none" /\ j \notin owned /\ ~(launches[j] > 0)
         /\ \A p \in Adopted : g \in AdoptedOn[p] => ~Alive(p)
         /\ peer[g] = "none"
<1>1. ctl = "leased" /\ handled.gpu = g /\ j \notin logFile
  BY DEF Spawn, CanLaunch, Handling, NeverTried
<1>2. lease[g] = {Ctl} BY <1>1 DEF Locks, LeasedNow
<1>3. lease' = [lease EXCEPT ![g] = {Ctl, j}]
  BY <1>2 DEF Plain, Spawn, LeaseInherited
<1>4. proc[j] = "none" /\ j \notin owned /\ ~(launches[j] > 0)
  BY <1>1, Names DEF Plain, Launched
<1>5. \A p \in Adopted : g \in AdoptedOn[p] => ~Alive(p)
  BY Names DEF Spawn, CanLaunch, DeviceIdle, Occupies, Locks, AdoptedSeen, Alive
<1>6. peer[g] = "none"
  BY <1>2, Names DEF Locks, PeerAlone
<1> QED BY <1>2, <1>3, <1>4, <1>5, <1>6

LEMMA LocksInit == Init => Locks
<1> SUFFICES ASSUME Init PROVE Locks OBVIOUS
<1> USE DEF Init
<1>1. WorkersHold BY Names DEF WorkersHold, Alive
<1>2. HoldersLive BY DEF HoldersLive
<1>3. OneWorker BY DEF OneWorker
<1>4. PeerAlone BY DEF PeerAlone
<1>5. AdoptedSeen BY Names DEF AdoptedSeen
<1>6. AdoptedUnleased BY Names DEF AdoptedUnleased
<1>7. CtlHolds BY DEF CtlHolds
<1>8. LeasedNow BY DEF LeasedNow
<1> QED BY <1>1, <1>2, <1>3, <1>4, <1>5, <1>6, <1>7, <1>8 DEF Locks

LEMMA WorkersHoldStep ==
  ASSUME Plain, Locks, Launched, [Next]_vars PROVE WorkersHold'
<1> USE Names DEF Plain, Locks, WorkersHold, Alive
<1>1. CASE Release /\ lease' \in [Gpus -> SUBSET Holders] /\ UNCHANGED <<proc, placed, peer>>
  BY <1>1 DEF Release
<1>2. ASSUME NEW j \in Jobs, NEW g \in Gpus, TakeLease(j, g) PROVE WorkersHold'
  BY <1>2 DEF TakeLease, Offered, workVars
<1>3. ASSUME NEW j \in Jobs, NEW g \in Gpus, Spawn(j, g) PROVE WorkersHold'
  <2>1. /\ lease[g] = {Ctl} /\ lease' = [lease EXCEPT ![g] = {Ctl, j}]
        /\ proc' = [proc EXCEPT ![j] = "starting"] /\ placed' = [placed EXCEPT ![j] = g]
    BY <1>3, AtLaunch DEF Spawn
  <2> QED BY <2>1
<1>4. ASSUME NEW j \in Jobs, BecomeResident(j) PROVE WorkersHold'
  BY <1>4 DEF BecomeResident
<1>5. ASSUME NEW p \in Procs, NEW code \in {0, 1}, Exit(p, code) PROVE WorkersHold'
  BY <1>5 DEF Exit
<1>6. ASSUME NEW g \in Gpus, PeerLaunch(g) PROVE WorkersHold'
  BY <1>6 DEF PeerLaunch, workVars
<1>7. ASSUME NEW g \in Gpus, PeerResident(g) PROVE WorkersHold'
  BY <1>7 DEF PeerResident, workVars
<1>8. ASSUME NEW g \in Gpus, PeerExit(g) PROVE WorkersHold'
  BY <1>8 DEF PeerExit, workVars
<1> QED BY <1>1, <1>2, <1>3, <1>4, <1>5, <1>6, <1>7, <1>8, LockSteps

LEMMA HoldersLiveStep ==
  ASSUME Plain, Locks, Launched, [Next]_vars PROVE HoldersLive'
<1> USE Names DEF Plain, Locks, HoldersLive, Alive
<1>1. CASE Release /\ lease' \in [Gpus -> SUBSET Holders] /\ UNCHANGED <<proc, placed, peer>>
  BY <1>1 DEF Release
<1>2. ASSUME NEW j \in Jobs, NEW g \in Gpus, TakeLease(j, g) PROVE HoldersLive'
  BY <1>2 DEF TakeLease, workVars
<1>3. ASSUME NEW j \in Jobs, NEW g \in Gpus, Spawn(j, g) PROVE HoldersLive'
  <2>1. /\ lease[g] = {Ctl} /\ lease' = [lease EXCEPT ![g] = {Ctl, j}] /\ proc[j] = "none"
        /\ proc' = [proc EXCEPT ![j] = "starting"] /\ placed' = [placed EXCEPT ![j] = g]
    BY <1>3, AtLaunch DEF Spawn
  <2> QED BY <2>1
<1>4. ASSUME NEW j \in Jobs, BecomeResident(j) PROVE HoldersLive'
  BY <1>4 DEF BecomeResident
<1>5. ASSUME NEW p \in Procs, NEW code \in {0, 1}, Exit(p, code) PROVE HoldersLive'
  BY <1>5 DEF Exit
<1>6. ASSUME NEW g \in Gpus, PeerLaunch(g) PROVE HoldersLive'
  BY <1>6 DEF PeerLaunch, workVars
<1>7. ASSUME NEW g \in Gpus, PeerResident(g) PROVE HoldersLive'
  BY <1>7 DEF PeerResident, workVars
<1>8. ASSUME NEW g \in Gpus, PeerExit(g) PROVE HoldersLive'
  BY <1>8 DEF PeerExit, workVars
<1> QED BY <1>1, <1>2, <1>3, <1>4, <1>5, <1>6, <1>7, <1>8, LockSteps

LEMMA OneWorkerStep ==
  ASSUME Plain, Locks, Launched, [Next]_vars PROVE OneWorker'
<1> USE Names DEF Plain, Locks, OneWorker
<1>1. CASE Release /\ lease' \in [Gpus -> SUBSET Holders] /\ UNCHANGED <<proc, placed, peer>>
  BY <1>1 DEF Release
<1>2. ASSUME NEW j \in Jobs, NEW g \in Gpus, TakeLease(j, g) PROVE OneWorker'
  BY <1>2 DEF TakeLease
<1>3. ASSUME NEW j \in Jobs, NEW g \in Gpus, Spawn(j, g) PROVE OneWorker'
  <2>1. lease' = [lease EXCEPT ![g] = {Ctl, j}] BY <1>3, AtLaunch
  <2> QED BY <2>1
<1>4. ASSUME NEW p \in Procs, NEW code \in {0, 1}, Exit(p, code) PROVE OneWorker'
  BY <1>4 DEF Exit
<1>5. ASSUME NEW g \in Gpus, PeerLaunch(g) PROVE OneWorker'
  BY <1>5 DEF PeerLaunch
<1>6. ASSUME NEW g \in Gpus, PeerExit(g) PROVE OneWorker'
  BY <1>6 DEF PeerExit
<1>7. CASE UNCHANGED lease
  BY <1>7
<1> QED BY <1>1, <1>2, <1>3, <1>4, <1>5, <1>6, <1>7, LockSteps DEF BecomeResident, PeerResident

LEMMA PeerAloneStep ==
  ASSUME Plain, Locks, Launched, [Next]_vars PROVE PeerAlone'
<1> USE Names DEF Plain, Locks, PeerAlone
<1>1. CASE Release /\ lease' \in [Gpus -> SUBSET Holders] /\ UNCHANGED <<proc, placed, peer>>
  BY <1>1 DEF Release
<1>2. ASSUME NEW j \in Jobs, NEW g \in Gpus, TakeLease(j, g) PROVE PeerAlone'
  BY <1>2 DEF TakeLease, Offered, hostVars
<1>3. ASSUME NEW j \in Jobs, NEW g \in Gpus, Spawn(j, g) PROVE PeerAlone'
  <2>1. lease' = [lease EXCEPT ![g] = {Ctl, j}] /\ peer[g] = "none" /\ peer' = peer
    BY <1>3, AtLaunch DEF Spawn, hostVars
  <2> QED BY <2>1
<1>4. ASSUME NEW p \in Procs, NEW code \in {0, 1}, Exit(p, code) PROVE PeerAlone'
  BY <1>4 DEF Exit, hostVars
<1>5. ASSUME NEW g \in Gpus, PeerLaunch(g) PROVE PeerAlone'
  BY <1>5 DEF PeerLaunch
<1>6. ASSUME NEW g \in Gpus, PeerResident(g) PROVE PeerAlone'
  BY <1>6 DEF PeerResident
<1>7. ASSUME NEW g \in Gpus, PeerExit(g) PROVE PeerAlone'
  BY <1>7 DEF PeerExit
<1>8. CASE UNCHANGED <<lease, peer>>
  BY <1>8
<1> QED BY <1>1, <1>2, <1>3, <1>4, <1>5, <1>6, <1>7, <1>8, LockSteps DEF BecomeResident, hostVars

LEMMA AdoptedStep ==
  ASSUME Plain, Locks, Launched, [Next]_vars PROVE (AdoptedSeen /\ AdoptedUnleased)'
<1> USE Names DEF Plain, Locks, AdoptedSeen, AdoptedUnleased, Alive
<1>1. CASE Release /\ lease' \in [Gpus -> SUBSET Holders] /\ UNCHANGED <<proc, placed, peer>>
  BY <1>1 DEF Release
<1>2. ASSUME NEW j \in Jobs, NEW g \in Gpus, TakeLease(j, g) PROVE (AdoptedSeen /\ AdoptedUnleased)'
  BY <1>2 DEF TakeLease, workVars
<1>3. ASSUME NEW j \in Jobs, NEW g \in Gpus, Spawn(j, g) PROVE (AdoptedSeen /\ AdoptedUnleased)'
  <2>1. /\ lease' = [lease EXCEPT ![g] = {Ctl, j}] /\ proc' = [proc EXCEPT ![j] = "starting"]
        /\ \A p \in Adopted : g \in AdoptedOn[p] => ~Alive(p)
    BY <1>3, AtLaunch DEF Spawn
  <2> QED BY <2>1
<1>4. ASSUME NEW j \in Jobs, BecomeResident(j) PROVE (AdoptedSeen /\ AdoptedUnleased)'
  BY <1>4 DEF BecomeResident
<1>5. ASSUME NEW p \in Procs, NEW code \in {0, 1}, Exit(p, code) PROVE (AdoptedSeen /\ AdoptedUnleased)'
  BY <1>5 DEF Exit
<1>6. ASSUME NEW g \in Gpus, PeerLaunch(g) PROVE (AdoptedSeen /\ AdoptedUnleased)'
  <2>1. /\ lease' = [lease EXCEPT ![g] = {Peer}] /\ proc' = proc
        /\ \A p \in Adopted : g \in AdoptedOn[p] => ~Alive(p)
    BY <1>6 DEF PeerLaunch, DeviceIdle, Occupies, workVars
  <2> QED BY <2>1
<1>7. ASSUME NEW g \in Gpus, PeerExit(g) PROVE (AdoptedSeen /\ AdoptedUnleased)'
  BY <1>7 DEF PeerExit, workVars
<1>8. CASE UNCHANGED <<lease, proc>>
  BY <1>8
<1> QED BY <1>1, <1>2, <1>3, <1>4, <1>5, <1>6, <1>7, <1>8, LockSteps DEF PeerResident, workVars

\* What workers and surroundings do without touching a lock.
LEMMA QuietSteps ==
  ASSUME \/ \E j \in Jobs : BecomeResident(j)
         \/ \E j \in Jobs, state \in {"complete", "failed"} : WriteResult(j, state)
         \/ \E j \in Jobs, v \in {"ready", "blocked"} : Evidence(j, v)
         \/ Hinder \/ Relieve \/ (\E g \in Gpus : PeerResident(g)) \/ UNCHANGED vars
  PROVE  UNCHANGED <<ctl, handled, lease, owned, placed>>
<1>1. CASE \E j \in Jobs : BecomeResident(j)
  BY <1>1 DEF BecomeResident, ctlVars, passVars
<1>2. CASE \E j \in Jobs, state \in {"complete", "failed"} : WriteResult(j, state)
  BY <1>2 DEF WriteResult, ctlVars, passVars
<1>3. CASE \E j \in Jobs, v \in {"ready", "blocked"} : Evidence(j, v)
  BY <1>3 DEF Evidence, ctlVars, passVars, workVars
<1>4. CASE Hinder \/ Relieve
  BY <1>4 DEF Hinder, Relieve, ctlVars, passVars, workVars
<1>5. CASE \E g \in Gpus : PeerResident(g)
  BY <1>5 DEF PeerResident, ctlVars, passVars, workVars
<1>6. CASE UNCHANGED vars
  BY <1>6 DEF vars
<1> QED BY <1>1, <1>2, <1>3, <1>4, <1>5, <1>6

LEMMA LeasedNowStep ==
  ASSUME Plain, Locks, [Next]_vars PROVE LeasedNow'
<1> USE Names DEF Plain, Locks, LeasedNow
<1>1. ASSUME NEW j \in Jobs, NEW g \in Gpus, TakeLease(j, g) PROVE LeasedNow'
  <2>1. handled' = [job |-> j, gpu |-> g] /\ lease' = [lease EXCEPT ![g] = {Ctl}]
    BY <1>1 DEF TakeLease
  <2> QED BY <2>1
<1>2. ASSUME NEW p \in Procs, NEW code \in {0, 1}, Exit(p, code) PROVE LeasedNow'
  BY <1>2 DEF Exit, ctlVars, passVars
<1>3. ASSUME NEW g \in Gpus, PeerLaunch(g) PROVE LeasedNow'
  BY <1>3 DEF PeerLaunch, ctlVars, passVars
<1>4. ASSUME NEW g \in Gpus, PeerExit(g) PROVE LeasedNow'
  BY <1>4 DEF PeerExit, ctlVars, passVars
<1>5. CASE ctl' # "leased"
  BY <1>5
<1>6. CASE \/ \E j \in Jobs : BecomeResident(j)
           \/ \E j \in Jobs, state \in {"complete", "failed"} : WriteResult(j, state)
           \/ \E j \in Jobs, v \in {"ready", "blocked"} : Evidence(j, v)
           \/ Hinder \/ Relieve \/ (\E g \in Gpus : PeerResident(g)) \/ UNCHANGED vars
  BY <1>6, QuietSteps
<1>7. CASE Start \/ Sample \/ ReapAll \/ EndPass \/ PollAgain \/ StopOrCrash
  BY <1>5, <1>7 DEF Start, Sample, ReapAll, EndPass, PollAgain, StopOrCrash, Leave
<1>8. ASSUME NEW j \in Jobs, Hold(j) \/ OfferDevices(j) \/ NoDevice(j) PROVE LeasedNow'
  BY <1>5, <1>8 DEF Hold, OfferDevices, NoDevice, PassOver
<1>9. ASSUME NEW j \in Jobs, NEW g \in Gpus,
             \/ GiveUpDevice(j, g) \/ WaitForSpace(j, g) \/ Refuse(j, g)
             \/ LaunchFails(j, g) \/ Spawn(j, g)
      PROVE LeasedNow'
  BY <1>5, <1>9 DEF GiveUpDevice, WaitForSpace, Refuse, LaunchFails, Spawn, PassOver
<1> QED
  BY <1>1, <1>2, <1>3, <1>4, <1>6, <1>7, <1>8, <1>9, Steps

LEMMA CtlHoldsStep ==
  ASSUME Plain, Locks, Launched, [Next]_vars PROVE CtlHolds'
<1> USE Names DEF Plain, Locks, CtlHolds
<1>1. CASE Start \/ Sample \/ PollAgain
  BY <1>1 DEF Start, Sample, PollAgain, workVars
<1>2. CASE ReapAll
  BY <1>2 DEF ReapAll, workVars
<1>3. CASE StopOrCrash
  BY <1>3 DEF StopOrCrash, Leave
<1>4. CASE EndPass
  BY <1>4 DEF EndPass, Leave, workVars
<1>5. ASSUME NEW j \in Jobs, Hold(j) \/ OfferDevices(j) \/ NoDevice(j) PROVE CtlHolds'
  BY <1>5 DEF Hold, OfferDevices, Offering, NoDevice, PassOver, workVars
<1>6. ASSUME NEW j \in Jobs, NEW g \in Gpus, TakeLease(j, g) PROVE CtlHolds'
  <2>1. /\ handled' = [job |-> j, gpu |-> g] /\ lease' = [lease EXCEPT ![g] = {Ctl}]
        /\ ctl # "leased" /\ ctl' = "leased" /\ UNCHANGED <<owned, placed>>
    BY <1>6 DEF TakeLease, Offering, workVars
  <2> QED BY <2>1
<1>7. ASSUME NEW j \in Jobs, NEW g \in Gpus,
             GiveUpDevice(j, g) \/ WaitForSpace(j, g) \/ Refuse(j, g) \/ LaunchFails(j, g)
      PROVE CtlHolds'
  <2>1. /\ handled.gpu = g /\ lease' = [lease EXCEPT ![g] = lease[g] \ {Ctl}]
        /\ UNCHANGED <<owned, placed>>
    BY <1>7 DEF GiveUpDevice, WaitForSpace, Refuse, LaunchFails, DropLease, Handling, workVars
  <2> QED BY <2>1
<1>8. ASSUME NEW j \in Jobs, NEW g \in Gpus, Spawn(j, g) PROVE CtlHolds'
  <2>1. /\ handled.gpu = g /\ lease' = [lease EXCEPT ![g] = {Ctl, j}] /\ j \notin owned
        /\ owned' = owned \cup {j} /\ placed' = [placed EXCEPT ![j] = g]
    BY <1>8, AtLaunch DEF Spawn, Handling
  <2> QED BY <2>1
<1>9. ASSUME NEW p \in Procs, NEW code \in {0, 1}, Exit(p, code) PROVE CtlHolds'
  BY <1>9 DEF Exit, ctlVars, passVars
<1>10. ASSUME NEW g \in Gpus, PeerLaunch(g) \/ PeerExit(g) PROVE CtlHolds'
  BY <1>10 DEF PeerLaunch, PeerExit, ctlVars, passVars, workVars
<1>11. CASE \/ \E j \in Jobs : BecomeResident(j)
            \/ \E j \in Jobs, state \in {"complete", "failed"} : WriteResult(j, state)
            \/ \E j \in Jobs, v \in {"ready", "blocked"} : Evidence(j, v)
            \/ Hinder \/ Relieve \/ (\E g \in Gpus : PeerResident(g)) \/ UNCHANGED vars
  BY <1>11, QuietSteps
<1> QED
  BY <1>1, <1>2, <1>3, <1>4, <1>5, <1>6, <1>7, <1>8, <1>9, <1>10, <1>11, Steps

LEMMA LocksStep ==
  ASSUME TypeOK, Locks, Launched, [Next]_vars PROVE Locks'
<1>1. Plain BY PlainTypes
<1>2. WorkersHold' BY <1>1, WorkersHoldStep
<1>3. HoldersLive' BY <1>1, HoldersLiveStep
<1>4. OneWorker' BY <1>1, OneWorkerStep
<1>5. PeerAlone' BY <1>1, PeerAloneStep
<1>6. AdoptedSeen' /\ AdoptedUnleased' BY <1>1, AdoptedStep
<1>7. LeasedNow' BY <1>1, LeasedNowStep
<1>8. CtlHolds' BY <1>1, CtlHoldsStep
<1> QED BY <1>2, <1>3, <1>4, <1>5, <1>6, <1>7, <1>8 DEF Locks

-----------------------------------------------------------------------------
(* The records.                                                            *)

\* The types the records' proofs use.
Kept ==
  /\ proc \in [Procs -> {"none", "starting", "resident", "exited"}]
  /\ result \in [Jobs -> {"absent", "running", "complete", "failed"}]
  /\ mem \in [Jobs -> JobStates] /\ disk \in [Jobs -> JobStates]
  /\ verdict \in [Jobs -> {"waiting", "ready", "blocked"}]
  /\ launches \in [Jobs -> Nat] /\ owned \subseteq Jobs
  /\ exitCode \in [Procs -> {0, 1}] /\ starts \in Nat

LEMMA KeptTypes == TypeOK => Kept
BY Names DEF TypeOK, Kept, JobStates

LEMMA RecordsInit == Init => Records
<1> SUFFICES ASSUME Init PROVE Records OBVIOUS
<1> USE Names DEF Init
<1>1. Launched BY DEF Launched
<1>2. Started BY DEF Started
<1>3. GateRead BY DEF GateRead, Nothing
<1>4. GateKept BY DEF GateKept
<1>5. FirstController BY DEF FirstController
<1>6. CompleteIsFinal BY DEF CompleteIsFinal
<1> QED BY <1>1, <1>2, <1>3, <1>4, <1>5, <1>6 DEF Records

\* Next by what it does to processes and results.
LEMMA WorkSteps ==
  ASSUME [Next]_vars
  PROVE  \/ UNCHANGED <<proc, result>>
         \/ (\E j \in Jobs, g \in Gpus : Spawn(j, g))
         \/ (\E j \in Jobs : BecomeResident(j))
         \/ (\E j \in Jobs, state \in {"complete", "failed"} : WriteResult(j, state))
         \/ (\E p \in Procs, code \in {0, 1} : Exit(p, code))
BY Steps
DEF Start, Sample, ReapAll, EndPass, PollAgain, StopOrCrash, Hold, OfferDevices, NoDevice,
    TakeLease, GiveUpDevice, WaitForSpace, Refuse, LaunchFails, Evidence, Hinder, Relieve,
    PeerLaunch, PeerResident, PeerExit, workVars, vars

\* A result that is written and evidence that is there do not change.
LEMMA ResultsStay ==
  ASSUME Kept, Started, [Next]_vars, NEW j \in Jobs, result[j] \in {"complete", "failed"}
  PROVE  result'[j] = result[j]
<1>1. ASSUME NEW k \in Jobs, BecomeResident(k) PROVE result'[j] = result[j]
  <2>1. result[k] = "absent" BY <1>1 DEF BecomeResident, Started
  <2> QED BY <1>1, <2>1 DEF BecomeResident, Kept
<1>2. ASSUME NEW k \in Jobs, NEW state \in {"complete", "failed"}, WriteResult(k, state)
      PROVE result'[j] = result[j]
  BY <1>2 DEF WriteResult, Kept
<1>3. ASSUME NEW k \in Jobs, NEW g \in Gpus, Spawn(k, g) PROVE result'[j] = result[j]
  BY <1>3 DEF Spawn
<1>4. ASSUME NEW p \in Procs, NEW code \in {0, 1}, Exit(p, code) PROVE result'[j] = result[j]
  BY <1>4 DEF Exit
<1>5. CASE UNCHANGED <<proc, result>>
  BY <1>5
<1> QED BY <1>1, <1>2, <1>3, <1>4, <1>5, WorkSteps

LEMMA EvidenceStays ==
  ASSUME Kept, [Next]_vars, NEW j \in Jobs, verdict[j] # "waiting"
  PROVE  verdict'[j] = verdict[j]
<1>1. ASSUME NEW k \in Jobs, NEW v \in {"ready", "blocked"}, Evidence(k, v)
      PROVE verdict'[j] = verdict[j]
  BY <1>1 DEF Evidence, Kept
<1>2. CASE UNCHANGED verdict
  BY <1>2
<1> QED
  BY <1>1, <1>2, Steps
  DEF Start, Sample, ReapAll, EndPass, PollAgain, StopOrCrash, Hold, OfferDevices, NoDevice,
      TakeLease, GiveUpDevice, WaitForSpace, Refuse, LaunchFails, Spawn, BecomeResident,
      WriteResult, Exit, Hinder, Relieve, PeerLaunch, PeerResident, PeerExit, hostVars, vars

\* What a gate says for good.
LEMMA GateSays ==
  ASSUME Kept, NEW j \in Jobs
  PROVE  /\ Gate(j) = "ready" <=> /\ GateOf[j] # NoGate => result[GateOf[j]] = "complete"
                                 /\ verdict[j] = "ready"
         /\ Gate(j) = "blocked" => Shut(j)
<1>1. GateOf[j] # NoGate => GateOf[j] \in Jobs BY Names
<1>2. GateOf[j] # NoGate => result[GateOf[j]] \in {"absent", "running", "complete", "failed"}
  BY <1>1 DEF Kept
<1> QED BY <1>2 DEF Gate, Shut

LEMMA GatesStay ==
  ASSUME Kept, Kept', Started, [Next]_vars, NEW j \in Jobs
  PROVE  /\ Gate(j) = "ready" => Gate(j)' = "ready"
         /\ Shut(j) => Shut(j)'
<1>1. GateOf[j] # NoGate => GateOf[j] \in Jobs BY Names
<1>2. GateOf[j] # NoGate /\ result[GateOf[j]] \in {"complete", "failed"}
        => result'[GateOf[j]] = result[GateOf[j]]
  BY <1>1, ResultsStay
<1>3. verdict[j] # "waiting" => verdict'[j] = verdict[j]
  BY EvidenceStays
<1>4. ASSUME Gate(j) = "ready" PROVE Gate(j)' = "ready"
  <2>1. /\ GateOf[j] # NoGate => result[GateOf[j]] = "complete"
        /\ verdict[j] = "ready"
    BY <1>4, GateSays
  <2>2. /\ GateOf[j] # NoGate => result'[GateOf[j]] = "complete"
        /\ verdict'[j] = "ready"
    BY <2>1, <1>2, <1>3
  <2> QED BY <2>2 DEF Gate
<1>5. ASSUME Shut(j) PROVE Shut(j)'
  BY <1>5, <1>2, <1>3 DEF Shut
<1> QED BY <1>4, <1>5

\* Next by what it does to the records of launches.
LEMMA LaunchSteps ==
  ASSUME [Next]_vars
  PROVE  \/ UNCHANGED <<launches, proc>> /\ owned' \subseteq owned /\ logFile \subseteq logFile'
         \/ (\E j \in Jobs, g \in Gpus : Spawn(j, g))
         \/ (\E j \in Jobs : BecomeResident(j))
         \/ (\E p \in Procs, code \in {0, 1} : Exit(p, code))
<1>1. ASSUME NEW j \in Jobs, NEW g \in Gpus, LaunchFails(j, g)
      PROVE UNCHANGED <<launches, proc>> /\ owned' \subseteq owned /\ logFile \subseteq logFile'
  BY <1>1 DEF LaunchFails
<1>2. CASE ReapAll \/ EndPass \/ StopOrCrash
  BY <1>2 DEF ReapAll, EndPass, StopOrCrash, Leave, workVars
<1>3. CASE UNCHANGED <<launches, proc, owned, logFile>>
  BY <1>3
<1> QED
  BY <1>1, <1>2, <1>3, Steps
  DEF Start, Sample, PollAgain, Hold, OfferDevices, NoDevice, TakeLease, GiveUpDevice,
      WaitForSpace, Refuse, WriteResult, Evidence, Hinder, Relieve, PeerLaunch, PeerResident,
      PeerExit, ctlVars, workVars, vars

LEMMA LaunchedStep ==
  ASSUME Kept, Launched, [Next]_vars PROVE Launched'
<1> USE Names DEF Kept, Launched
<1>1. CASE UNCHANGED <<launches, proc>> /\ owned' \subseteq owned /\ logFile \subseteq logFile'
  BY <1>1
<1>2. ASSUME NEW j \in Jobs, NEW g \in Gpus, Spawn(j, g) PROVE Launched'
  <2>1. /\ \A k \in Jobs \ {j} : proc'[k] = proc[k] /\ launches'[k] = launches[k]
        /\ owned' = owned \cup {j} /\ logFile' = logFile \cup {j}
    BY <1>2 DEF Spawn
  <2> QED BY <2>1
<1>3. ASSUME NEW j \in Jobs, BecomeResident(j) PROVE Launched'
  BY <1>3 DEF BecomeResident, ctlVars
<1>4. ASSUME NEW p \in Procs, NEW code \in {0, 1}, Exit(p, code) PROVE Launched'
  <2>1. /\ proc[p] # "none" /\ \A k \in Jobs \ {p} : proc'[k] = proc[k]
        /\ UNCHANGED <<launches, owned, logFile>>
    BY <1>4 DEF Exit, Alive, ctlVars
  <2> QED BY <2>1
<1> QED BY <1>1, <1>2, <1>3, <1>4, LaunchSteps

\* Next by what it does to the records of jobs.
LEMMA RecordSteps ==
  ASSUME [Next]_vars
  PROVE  \/ UNCHANGED <<mem, disk>>
         \/ ReapAll \/ (Start /\ mem' = disk /\ UNCHANGED disk)
         \/ (disk' = mem /\ UNCHANGED <<mem, workVars, hostVars>>)
         \/ (\E j \in Jobs, state \in {"waiting", "failed"} :
               mem' = [mem EXCEPT ![j] = state] /\ UNCHANGED <<disk, proc, result, launches, hostVars>>)
         \/ (\E j \in Jobs : Hold(j) /\ Gate(j) = "blocked" /\ PassOver(j, "blocked"))
         \/ (\E j \in Jobs, g \in Gpus : Spawn(j, g))
<1>1. ASSUME NEW j \in Jobs, Hold(j) \/ NoDevice(j)
      PROVE  \/ (\E k \in Jobs, state \in {"waiting", "failed"} :
                   mem' = [mem EXCEPT ![k] = state] /\ UNCHANGED <<disk, proc, result, launches, hostVars>>)
             \/ (\E k \in Jobs : Hold(k) /\ Gate(k) = "blocked" /\ PassOver(k, "blocked"))
  BY <1>1 DEF Hold, NoDevice, PassOver, workVars
<1>2. ASSUME NEW j \in Jobs, NEW g \in Gpus, WaitForSpace(j, g) \/ Refuse(j, g) \/ LaunchFails(j, g)
      PROVE  \E k \in Jobs, state \in {"waiting", "failed"} :
               mem' = [mem EXCEPT ![k] = state] /\ UNCHANGED <<disk, proc, result, launches, hostVars>>
  BY <1>2 DEF WaitForSpace, Refuse, LaunchFails, PassOver, workVars
<1>3. CASE EndPass
  BY <1>3 DEF EndPass
<1>4. CASE Start
  BY <1>4 DEF Start
<1>5. \/ (\E j \in Jobs : Hold(j) \/ NoDevice(j)) \/ ReapAll \/ Start \/ EndPass
      \/ (\E j \in Jobs, g \in Gpus : WaitForSpace(j, g) \/ Refuse(j, g) \/ LaunchFails(j, g))
      \/ (\E j \in Jobs, g \in Gpus : Spawn(j, g))
      \/ UNCHANGED <<mem, disk>>
  BY Steps
  DEF Sample, PollAgain, StopOrCrash, OfferDevices, TakeLease, GiveUpDevice, BecomeResident,
      WriteResult, Exit, Evidence, Hinder, Relieve, PeerLaunch, PeerResident, PeerExit, ctlVars, vars
<1> QED BY <1>1, <1>2, <1>3, <1>4, <1>5, Zenon

\* A process never goes back to having none.
LEMMA ProcessesStay ==
  ASSUME Kept, [Next]_vars, NEW j \in Jobs, proc[j] # "none"
  PROVE  proc'[j] # "none"
<1> USE Names DEF Kept
<1>1. ASSUME NEW k \in Jobs, NEW g \in Gpus, Spawn(k, g) PROVE proc'[j] # "none"
  BY <1>1 DEF Spawn
<1>2. ASSUME NEW k \in Jobs, BecomeResident(k) PROVE proc'[j] # "none"
  BY <1>2 DEF BecomeResident
<1>3. ASSUME NEW p \in Procs, NEW code \in {0, 1}, Exit(p, code) PROVE proc'[j] # "none"
  BY <1>3 DEF Exit
<1>4. CASE UNCHANGED proc
  BY <1>4
<1> QED BY <1>1, <1>2, <1>3, <1>4, WorkSteps DEF WriteResult

\* An exit is final, and so is its code.
LEMMA ExitsStay ==
  ASSUME Kept, Launched, [Next]_vars, NEW j \in Jobs, proc[j] = "exited"
  PROVE  proc'[j] = "exited" /\ exitCode'[j] = exitCode[j]
<1> USE Names DEF Kept
<1>1. ASSUME NEW k \in Jobs, NEW g \in Gpus, Spawn(k, g) PROVE proc'[j] = "exited" /\ exitCode'[j] = exitCode[j]
  BY <1>1 DEF Spawn, CanLaunch, NeverTried, Launched
<1>2. ASSUME NEW k \in Jobs, BecomeResident(k) PROVE proc'[j] = "exited" /\ exitCode'[j] = exitCode[j]
  BY <1>2 DEF BecomeResident
<1>3. ASSUME NEW p \in Procs, NEW code \in {0, 1}, Exit(p, code) PROVE proc'[j] = "exited" /\ exitCode'[j] = exitCode[j]
  BY <1>3 DEF Exit, Alive
<1>4. CASE UNCHANGED <<proc, exitCode>>
  BY <1>4
<1>5. UNCHANGED exitCode \/ \E p \in Procs, code \in {0, 1} : Exit(p, code)
  BY Steps
  DEF Start, Sample, ReapAll, EndPass, PollAgain, StopOrCrash, Hold, OfferDevices, NoDevice,
      TakeLease, GiveUpDevice, WaitForSpace, Refuse, LaunchFails, Spawn, BecomeResident,
      WriteResult, Evidence, Hinder, Relieve, PeerLaunch, PeerResident, PeerExit, workVars, vars
<1> QED BY <1>1, <1>2, <1>3, <1>4, <1>5, WorkSteps DEF WriteResult

LEMMA StartedStep ==
  ASSUME Kept, Started, [Next]_vars PROVE Started'
<1>1. \A j \in Jobs : mem'[j] = "running" \/ disk'[j] = "running" => proc'[j] # "none"
  <2> SUFFICES ASSUME NEW j \in Jobs PROVE mem'[j] = "running" \/ disk'[j] = "running" => proc'[j] # "none"
    OBVIOUS
  <2> USE Names DEF Kept
  <2>1. mem[j] = "running" \/ disk[j] = "running" => proc'[j] # "none"
    BY ProcessesStay DEF Started
  <2>2. CASE UNCHANGED <<mem, disk>>
    BY <2>1, <2>2
  <2>3. CASE ReapAll
    BY <2>1, <2>3 DEF ReapAll, Outcome
  <2>4. CASE mem' = disk /\ UNCHANGED disk
    BY <2>1, <2>4
  <2>5. CASE disk' = mem /\ UNCHANGED mem
    BY <2>1, <2>5
  <2>6. ASSUME NEW k \in Jobs, NEW state \in {"waiting", "failed"},
               mem' = [mem EXCEPT ![k] = state], UNCHANGED disk
        PROVE  mem'[j] = "running" \/ disk'[j] = "running" => proc'[j] # "none"
    BY <2>1, <2>6
  <2>7. ASSUME NEW k \in Jobs, Hold(k), PassOver(k, "blocked")
        PROVE  mem'[j] = "running" \/ disk'[j] = "running" => proc'[j] # "none"
    BY <2>1, <2>7 DEF Hold, PassOver
  <2>8. ASSUME NEW k \in Jobs, NEW g \in Gpus, Spawn(k, g)
        PROVE  mem'[j] = "running" \/ disk'[j] = "running" => proc'[j] # "none"
    BY <2>1, <2>8 DEF Spawn, PassOver
  <2> QED BY <2>2, <2>3, <2>4, <2>5, <2>6, <2>7, <2>8, RecordSteps
<1>2. \A j \in Jobs : proc'[j] \in {"none", "starting"} => result'[j] = "absent"
  <2> USE Names DEF Kept, Started
  <2>1. ASSUME NEW k \in Jobs, NEW g \in Gpus, Spawn(k, g)
        PROVE \A j \in Jobs : proc'[j] \in {"none", "starting"} => result'[j] = "absent"
    BY <2>1 DEF Spawn, CanLaunch, NeverTried
  <2>2. ASSUME NEW k \in Jobs, BecomeResident(k)
        PROVE \A j \in Jobs : proc'[j] \in {"none", "starting"} => result'[j] = "absent"
    BY <2>2 DEF BecomeResident
  <2>3. ASSUME NEW p \in Procs, NEW code \in {0, 1}, Exit(p, code)
        PROVE \A j \in Jobs : proc'[j] \in {"none", "starting"} => result'[j] = "absent"
    BY <2>3 DEF Exit
  <2>4. ASSUME NEW k \in Jobs, NEW state \in {"complete", "failed"}, WriteResult(k, state)
        PROVE \A j \in Jobs : proc'[j] \in {"none", "starting"} => result'[j] = "absent"
    BY <2>4 DEF WriteResult
  <2>5. CASE UNCHANGED <<proc, result>>
    BY <2>5
  <2> QED BY <2>1, <2>2, <2>3, <2>4, <2>5, WorkSteps
<1> QED BY <1>1, <1>2 DEF Started

\* The job under way has had its gate read as ready.
LEMMA HandledSteps ==
  ASSUME TypeOK, [Next]_vars
  PROVE  \/ handled'.job = handled.job \/ handled' = Nothing
         \/ \E j \in Jobs : handled'.job = j /\ Gate(j) = "ready" /\ UNCHANGED <<verdict, result>>
<1>1. ASSUME NEW j \in Jobs, Hold(j) \/ NoDevice(j) PROVE handled' = Nothing
  BY <1>1 DEF Hold, NoDevice, PassOver
<1>2. ASSUME NEW j \in Jobs, OfferDevices(j)
      PROVE handled'.job = j /\ Gate(j) = "ready" /\ UNCHANGED <<verdict, result>>
  BY <1>2 DEF OfferDevices, workVars, hostVars
<1>3. ASSUME NEW j \in Jobs, NEW g \in Gpus, TakeLease(j, g) PROVE handled'.job = handled.job
  BY <1>3 DEF TakeLease, Offering
<1>4. ASSUME NEW j \in Jobs, NEW g \in Gpus, GiveUpDevice(j, g) PROVE handled'.job = handled.job
  <2>1. handled = [job |-> j, gpu |-> g] /\ handled' = [handled EXCEPT !.gpu = NoGpu]
    BY <1>4 DEF GiveUpDevice, Handling
  <2> QED BY <2>1
<1>5. ASSUME NEW j \in Jobs, NEW g \in Gpus,
             WaitForSpace(j, g) \/ Refuse(j, g) \/ LaunchFails(j, g) \/ Spawn(j, g)
      PROVE handled' = Nothing
  BY <1>5 DEF WaitForSpace, Refuse, LaunchFails, Spawn, PassOver
<1>6. CASE Sample
  BY <1>6 DEF Sample
<1>7. CASE UNCHANGED handled
  BY <1>7
<1> QED
  BY <1>1, <1>2, <1>3, <1>4, <1>5, <1>6, <1>7, Steps
  DEF Start, ReapAll, EndPass, PollAgain, StopOrCrash, BecomeResident, WriteResult, Exit,
      Evidence, Hinder, Relieve, PeerLaunch, PeerResident, PeerExit, ctlVars, passVars, vars

LEMMA GateReadStep ==
  ASSUME TypeOK, Kept, Kept', Started, GateRead, [Next]_vars PROVE GateRead'
<1> SUFFICES ASSUME NEW j \in Jobs, handled'.job = j PROVE Gate(j)' = "ready"
  BY DEF GateRead
<1>1. CASE handled'.job = handled.job
  BY <1>1, GatesStay DEF GateRead
<1>2. CASE handled' = Nothing
  BY <1>2, Names DEF Nothing
<1>3. ASSUME NEW k \in Jobs, handled'.job = k, Gate(k) = "ready" PROVE Gate(j)' = "ready"
  BY <1>3, GatesStay
<1> QED BY <1>1, <1>2, <1>3, HandledSteps

LEMMA GateKeptStep ==
  ASSUME TypeOK, Kept, Kept', Started, GateRead, GateKept, [Next]_vars PROVE GateKept'
<1>1. ASSUME NEW j \in Jobs, launches'[j] > 0, GateOf[j] # NoGate
      PROVE  result'[GateOf[j]] = "complete"
  <2>0. GateOf[j] \in Jobs BY <1>1, Names
  <2>1. launches[j] > 0 => result[GateOf[j]] = "complete" BY <1>1 DEF GateKept
  <2>2. result[GateOf[j]] = "complete" => result'[GateOf[j]] = "complete"
    BY <2>0, ResultsStay
  <2>3. CASE UNCHANGED launches
    BY <1>1, <2>1, <2>2, <2>3
  <2>4. ASSUME NEW k \in Jobs, NEW g \in Gpus, Spawn(k, g)
        PROVE  launches[j] > 0 \/ result[GateOf[j]] = "complete"
    <3>1. CASE k = j
      <4>1. Gate(j) = "ready" BY <2>4, <3>1 DEF Spawn, Handling, GateRead
      <4> QED BY <4>1, <1>1, GateSays
    <3>2. CASE k # j
      BY <1>1, <2>4, <3>2 DEF Spawn, Kept
    <3> QED BY <3>1, <3>2
  <2> QED BY <2>1, <2>2, <2>3, <2>4, LaunchSteps DEF BecomeResident, Exit
<1>2. ASSUME NEW j \in Jobs, mem'[j] = "blocked" \/ disk'[j] = "blocked"
      PROVE  Shut(j)'
  <2> USE Names DEF Kept
  <2>1. mem[j] = "blocked" \/ disk[j] = "blocked" => Shut(j)' BY GatesStay DEF GateKept
  <2>2. CASE UNCHANGED <<mem, disk>>
    BY <1>2, <2>1, <2>2
  <2>3. CASE ReapAll
    BY <1>2, <2>1, <2>3 DEF ReapAll, Outcome
  <2>4. CASE mem' = disk /\ UNCHANGED disk
    BY <1>2, <2>1, <2>4
  <2>5. CASE disk' = mem /\ UNCHANGED mem
    BY <1>2, <2>1, <2>5
  <2>6. ASSUME NEW k \in Jobs, NEW state \in {"waiting", "failed"},
               mem' = [mem EXCEPT ![k] = state], UNCHANGED disk
        PROVE  Shut(j)'
    BY <1>2, <2>1, <2>6
  <2>7. ASSUME NEW k \in Jobs, Hold(k), Gate(k) = "blocked", PassOver(k, "blocked")
        PROVE  Shut(j)'
    <3>1. CASE k = j BY <2>7, <3>1, GateSays, GatesStay
    <3>2. CASE k # j BY <1>2, <2>1, <2>7, <3>2 DEF Hold, PassOver
    <3> QED BY <3>1, <3>2
  <2>8. ASSUME NEW k \in Jobs, NEW g \in Gpus, Spawn(k, g)
        PROVE  Shut(j)'
    BY <1>2, <2>1, <2>8 DEF Spawn, PassOver
  <2> QED BY <2>2, <2>3, <2>4, <2>5, <2>6, <2>7, <2>8, RecordSteps
<1> QED BY <1>1, <1>2 DEF GateKept

\* Only Start counts a start.
LEMMA StartsCounted == [Next]_vars => Start \/ UNCHANGED starts
BY Steps
DEF Sample, ReapAll, EndPass, PollAgain, StopOrCrash, Hold, OfferDevices, NoDevice,
    TakeLease, GiveUpDevice, WaitForSpace, Refuse, LaunchFails, Spawn, BecomeResident,
    WriteResult, Exit, Evidence, Hinder, Relieve, PeerLaunch, PeerResident, PeerExit, ctlVars, vars

LEMMA FirstControllerStep ==
  ASSUME Kept, FirstController, [Next]_vars PROVE FirstController'
<1> USE DEF FirstController, Kept
<1>1. CASE Start
  BY <1>1 DEF Start
<1>2. CASE UNCHANGED <<starts, ctl, mem, disk, owned>>
  BY <1>2
<1>3. CASE Sample \/ EndPass \/ PollAgain \/ StopOrCrash
  BY <1>3 DEF Sample, EndPass, PollAgain, StopOrCrash, Leave
<1>4. CASE ReapAll
  <2>1. ctl = "reap" /\ UNCHANGED <<starts, disk>> BY <1>4 DEF ReapAll
  <2>2. starts # 0 BY <2>1
  <2>3. ASSUME NEW j \in Jobs, mem'[j] = "running", starts = 1 PROVE j \in owned'
    <3>1. j \notin Ended /\ mem[j] = "running" BY <1>4, <2>3 DEF ReapAll, Outcome
    <3> QED BY <1>4, <2>1, <2>3, <3>1 DEF ReapAll
  <2> QED BY <2>1, <2>2, <2>3
<1>5. ASSUME NEW j \in Jobs, Hold(j) \/ OfferDevices(j) \/ NoDevice(j)
      PROVE  FirstController'
  BY <1>5 DEF Hold, OfferDevices, NoDevice, Offering, PassOver
<1>6. ASSUME NEW j \in Jobs, NEW g \in Gpus,
             TakeLease(j, g) \/ GiveUpDevice(j, g) \/ WaitForSpace(j, g)
               \/ Refuse(j, g) \/ LaunchFails(j, g)
      PROVE  FirstController'
  BY <1>6 DEF TakeLease, GiveUpDevice, WaitForSpace, Refuse, LaunchFails, Offering, Handling, PassOver
<1>7. ASSUME NEW j \in Jobs, NEW g \in Gpus, Spawn(j, g) PROVE FirstController'
  BY <1>7 DEF Spawn, Handling, PassOver
<1> QED
  BY <1>1, <1>2, <1>3, <1>4, <1>5, <1>6, <1>7, Steps
  DEF BecomeResident, WriteResult, Exit, Evidence, Hinder, Relieve, PeerLaunch, PeerResident,
      PeerExit, ctlVars, vars

LEMMA CompleteStep ==
  ASSUME Kept, Launched, Started, FirstController, CompleteIsFinal, [Next]_vars
  PROVE  CompleteIsFinal'
<1> DEFINE Final(j) == /\ result[j] = "complete" /\ proc[j] = "exited"
                       /\ starts = 1 => exitCode[j] = 0
<1> SUFFICES ASSUME NEW j \in Jobs, mem'[j] = "complete" \/ disk'[j] = "complete"
             PROVE  Final(j)'
  BY DEF CompleteIsFinal
<1>a. CASE Start
  <2>1. mem'[j] = disk[j] /\ disk'[j] = disk[j] /\ starts' = starts + 1 /\ UNCHANGED <<result, proc>>
    BY <1>a DEF Start, workVars, Kept
  <2>2. Final(j) BY <2>1 DEF CompleteIsFinal
  <2>3. starts # 0 BY <2>1 DEF FirstController
  <2> QED BY <2>1, <2>2, <2>3 DEF Kept
<1> SUFFICES ASSUME UNCHANGED starts PROVE Final(j)'
  BY <1>a, StartsCounted
<1>1. Final(j) => Final(j)'
  BY ResultsStay, ExitsStay
<1>2. mem[j] = "complete" \/ disk[j] = "complete" => Final(j)'
  BY <1>1 DEF CompleteIsFinal
<1> HIDE DEF Final
<1> USE Names DEF Kept
<1>3. CASE ReapAll
  <2>1. j \in Ended /\ Outcome(j) = "complete" => Final(j)
    BY <1>3 DEF ReapAll, Ended, Outcome, ExitedCleanly, Completed, Alive, Started, FirstController, Final
  <2> QED BY <1>1, <1>2, <1>3, <2>1 DEF ReapAll
<1>4. CASE UNCHANGED <<mem, disk>>
  BY <1>2, <1>4
<1>5. CASE mem' = disk /\ UNCHANGED disk
  BY <1>2, <1>5
<1>6. CASE disk' = mem /\ UNCHANGED mem
  BY <1>2, <1>6
<1>7. ASSUME NEW k \in Jobs, NEW state \in {"waiting", "failed"},
             mem' = [mem EXCEPT ![k] = state], UNCHANGED disk
      PROVE  Final(j)'
  BY <1>2, <1>7
<1>8. ASSUME NEW k \in Jobs, Hold(k), PassOver(k, "blocked")
      PROVE  Final(j)'
  BY <1>2, <1>8 DEF Hold, PassOver
<1>9. ASSUME NEW k \in Jobs, NEW g \in Gpus, Spawn(k, g)
      PROVE  Final(j)'
  BY <1>2, <1>9 DEF Spawn, PassOver
<1> QED BY <1>3, <1>4, <1>5, <1>6, <1>7, <1>8, <1>9, RecordSteps

LEMMA RecordsStep ==
  ASSUME TypeOK, TypeOK', Records, [Next]_vars PROVE Records'
<1>1. Kept /\ Kept' BY KeptTypes, PTL
<1>2. Launched' BY <1>1, LaunchedStep DEF Records
<1>3. Started' BY <1>1, StartedStep DEF Records
<1>4. GateRead' BY <1>1, GateReadStep DEF Records
<1>5. GateKept' BY <1>1, GateKeptStep DEF Records
<1>6. CompleteIsFinal' BY <1>1, CompleteStep DEF Records
<1>7. FirstController' BY <1>1, FirstControllerStep DEF Records
<1> QED BY <1>2, <1>3, <1>4, <1>5, <1>6, <1>7 DEF Records

-----------------------------------------------------------------------------
(* The theorems.                                                           *)

LEMMA Invariant == Spec => []IInv
<1>1. Init => IInv
  BY TypeInit, LocksInit, RecordsInit DEF IInv
<1>2. IInv /\ [Next]_vars => IInv'
  <2> SUFFICES ASSUME IInv, [Next]_vars PROVE IInv'
    OBVIOUS
  <2>1. TypeOK' BY TypeStep DEF IInv, Locks
  <2>2. Locks' BY LocksStep DEF IInv, Records
  <2>3. Records' BY <2>1, RecordsStep DEF IInv
  <2> QED BY <2>1, <2>2, <2>3 DEF IInv
<1> QED
  BY <1>1, <1>2, PTL DEF Spec

LEMMA Alone ==
  ASSUME IInv, NEW g \in Gpus, NEW x \in OnDevice(g), NEW y \in OnDevice(g)
  PROVE  x = y
<1> USE Names
<1>0. Plain /\ Locks BY PlainTypes DEF IInv
<1>1. ASSUME NEW j \in Jobs, j \in OnDevice(g) PROVE j \in lease[g] /\ j # Ctl
  BY <1>0, <1>1 DEF OnDevice, Occupies, Locks, WorkersHold
<1>2. ASSUME NEW p \in Adopted, p \in OnDevice(g) PROVE lease[g] \subseteq {Ctl} /\ g \in AdoptedOn[p]
  BY <1>0, <1>2 DEF OnDevice, Occupies, Locks, AdoptedUnleased
<1>3. ASSUME Peer \in OnDevice(g) PROVE lease[g] = {Peer}
  BY <1>0, <1>3 DEF OnDevice, Locks, PeerAlone
<1>4. x \in Jobs \cup Adopted \cup {Peer} /\ y \in Jobs \cup Adopted \cup {Peer}
  BY DEF OnDevice
<1>5. CASE x \in Adopted /\ y \in Adopted
  BY <1>2, <1>5
<1>6. CASE x \in Jobs /\ y \in Jobs
  BY <1>0, <1>1, <1>6 DEF Locks, OneWorker
<1>7. CASE x \in Jobs \cup {Peer} /\ y \in Jobs \cup {Peer}
  BY <1>1, <1>3, <1>6, <1>7
<1>8. CASE x \in Adopted \/ y \in Adopted
  BY <1>1, <1>2, <1>3, <1>4, <1>5, <1>8
<1> QED BY <1>4, <1>7, <1>8

LEMMA ExclusiveNow == IInv => OneTaskPerDevice
<1> SUFFICES ASSUME IInv, NEW g \in Gpus PROVE Cardinality(OnDevice(g)) <= 1
  BY DEF OneTaskPerDevice
<1>1. CASE OnDevice(g) = {}
  BY <1>1, FS_EmptySet
<1>2. ASSUME NEW x \in OnDevice(g) PROVE Cardinality(OnDevice(g)) <= 1
  <2>1. OnDevice(g) = {x} BY Alone
  <2>2. Cardinality({x}) = 1 BY FS_Singleton
  <2> QED BY <2>1, <2>2
<1> QED BY <1>1, <1>2

\* Every variable of the queue keeps its type.
THEOREM TypeCorrect == Spec => []TypeOK
BY Invariant, PTL DEF IInv

\* One project task per GPU: the locks the workers inherit keep it although
\* a crash forgets every launch of the pass, for any number of crashes.
THEOREM Exclusive == Spec => []OneTaskPerDevice
BY ExclusiveNow, Invariant, PTL

\* A job recorded complete has exited with its result written, and one of the
\* first controller has exited cleanly.
THEOREM Finality == Spec => []CompleteIsFinal
BY Invariant, PTL DEF IInv, Records

\* A gated job starts only after the result it waits for, and is blocked only
\* by a gate that is shut for good.
THEOREM GatesHold == Spec => []GateRespected
<1>1. IInv => GateRespected
  BY DEF IInv, Records, GateKept, GateRespected, Shut
<1> QED BY <1>1, Invariant, PTL

\* No lock outlives its holder.
THEOREM LocksOwned == Spec => []LocksAreOwned
<1>1. IInv => LocksAreOwned
  BY DEF IInv, Locks, CtlHolds, HoldersLive, LocksAreOwned
<1> QED BY <1>1, Invariant, PTL

-----------------------------------------------------------------------------
(* The queue implements ExclusiveDevices.                                  *)

Begun == Adopted \cup {j \in Jobs : launches[j] > 0}
Held  == [g \in Gpus |-> OnDevice(g)]

LEMMA DevicesInit == Init => Devices!Init
<1> SUFFICES ASSUME Init PROVE Devices!Init OBVIOUS
<1> USE Names
<1>1. Begun = Adopted BY DEF Init, Begun
<1>2. \A g \in Gpus : OnDevice(g) = {p \in Adopted : g \in AdoptedOn[p]}
  BY DEF Init, OnDevice, Occupies, Alive
<1>3. \A g \in Gpus : OnDevice(g) \in {{}} \cup {{t} : t \in Begun}
  <2> SUFFICES ASSUME NEW g \in Gpus, NEW p \in OnDevice(g)
               PROVE  OnDevice(g) = {p} /\ p \in Begun
    OBVIOUS
  <2> QED BY <1>1, <1>2
<1>4. Begun \subseteq Procs BY <1>1
<1> QED BY <1>3, <1>4 DEF Devices!Init, Begun

\* Next by what an observer of the devices sees.
LEMMA DeviceSteps ==
  ASSUME [Next]_vars
  PROVE  \/ UNCHANGED <<proc, peer, placed, launches>>
         \/ (\E j \in Jobs, g \in Gpus : Spawn(j, g))
         \/ (\E j \in Jobs : BecomeResident(j))
         \/ (\E p \in Procs, code \in {0, 1} : Exit(p, code))
         \/ (\E g \in Gpus : PeerLaunch(g)) \/ (\E g \in Gpus : PeerResident(g))
         \/ (\E g \in Gpus : PeerExit(g))
BY Steps
DEF Start, Sample, ReapAll, EndPass, PollAgain, StopOrCrash, Hold, OfferDevices, NoDevice,
    TakeLease, GiveUpDevice, WaitForSpace, Refuse, LaunchFails, WriteResult, Evidence, Hinder,
    Relieve, workVars, hostVars, vars

LEMMA DevicesStep ==
  ASSUME IInv, [Next]_vars
  PROVE  [Devices!Next]_Devices!vars
<1> USE Names
<1>0. /\ Plain /\ Locks /\ Launched /\ launches \in [Jobs -> Nat]
  BY PlainTypes DEF IInv, Records, TypeOK
\* A step that starts and ends no process is a stutter.
<1>1. ASSUME UNCHANGED <<placed, peer, launches>>, \A p \in Procs : Alive(p)' <=> Alive(p)
      PROVE  UNCHANGED Devices!vars
  BY <1>1 DEF Devices!vars, OnDevice, Occupies
<1>2. ASSUME NEW j \in Jobs, NEW g \in Gpus, Spawn(j, g)
      PROVE  Devices!Begin(g, j)
  <2>1. /\ lease[g] = {Ctl} /\ proc[j] = "none" /\ ~(launches[j] > 0) /\ peer[g] = "none"
        /\ \A p \in Adopted : g \in AdoptedOn[p] => ~Alive(p)
    BY <1>0, <1>2, AtLaunch
  <2>2. OnDevice(g) = {}
    BY <1>0, <2>1 DEF Locks, WorkersHold, OnDevice, Occupies
  <2>3. \A p \in Procs : Alive(p)' <=> Alive(p) \/ p = j
    BY <1>0, <1>2 DEF Plain, Spawn, Alive
  <2>4. ~Alive(j) BY <2>1 DEF Alive
  <2>5. /\ \A k \in Jobs : placed'[k] = IF k = j THEN g ELSE placed[k]
        /\ peer' = peer
    BY <1>0, <1>2 DEF Plain, Spawn, hostVars
  <2>6. \A h \in Gpus : OnDevice(h)' = IF h = g THEN {j} ELSE OnDevice(h)
    BY <2>2, <2>3, <2>4, <2>5 DEF OnDevice, Occupies
  <2>7. Held' = [Held EXCEPT ![g] = {j}]
    BY <2>6 DEF Held
  <2>8. Begun' = Begun \cup {j}
    <3>1. \A k \in Jobs : launches'[k] > 0 <=> launches[k] > 0 \/ k = j
      BY <1>0, <1>2 DEF Spawn
    <3> QED BY <3>1 DEF Begun
  <2>9. j \in Procs \ Begun BY <2>1 DEF Begun
  <2> QED BY <2>2, <2>7, <2>8, <2>9 DEF Devices!Begin, Held, Begun
<1>3. ASSUME NEW p \in Procs, NEW code \in {0, 1}, Exit(p, code)
      PROVE  Devices!End(p) \/ UNCHANGED Devices!vars
  <2>1. \A q \in Procs : Alive(q)' <=> Alive(q) /\ q # p
    BY <1>0, <1>3 DEF Plain, Exit, Alive
  <2>2. UNCHANGED <<placed, peer, launches>> BY <1>3 DEF Exit, hostVars
  <2>3. \A g \in Gpus : OnDevice(g)' = OnDevice(g) \ {p}
    BY <2>1, <2>2 DEF OnDevice, Occupies
  <2>4. Held' = [g \in Gpus |-> Held[g] \ {p}] BY <2>3 DEF Held
  <2>5. Begun' = Begun BY <2>2 DEF Begun
  <2>6. ASSUME NEW g \in Gpus, p \in OnDevice(g) PROVE Held[g] = {p}
    BY <2>6, Alone DEF Held
  <2>7. CASE \E g \in Gpus : p \in OnDevice(g)
    BY <2>4, <2>5, <2>6, <2>7 DEF Devices!End, Held, Begun
  <2>8. CASE \A g \in Gpus : p \notin OnDevice(g)
    <3>1. ASSUME NEW g \in Gpus PROVE OnDevice(g)' = OnDevice(g)
      <4>1. OnDevice(g) \ {p} = OnDevice(g) BY <2>8
      <4> QED BY <4>1, <2>3
    <3>2. Held' = Held BY <3>1 DEF Held
    <3> QED BY <3>2, <2>5 DEF Devices!vars, Held, Begun
  <2> QED BY <2>7, <2>8
<1>4. ASSUME NEW g \in Gpus, PeerLaunch(g)
      PROVE  Devices!Begin(g, Peer)
  <2>1. lease[g] = {} /\ \A p \in Adopted : g \in AdoptedOn[p] => ~Alive(p)
    BY <1>0, <1>4 DEF PeerLaunch, DeviceIdle, Occupies, Locks, AdoptedSeen, Alive
  <2>2. OnDevice(g) = {}
    BY <1>0, <2>1 DEF Locks, WorkersHold, PeerAlone, OnDevice, Occupies
  <2>3. UNCHANGED <<proc, placed, launches>> BY <1>4 DEF PeerLaunch, workVars
  <2>4. \A h \in Gpus : peer'[h] = IF h = g THEN "starting" ELSE peer[h]
    BY <1>0, <1>4 DEF Plain, PeerLaunch
  <2>5. \A h \in Gpus : OnDevice(h)' = IF h = g THEN {Peer} ELSE OnDevice(h)
    BY <2>2, <2>3, <2>4 DEF OnDevice, Occupies, Alive
  <2>6. Held' = [Held EXCEPT ![g] = {Peer}] BY <2>5 DEF Held
  <2>7. Begun' = Begun BY <2>3 DEF Begun
  <2> QED BY <2>2, <2>6, <2>7 DEF Devices!Begin, Held, Begun
<1>5. ASSUME NEW g \in Gpus, PeerExit(g)
      PROVE  Devices!EndForeign(g)
  <2>1. Peer \in OnDevice(g) BY <1>5 DEF PeerExit, OnDevice
  <2>2. OnDevice(g) = {Peer} BY <2>1, Alone
  <2>3. UNCHANGED <<proc, placed, launches>> BY <1>5 DEF PeerExit, workVars
  <2>4. \A h \in Gpus : peer'[h] = IF h = g THEN "none" ELSE peer[h]
    BY <1>0, <1>5 DEF Plain, PeerExit
  <2>5. \A p \in Procs : ~(Alive(p) /\ Occupies(p, g))
    BY <2>2 DEF OnDevice
  <2>6. \A h \in Gpus : OnDevice(h)' = IF h = g THEN {} ELSE OnDevice(h)
    BY <2>3, <2>4, <2>5 DEF OnDevice, Occupies, Alive
  <2>7. Held' = [Held EXCEPT ![g] = {}] BY <2>6 DEF Held
  <2>8. Begun' = Begun BY <2>3 DEF Begun
  <2> QED BY <2>2, <2>7, <2>8 DEF Devices!EndForeign, Held, Begun
<1>6. ASSUME NEW j \in Jobs, BecomeResident(j)
      PROVE  UNCHANGED Devices!vars
  BY <1>0, <1>1, <1>6 DEF Plain, BecomeResident, hostVars, Alive
<1>7. ASSUME NEW g \in Gpus, PeerResident(g)
      PROVE  UNCHANGED Devices!vars
  <2>1. UNCHANGED <<proc, placed, launches>> BY <1>7 DEF PeerResident, workVars
  <2>2. \A h \in Gpus : peer'[h] # "none" <=> peer[h] # "none"
    BY <1>0, <1>7 DEF Plain, PeerResident
  <2>3. \A h \in Gpus : OnDevice(h)' = OnDevice(h)
    BY <2>1, <2>2 DEF OnDevice, Occupies, Alive
  <2>4. Held' = Held BY <2>3 DEF Held
  <2> QED BY <2>1, <2>4 DEF Devices!vars, Held
<1>8. CASE UNCHANGED <<proc, peer, placed, launches>>
  BY <1>1, <1>8 DEF Alive
<1> QED
  BY <1>2, <1>3, <1>4, <1>5, <1>6, <1>7, <1>8, DeviceSteps DEF Devices!Next

\* The queue implements the promise of exclusive devices: a task starts only
\* on a device nobody uses, and only if it never ran before.
THEOREM Implements == Spec => ImplementsDevices
BY Invariant, DevicesInit, DevicesStep, PTL DEF Spec, ImplementsDevices, Devices!Spec

=============================================================================
