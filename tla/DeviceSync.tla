----------------------------- MODULE DeviceSync -----------------------------
(***************************************************************************)
(* The sync of one attendance device: src/runtime/sync_state.rs, with the  *)
(* device and HRMS it talks to.                                            *)
(*                                                                         *)
(* An instance is a process that holds a DeviceSyncState for the device    *)
(* (the service, `fbsy sync`, the dashboard); its lock and its memory are  *)
(* its own, the state files are shared.  A worker is a thread that calls   *)
(* sync_once (boot thread, scheduler, HTTP request); a prober is a thread  *)
(* that calls syncing(), which takes the lock for an instant.              *)
(***************************************************************************)
EXTENDS Naturals, FiniteSets

CONSTANTS
  Instances, Workers, Probers,
  InstanceOf,        \* the process a worker or a prober runs in
  Schedulers,        \* the workers that try again every interval, forever
  Punches,           \* records employees can make, numbered in time order
  Mappable,          \* those with a user id and a readable time
  DayOf,             \* DayOf[z][p]: employee and local day of p's record in zone z
  CheckInPunches,    \* those whose punch code is 0 or 4
  FirstInLastOut,    \* eventTypeMode = firstInLastOut
  ClearAfterSync,    \* clearAttendanceAfterSync
  ClearThreshold,    \* clearAttendanceThreshold, 0 when absent
  BatchSize,         \* events per webhook request
  DeviceZone,        \* deviceTimezone, NoZone when absent or unreadable
  OrgZones,          \* the zones HRMS may answer as orgTimezone
  BadZones,          \* the texts it may answer that name no zone
  BlankZones,        \* those of them without a character but blanks
  NoZone, UTC,
  ShortPulls,        \* the device may answer parts of a read with nothing
  PartialAccept,     \* HRMS may answer 2xx without storing the whole batch
  CuttableErrors,    \* byte 200 of an error text may be inside a character
  MaxRestarts        \* bound: how many times processes die and come back

Threads == Workers \cup Probers
Zones == OrgZones \cup {DeviceZone, NoZone, UTC}
Types == {"check_in", "check_out"}
Events == [punch : Punches, zone : Zones, type : Types]
Messages == {"in progress", "failed", "nothing", "forwarded", "clear failed"}
Results == [ok : BOOLEAN, pulled : SUBSET Punches, cleared : BOOLEAN,
            message : Messages]

\* No result is known yet; also what a worker holds before it has one.
NoResult == [ok |-> FALSE, pulled |-> {}, cleared |-> FALSE, message |-> "none"]

ASSUME ThreadsAssumption ==
  /\ Workers \cap Probers = {}
  /\ Threads \cap {"free", "poisoned"} = {}
  /\ InstanceOf \in [Threads -> Instances]
  /\ Schedulers \subseteq Workers

ASSUME DataAssumption ==
  /\ Punches \subseteq Nat
  /\ Mappable \subseteq Punches
  /\ CheckInPunches \subseteq Punches
  /\ BatchSize \in Nat \ {0}
  /\ ClearThreshold \in Nat
  /\ MaxRestarts \in Nat

ASSUME ZonesAssumption ==
  /\ BlankZones \subseteq BadZones
  /\ BadZones \cap OrgZones = {}
  /\ NoZone \notin OrgZones \cup BadZones

ASSUME ModesAssumption ==
  /\ FirstInLastOut \in BOOLEAN
  /\ ClearAfterSync \in BOOLEAN
  /\ ShortPulls \in BOOLEAN
  /\ PartialAccept \in BOOLEAN
  /\ CuttableErrors \in BOOLEAN

VARIABLES
  made,        \* records employees have made so far
  device,      \* records the device holds
  hrms,        \* events HRMS has stored
  lock,        \* lock[i]: "free", "poisoned" or the thread that holds it
  pc,          \* pc[w]: where worker w is in sync_once
  pulled,      \* pulled[w]: records of w's pull, {} before and after
  todo,        \* todo[w]: its events HRMS has not answered 2xx for yet
  result,      \* result[w]: the SyncResult w is about to store
  lastResult,  \* lastResult[i]: DeviceSyncState.last_result
  resultFile,  \* <code>.last-result.json
  learned,     \* learned[i]: DeviceSyncState.learned_org_timezone
  zoneFile,    \* the learned org timezone on disk, whatever its text
  restarts

world == <<made, device, hrms>>
local == <<pulled, todo>>
stored == <<lastResult, resultFile>>
zones == <<learned, zoneFile>>
vars == <<world, lock, pc, local, result, stored, zones, restarts>>

PCs == {"idle", "connect", "pull", "forward", "clear", "release", "memory",
        "file", "dead"}
InSync == {"connect", "pull", "forward", "clear", "release"}

Inst(t) == InstanceOf[t]

-----------------------------------------------------------------------------
\* Pure parts of one sync.

\* Mutant: the events of a pull taken from the latest to the earliest.
LastOfDay(p, S, zone) == \A q \in S : DayOf[zone][q] = DayOf[zone][p] => q <= p

\* apply_first_in_last_out looks at the records of this pull alone.
FirstOfDay(p, S, zone) == \A q \in S : DayOf[zone][q] = DayOf[zone][p] => p <= q

EventType(p, S, zone) ==
  IF (FirstInLastOut /\ FirstOfDay(p, S, zone)) \/ (~FirstInLastOut /\ p \in CheckInPunches)
  THEN "check_in" ELSE "check_out"

\* Mutant: a record that is not the first of its day is dropped as a duplicate.
ToHrmsEventsOnePerDay(S, zone) ==
  {[punch |-> p, zone |-> zone, type |-> EventType(p, S \cap Mappable, zone)] :
     p \in {r \in S \cap Mappable : FirstOfDay(r, S, zone)}}

\* to_hrms_event keeps the records that name a user and have a readable time.
ToHrmsEvents(S, zone) ==
  {[punch |-> p, zone |-> zone, type |-> EventType(p, S \cap Mappable, zone)] :
     p \in S \cap Mappable}

\* The configured zone wins, then the learned one if it can be read, then UTC.
ResolveZone(i) ==
  IF DeviceZone # NoZone THEN DeviceZone
  ELSE IF learned[i] \in OrgZones THEN learned[i] ELSE UTC

\* The next chunk of at most BatchSize events in time order.
NextBatch(E) ==
  {e \in E : Cardinality({f \in E : f.punch < e.punch}) < BatchSize}

PunchesOf(E) == {e.punch : e \in E}

ShouldClear(S) ==
  ClearAfterSync \/ (ClearThreshold > 0 /\ Cardinality(S) >= ClearThreshold)

-----------------------------------------------------------------------------
Init ==
  /\ made = {} /\ device = {} /\ hrms = {}
  /\ lock = [i \in Instances |-> "free"]
  /\ pc = [w \in Workers |-> "idle"]
  /\ pulled = [w \in Workers |-> {}]
  /\ todo = [w \in Workers |-> {}]
  /\ result = [w \in Workers |-> NoResult]
  /\ lastResult = [i \in Instances |-> NoResult]
  /\ resultFile = NoResult
  /\ learned = [i \in Instances |-> NoZone]
  /\ zoneFile = NoZone
  /\ restarts = 0

\* An employee uses the device; its clock gives records in time order.
Punch(p) ==
  /\ \A q \in made : q < p
  /\ made' = made \cup {p}
  /\ device' = device \cup {p}
  /\ UNCHANGED <<hrms, lock, pc, local, result, stored, zones, restarts>>

-----------------------------------------------------------------------------
\* sync_once: try_lock, the sync, unlock, store_result.

\* Mutant: the answer of try_lock is ignored.
StartSyncUnlocked(w) ==
  /\ pc[w] = "idle"
  /\ lock' = [lock EXCEPT ![Inst(w)] = w]
  /\ pc' = [pc EXCEPT ![w] = "connect"]
  /\ UNCHANGED <<world, local, result, stored, zones, restarts>>

StartSync(w) ==
  /\ pc[w] = "idle"
  /\ lock[Inst(w)] = "free"
  /\ lock' = [lock EXCEPT ![Inst(w)] = w]
  /\ pc' = [pc EXCEPT ![w] = "connect"]
  /\ UNCHANGED <<world, local, result, stored, zones, restarts>>

\* try_lock fails when the lock is held and also when it is poisoned.
SkipSync(w) ==
  /\ pc[w] = "idle"
  /\ lock[Inst(w)] # "free"
  /\ result' = [result EXCEPT ![w] =
       [ok |-> FALSE, pulled |-> {}, cleared |-> FALSE, message |-> "in progress"]]
  /\ pc' = [pc EXCEPT ![w] = "memory"]
  /\ UNCHANGED <<world, lock, local, stored, zones, restarts>>

\* sync_once_locked returns r; its locals are dropped.
Return(w, r) ==
  /\ result' = [result EXCEPT ![w] = r]
  /\ pc' = [pc EXCEPT ![w] = "release"]
  /\ pulled' = [pulled EXCEPT ![w] = {}]
  /\ todo' = [todo EXCEPT ![w] = {}]
  /\ UNCHANGED lock

\* Mutant: a flag takes the place of the lock's guard, and a panic leaves it set.
PanicLeavesFlag(w) ==
  /\ CuttableErrors
  /\ pc' = [pc EXCEPT ![w] = "dead"]
  /\ pulled' = [pulled EXCEPT ![w] = {}]
  /\ todo' = [todo EXCEPT ![w] = {}]
  /\ UNCHANGED <<lock, result>>

\* sanitize cuts the text of an error at byte 200; inside a character this
\* panics: the thread ends and its guard poisons the lock.
Panic(w) ==
  /\ CuttableErrors
  /\ lock' = [lock EXCEPT ![Inst(w)] = "poisoned"]
  /\ pc' = [pc EXCEPT ![w] = "dead"]
  /\ pulled' = [pulled EXCEPT ![w] = {}]
  /\ todo' = [todo EXCEPT ![w] = {}]
  /\ UNCHANGED result

Fail(w, S) ==
  \/ Return(w, [ok |-> FALSE, pulled |-> S, cleared |-> FALSE, message |-> "failed"])
  \/ Panic(w)

ConnectOk(w) ==
  /\ pc[w] = "connect"
  /\ pc' = [pc EXCEPT ![w] = "pull"]
  /\ UNCHANGED <<world, lock, local, result, stored, zones, restarts>>

ConnectFails(w) ==
  /\ pc[w] = "connect"
  /\ Fail(w, {})
  /\ UNCHANGED <<world, stored, zones, restarts>>

\* What a read of the whole log may return: a chunk that is acknowledged without
\* data counts as empty.
Pullable == IF ShortPulls THEN SUBSET device ELSE {device}

TakePull(w, S) ==
  LET E == ToHrmsEvents(S, ResolveZone(Inst(w))) IN
  IF E = {}
  THEN Return(w, [ok |-> TRUE, pulled |-> S, cleared |-> FALSE, message |-> "nothing"])
  ELSE /\ pulled' = [pulled EXCEPT ![w] = S]
       /\ todo' = [todo EXCEPT ![w] = E]
       /\ pc' = [pc EXCEPT ![w] = "forward"]
       /\ UNCHANGED <<lock, result>>

PullOk(w) ==
  /\ pc[w] = "pull"
  /\ \E S \in Pullable : TakePull(w, S)
  /\ UNCHANGED <<world, stored, zones, restarts>>

PullFails(w) ==
  /\ pc[w] = "pull"
  /\ Fail(w, {})
  /\ UNCHANGED <<world, stored, zones, restarts>>

\* What HRMS may have stored of a batch it answered 2xx for.
Kept(B) == IF PartialAccept THEN SUBSET B ELSE {B}

PostAcked(w) ==
  LET B == NextBatch(todo[w]) IN
  /\ pc[w] = "forward"
  /\ todo[w] # {}
  /\ \E S \in Kept(B) : hrms' = hrms \cup S
  /\ todo' = [todo EXCEPT ![w] = @ \ B]
  /\ UNCHANGED <<made, device, lock, pc, pulled, result, stored, zones, restarts>>

\* Mutant: a batch that failed is passed over and the next one is sent.
PostFailsGoesOn(w) ==
  /\ pc[w] = "forward"
  /\ todo[w] # {}
  /\ todo' = [todo EXCEPT ![w] = @ \ NextBatch(todo[w])]
  /\ UNCHANGED <<world, lock, pc, pulled, result, stored, zones, restarts>>

\* The batch failed for good; some attempt may have reached HRMS all the same.
PostFails(w) ==
  LET B == NextBatch(todo[w]) IN
  /\ pc[w] = "forward"
  /\ todo[w] # {}
  /\ \E S \in Kept(B) \cup {{}} : hrms' = hrms \cup S
  /\ Fail(w, pulled[w])
  /\ UNCHANGED <<made, device, stored, zones, restarts>>

\* Mutant: an answer without orgTimezone is recorded as UTC.
LearnUtc(i) ==
  \E z \in OrgZones \cup BadZones \cup {UTC} :
    /\ learned' = [learned EXCEPT ![i] = z]
    /\ zoneFile' \in {z, zoneFile}

\* learn_org_timezone takes any text, also one that names no zone, over what
\* was there: memory first, then the file, whose write may fail, or collide
\* with another process's in the temporary file both rename.
Learn(i) ==
  \E z \in OrgZones \cup BadZones \cup {NoZone} :
    IF z = NoZone \/ learned[i] = z
    THEN UNCHANGED zones
    ELSE /\ learned' = [learned EXCEPT ![i] = z]
         /\ zoneFile' \in {z, zoneFile} \cup {NoZone : j \in Instances \ {i}}

\* Mutant: forward_events returns after a batch, not after all of them.
ForwardedEarly(w) ==
  /\ pc[w] = "forward"
  /\ Learn(Inst(w))
  /\ IF ShouldClear(pulled[w])
     THEN /\ pc' = [pc EXCEPT ![w] = "clear"]
          /\ UNCHANGED <<lock, local, result>>
     ELSE Return(w, [ok |-> TRUE, pulled |-> pulled[w], cleared |-> FALSE,
                     message |-> "forwarded"])
  /\ UNCHANGED <<world, stored, restarts>>

Forwarded(w) ==
  /\ pc[w] = "forward"
  /\ todo[w] = {}
  /\ Learn(Inst(w))
  /\ IF ShouldClear(pulled[w])
     THEN /\ pc' = [pc EXCEPT ![w] = "clear"]
          /\ UNCHANGED <<lock, local, result>>
     ELSE Return(w, [ok |-> TRUE, pulled |-> pulled[w], cleared |-> FALSE,
                     message |-> "forwarded"])
  /\ UNCHANGED <<world, stored, restarts>>

\* The device answers ok or an error; either answer may be wrong about what
\* it did, since no reply is matched to its command.
ClearOk(w) ==
  /\ pc[w] = "clear"
  /\ device' \in {{}, device}
  /\ Return(w, [ok |-> TRUE, pulled |-> pulled[w], cleared |-> TRUE,
                message |-> "forwarded"])
  /\ UNCHANGED <<made, hrms, stored, zones, restarts>>

ClearFails(w) ==
  /\ pc[w] = "clear"
  /\ device' \in {{}, device}
  /\ \/ Return(w, [ok |-> TRUE, pulled |-> pulled[w], cleared |-> FALSE,
                   message |-> "clear failed"])
     \/ Panic(w)
  /\ UNCHANGED <<made, hrms, stored, zones, restarts>>

\* Mutant: a failed sync returns without dropping its guard.
ReleaseUnlessFailed(w) ==
  /\ pc[w] = "release"
  /\ lock' = IF result[w].ok THEN [lock EXCEPT ![Inst(w)] = "free"] ELSE lock
  /\ pc' = [pc EXCEPT ![w] = "memory"]
  /\ UNCHANGED <<world, local, result, stored, zones, restarts>>

\* disconnect and drop(guard).
Release(w) ==
  /\ pc[w] = "release"
  /\ lock' = [lock EXCEPT ![Inst(w)] = "free"]
  /\ pc' = [pc EXCEPT ![w] = "memory"]
  /\ UNCHANGED <<world, local, result, stored, zones, restarts>>

\* store_result runs outside the lock: memory, then the file.
StoreMemory(w) ==
  /\ pc[w] = "memory"
  /\ lastResult' = [lastResult EXCEPT ![Inst(w)] = result[w]]
  /\ pc' = [pc EXCEPT ![w] = "file"]
  /\ UNCHANGED <<world, lock, local, result, resultFile, zones, restarts>>

\* save_last_result: other threads write the same temporary file, and what is
\* renamed may then be unreadable.
StoreFile(w) ==
  /\ pc[w] = "file"
  /\ resultFile' \in {result[w], resultFile} \cup {NoResult : v \in Workers \ {w}}
  /\ result' = [result EXCEPT ![w] = NoResult]
  /\ pc' = [pc EXCEPT ![w] = "idle"]
  /\ UNCHANGED <<world, lock, local, lastResult, zones, restarts>>

-----------------------------------------------------------------------------
\* syncing(): a successful try_lock holds the lock until the guard is dropped.
Probe(q) ==
  /\ lock[Inst(q)] = "free"
  /\ lock' = [lock EXCEPT ![Inst(q)] = q]
  /\ UNCHANGED <<world, pc, local, result, stored, zones, restarts>>

ProbeEnd(q) ==
  /\ lock[Inst(q)] = q
  /\ lock' = [lock EXCEPT ![Inst(q)] = "free"]
  /\ UNCHANGED <<world, pc, local, result, stored, zones, restarts>>

\* Mutant: DeviceSyncState::new starts without the learned timezone.
RestartUnlearned(i) ==
  LET Mine == {w \in Workers : Inst(w) = i} IN
  /\ restarts < MaxRestarts
  /\ restarts' = restarts + 1
  /\ lock' = [lock EXCEPT ![i] = "free"]
  /\ pc' = [w \in Workers |-> IF w \in Mine THEN "idle" ELSE pc[w]]
  /\ pulled' = [w \in Workers |-> IF w \in Mine THEN {} ELSE pulled[w]]
  /\ todo' = [w \in Workers |-> IF w \in Mine THEN {} ELSE todo[w]]
  /\ result' = [w \in Workers |-> IF w \in Mine THEN NoResult ELSE result[w]]
  /\ lastResult' = [lastResult EXCEPT ![i] = resultFile]
  /\ learned' = [learned EXCEPT ![i] = NoZone]
  /\ UNCHANGED <<world, resultFile, zoneFile>>

\* load_learned_org_timezone: a file of blanks counts as absent.
LoadedZone == IF zoneFile \in BlankZones THEN NoZone ELSE zoneFile

\* The process dies at any point and is started again: DeviceSyncState::new.
Restart(i) ==
  LET Mine == {w \in Workers : Inst(w) = i} IN
  /\ restarts < MaxRestarts
  /\ restarts' = restarts + 1
  /\ lock' = [lock EXCEPT ![i] = "free"]
  /\ pc' = [w \in Workers |-> IF w \in Mine THEN "idle" ELSE pc[w]]
  /\ pulled' = [w \in Workers |-> IF w \in Mine THEN {} ELSE pulled[w]]
  /\ todo' = [w \in Workers |-> IF w \in Mine THEN {} ELSE todo[w]]
  /\ result' = [w \in Workers |-> IF w \in Mine THEN NoResult ELSE result[w]]
  /\ lastResult' = [lastResult EXCEPT ![i] = resultFile]
  /\ learned' = [learned EXCEPT ![i] = LoadedZone]
  /\ UNCHANGED <<world, resultFile, zoneFile>>

SyncStep(w) ==
  \/ ConnectOk(w) \/ ConnectFails(w)
  \/ PullOk(w) \/ PullFails(w)
  \/ PostAcked(w) \/ PostFails(w)
  \/ Forwarded(w)
  \/ ClearOk(w) \/ ClearFails(w)
  \/ Release(w) \/ StoreMemory(w) \/ StoreFile(w)

Next ==
  \/ \E p \in Punches : Punch(p)
  \/ \E w \in Workers : StartSync(w) \/ SkipSync(w) \/ SyncStep(w)
  \/ \E q \in Probers : Probe(q) \/ ProbeEnd(q)
  \/ \E i \in Instances : Restart(i)

Spec == Init /\ [][Next]_vars

(***************************************************************************)
(* A thread inside sync_once always goes on, a scheduler comes back every  *)
(* interval, and a prober drops its guard.  The device and HRMS are not    *)
(* out of order forever: asked again and again, by whatever thread, each   *)
(* sometimes gives the good answer, for each record (strong fairness).     *)
(***************************************************************************)
Fairness ==
  /\ \A w \in Workers : WF_vars(SyncStep(w))
  /\ \A s \in Schedulers : WF_vars(StartSync(s) \/ SkipSync(s))
  /\ \A q \in Probers : WF_vars(ProbeEnd(q))
  /\ SF_vars(\E w \in Workers : ConnectOk(w))
  /\ SF_vars(\E w \in Workers : PullOk(w))
  /\ \A p \in Punches :
       SF_vars(\E w \in Workers : p \in PunchesOf(NextBatch(todo[w])) /\ PostAcked(w))

FairSpec == Spec /\ Fairness

-----------------------------------------------------------------------------
\* Every variable holds a value of its type, and nothing appears from nowhere.
TypeOK ==
  /\ made \subseteq Punches
  /\ device \subseteq made
  /\ hrms \subseteq Events
  /\ lock \in [Instances -> {"free", "poisoned"} \cup Threads]
  /\ pc \in [Workers -> PCs]
  /\ pulled \in [Workers -> SUBSET Punches]
  /\ todo \in [Workers -> SUBSET Events]
  /\ result \in [Workers -> Results \cup {NoResult}]
  /\ lastResult \in [Instances -> Results \cup {NoResult}]
  /\ resultFile \in Results \cup {NoResult}
  /\ learned \in [Instances -> OrgZones \cup BadZones \cup {NoZone}]
  /\ zoneFile \in OrgZones \cup BadZones \cup {NoZone}
  /\ restarts \in 0..MaxRestarts

\* The lock of an instance is held by a worker exactly while that worker is in
\* the locked part of sync_once; so two workers of a process never talk to the
\* device at once, whatever happened before (skips, failures, deaths).
LockMatchesSync ==
  \A w \in Workers : pc[w] \in InSync <=> lock[Inst(w)] = w

\* sync_with_client never loses track of a record: while a worker forwards or
\* clears, each deliverable record of its pull is at HRMS or still to be sent.
NothingDropped ==
  \A w \in Workers :
    pulled[w] \cap Mappable \subseteq PunchesOf(todo[w]) \cup PunchesOf(hrms)

\* The safety rule of sync_state.rs: only a worker at the clear step empties
\* the device, and each deliverable record of its pull that it erases is at HRMS.
SafeErase ==
  [][device \ device' # {} =>
       \E w \in Workers :
         /\ pc[w] = "clear" /\ pc'[w] # "clear"
         /\ (device \ device') \cap pulled[w] \cap Mappable \subseteq PunchesOf(hrms)]_vars

\* What the bridge reports is true: a result that says the events of a pull
\* were forwarded, in memory, on disk or on its way there, across restarts, is
\* about records that are all at HRMS.
Honest(r) ==
  r.message \in {"forwarded", "clear failed"} => r.pulled \cap Mappable \subseteq PunchesOf(hrms)

ResultsHonest ==
  /\ \A w \in Workers : Honest(result[w])
  /\ \A i \in Instances : Honest(lastResult[i])
  /\ Honest(resultFile)

\* While the disk holds a zone that can be read, a sync falls back to UTC only
\* if HRMS has since answered that very process with a text that names no zone
\* and the file kept the good one; deaths, restarts, answers without a zone and
\* failed writes in any order never cause it (for a device that only one
\* process syncs).  An unreadable text that did reach the file costs the good
\* zone for good: the next answer with a zone brings it back, nothing else.
NoUtcOnceLearned ==
  [][\A w \in Workers :
       todo[w] = {} /\ (\E e \in todo'[w] : e.zone = UTC) /\ zoneFile \in OrgZones
         => learned[Inst(w)] \in BadZones]_vars

\* firstInLastOut: HRMS gets one check-in per employee and day.
OneCheckInPerDay ==
  \A e, f \in hrms :
    e.type = "check_in" /\ f.type = "check_in" /\ e.zone = f.zone
      /\ DayOf[e.zone][e.punch] = DayOf[e.zone][f.punch]
      => e.punch = f.punch

\* "RPO (data loss): Zero": a deliverable record is on the device or at HRMS.
NoLoss == made \cap Mappable \subseteq device \cup PunchesOf(hrms)

\* A process whose lock is poisoned and in which no thread syncs the device.
Stopped(i) ==
  /\ lock[i] = "poisoned"
  /\ \A w \in Workers : Inst(w) = i => pc[w] \notin InSync

\* Every deliverable record reaches HRMS in the end, unless every process that
\* syncs the device on a schedule has stopped at a panic.
EventuallyDelivered ==
  \A p \in Mappable :
    p \in made ~> p \in PunchesOf(hrms) \/ \A s \in Schedulers : Stopped(Inst(s))

\* "has its own syncIntervalSeconds, and syncs on an independent schedule": the
\* process of a scheduler syncs the device again and again, whatever errors it
\* and HRMS return, until a panic poisons its lock, in the scheduler or in any
\* other thread; then it never does again, though the scheduler may live on.
KeepsSyncing ==
  \A s \in Schedulers :
    \/ []<>(\E w \in Workers : Inst(w) = Inst(s) /\ pc[w] \in InSync)
    \/ <>[]Stopped(Inst(s))

\* Every attempt ends, whatever fails: the thread has stored a result and is free
\* for the next one, or it died and its process has stopped.
EveryAttemptEnds ==
  \A w \in Workers : pc[w] # "idle" ~>
    pc[w] = "idle" \/ (pc[w] = "dead" /\ lock[Inst(w)] = "poisoned")

-----------------------------------------------------------------------------
\* A worker's copy is its pull; HRMS holds the records of its events.
Transfer == INSTANCE AttendanceTransfer
  WITH Clients <- Workers, held <- pulled, delivered <- PunchesOf(hrms)

\* DeviceSync implements AttendanceTransfer when HRMS keeps what it accepts.
ImplementsTransfer == Transfer!Spec
=============================================================================
