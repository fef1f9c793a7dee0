-------------------------- MODULE DeviceSyncProofs --------------------------
(***************************************************************************)
(* What DeviceSync guarantees for every number of processes, threads and   *)
(* records, every batch size and every setting of the device.              *)
(***************************************************************************)
EXTENDS DeviceSync, TLAPS

-----------------------------------------------------------------------------
\* Lemmas about the operators of one sync.

\* The zone a sync stamps its events with is a zone.
LEMMA ResolvedZone ==
  ASSUME TypeOK, NEW i \in Instances
  PROVE  ResolveZone(i) \in Zones
BY DEF TypeOK, ResolveZone, Zones

\* to_hrms_events yields events, one for each deliverable record and no other.
LEMMA MappedEvents ==
  ASSUME NEW S \in SUBSET Punches, NEW z \in Zones
  PROVE  /\ ToHrmsEvents(S, z) \subseteq Events
         /\ PunchesOf(ToHrmsEvents(S, z)) = S \cap Mappable
<1>1. ToHrmsEvents(S, z) \subseteq Events
  BY DataAssumption DEF ToHrmsEvents, Events, EventType, Types
<1>2. PunchesOf(ToHrmsEvents(S, z)) \subseteq S \cap Mappable
  BY DEF PunchesOf, ToHrmsEvents
<1>3. ASSUME NEW p \in S \cap Mappable
      PROVE  p \in PunchesOf(ToHrmsEvents(S, z))
  <2> DEFINE e == [punch |-> p, zone |-> z, type |-> EventType(p, S \cap Mappable, z)]
  <2>1. e \in ToHrmsEvents(S, z) /\ e.punch = p
    BY DEF ToHrmsEvents
  <2>2. QED BY <2>1 DEF PunchesOf
<1>4. QED BY <1>1, <1>2, <1>3

\* A pull returns records of the device.
LEMMA PullablePart ==
  ASSUME NEW S \in Pullable
  PROVE  S \subseteq device
BY DEF Pullable

\* A batch is a part of what is left to send.
LEMMA BatchIsPart ==
  ASSUME NEW E
  PROVE  NextBatch(E) \subseteq E
BY DEF NextBatch

\* An HRMS that keeps what it accepts keeps the whole batch.
LEMMA KeptWhole ==
  ASSUME ~PartialAccept, NEW B, NEW S \in Kept(B)
  PROVE  S = B
BY DEF Kept

\* Even one that does not keeps nothing else.
LEMMA KeptPart ==
  ASSUME NEW B, NEW S \in Kept(B)
  PROVE  S \subseteq B
BY DEF Kept

\* The records of a union of events.
LEMMA PunchesOfUnion ==
  ASSUME NEW A, NEW B
  PROVE  PunchesOf(A \cup B) = PunchesOf(A) \cup PunchesOf(B)
BY DEF PunchesOf

-----------------------------------------------------------------------------
\* Type correctness.

\* Return and Fail keep the variables they set in their types.
LEMMA ReturnTypes ==
  ASSUME TypeOK, NEW w \in Workers, NEW r \in Results, Return(w, r)
  PROVE  /\ pc' \in [Workers -> PCs]
         /\ pulled' \in [Workers -> SUBSET Punches]
         /\ todo' \in [Workers -> SUBSET Events]
         /\ result' \in [Workers -> Results \cup {NoResult}]
         /\ lock' \in [Instances -> {"free", "poisoned"} \cup Threads]
BY DEF TypeOK, Return, PCs

LEMMA FailTypes ==
  ASSUME TypeOK, NEW w \in Workers, NEW S \in SUBSET Punches, Fail(w, S)
  PROVE  /\ pc' \in [Workers -> PCs]
         /\ pulled' \in [Workers -> SUBSET Punches]
         /\ todo' \in [Workers -> SUBSET Events]
         /\ result' \in [Workers -> Results \cup {NoResult}]
         /\ lock' \in [Instances -> {"free", "poisoned"} \cup Threads]
<1> DEFINE r == [ok |-> FALSE, pulled |-> S, cleared |-> FALSE, message |-> "failed"]
<1>1. r \in Results
  BY DEF Results, Messages
<1>2. CASE Return(w, r)
  BY <1>1, <1>2, ReturnTypes
<1>3. CASE Panic(w)
  BY <1>3 DEF TypeOK, Panic, PCs
<1>4. QED BY <1>2, <1>3 DEF Fail

LEMMA NextBatchTyped ==
  ASSUME TypeOK, NEW w \in Workers
  PROVE  NextBatch(todo[w]) \subseteq Events
BY BatchIsPart DEF TypeOK

\* Every step keeps the types.
LEMMA TypeStep == TypeOK /\ [Next]_vars => TypeOK'
<1> SUFFICES ASSUME TypeOK, [Next]_vars
             PROVE  TypeOK'
  OBVIOUS
<1> USE ThreadsAssumption, DataAssumption, ModesAssumption
<1>1. ASSUME NEW p \in Punches, Punch(p)
      PROVE  TypeOK'
  BY <1>1 DEF TypeOK, Punch, local, stored, zones
<1>2. ASSUME NEW w \in Workers, StartSync(w)
      PROVE  TypeOK'
  BY <1>2 DEF TypeOK, StartSync, world, local, stored, zones, PCs, Threads
<1>3. ASSUME NEW w \in Workers, SkipSync(w)
      PROVE  TypeOK'
  BY <1>3 DEF TypeOK, SkipSync, world, local, stored, zones, PCs, Results, Messages
<1>4. ASSUME NEW w \in Workers, ConnectOk(w)
      PROVE  TypeOK'
  BY <1>4 DEF TypeOK, ConnectOk, world, local, stored, zones, PCs
<1>5. ASSUME NEW w \in Workers, ConnectFails(w) \/ PullFails(w)
      PROVE  TypeOK'
  <2>1. Fail(w, {}) /\ UNCHANGED <<world, stored, zones, restarts>>
    BY <1>5 DEF ConnectFails, PullFails
  <2>2. QED BY <2>1, FailTypes DEF TypeOK, world, stored, zones
<1>6. ASSUME NEW w \in Workers, PullOk(w)
      PROVE  TypeOK'
  <2>0. PICK S \in Pullable : TakePull(w, S)
    BY <1>6 DEF PullOk
  <2> DEFINE E == ToHrmsEvents(S, ResolveZone(Inst(w)))
             r == [ok |-> TRUE, pulled |-> S, cleared |-> FALSE, message |-> "nothing"]
  <2>1. S \subseteq Punches /\ r \in Results /\ Inst(w) \in Instances
    BY PullablePart DEF TypeOK, Results, Messages, Inst, Threads
  <2>2. E \subseteq Events
    BY <2>1, ResolvedZone, MappedEvents
  <2>3. UNCHANGED <<world, stored, zones, restarts>>
    BY <1>6 DEF PullOk
  <2>4. CASE E = {}
    <3>1. Return(w, r)
      BY <2>0, <2>4 DEF TakePull
    <3>2. QED BY <3>1, <2>1, <2>3, ReturnTypes DEF TypeOK, world, stored, zones
  <2>5. CASE E # {}
    <3>1. /\ pulled' = [pulled EXCEPT ![w] = S]
          /\ todo' = [todo EXCEPT ![w] = E]
          /\ pc' = [pc EXCEPT ![w] = "forward"]
          /\ UNCHANGED <<lock, result>>
      BY <2>0, <2>5 DEF TakePull
    <3> HIDE DEF E
    <3>2. QED BY <3>1, <2>1, <2>2, <2>3 DEF TypeOK, world, stored, zones, PCs
  <2>6. QED BY <2>4, <2>5
<1>7. ASSUME NEW w \in Workers, PostAcked(w)
      PROVE  TypeOK'
  <2>1. PICK S \in Kept(NextBatch(todo[w])) : hrms' = hrms \cup S
    BY <1>7 DEF PostAcked
  <2>2. S \subseteq Events
    BY <2>1, KeptPart, NextBatchTyped
  <2>3. QED BY <1>7, <2>1, <2>2 DEF TypeOK, PostAcked, stored, zones
<1>8. ASSUME NEW w \in Workers, PostFails(w)
      PROVE  TypeOK'
  <2>1. PICK S \in Kept(NextBatch(todo[w])) \cup {{}} : hrms' = hrms \cup S
    BY <1>8 DEF PostFails
  <2>2. S \subseteq Events
    BY <2>1, KeptPart, NextBatchTyped
  <2>3. pulled[w] \in SUBSET Punches /\ Fail(w, pulled[w])
        /\ UNCHANGED <<made, device, stored, zones, restarts>>
    BY <1>8 DEF PostFails, TypeOK
  <2>4. QED BY <2>1, <2>2, <2>3, FailTypes DEF TypeOK, stored, zones
<1>9. ASSUME NEW w \in Workers, Forwarded(w)
      PROVE  TypeOK'
  <2> DEFINE r == [ok |-> TRUE, pulled |-> pulled[w], cleared |-> FALSE, message |-> "forwarded"]
  <2>1. r \in Results /\ Inst(w) \in Instances
    BY DEF TypeOK, Results, Messages, Inst, Threads
  <2>2. /\ learned' \in [Instances -> OrgZones \cup BadZones \cup {NoZone}]
        /\ zoneFile' \in OrgZones \cup BadZones \cup {NoZone}
    BY <1>9, <2>1 DEF TypeOK, Forwarded, Learn, zones
  <2>3. UNCHANGED <<world, stored, restarts>>
    BY <1>9 DEF Forwarded
  <2>4. CASE Return(w, r)
    BY <2>1, <2>2, <2>3, <2>4, ReturnTypes DEF TypeOK, world, stored
  <2>5. CASE ~Return(w, r)
    BY <1>9, <2>2, <2>3, <2>5 DEF TypeOK, Forwarded, world, local, stored, PCs
  <2>6. QED BY <2>4, <2>5
<1>10. ASSUME NEW w \in Workers, ClearOk(w) \/ ClearFails(w)
       PROVE  TypeOK'
  <2> DEFINE ok == [ok |-> TRUE, pulled |-> pulled[w], cleared |-> TRUE, message |-> "forwarded"]
             ko == [ok |-> TRUE, pulled |-> pulled[w], cleared |-> FALSE, message |-> "clear failed"]
  <2>1. ok \in Results /\ ko \in Results
    BY DEF TypeOK, Results, Messages
  <2>2. /\ device' \in {{}, device}
        /\ UNCHANGED <<made, hrms, stored, zones, restarts>>
        /\ Return(w, ok) \/ Return(w, ko) \/ Panic(w)
    BY <1>10 DEF ClearOk, ClearFails
  <2>3. CASE Panic(w)
    BY <2>2, <2>3 DEF TypeOK, Panic, PCs, stored, zones
  <2>4. CASE Return(w, ok) \/ Return(w, ko)
    BY <2>1, <2>2, <2>4, ReturnTypes DEF TypeOK, stored, zones
  <2>5. QED BY <2>2, <2>3, <2>4
<1>11. ASSUME NEW w \in Workers, Release(w)
       PROVE  TypeOK'
  BY <1>11 DEF TypeOK, Release, world, local, stored, zones, PCs
<1>12. ASSUME NEW w \in Workers, StoreMemory(w)
       PROVE  TypeOK'
  BY <1>12 DEF TypeOK, StoreMemory, world, local, zones, PCs
<1>13. ASSUME NEW w \in Workers, StoreFile(w)
       PROVE  TypeOK'
  BY <1>13 DEF TypeOK, StoreFile, world, local, zones, PCs
<1>14. ASSUME NEW q \in Probers, Probe(q) \/ ProbeEnd(q)
       PROVE  TypeOK'
  BY <1>14 DEF TypeOK, Probe, ProbeEnd, world, local, stored, zones, Threads
<1>15. ASSUME NEW i \in Instances, Restart(i)
       PROVE  TypeOK'
  BY <1>15 DEF TypeOK, Restart, LoadedZone, world, PCs
<1>16. CASE UNCHANGED vars
  BY <1>16 DEF TypeOK, vars, world, local, stored, zones
<1>17. QED
  BY <1>1, <1>2, <1>3, <1>4, <1>5, <1>6, <1>7, <1>8, <1>9, <1>10, <1>11, <1>12, <1>13,
     <1>14, <1>15, <1>16 DEF Next, SyncStep

\* Every reachable state is well typed; in particular the device never holds a
\* record nobody made.
THEOREM TypeCorrect == Spec => []TypeOK
<1>1. Init => TypeOK
  BY DataAssumption DEF Init, TypeOK, PCs
<1>2. QED BY <1>1, TypeStep, PTL DEF Spec

-----------------------------------------------------------------------------
\* The lock.

\* A step of a worker inside its sync leaves the other workers and the locks
\* of the other instances alone; leaving the sync frees or poisons the lock.
LEMMA LeaveSync ==
  ASSUME TypeOK, LockMatchesSync,
         NEW w \in Workers, pc[w] \in InSync,
         NEW l \in {"free", "poisoned"}, NEW to \in PCs \ InSync,
         lock' = [lock EXCEPT ![Inst(w)] = l],
         pc' = [pc EXCEPT ![w] = to]
  PROVE  LockMatchesSync'
<1> SUFFICES ASSUME NEW v \in Workers
             PROVE  (pc[v] \in InSync <=> lock[Inst(v)] = v)'
  BY DEF LockMatchesSync
<1> USE ThreadsAssumption
<1>1. Inst(w) \in Instances /\ Inst(v) \in Instances /\ lock[Inst(w)] = w
  BY DEF Inst, Threads, LockMatchesSync
<1>2. CASE v = w
  BY <1>1, <1>2 DEF TypeOK, Threads
<1>3. CASE v # w /\ Inst(v) = Inst(w)
  BY <1>1, <1>3 DEF TypeOK, LockMatchesSync, Threads
<1>4. CASE v # w /\ Inst(v) # Inst(w)
  BY <1>1, <1>4 DEF TypeOK, LockMatchesSync
<1>5. QED BY <1>2, <1>3, <1>4

\* A step that moves a worker within its sync, or outside it, and touches no
\* lock keeps the match.
LEMMA StayInPlace ==
  ASSUME TypeOK, LockMatchesSync, NEW w \in Workers, NEW to \in PCs,
         pc[w] \in InSync <=> to \in InSync,
         UNCHANGED lock,
         pc' = [pc EXCEPT ![w] = to]
  PROVE  LockMatchesSync'
BY DEF TypeOK, LockMatchesSync, Inst

\* The steps that end a sync: with a result, or with a panic.
LEMMA EndsMatch ==
  ASSUME TypeOK, LockMatchesSync, NEW w \in Workers, pc[w] \in InSync,
         (\E r \in Results : Return(w, r)) \/ Panic(w)
  PROVE  LockMatchesSync'
<1>1. CASE \E r \in Results : Return(w, r)
  <2>1. UNCHANGED lock /\ pc' = [pc EXCEPT ![w] = "release"]
    BY <1>1 DEF Return
  <2>2. QED BY <2>1, StayInPlace DEF PCs, InSync
<1>2. CASE Panic(w)
  <2>1. /\ lock' = [lock EXCEPT ![Inst(w)] = "poisoned"]
        /\ pc' = [pc EXCEPT ![w] = "dead"]
    BY <1>2 DEF Panic
  <2>2. QED BY <2>1, LeaveSync DEF PCs, InSync
<1>3. QED BY <1>1, <1>2

\* Every step keeps the lock and the workers in step.
LEMMA LockStep == TypeOK /\ LockMatchesSync /\ [Next]_vars => LockMatchesSync'
<1> SUFFICES ASSUME TypeOK, LockMatchesSync, [Next]_vars
             PROVE  LockMatchesSync'
  OBVIOUS
<1>1. ASSUME NEW p \in Punches, Punch(p)
      PROVE  LockMatchesSync'
  BY <1>1 DEF Punch, LockMatchesSync
<1>2. ASSUME NEW w \in Workers, StartSync(w)
      PROVE  LockMatchesSync'
  <2> SUFFICES ASSUME NEW v \in Workers
               PROVE  (pc[v] \in InSync <=> lock[Inst(v)] = v)'
    BY DEF LockMatchesSync
  <2> USE ThreadsAssumption
  <2>1. Inst(w) \in Instances /\ Inst(v) \in Instances
    BY DEF Inst, Threads
  <2>2. /\ lock[Inst(w)] = "free"
        /\ lock' = [lock EXCEPT ![Inst(w)] = w]
        /\ pc' = [pc EXCEPT ![w] = "connect"]
    BY <1>2 DEF StartSync
  <2>3. v # "free"
    BY DEF Threads
  <2>4. CASE v = w
    BY <2>1, <2>2, <2>4 DEF TypeOK, InSync
  <2>5. CASE v # w
    <3>1. pc'[v] = pc[v]
      BY <2>2, <2>5 DEF TypeOK
    <3>2. CASE Inst(v) = Inst(w)
      <4>1. lock'[Inst(v)] = w /\ pc[v] \notin InSync
        BY <2>1, <2>2, <2>3, <3>2 DEF TypeOK, LockMatchesSync
      <4>2. QED BY <2>5, <3>1, <4>1 DEF Inst
    <3>3. CASE Inst(v) # Inst(w)
      <4>1. lock'[Inst(v)] = lock[Inst(v)]
        BY <2>1, <2>2, <3>3 DEF TypeOK
      <4>2. QED BY <3>1, <4>1 DEF Inst, LockMatchesSync
    <3>4. QED BY <3>2, <3>3
  <2>6. QED BY <2>4, <2>5
<1>3. ASSUME NEW w \in Workers, SkipSync(w)
      PROVE  LockMatchesSync'
  BY <1>3, StayInPlace DEF SkipSync, PCs, InSync
<1>4. ASSUME NEW w \in Workers, ConnectOk(w)
      PROVE  LockMatchesSync'
  BY <1>4, StayInPlace DEF ConnectOk, PCs, InSync
<1>5. ASSUME NEW w \in Workers, NEW S \in SUBSET Punches, Fail(w, S), pc[w] \in InSync
      PROVE  LockMatchesSync'
  <2>1. [ok |-> FALSE, pulled |-> S, cleared |-> FALSE, message |-> "failed"] \in Results
    BY DEF Results, Messages
  <2>2. QED BY <1>5, <2>1, EndsMatch DEF Fail
<1>6. ASSUME NEW w \in Workers, ConnectFails(w) \/ PullFails(w) \/ PostFails(w)
      PROVE  LockMatchesSync'
  <2>1. pc[w] \in InSync /\ (Fail(w, {}) \/ Fail(w, pulled[w]))
    BY <1>6 DEF ConnectFails, PullFails, PostFails, InSync
  <2>2. {} \in SUBSET Punches /\ pulled[w] \in SUBSET Punches
    BY DEF TypeOK
  <2>3. QED BY <1>5, <2>1, <2>2
<1>7. ASSUME NEW w \in Workers, PullOk(w)
      PROVE  LockMatchesSync'
  <2>0. PICK S \in Pullable : TakePull(w, S)
    BY <1>7 DEF PullOk
  <2> DEFINE r == [ok |-> TRUE, pulled |-> S, cleared |-> FALSE, message |-> "nothing"]
  <2>1. r \in Results
    BY PullablePart DEF TypeOK, Results, Messages
  <2>2. pc[w] = "pull" /\ (Return(w, r) \/ (UNCHANGED lock /\ pc' = [pc EXCEPT ![w] = "forward"]))
    BY <1>7, <2>0 DEF PullOk, TakePull
  <2>3. QED BY <2>1, <2>2, EndsMatch, StayInPlace DEF PCs, InSync
<1>8. ASSUME NEW w \in Workers, PostAcked(w)
      PROVE  LockMatchesSync'
  BY <1>8 DEF PostAcked, LockMatchesSync
<1>9. ASSUME NEW w \in Workers, Forwarded(w)
      PROVE  LockMatchesSync'
  <2> DEFINE r == [ok |-> TRUE, pulled |-> pulled[w], cleared |-> FALSE, message |-> "forwarded"]
  <2>1. r \in Results
    BY DEF TypeOK, Results, Messages
  <2>2. pc[w] = "forward" /\ (Return(w, r) \/ (UNCHANGED lock /\ pc' = [pc EXCEPT ![w] = "clear"]))
    BY <1>9 DEF Forwarded
  <2>3. QED BY <2>1, <2>2, EndsMatch, StayInPlace DEF PCs, InSync
<1>10. ASSUME NEW w \in Workers, ClearOk(w) \/ ClearFails(w)
       PROVE  LockMatchesSync'
  <2> DEFINE ok == [ok |-> TRUE, pulled |-> pulled[w], cleared |-> TRUE, message |-> "forwarded"]
             ko == [ok |-> TRUE, pulled |-> pulled[w], cleared |-> FALSE, message |-> "clear failed"]
  <2>1. ok \in Results /\ ko \in Results
    BY DEF TypeOK, Results, Messages
  <2>2. pc[w] = "clear" /\ (Return(w, ok) \/ Return(w, ko) \/ Panic(w))
    BY <1>10 DEF ClearOk, ClearFails
  <2>3. QED BY <2>1, <2>2, EndsMatch DEF InSync
<1>11. ASSUME NEW w \in Workers, Release(w)
       PROVE  LockMatchesSync'
  BY <1>11, LeaveSync DEF Release, PCs, InSync
<1>12. ASSUME NEW w \in Workers, StoreMemory(w)
       PROVE  LockMatchesSync'
  BY <1>12, StayInPlace DEF StoreMemory, PCs, InSync
<1>13. ASSUME NEW w \in Workers, StoreFile(w)
       PROVE  LockMatchesSync'
  BY <1>13, StayInPlace DEF StoreFile, PCs, InSync
<1>14. ASSUME NEW q \in Probers, Probe(q) \/ ProbeEnd(q)
       PROVE  LockMatchesSync'
  <2> SUFFICES ASSUME NEW v \in Workers
               PROVE  (pc[v] \in InSync <=> lock[Inst(v)] = v)'
    BY DEF LockMatchesSync
  <2> USE ThreadsAssumption
  <2>1. Inst(q) \in Instances /\ Inst(v) \in Instances /\ v # q /\ v # "free"
    BY DEF Inst, Threads
  <2>2. \E l \in {q, "free"} : lock' = [lock EXCEPT ![Inst(q)] = l]
    BY <1>14 DEF Probe, ProbeEnd
  <2>3. lock[Inst(q)] \in {q, "free"} /\ UNCHANGED pc
    BY <1>14 DEF Probe, ProbeEnd
  <2>4. lock'[Inst(v)] = v <=> lock[Inst(v)] = v
    BY <2>1, <2>2, <2>3 DEF TypeOK
  <2>5. QED BY <2>3, <2>4 DEF LockMatchesSync, Inst
<1>15. ASSUME NEW i \in Instances, Restart(i)
       PROVE  LockMatchesSync'
  <2> SUFFICES ASSUME NEW v \in Workers
               PROVE  (pc[v] \in InSync <=> lock[Inst(v)] = v)'
    BY DEF LockMatchesSync
  <2>1. v # "free" /\ Inst(v) \in Instances
    BY ThreadsAssumption DEF Inst, Threads
  <2>2. /\ lock' = [lock EXCEPT ![i] = "free"]
        /\ pc' = [w \in Workers |-> IF w \in {u \in Workers : Inst(u) = i} THEN "idle" ELSE pc[w]]
    BY <1>15 DEF Restart
  <2>3. CASE Inst(v) = i
    BY <2>1, <2>2, <2>3 DEF TypeOK, InSync, Inst
  <2>4. CASE Inst(v) # i
    BY <2>1, <2>2, <2>4 DEF TypeOK, LockMatchesSync, Inst
  <2>5. QED BY <2>3, <2>4
<1>16. CASE UNCHANGED vars
  BY <1>16 DEF vars, LockMatchesSync
<1>17. QED
  BY <1>1, <1>2, <1>3, <1>4, <1>6, <1>7, <1>8, <1>9, <1>10, <1>11, <1>12, <1>13,
     <1>14, <1>15, <1>16 DEF Next, SyncStep

\* In every process at most one worker is in the locked part of sync_once, and
\* it is the one that holds the lock: through skips, failures and restarts.
THEOREM LockHeldExactlyInSync == Spec => []LockMatchesSync
<1>1. Init => LockMatchesSync
  BY ThreadsAssumption DEF Init, LockMatchesSync, InSync, Inst, Threads
<1>2. QED BY <1>1, TypeCorrect, LockStep, PTL DEF Spec

-----------------------------------------------------------------------------
\* The data of a sync.

\* What TypeOK does not say of a worker's copies: it holds records only while
\* it forwards or clears, sends only what it pulled, forwards only if there is
\* something to forward, and clears only when nothing is left to send.
SyncPhase(w) ==
  /\ pulled[w] # {} => pc[w] \in {"forward", "clear"}
  /\ PunchesOf(todo[w]) \subseteq pulled[w] \cap Mappable
  /\ pc[w] = "clear" => todo[w] = {}
  /\ pc[w] \in {"forward", "clear"} => pulled[w] \cap Mappable # {}

SyncPhases == \A w \in Workers : SyncPhase(w)

\* The end of a sync drops the worker's copies.
LEMMA EndsPhase ==
  ASSUME TypeOK, SyncPhases, NEW w \in Workers,
         (\E r \in Results : Return(w, r)) \/ Panic(w)
  PROVE  SyncPhases'
<1> SUFFICES ASSUME NEW v \in Workers
             PROVE  SyncPhase(v)'
  BY DEF SyncPhases
<1>1. \E to \in {"release", "dead"} :
        /\ pc' = [pc EXCEPT ![w] = to]
        /\ pulled' = [pulled EXCEPT ![w] = {}]
        /\ todo' = [todo EXCEPT ![w] = {}]
  BY DEF Return, Panic
<1>2. CASE v = w
  BY <1>1, <1>2 DEF TypeOK, SyncPhase, PunchesOf
<1>3. CASE v # w
  BY <1>1, <1>3 DEF TypeOK, SyncPhases, SyncPhase, PunchesOf
<1>4. QED BY <1>2, <1>3

\* So does a step that moves a worker between places where it holds nothing.
LEMMA ElsewherePhase ==
  ASSUME TypeOK, SyncPhases, NEW w \in Workers,
         NEW to \in PCs \ {"forward", "clear"},
         pc[w] \notin {"forward", "clear"},
         pc' = [pc EXCEPT ![w] = to], UNCHANGED local
  PROVE  SyncPhases'
BY DEF TypeOK, SyncPhases, SyncPhase, PunchesOf, local

\* Every step keeps the phases.
LEMMA PhaseStep == TypeOK /\ SyncPhases /\ [Next]_vars => SyncPhases'
<1> SUFFICES ASSUME TypeOK, SyncPhases, [Next]_vars
             PROVE  SyncPhases'
  OBVIOUS
<1>1. CASE UNCHANGED <<pc, local>>
  BY <1>1 DEF SyncPhases, SyncPhase, PunchesOf, local
<1>2. ASSUME NEW w \in Workers,
             StartSync(w) \/ SkipSync(w) \/ ConnectOk(w) \/ Release(w)
               \/ StoreMemory(w) \/ StoreFile(w)
      PROVE  SyncPhases'
  <2>1. /\ pc[w] \notin {"forward", "clear"} /\ UNCHANGED local
        /\ \E to \in PCs \ {"forward", "clear"} : pc' = [pc EXCEPT ![w] = to]
    BY <1>2 DEF StartSync, SkipSync, ConnectOk, Release, StoreMemory, StoreFile, PCs
  <2>2. QED BY <2>1, ElsewherePhase
<1>3. ASSUME NEW w \in Workers, ConnectFails(w) \/ PullFails(w) \/ PostFails(w)
      PROVE  SyncPhases'
  <2>1. Fail(w, {}) \/ Fail(w, pulled[w])
    BY <1>3 DEF ConnectFails, PullFails, PostFails
  <2>2. \A S \in SUBSET Punches :
          [ok |-> FALSE, pulled |-> S, cleared |-> FALSE, message |-> "failed"] \in Results
    BY DEF Results, Messages
  <2>3. (\E r \in Results : Return(w, r)) \/ Panic(w)
    BY <2>1, <2>2 DEF Fail, TypeOK
  <2>4. QED BY <2>3, EndsPhase
<1>4. ASSUME NEW w \in Workers, PullOk(w)
      PROVE  SyncPhases'
  <2>0. PICK S \in Pullable : TakePull(w, S)
    BY <1>4 DEF PullOk
  <2> DEFINE E == ToHrmsEvents(S, ResolveZone(Inst(w)))
             r == [ok |-> TRUE, pulled |-> S, cleared |-> FALSE, message |-> "nothing"]
  <2>1. r \in Results /\ S \subseteq Punches /\ Inst(w) \in Instances
    BY PullablePart, ThreadsAssumption DEF TypeOK, Results, Messages, Inst, Threads
  <2>2. CASE Return(w, r)
    BY <2>1, <2>2, EndsPhase
  <2>3. CASE ~Return(w, r)
    <3>1. /\ E # {}
          /\ pulled' = [pulled EXCEPT ![w] = S]
          /\ todo' = [todo EXCEPT ![w] = E]
          /\ pc' = [pc EXCEPT ![w] = "forward"]
      BY <2>0, <2>3 DEF TakePull
    <3>2. PunchesOf(E) = S \cap Mappable
      BY <2>1, ResolvedZone, MappedEvents
    <3>3. PunchesOf(E) # {}
      BY <3>1 DEF PunchesOf
    <3> HIDE DEF E
    <3>4. ASSUME NEW v \in Workers
          PROVE  SyncPhase(v)'
      <4>1. CASE v = w
        BY <3>1, <3>2, <3>3, <4>1 DEF TypeOK, SyncPhase, PunchesOf
      <4>2. CASE v # w
        BY <3>1, <4>2 DEF TypeOK, SyncPhases, SyncPhase, PunchesOf
      <4>3. QED BY <4>1, <4>2
    <3>5. QED BY <3>4 DEF SyncPhases
  <2>4. QED BY <2>2, <2>3
<1>5. ASSUME NEW w \in Workers, PostAcked(w)
      PROVE  SyncPhases'
  <2>1. /\ UNCHANGED <<pc, pulled>> /\ pc[w] = "forward"
        /\ todo' = [todo EXCEPT ![w] = @ \ NextBatch(todo[w])]
    BY <1>5 DEF PostAcked
  <2>2. ASSUME NEW v \in Workers
        PROVE  SyncPhase(v)'
    <3>1. todo'[v] \subseteq todo[v] /\ (pc[v] = "clear" => v # w)
      BY <2>1 DEF TypeOK
    <3>2. QED BY <2>1, <3>1 DEF TypeOK, SyncPhases, SyncPhase, PunchesOf
  <2>3. QED BY <2>2 DEF SyncPhases
<1>6. ASSUME NEW w \in Workers, Forwarded(w)
      PROVE  SyncPhases'
  <2> DEFINE r == [ok |-> TRUE, pulled |-> pulled[w], cleared |-> FALSE, message |-> "forwarded"]
  <2>1. r \in Results
    BY DEF TypeOK, Results, Messages
  <2>2. CASE Return(w, r)
    BY <2>1, <2>2, EndsPhase
  <2>3. CASE ~Return(w, r)
    <3>1. /\ pc[w] = "forward" /\ todo[w] = {}
          /\ UNCHANGED local /\ pc' = [pc EXCEPT ![w] = "clear"]
      BY <1>6, <2>3 DEF Forwarded
    <3>2. QED BY <3>1 DEF TypeOK, SyncPhases, SyncPhase, PunchesOf, local
  <2>4. QED BY <2>2, <2>3
<1>7. ASSUME NEW w \in Workers, ClearOk(w) \/ ClearFails(w)
      PROVE  SyncPhases'
  <2> DEFINE ok == [ok |-> TRUE, pulled |-> pulled[w], cleared |-> TRUE, message |-> "forwarded"]
             ko == [ok |-> TRUE, pulled |-> pulled[w], cleared |-> FALSE, message |-> "clear failed"]
  <2>1. ok \in Results /\ ko \in Results
    BY DEF TypeOK, Results, Messages
  <2>2. Return(w, ok) \/ Return(w, ko) \/ Panic(w)
    BY <1>7 DEF ClearOk, ClearFails
  <2>3. QED BY <2>1, <2>2, EndsPhase
<1>8. ASSUME NEW i \in Instances, Restart(i)
      PROVE  SyncPhases'
  <2>1. ASSUME NEW v \in Workers
        PROVE  SyncPhase(v)'
    <3>1. CASE Inst(v) = i
      <4>1. pc'[v] = "idle" /\ pulled'[v] = {} /\ todo'[v] = {}
        BY <1>8, <3>1 DEF Restart
      <4>2. QED BY <4>1 DEF SyncPhase, PunchesOf
    <3>2. CASE Inst(v) # i
      <4>1. pc'[v] = pc[v] /\ pulled'[v] = pulled[v] /\ todo'[v] = todo[v]
        BY <1>8, <3>2 DEF Restart
      <4>2. QED BY <4>1 DEF SyncPhases, SyncPhase, PunchesOf
    <3>3. QED BY <3>1, <3>2
  <2>2. QED BY <2>1 DEF SyncPhases
<1>9. ASSUME \/ \E p \in Punches : Punch(p)
             \/ \E q \in Probers : Probe(q) \/ ProbeEnd(q)
             \/ UNCHANGED vars
      PROVE  SyncPhases'
  BY <1>1, <1>9 DEF Punch, Probe, ProbeEnd, vars
<1>10. QED
  BY <1>2, <1>3, <1>4, <1>5, <1>6, <1>7, <1>8, <1>9 DEF Next, SyncStep

LEMMA PhasesHold == Spec => []SyncPhases
<1>1. Init => SyncPhases
  BY DEF Init, SyncPhases, SyncPhase, PunchesOf
<1>2. QED BY <1>1, TypeCorrect, PhaseStep, PTL DEF Spec

-----------------------------------------------------------------------------
\* What an HRMS that keeps every batch it accepts makes of it.

\* HRMS forgets nothing.
LEMMA HrmsGrows ==
  ASSUME [Next]_vars
  PROVE  hrms \subseteq hrms'
BY DEF Next, SyncStep, Punch, StartSync, SkipSync, ConnectOk, ConnectFails, PullOk,
   PullFails, PostAcked, PostFails, Forwarded, ClearOk, ClearFails, Release, StoreMemory,
   StoreFile, Probe, ProbeEnd, Restart, world, vars

\* What becomes of a worker's copies in one step: they are untouched or gone,
\* or they are a fresh pull, or one batch of them has reached HRMS.
CopyStep(v) ==
  \/ UNCHANGED <<pulled[v], todo[v]>>
  \/ pulled'[v] = {}
  \/ pulled'[v] \cap Mappable \subseteq PunchesOf(todo'[v])
  \/ /\ pulled'[v] = pulled[v]
     /\ todo[v] \subseteq todo'[v] \cup hrms'

LEMMA EveryCopyStep ==
  ASSUME ~PartialAccept, TypeOK, [Next]_vars, NEW v \in Workers
  PROVE  CopyStep(v)
<1>1. CASE UNCHANGED local
  BY <1>1 DEF CopyStep, local
<1>2. ASSUME NEW w \in Workers, NEW r, Return(w, r) \/ Panic(w)
      PROVE  CopyStep(v)
  <2>1. pulled' = [pulled EXCEPT ![w] = {}] /\ todo' = [todo EXCEPT ![w] = {}]
    BY <1>2 DEF Return, Panic
  <2>2. QED BY <2>1 DEF TypeOK, CopyStep
<1>3. ASSUME NEW w \in Workers,
             \/ ConnectFails(w) \/ PullFails(w) \/ PostFails(w)
             \/ ClearOk(w) \/ ClearFails(w)
      PROVE  CopyStep(v)
  <2>1. (\E r : Return(w, r)) \/ Panic(w)
    BY <1>3 DEF ConnectFails, PullFails, PostFails, ClearOk, ClearFails, Fail
  <2>2. QED BY <1>2, <2>1
<1>4. ASSUME NEW w \in Workers, PullOk(w)
      PROVE  CopyStep(v)
  <2>0. PICK S \in Pullable : TakePull(w, S)
    BY <1>4 DEF PullOk
  <2> DEFINE E == ToHrmsEvents(S, ResolveZone(Inst(w)))
             r == [ok |-> TRUE, pulled |-> S, cleared |-> FALSE, message |-> "nothing"]
  <2>1. S \subseteq Punches /\ Inst(w) \in Instances
    BY PullablePart, ThreadsAssumption DEF TypeOK, Inst, Threads
  <2>2. CASE Return(w, r)
    BY <1>2, <2>2
  <2>3. CASE ~Return(w, r)
    <3>1. pulled' = [pulled EXCEPT ![w] = S] /\ todo' = [todo EXCEPT ![w] = E]
      BY <2>0, <2>3 DEF TakePull
    <3>2. PunchesOf(E) = S \cap Mappable
      BY <2>1, ResolvedZone, MappedEvents
    <3> HIDE DEF E
    <3>3. CASE v = w
      BY <3>1, <3>2, <3>3 DEF TypeOK, CopyStep
    <3>4. CASE v # w
      BY <3>1, <3>4 DEF TypeOK, CopyStep
    <3>5. QED BY <3>3, <3>4
  <2>4. QED BY <2>2, <2>3
<1>5. ASSUME NEW w \in Workers, PostAcked(w)
      PROVE  CopyStep(v)
  <2> DEFINE B == NextBatch(todo[w])
  <2>1. hrms' = hrms \cup B
    BY <1>5, KeptWhole DEF PostAcked
  <2>2. todo' = [todo EXCEPT ![w] = todo[w] \ B] /\ UNCHANGED pulled
    BY <1>5 DEF PostAcked
  <2> HIDE DEF B
  <2>3. QED BY <2>1, <2>2 DEF TypeOK, CopyStep
<1>6. ASSUME NEW w \in Workers, Forwarded(w)
      PROVE  CopyStep(v)
  <2>1. UNCHANGED local \/ (\E r : Return(w, r))
    BY <1>6 DEF Forwarded
  <2>2. QED BY <1>1, <1>2, <2>1
<1>7. ASSUME NEW i \in Instances, Restart(i)
      PROVE  CopyStep(v)
  BY <1>7 DEF Restart, CopyStep
<1>8. ASSUME \/ \E p \in Punches : Punch(p)
             \/ \E w \in Workers :
                  \/ StartSync(w) \/ SkipSync(w) \/ ConnectOk(w) \/ Release(w)
                  \/ StoreMemory(w) \/ StoreFile(w)
             \/ \E q \in Probers : Probe(q) \/ ProbeEnd(q)
             \/ UNCHANGED vars
      PROVE  CopyStep(v)
  BY <1>1, <1>8 DEF Punch, StartSync, SkipSync, ConnectOk, Release, StoreMemory, StoreFile,
     Probe, ProbeEnd, vars
<1>9. QED BY <1>3, <1>4, <1>5, <1>6, <1>7, <1>8 DEF Next, SyncStep

LEMMA NothingDroppedStep ==
  ASSUME ~PartialAccept, TypeOK, NothingDropped, [Next]_vars
  PROVE  NothingDropped'
<1> SUFFICES ASSUME NEW v \in Workers
             PROVE  pulled'[v] \cap Mappable \subseteq PunchesOf(todo'[v]) \cup PunchesOf(hrms')
  BY DEF NothingDropped, PunchesOf
<1>1. hrms \subseteq hrms' /\ CopyStep(v)
  BY HrmsGrows, EveryCopyStep
<1>2. PunchesOf(hrms) \subseteq PunchesOf(hrms')
  BY <1>1 DEF PunchesOf
<1>3. pulled[v] \cap Mappable \subseteq PunchesOf(todo[v]) \cup PunchesOf(hrms)
  BY DEF NothingDropped
<1>4. CASE todo[v] \subseteq todo'[v] \cup hrms' /\ pulled'[v] = pulled[v]
  <2>1. PunchesOf(todo[v]) \subseteq PunchesOf(todo'[v]) \cup PunchesOf(hrms')
    BY <1>4 DEF PunchesOf
  <2>2. QED BY <1>2, <1>3, <1>4, <2>1
<1>5. QED BY <1>1, <1>2, <1>3, <1>4 DEF CopyStep

\* No deliverable record of a pull is ever lost sight of: it is still to be
\* sent or HRMS has it, through failed batches, retries and restarts.
THEOREM NothingDroppedAlways ==
  ASSUME ~PartialAccept
  PROVE  Spec => []NothingDropped
<1>1. Init => NothingDropped
  BY DEF Init, NothingDropped
<1>2. TypeOK /\ NothingDropped /\ [Next]_vars => NothingDropped'
  BY NothingDroppedStep
<1>3. QED BY <1>1, <1>2, TypeCorrect, PTL DEF Spec

-----------------------------------------------------------------------------
\* The safety rule: clear only what HRMS has.

\* A worker at the clear step has every deliverable record of its pull at HRMS.
LEMMA ClearIsSafe ==
  ASSUME SyncPhases, NothingDropped, NEW w \in Workers,
         pc[w] \in {"forward", "clear"}, todo[w] = {}
  PROVE  pulled[w] \cap Mappable \subseteq PunchesOf(hrms)
BY DEF NothingDropped, PunchesOf

LEMMA EraseStep ==
  ASSUME TypeOK, SyncPhases, NothingDropped, [Next]_vars, device \ device' # {}
  PROVE  \E w \in Workers :
           /\ pc[w] = "clear" /\ pc'[w] # "clear"
           /\ (device \ device') \cap pulled[w] \cap Mappable \subseteq PunchesOf(hrms)
<1>1. PICK w \in Workers : ClearOk(w) \/ ClearFails(w)
  BY DEF Next, SyncStep, Punch, StartSync, SkipSync, ConnectOk, ConnectFails, PullOk,
     PullFails, PostAcked, PostFails, Forwarded, Release, StoreMemory, StoreFile, Probe,
     ProbeEnd, Restart, world, vars
<1>2. pc[w] = "clear" /\ ((\E r : Return(w, r)) \/ Panic(w))
  BY <1>1 DEF ClearOk, ClearFails
<1>3. pc'[w] # "clear"
  BY <1>2 DEF TypeOK, Return, Panic
<1>4. todo[w] = {}
  BY <1>2 DEF SyncPhases, SyncPhase
<1>5. pulled[w] \cap Mappable \subseteq PunchesOf(hrms)
  BY <1>2, <1>4, ClearIsSafe
<1>6. QED BY <1>2, <1>3, <1>5

\* Only a sync that has delivered all it could of its pull empties the device,
\* however many processes sync it and whenever they die.
THEOREM EraseIsSafe ==
  ASSUME ~PartialAccept
  PROVE  Spec => SafeErase
<1>1. TypeOK /\ SyncPhases /\ NothingDropped /\ [Next]_vars =>
        [device \ device' # {} =>
           \E w \in Workers :
             /\ pc[w] = "clear" /\ pc'[w] # "clear"
             /\ (device \ device') \cap pulled[w] \cap Mappable \subseteq PunchesOf(hrms)]_vars
  BY EraseStep
<1>2. QED BY <1>1, TypeCorrect, PhasesHold, NothingDroppedAlways, PTL DEF Spec, SafeErase

-----------------------------------------------------------------------------
\* Truthful results.

\* A record at HRMS stays there, so a true result stays true.
LEMMA HonestForever ==
  ASSUME [Next]_vars, NEW r,
         r.message \in {"forwarded", "clear failed"} =>
           r.pulled \cap Mappable \subseteq PunchesOf(hrms)
  PROVE  r.message \in {"forwarded", "clear failed"} =>
           r.pulled \cap Mappable \subseteq PunchesOf(hrms')
BY HrmsGrows DEF PunchesOf

\* A new result of a worker is true, or is one it had before.
LEMMA NewResultHonest ==
  ASSUME TypeOK, SyncPhases, NothingDropped, ResultsHonest, [Next]_vars, NEW v \in Workers
  PROVE  \/ result'[v] = result[v]
         \/ Honest(result'[v])
<1>1. Honest(NoResult)
  BY DEF Honest, NoResult
<1>2. ASSUME NEW w \in Workers, NEW S \in SUBSET Punches, Fail(w, S)
      PROVE  result'[v] = result[v] \/ Honest(result'[v])
  <2>1. result' = result \/ result' = [result EXCEPT ![w] =
          [ok |-> FALSE, pulled |-> S, cleared |-> FALSE, message |-> "failed"]]
    BY <1>2 DEF Fail, Return, Panic
  <2>2. CASE v # w
    BY <2>1, <2>2 DEF TypeOK
  <2>3. CASE v = w
    <3>1. result'[v] = result[v] \/ result'[v].message = "failed"
      BY <2>1, <2>3 DEF TypeOK
    <3>2. QED BY <3>1 DEF Honest
  <2>4. QED BY <2>2, <2>3
<1>3. ASSUME NEW w \in Workers, ConnectFails(w) \/ PullFails(w) \/ PostFails(w)
      PROVE  result'[v] = result[v] \/ Honest(result'[v])
  <2>1. Fail(w, {}) \/ Fail(w, pulled[w])
    BY <1>3 DEF ConnectFails, PullFails, PostFails
  <2>2. QED BY <1>2, <2>1 DEF TypeOK
<1>4. ASSUME NEW w \in Workers, SkipSync(w) \/ PullOk(w)
      PROVE  result'[v] = result[v] \/ Honest(result'[v])
  <2>1. \/ result' = result
        \/ \E r \in [ok : BOOLEAN, pulled : SUBSET Punches, cleared : BOOLEAN,
                     message : {"in progress", "nothing"}] : result' = [result EXCEPT ![w] = r]
    BY <1>4, PullablePart DEF SkipSync, PullOk, TakePull, Return, TypeOK
  <2>2. QED BY <2>1 DEF TypeOK, Honest
<1>5. ASSUME NEW w \in Workers, Forwarded(w) \/ ClearOk(w) \/ ClearFails(w)
      PROVE  result'[v] = result[v] \/ Honest(result'[v])
  <2>1. pc[w] \in {"forward", "clear"} /\ todo[w] = {}
    BY <1>5 DEF Forwarded, ClearOk, ClearFails, SyncPhases, SyncPhase
  <2>2. \/ result' = result
        \/ \E r \in [ok : BOOLEAN, pulled : {pulled[w]}, cleared : BOOLEAN,
                     message : Messages] : result' = [result EXCEPT ![w] = r]
    BY <1>5 DEF Forwarded, ClearOk, ClearFails, Return, Panic, Messages
  <2>3. pulled[w] \cap Mappable \subseteq PunchesOf(hrms)
    BY <2>1, ClearIsSafe
  <2>4. QED BY <2>2, <2>3 DEF TypeOK, Honest
<1>6. ASSUME NEW w \in Workers, StoreFile(w)
      PROVE  result'[v] = result[v] \/ Honest(result'[v])
  BY <1>1, <1>6 DEF StoreFile, TypeOK
<1>7. ASSUME NEW i \in Instances, Restart(i)
      PROVE  result'[v] = result[v] \/ Honest(result'[v])
  BY <1>1, <1>7 DEF Restart
<1>8. ASSUME \/ \E p \in Punches : Punch(p)
             \/ \E w \in Workers :
                  \/ StartSync(w) \/ ConnectOk(w) \/ PostAcked(w) \/ Release(w)
                  \/ StoreMemory(w)
             \/ \E q \in Probers : Probe(q) \/ ProbeEnd(q)
             \/ UNCHANGED vars
      PROVE  result'[v] = result[v]
  BY <1>8 DEF Punch, StartSync, ConnectOk, PostAcked, Release, StoreMemory, Probe, ProbeEnd, vars
<1>9. QED BY <1>3, <1>4, <1>5, <1>6, <1>7, <1>8 DEF Next, SyncStep

\* What is stored, in memory or on disk, is a worker's result, was stored, or is
\* unreadable.
LEMMA StoredFromResults ==
  ASSUME TypeOK, [Next]_vars
  PROVE  /\ \A i \in Instances : lastResult'[i] \in {lastResult[i], resultFile}
                                                \cup {result[w] : w \in Workers}
         /\ resultFile' \in {resultFile, NoResult} \cup {result[w] : w \in Workers}
<1>1. CASE UNCHANGED stored
  BY <1>1 DEF stored
<1>2. ASSUME NEW w \in Workers, StoreMemory(w) \/ StoreFile(w)
      PROVE  /\ \A i \in Instances : lastResult'[i] \in {lastResult[i], resultFile}
                                                    \cup {result[v] : v \in Workers}
             /\ resultFile' \in {resultFile, NoResult} \cup {result[v] : v \in Workers}
  BY <1>2 DEF StoreMemory, StoreFile, TypeOK
<1>3. ASSUME NEW j \in Instances, Restart(j)
      PROVE  /\ \A i \in Instances : lastResult'[i] \in {lastResult[i], resultFile}
             /\ resultFile' = resultFile
  BY <1>3 DEF Restart, TypeOK
<1>4. ASSUME \/ \E p \in Punches : Punch(p)
             \/ \E w \in Workers :
                  \/ StartSync(w) \/ SkipSync(w) \/ ConnectOk(w) \/ ConnectFails(w)
                  \/ PullOk(w) \/ PullFails(w) \/ PostAcked(w) \/ PostFails(w)
                  \/ Forwarded(w) \/ ClearOk(w) \/ ClearFails(w) \/ Release(w)
             \/ \E q \in Probers : Probe(q) \/ ProbeEnd(q)
             \/ UNCHANGED vars
      PROVE  UNCHANGED stored
  BY <1>4 DEF Punch, StartSync, SkipSync, ConnectOk, ConnectFails, PullOk, PullFails,
     PostAcked, PostFails, Forwarded, ClearOk, ClearFails, Release, Probe, ProbeEnd, vars
<1>5. QED BY <1>1, <1>2, <1>3, <1>4 DEF Next, SyncStep

LEMMA HonestStep ==
  ASSUME TypeOK, SyncPhases, NothingDropped, ResultsHonest, [Next]_vars
  PROVE  ResultsHonest'
<1> DEFINE Told(r) == r.message \in {"forwarded", "clear failed"} =>
                        r.pulled \cap Mappable \subseteq PunchesOf(hrms)
           Tells(r) == r.message \in {"forwarded", "clear failed"} =>
                         r.pulled \cap Mappable \subseteq PunchesOf(hrms')
<1>1. \A r : Told(r) => Tells(r)
  BY HonestForever
<1>2. /\ \A w \in Workers : Told(result[w])
      /\ \A i \in Instances : Told(lastResult[i])
      /\ Told(resultFile)
      /\ Told(NoResult)
  BY DEF ResultsHonest, Honest, NoResult
<1>3. ASSUME NEW v \in Workers
      PROVE  Tells(result'[v])
  <2>1. result'[v] = result[v] \/ Told(result'[v])
    BY NewResultHonest DEF Honest
  <2> HIDE DEF Told, Tells
  <2>2. QED BY <1>1, <1>2, <2>1
<1>4. (\A i \in Instances : Tells(lastResult'[i])) /\ Tells(resultFile')
  <2> HIDE DEF Told, Tells
  <2>1. QED BY <1>1, <1>2, StoredFromResults
<1>5. QED BY <1>3, <1>4 DEF ResultsHonest, Honest, PunchesOf

\* A result that says a pull was forwarded is never a lie: not in a worker, not
\* in the memory of a process, not on disk after restarts.
THEOREM ResultsAlwaysHonest ==
  ASSUME ~PartialAccept
  PROVE  Spec => []ResultsHonest
<1>1. Init => ResultsHonest
  <2>1. Honest(NoResult)
    BY DEF Honest, NoResult
  <2> SUFFICES ASSUME Init
               PROVE  ResultsHonest
    OBVIOUS
  <2>2. /\ \A w \in Workers : result[w] = NoResult
        /\ \A i \in Instances : lastResult[i] = NoResult
        /\ resultFile = NoResult
    BY DEF Init
  <2>3. QED BY <2>1, <2>2 DEF ResultsHonest
<1>2. TypeOK /\ SyncPhases /\ NothingDropped /\ ResultsHonest /\ [Next]_vars => ResultsHonest'
  BY HonestStep
<1>3. QED BY <1>1, <1>2, TypeCorrect, PhasesHold, NothingDroppedAlways, PTL DEF Spec

-----------------------------------------------------------------------------
\* Where the events of a sync come from.

\* A worker gets events from a pull of its own, and from nowhere else.
LEMMA EventsFromPull ==
  ASSUME TypeOK, [Next]_vars, NEW v \in Workers
  PROVE  \/ todo'[v] \subseteq todo[v]
         \/ \E S \in Pullable : todo'[v] = ToHrmsEvents(S, ResolveZone(Inst(v)))
<1> DEFINE Goal == \/ todo'[v] \subseteq todo[v]
                   \/ \E S \in Pullable : todo'[v] = ToHrmsEvents(S, ResolveZone(Inst(v)))
<1>1. CASE UNCHANGED local
  BY <1>1 DEF local
<1>2. ASSUME NEW w \in Workers, NEW r, Return(w, r) \/ Panic(w)
      PROVE  Goal
  <2>1. todo' = [todo EXCEPT ![w] = {}]
    BY <1>2 DEF Return, Panic
  <2>2. QED BY <2>1 DEF TypeOK
<1>3. ASSUME NEW w \in Workers,
             \/ ConnectFails(w) \/ PullFails(w) \/ PostFails(w)
             \/ ClearOk(w) \/ ClearFails(w)
      PROVE  Goal
  <2>1. (\E r : Return(w, r)) \/ Panic(w)
    BY <1>3 DEF ConnectFails, PullFails, PostFails, ClearOk, ClearFails, Fail
  <2>2. QED BY <2>1, <1>2
<1>4. ASSUME NEW w \in Workers, PullOk(w)
      PROVE  Goal
  <2>1. PICK S \in Pullable : TakePull(w, S)
    BY <1>4 DEF PullOk
  <2> DEFINE E == ToHrmsEvents(S, ResolveZone(Inst(w)))
  <2>2. (\E r : Return(w, r)) \/ todo' = [todo EXCEPT ![w] = E]
    BY <2>1 DEF TakePull
  <2> HIDE DEF E
  <2>3. CASE todo' = [todo EXCEPT ![w] = E]
    <3>1. CASE v = w
      BY <2>3, <3>1 DEF TypeOK, E
    <3>2. CASE v # w
      BY <2>3, <3>2 DEF TypeOK
    <3>3. QED BY <3>1, <3>2
  <2>4. QED BY <2>2, <2>3, <1>2
<1>5. ASSUME NEW w \in Workers, PostAcked(w)
      PROVE  Goal
  BY <1>5 DEF TypeOK, PostAcked
<1>6. ASSUME NEW w \in Workers, Forwarded(w)
      PROVE  Goal
  <2>1. (\E r : Return(w, r)) \/ UNCHANGED local
    BY <1>6 DEF Forwarded
  <2>2. QED BY <2>1, <1>1, <1>2
<1>7. ASSUME NEW i \in Instances, Restart(i)
      PROVE  Goal
  BY <1>7 DEF Restart
<1>8. ASSUME NEW w \in Workers,
             StartSync(w) \/ SkipSync(w) \/ ConnectOk(w) \/ Release(w)
               \/ StoreMemory(w) \/ StoreFile(w)
      PROVE  Goal
  BY <1>1, <1>8 DEF StartSync, SkipSync, ConnectOk, Release, StoreMemory, StoreFile
<1>9. ASSUME \/ \E p \in Punches : Punch(p)
             \/ \E q \in Probers : Probe(q) \/ ProbeEnd(q)
             \/ UNCHANGED vars
      PROVE  Goal
  BY <1>1, <1>9 DEF Punch, Probe, ProbeEnd, vars
<1>10. QED
  BY <1>3, <1>4, <1>5, <1>6, <1>7, <1>8, <1>9 DEF Next, SyncStep

\* HRMS stores an event only when a worker has it to send.
LEMMA HrmsFromWorkers ==
  ASSUME [Next]_vars, NEW e \in hrms' \ hrms
  PROVE  \E w \in Workers : e \in todo[w]
<1>1. CASE UNCHANGED hrms
  BY <1>1
<1>2. ASSUME NEW w \in Workers, PostAcked(w) \/ PostFails(w)
      PROVE  e \in todo[w]
  <2>1. PICK S \in Kept(NextBatch(todo[w])) \cup {{}} : hrms' = hrms \cup S
    BY <1>2 DEF PostAcked, PostFails
  <2>2. S \subseteq todo[w]
    BY KeptPart, BatchIsPart
  <2>3. QED BY <2>1, <2>2
<1>3. QED
  BY <1>1, <1>2 DEF Next, SyncStep, Punch, StartSync, SkipSync, ConnectOk, ConnectFails,
     PullOk, PullFails, Forwarded, ClearOk, ClearFails, Release, StoreMemory, StoreFile,
     Probe, ProbeEnd, Restart, world, vars

-----------------------------------------------------------------------------
\* firstInLastOut, for a device that is read whole and never cleared.

\* Such a device holds every record, and no worker comes to the clear step.
NeverCleared == device = made /\ \A w \in Workers : pc[w] # "clear"

LEMMA NeverClearedStep ==
  ASSUME ~ClearAfterSync, ClearThreshold = 0,
         TypeOK, NeverCleared, [Next]_vars
  PROVE  NeverCleared'
<1>1. device' = made'
  BY DEF NeverCleared, Next, SyncStep, Punch, StartSync, SkipSync, ConnectOk, ConnectFails,
     PullOk, PullFails, PostAcked, PostFails, Forwarded, ClearOk, ClearFails, Release,
     StoreMemory, StoreFile, Probe, ProbeEnd, Restart, world, vars
<1>2. ASSUME NEW v \in Workers
      PROVE  pc'[v] # "clear"
  <2>1. CASE UNCHANGED pc
    BY <2>1 DEF NeverCleared
  <2>2. ASSUME NEW w \in Workers, NEW to, to # "clear", pc' = [pc EXCEPT ![w] = to]
        PROVE  pc'[v] # "clear"
    BY <2>2 DEF TypeOK, NeverCleared
  <2>3. ASSUME NEW w \in Workers, (\E r : Return(w, r)) \/ Panic(w)
        PROVE  pc'[v] # "clear"
    <3>1. \E to \in {"release", "dead"} : pc' = [pc EXCEPT ![w] = to]
      BY <2>3 DEF Return, Panic
    <3>2. QED BY <3>1, <2>2
  <2>4. ASSUME NEW w \in Workers, StartSync(w) \/ SkipSync(w) \/ SyncStep(w)
        PROVE  pc'[v] # "clear"
    <3>1. CASE ConnectFails(w) \/ PullFails(w) \/ PostFails(w) \/ ClearOk(w) \/ ClearFails(w)
      BY <3>1, <2>3 DEF ConnectFails, PullFails, PostFails, ClearOk, ClearFails, Fail
    <3>2. CASE Forwarded(w)
      <4>1. ~ShouldClear(pulled[w])
        BY DEF ShouldClear
      <4>2. QED BY <3>2, <4>1, <2>3 DEF Forwarded
    <3>3. CASE PullOk(w)
      <4>1. (\E r : Return(w, r)) \/ pc' = [pc EXCEPT ![w] = "forward"]
        BY <3>3 DEF PullOk, TakePull
      <4>2. QED BY <4>1, <2>2, <2>3
    <3>4. CASE PostAcked(w)
      BY <3>4, <2>1 DEF PostAcked
    <3>5. CASE StartSync(w) \/ SkipSync(w) \/ ConnectOk(w) \/ Release(w)
                 \/ StoreMemory(w) \/ StoreFile(w)
      <4>1. \E to \in PCs \ {"clear"} : pc' = [pc EXCEPT ![w] = to]
        BY <3>5 DEF StartSync, SkipSync, ConnectOk, Release, StoreMemory, StoreFile, PCs
      <4>2. QED BY <4>1, <2>2
    <3>6. QED BY <2>4, <3>1, <3>2, <3>3, <3>4, <3>5 DEF SyncStep
  <2>5. ASSUME NEW i \in Instances, Restart(i)
        PROVE  pc'[v] # "clear"
    BY <2>5 DEF NeverCleared, Restart
  <2>6. QED BY <2>1, <2>4, <2>5 DEF Next, Punch, Probe, ProbeEnd, vars
<1>3. QED BY <1>1, <1>2 DEF NeverCleared

\* A check-in is the first record of its employee and day among all there are,
\* at HRMS and on its way there: later records have later times.
CheckInIsFirst(e) ==
  e.type = "check_in" =>
    e.punch \in made \cap Mappable /\ FirstOfDay(e.punch, made \cap Mappable, e.zone)

CheckInsAreFirst ==
  /\ \A e \in hrms : CheckInIsFirst(e)
  /\ \A w \in Workers : \A e \in todo[w] : CheckInIsFirst(e)

\* A check-in that is the first stays the first when an employee punches.
LEMMA FirstStaysFirst ==
  ASSUME TypeOK, [Next]_vars, NEW e \in Events, CheckInIsFirst(e)
  PROVE  CheckInIsFirst(e)'
<1>1. CASE UNCHANGED made
  BY <1>1 DEF CheckInIsFirst, FirstOfDay
<1>2. ASSUME NEW p \in Punches, Punch(p)
      PROVE  CheckInIsFirst(e)'
  <2>1. made' = made \cup {p} /\ \A q \in made : q < p
    BY <1>2 DEF Punch
  <2> SUFFICES ASSUME e.type = "check_in"
               PROVE  e.punch \in made' \cap Mappable /\ FirstOfDay(e.punch, made' \cap Mappable, e.zone)
    BY DEF CheckInIsFirst
  <2>2. e.punch \in made \cap Mappable /\ FirstOfDay(e.punch, made \cap Mappable, e.zone)
    BY DEF CheckInIsFirst
  <2>3. e.punch < p /\ e.punch \in Nat /\ p \in Nat
    BY <2>1, <2>2, DataAssumption DEF TypeOK
  <2>4. QED BY <2>1, <2>2, <2>3 DEF FirstOfDay
<1>3. QED
  BY <1>1, <1>2 DEF Next, SyncStep, StartSync, SkipSync, ConnectOk, ConnectFails, PullOk,
     PullFails, PostAcked, PostFails, Forwarded, ClearOk, ClearFails, Release, StoreMemory,
     StoreFile, Probe, ProbeEnd, Restart, world, vars

LEMMA CheckInStep ==
  ASSUME FirstInLastOut, ~ShortPulls,
         TypeOK, NeverCleared, CheckInsAreFirst, [Next]_vars
  PROVE  CheckInsAreFirst'
<1>1. ASSUME NEW e \in hrms'
      PROVE  CheckInIsFirst(e)'
  <2>1. e \in Events /\ CheckInIsFirst(e)
    BY HrmsFromWorkers DEF TypeOK, CheckInsAreFirst
  <2>2. QED BY <2>1, FirstStaysFirst
<1>2. ASSUME NEW w \in Workers, NEW e \in todo'[w]
      PROVE  CheckInIsFirst(e)'
  <2>1. CASE e \in todo[w]
    <3>1. e \in Events /\ CheckInIsFirst(e)
      BY <2>1 DEF TypeOK, CheckInsAreFirst
    <3>2. QED BY <3>1, FirstStaysFirst
  <2>2. CASE e \notin todo[w]
    <3>1. PICK S \in Pullable : todo'[w] = ToHrmsEvents(S, ResolveZone(Inst(w)))
      BY <2>2, EventsFromPull
    <3>2. S = made
      BY DEF Pullable, NeverCleared
    <3> DEFINE z == ResolveZone(Inst(w))
    <3>3. PICK p \in made \cap Mappable :
            e = [punch |-> p, zone |-> z, type |-> EventType(p, made \cap Mappable, z)]
      BY <3>1, <3>2 DEF ToHrmsEvents
    <3>4. e.type = "check_in" => FirstOfDay(p, made \cap Mappable, z)
      BY <3>3 DEF EventType
    <3>5. CheckInIsFirst(e)
      BY <3>3, <3>4 DEF CheckInIsFirst
    <3>6. e \in Events
      <4>1. Inst(w) \in Instances /\ made \subseteq Punches
        BY ThreadsAssumption DEF Inst, Threads, TypeOK
      <4>2. QED BY <3>1, <3>2, <4>1, ResolvedZone, MappedEvents
    <3>7. QED BY <3>5, <3>6, FirstStaysFirst
  <2>3. QED BY <2>1, <2>2
<1>3. QED BY <1>1, <1>2 DEF CheckInsAreFirst

\* HRMS gets one check-in per employee and day from a device that is read whole
\* and never cleared, however many syncs and processes send it and whatever is
\* sent twice: the first record of a day is the same in every pull.
THEOREM OneCheckInPerDayAlways ==
  ASSUME FirstInLastOut, ~ShortPulls, ~ClearAfterSync, ClearThreshold = 0
  PROVE  Spec => []OneCheckInPerDay
<1>1. Init => NeverCleared /\ CheckInsAreFirst
  BY DEF Init, NeverCleared, CheckInsAreFirst
<1>2. TypeOK /\ NeverCleared /\ [Next]_vars => NeverCleared'
  BY NeverClearedStep
<1>3. TypeOK /\ NeverCleared /\ CheckInsAreFirst /\ [Next]_vars => CheckInsAreFirst'
  BY CheckInStep
<1>4. TypeOK /\ CheckInsAreFirst => OneCheckInPerDay
  <2> SUFFICES ASSUME TypeOK, CheckInsAreFirst, NEW e \in hrms, NEW f \in hrms,
                      e.type = "check_in", f.type = "check_in", e.zone = f.zone,
                      DayOf[e.zone][e.punch] = DayOf[e.zone][f.punch]
               PROVE  e.punch = f.punch
    BY DEF OneCheckInPerDay
  <2>1. /\ e.punch \in made \cap Mappable
        /\ f.punch \in made \cap Mappable
        /\ FirstOfDay(e.punch, made \cap Mappable, e.zone)
        /\ FirstOfDay(f.punch, made \cap Mappable, f.zone)
    BY DEF CheckInsAreFirst, CheckInIsFirst
  <2>2. e.punch <= f.punch /\ f.punch <= e.punch
    BY <2>1 DEF FirstOfDay
  <2>3. e.punch \in Nat /\ f.punch \in Nat
    BY <2>1, DataAssumption
  <2>4. QED BY <2>2, <2>3
<1>5. QED BY <1>1, <1>2, <1>3, <1>4, TypeCorrect, PTL DEF Spec

-----------------------------------------------------------------------------
\* The learned timezone.

\* A process that had a readable file knows some text: in a device of one
\* process, memory is written before the file and read from it.
LearnedFollowsFile == \A i \in Instances : zoneFile \in OrgZones => learned[i] # NoZone

LEMMA LearnedStep ==
  ASSUME \A i, j \in Instances : i = j,
         TypeOK, LearnedFollowsFile, [Next]_vars
  PROVE  LearnedFollowsFile'
<1>1. CASE UNCHANGED zones
  BY <1>1 DEF LearnedFollowsFile, zones
<1>2. ASSUME NEW w \in Workers, Forwarded(w)
      PROVE  LearnedFollowsFile'
  <2>1. Inst(w) \in Instances /\ Learn(Inst(w))
    BY <1>2, ThreadsAssumption DEF Forwarded, Inst, Threads
  <2>2. PICK z \in OrgZones \cup BadZones \cup {NoZone} :
          \/ UNCHANGED zones
          \/ z # NoZone /\ learned' = [learned EXCEPT ![Inst(w)] = z]
    BY <2>1 DEF Learn
  <2>3. CASE learned' = [learned EXCEPT ![Inst(w)] = z] /\ z # NoZone
    BY <2>1, <2>3 DEF LearnedFollowsFile, TypeOK
  <2>4. QED BY <2>2, <2>3, <1>1
<1>3. ASSUME NEW i \in Instances, Restart(i)
      PROVE  LearnedFollowsFile'
  BY <1>3, ZonesAssumption DEF LearnedFollowsFile, TypeOK, Restart, LoadedZone
<1>4. QED
  BY <1>1, <1>2, <1>3 DEF Next, SyncStep, Punch, StartSync, SkipSync, ConnectOk,
     ConnectFails, PullOk, PullFails, PostAcked, PostFails, ClearOk, ClearFails, Release,
     StoreMemory, StoreFile, Probe, ProbeEnd, vars

\* While the file holds a readable zone, only an unreadable answer that HRMS has
\* since given this process makes a sync fall back to UTC, across restarts and
\* failed writes, when one process syncs the device and UTC is neither the
\* configured zone nor the org's.
THEOREM NeverUtcOnceLearned ==
  ASSUME \A i, j \in Instances : i = j, DeviceZone # UTC, UTC \notin OrgZones
  PROVE  Spec => NoUtcOnceLearned
<1>1. Init => LearnedFollowsFile
  BY ZonesAssumption DEF Init, LearnedFollowsFile
<1>2. TypeOK /\ LearnedFollowsFile /\ [Next]_vars => LearnedFollowsFile'
  BY LearnedStep
<1>3. TypeOK /\ LearnedFollowsFile /\ [Next]_vars =>
        [\A w \in Workers :
           todo[w] = {} /\ (\E e \in todo'[w] : e.zone = UTC) /\ zoneFile \in OrgZones
             => learned[Inst(w)] \in BadZones]_vars
  <2> SUFFICES ASSUME TypeOK, LearnedFollowsFile, [Next]_vars, NEW w \in Workers,
                      todo[w] = {}, NEW e \in todo'[w], e.zone = UTC, zoneFile \in OrgZones
               PROVE  learned[Inst(w)] \in BadZones
    OBVIOUS
  <2>1. PICK S \in Pullable : todo'[w] = ToHrmsEvents(S, ResolveZone(Inst(w)))
    BY EventsFromPull
  <2>2. ResolveZone(Inst(w)) = UTC
    BY <2>1 DEF ToHrmsEvents
  <2>3. Inst(w) \in Instances
    BY ThreadsAssumption DEF Inst, Threads
  <2>4. learned[Inst(w)] \notin OrgZones
    BY <2>2, <2>3 DEF ResolveZone
  <2>5. learned[Inst(w)] # NoZone
    BY <2>3 DEF LearnedFollowsFile
  <2>6. QED BY <2>3, <2>4, <2>5 DEF TypeOK
<1>4. QED BY <1>1, <1>2, <1>3, TypeCorrect, PTL DEF Spec, NoUtcOnceLearned

-----------------------------------------------------------------------------
\* DeviceSync implements AttendanceTransfer.

\* A sync that ends without clearing the device forgets its copy.
LEMMA EndIsForget ==
  ASSUME TypeOK, NEW w \in Workers, (\E r : Return(w, r)) \/ Panic(w),
         UNCHANGED <<made, device, hrms>>
  PROVE  Transfer!Next
<1>1. pulled' = [pulled EXCEPT ![w] = {}]
  BY DEF Return, Panic
<1>2. pulled' = [c \in Workers |-> IF c \in {w} THEN {} ELSE pulled[c]]
  BY <1>1 DEF TypeOK
<1>3. Transfer!Forget({w})
  BY <1>2 DEF Transfer!Forget, PunchesOf
<1>4. QED BY <1>3 DEF Transfer!Next

\* A post stores events of the worker's copy.
LEMMA PostIsDeliver ==
  ASSUME TypeOK, SyncPhases, NEW w \in Workers,
         NEW S \in Kept(NextBatch(todo[w])) \cup {{}}, hrms' = hrms \cup S,
         pulled' = pulled \/ pulled' = [pulled EXCEPT ![w] = {}],
         UNCHANGED <<made, device>>
  PROVE  Transfer!Next
<1>1. S \subseteq todo[w]
  BY KeptPart, BatchIsPart
<1>2. PunchesOf(S) \in SUBSET (pulled[w] \cap Mappable)
  BY <1>1 DEF SyncPhases, SyncPhase, PunchesOf
<1>3. PunchesOf(hrms') = PunchesOf(hrms) \cup PunchesOf(S)
  BY PunchesOfUnion
<1>4. \E rest \in {pulled[w], {}} : pulled' = [pulled EXCEPT ![w] = rest]
  BY DEF TypeOK
<1>5. PunchesOf(hrms)' = PunchesOf(hrms')
  BY DEF PunchesOf
<1>6. Transfer!Deliver(w)
  BY <1>2, <1>3, <1>4, <1>5 DEF Transfer!Deliver, Transfer!Deliverable
<1>7. QED BY <1>6 DEF Transfer!Next

\* Every step is a step of AttendanceTransfer or changes nothing it sees.
LEMMA TransferStep ==
  ASSUME ~PartialAccept, ~ShortPulls, TypeOK, SyncPhases, NothingDropped, [Next]_vars
  PROVE  [Transfer!Next]_(Transfer!vars)
<1>1. CASE UNCHANGED <<made, device, hrms, pulled>>
  BY <1>1 DEF Transfer!vars, PunchesOf
<1>2. ASSUME NEW p \in Punches, Punch(p)
      PROVE  Transfer!Next
  <2>1. p \notin made
    BY <1>2, DataAssumption DEF Punch
  <2>2. Transfer!Punch(p)
    BY <1>2, <2>1 DEF Punch, Transfer!Punch, local, PunchesOf
  <2>3. QED BY <2>2 DEF Transfer!Next
<1>3. ASSUME NEW w \in Workers, ConnectFails(w) \/ PullFails(w)
      PROVE  Transfer!Next
  BY <1>3, EndIsForget DEF ConnectFails, PullFails, Fail, world
<1>4. ASSUME NEW w \in Workers, PullOk(w)
      PROVE  Transfer!Next
  <2>1. UNCHANGED <<made, device, hrms>>
    BY <1>4 DEF PullOk, world
  <2>2. (\E r : Return(w, r)) \/ pulled' = [pulled EXCEPT ![w] = device]
    BY <1>4 DEF PullOk, TakePull, Pullable
  <2>3. CASE pulled' = [pulled EXCEPT ![w] = device]
    <3>1. Transfer!Take(w)
      BY <2>1, <2>3 DEF Transfer!Take, PunchesOf
    <3>2. QED BY <3>1 DEF Transfer!Next
  <2>4. QED BY <2>1, <2>2, <2>3, EndIsForget
<1>5. ASSUME NEW w \in Workers, PostAcked(w)
      PROVE  Transfer!Next
  <2>1. PICK S \in Kept(NextBatch(todo[w])) : hrms' = hrms \cup S
    BY <1>5 DEF PostAcked
  <2>2. QED BY <1>5, <2>1, PostIsDeliver DEF PostAcked
<1>6. ASSUME NEW w \in Workers, PostFails(w)
      PROVE  Transfer!Next
  <2>1. PICK S \in Kept(NextBatch(todo[w])) \cup {{}} : hrms' = hrms \cup S
    BY <1>6 DEF PostFails
  <2>2. pulled' = [pulled EXCEPT ![w] = {}] /\ UNCHANGED <<made, device>>
    BY <1>6 DEF PostFails, Fail, Return, Panic
  <2>3. QED BY <2>1, <2>2, PostIsDeliver
<1>7. ASSUME NEW w \in Workers, Forwarded(w)
      PROVE  Transfer!Next \/ UNCHANGED <<made, device, hrms, pulled>>
  <2>1. UNCHANGED <<made, device, hrms>> /\ (UNCHANGED pulled \/ \E r : Return(w, r))
    BY <1>7 DEF Forwarded, world, local
  <2>2. QED BY <2>1, EndIsForget
<1>8. ASSUME NEW w \in Workers, ClearOk(w) \/ ClearFails(w)
      PROVE  Transfer!Next
  <2>1. /\ pc[w] = "clear" /\ device' \in {{}, device} /\ UNCHANGED <<made, hrms>>
        /\ (\E r : Return(w, r)) \/ Panic(w)
    BY <1>8 DEF ClearOk, ClearFails
  <2>2. CASE device' = device
    BY <2>1, <2>2, EndIsForget
  <2>3. CASE device' = {}
    <3>1. pulled' = [pulled EXCEPT ![w] = {}]
      BY <2>1 DEF Return, Panic
    <3>2. todo[w] = {} /\ pulled[w] \cap Mappable # {}
      BY <2>1 DEF SyncPhases, SyncPhase
    <3>3. pulled[w] \cap Mappable \subseteq PunchesOf(hrms)
      BY <2>1, <3>2, ClearIsSafe
    <3>4. Transfer!Clear(w)
      BY <2>1, <2>3, <3>1, <3>2, <3>3 DEF Transfer!Clear, Transfer!Deliverable, PunchesOf
    <3>5. QED BY <3>4 DEF Transfer!Next
  <2>4. QED BY <2>1, <2>2, <2>3
<1>9. ASSUME NEW i \in Instances, Restart(i)
      PROVE  Transfer!Next
  <2> DEFINE Mine == {w \in Workers : Inst(w) = i}
  <2>1. Transfer!Forget(Mine)
    BY <1>9 DEF Restart, Transfer!Forget, world, PunchesOf
  <2>2. QED BY <2>1 DEF Transfer!Next
<1>10. ASSUME \/ \E w \in Workers :
                   \/ StartSync(w) \/ SkipSync(w) \/ ConnectOk(w) \/ Release(w)
                   \/ StoreMemory(w) \/ StoreFile(w)
              \/ \E q \in Probers : Probe(q) \/ ProbeEnd(q)
              \/ UNCHANGED vars
       PROVE  UNCHANGED <<made, device, hrms, pulled>>
  BY <1>10 DEF StartSync, SkipSync, ConnectOk, Release, StoreMemory, StoreFile, Probe,
     ProbeEnd, vars, world, local
<1>11. QED
  BY <1>1, <1>2, <1>3, <1>4, <1>5, <1>6, <1>7, <1>8, <1>9, <1>10 DEF Next, SyncStep

\* The bridge with its locks, batches, retries, processes and deaths does
\* nothing to attendance records that AttendanceTransfer does not allow.
THEOREM DeviceSyncImplementsTransfer ==
  ASSUME ~PartialAccept, ~ShortPulls
  PROVE  Spec => ImplementsTransfer
<1>1. Init => Transfer!Init
  BY DEF Init, Transfer!Init, PunchesOf
<1>2. TypeOK /\ SyncPhases /\ NothingDropped /\ [Next]_vars => [Transfer!Next]_(Transfer!vars)
  BY TransferStep
<1>3. QED
  BY <1>1, <1>2, TypeCorrect, PhasesHold, NothingDroppedAlways, PTL
  DEF Spec, ImplementsTransfer, Transfer!Spec
=============================================================================
