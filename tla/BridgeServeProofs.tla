-------------------------- MODULE BridgeServeProofs --------------------------
(***************************************************************************)
(* What BridgeServe guarantees for every number of devices and requests.   *)
(***************************************************************************)
EXTENDS BridgeServe, SequenceTheorems, TLAPS

-----------------------------------------------------------------------------
\* Lemmas about the devices a visitor still has to look at.

Left(x, s) == \E k \in DOMAIN s : s[k] = x

\* Looking at the first device takes no other device off the list.
LEMMA TailKeepsOthers ==
  ASSUME NEW S, NEW s \in Seq(S), s # <<>>, NEW x, x # Head(s), Left(x, s)
  PROVE  Left(x, Tail(s))
<1>1. PICK k \in 1..Len(s) : s[k] = x
  BY DEF Left
<1>2. k # 1
  BY <1>1
<1>3. /\ Len(Tail(s)) = Len(s) - 1 /\ Tail(s) \in Seq(S)
      /\ \A j \in 1..Len(Tail(s)) : Tail(s)[j] = s[j + 1]
  BY HeadTailProperties
<1>4. k - 1 \in 1..Len(Tail(s)) /\ (k - 1) + 1 = k
  BY <1>1, <1>2, <1>3
<1>5. Tail(s)[k - 1] = x
  BY <1>1, <1>3, <1>4
<1>6. DOMAIN Tail(s) = 1..Len(Tail(s))
  BY <1>3
<1>7. QED BY <1>4, <1>5, <1>6 DEF Left

\* What a visitor looks at next is a device.
LEMMA HeadIsDevice ==
  ASSUME TypeOK, NEW v \in Visitors, visit[v] # <<>>
  PROVE  /\ Head(visit[v]) \in Devices
         /\ Tail(visit[v]) \in Seq(Devices)
<1>1. visit[v] \in Seq(Devices)
  BY DEF TypeOK
<1>2. QED BY <1>1, HeadTailProperties

\* The list of the config names every device.
LEMMA ListIsWhole ==
  ASSUME NEW d \in Devices
  PROVE  Left(d, DeviceList)
BY DEF Devices, Left

-----------------------------------------------------------------------------
\* Type correctness.

LEMMA AsksTyped ==
  ASSUME NEW ask \in Asks
  PROVE  ask[1] \in {"health", "sync"} /\ ask[2] \in Seq(Devices)
<1>1. \A d \in Devices : <<d>> \in Seq(Devices)
  OBVIOUS
<1>2. QED BY <1>1, ServeAssumption DEF Asks, Health, SyncAll, SyncOf

LEMMA TypeStep == TypeOK /\ [Next]_vars => TypeOK'
<1> SUFFICES ASSUME TypeOK, [Next]_vars
             PROVE  TypeOK'
  OBVIOUS
<1> USE DEF InSync
<1>1. CASE InstallSignalHandlers \/ AcceptNone \/ DrainDone \/ DeadlinePasses
  BY <1>1 DEF TypeOK, InstallSignalHandlers, AcceptNone, DrainDone, DeadlinePasses
<1>2. CASE Signal
  BY <1>2 DEF TypeOK, Signal
<1>3. CASE CheckShutdown \/ DrainWaits
  <2>1. visit' \in [Visitors -> Seq(Devices)]
    BY <1>3, ServeAssumption DEF TypeOK, CheckShutdown, DrainWaits
  <2>2. QED BY <1>3, <2>1 DEF TypeOK, CheckShutdown, DrainWaits
<1>4. ASSUME NEW r \in Requests, Accept(r)
      PROVE  TypeOK'
  <2>1. PICK ask \in Asks : /\ asked' = [asked EXCEPT ![r] = ask[1]]
                            /\ visit' = [visit EXCEPT ![r] = ask[2]]
    BY <1>4 DEF Accept
  <2>2. ask[1] \in {"health", "sync"} /\ ask[2] \in Seq(Devices)
    BY AsksTyped
  <2>3. visit' \in [Visitors -> Seq(Devices)]
    BY <2>1, <2>2 DEF TypeOK, Visitors
  <2>4. asked' \in [Requests -> {"nothing", "health", "sync"}]
    BY <2>1, <2>2 DEF TypeOK
  <2>5. QED BY <1>4, <2>3, <2>4 DEF TypeOK, Accept
<1>5. ASSUME NEW v \in Visitors, ProbeFree(v)
      PROVE  TypeOK'
  <2>1. Head(visit[v]) \in Devices
    BY <1>5, HeadIsDevice DEF ProbeFree
  <2>2. QED BY <1>5, <2>1 DEF TypeOK, ProbeFree
<1>6. ASSUME NEW v \in Visitors, ProbeEnd(v)
      PROVE  TypeOK'
  <2> DEFINE d == Head(visit[v])
  <2>1. d \in Devices /\ Tail(visit[v]) \in Seq(Devices)
    BY <1>6, HeadIsDevice DEF ProbeEnd
  <2>2. /\ pc' \in [Threads -> InSync \cup {"none", "sleep", "ready", "done"}]
        /\ \A t \in Threads : /\ pc'[t] = "sleep" => t[1] = "scheduler"
                              /\ pc'[t] = "none" => t[1] \in Requests
    BY <1>6, <2>1 DEF TypeOK, ProbeEnd
  <2>3. /\ holder' = [holder EXCEPT ![d] = Free]
        /\ visit' = [visit EXCEPT ![v] = Tail(visit[v])]
        /\ UNCHANGED <<main, shutdown, late, asked, inFlight>>
    BY <1>6 DEF ProbeEnd
  <2> HIDE DEF d
  <2>4. QED BY <2>1, <2>2, <2>3 DEF TypeOK
<1>7. ASSUME NEW r \in Requests, ProbeBusy(r)
      PROVE  TypeOK'
  <2>1. Tail(visit[r]) \in Seq(Devices)
    BY <1>7, HeadIsDevice DEF ProbeBusy, Visitors
  <2>2. QED BY <1>7, <2>1 DEF TypeOK, ProbeBusy
<1>8. ASSUME NEW t \in Threads, Wake(t) \/ Skip(t)
      PROVE  TypeOK'
  BY <1>8 DEF TypeOK, Wake, Skip, After
<1>9. ASSUME NEW t \in Threads, TryLock(t) \/ GoOn(t)
      PROVE  TypeOK'
  BY <1>9 DEF TypeOK, TryLock, GoOn
<1>10. ASSUME NEW t \in Threads, SyncEnds(t)
       PROVE  TypeOK'
  BY <1>10 DEF TypeOK, SyncEnds, After
<1>11. CASE UNCHANGED vars
  BY <1>11 DEF TypeOK, vars
<1>12. QED
  BY <1>1, <1>2, <1>3, <1>4, <1>5, <1>6, <1>7, <1>8, <1>9, <1>10, <1>11
  DEF Next, Main, Handle, Visitors

\* Every reachable state is well typed: only schedulers go back to sleep, and
\* only the threads of requests are started after the service is up.
THEOREM ServeTypeCorrect == Spec => []TypeOK
<1>1. Init => TypeOK
  <2>1. <<>> \in Seq(Devices)
    OBVIOUS
  <2>2. QED BY <2>1 DEF Init, TypeOK, Threads, Roles, InSync
<1>2. QED BY <1>1, TypeStep, PTL DEF Spec

-----------------------------------------------------------------------------
\* Every sync holds its device's lock.

SyncsHoldLocks == \A t \in Threads : pc[t] \in InSync => holder[Device(t)] = SyncBy(t)

\* Two syncs that hold the lock of one device are the same thread.
LEMMA OneHolder ==
  ASSUME NEW t \in Threads, NEW u \in Threads,
         Device(t) = Device(u), SyncBy(t) = SyncBy(u)
  PROVE  t = u
BY DEF Threads, Device, SyncBy

LEMMA LockStep == TypeOK /\ SyncsHoldLocks /\ [Next]_vars => SyncsHoldLocks'
<1> SUFFICES ASSUME TypeOK, SyncsHoldLocks, [Next]_vars,
                    NEW u \in Threads, pc'[u] \in InSync
             PROVE  holder'[Device(u)] = SyncBy(u)
  BY DEF SyncsHoldLocks, SyncBy, Device
<1>1. Device(u) \in Devices
  BY DEF Threads, Device
<1>2. CASE UNCHANGED <<holder, pc>>
  BY <1>2 DEF SyncsHoldLocks
<1>3. ASSUME NEW v \in Visitors, ProbeFree(v)
      PROVE  holder'[Device(u)] = SyncBy(u)
  <2>1. holder[Device(u)] = SyncBy(u) /\ Head(visit[v]) # Device(u)
    BY <1>3 DEF ProbeFree, SyncsHoldLocks, SyncBy, Free
  <2>2. QED BY <1>1, <1>3, <2>1 DEF ProbeFree, TypeOK
<1>4. ASSUME NEW v \in Visitors, ProbeEnd(v)
      PROVE  holder'[Device(u)] = SyncBy(u)
  <2>1. pc[u] \in InSync
    BY <1>4 DEF ProbeEnd, InSync, TypeOK
  <2>2. holder[Device(u)] = SyncBy(u) /\ Head(visit[v]) # Device(u)
    BY <1>4, <2>1 DEF ProbeEnd, SyncsHoldLocks, SyncBy, ProbeBy
  <2>3. QED BY <1>1, <1>4, <2>2 DEF ProbeEnd, TypeOK
<1>5. ASSUME NEW t \in Threads, Wake(t) \/ Skip(t) \/ GoOn(t)
      PROVE  holder'[Device(u)] = SyncBy(u)
  <2>1. UNCHANGED holder /\ pc[u] \in InSync
    BY <1>5 DEF Wake, Skip, GoOn, After, InSync, TypeOK
  <2>2. QED BY <2>1 DEF SyncsHoldLocks
<1>6. ASSUME NEW t \in Threads, TryLock(t)
      PROVE  holder'[Device(u)] = SyncBy(u)
  <2>1. CASE u = t
    BY <1>1, <1>6, <2>1 DEF TryLock, TypeOK
  <2>2. CASE u # t
    <3>1. holder[Device(u)] = SyncBy(u)
      BY <1>6, <2>2 DEF TryLock, TypeOK, SyncsHoldLocks
    <3>2. Device(u) # Device(t)
      BY <1>6, <3>1 DEF TryLock, SyncBy, Free
    <3>3. QED BY <1>1, <1>6, <3>1, <3>2 DEF TryLock, TypeOK
  <2>3. QED BY <2>1, <2>2
<1>7. ASSUME NEW t \in Threads, SyncEnds(t)
      PROVE  holder'[Device(u)] = SyncBy(u)
  <2>1. u # t /\ pc[u] \in InSync
    BY <1>7 DEF SyncEnds, After, InSync, TypeOK
  <2>2. holder[Device(u)] = SyncBy(u) /\ holder[Device(t)] = SyncBy(t)
    BY <1>7, <2>1 DEF SyncEnds, InSync, SyncsHoldLocks
  <2>3. Device(u) # Device(t)
    BY <2>1, <2>2, OneHolder
  <2>4. QED BY <1>1, <1>7, <2>2, <2>3 DEF SyncEnds, TypeOK
<1>8. ASSUME \/ InstallSignalHandlers \/ CheckShutdown \/ AcceptNone \/ DrainWaits \/ DrainDone
             \/ Signal \/ DeadlinePasses \/ UNCHANGED vars
             \/ \E r \in Requests : Accept(r) \/ ProbeBusy(r)
      PROVE  UNCHANGED <<holder, pc>>
  BY <1>8 DEF InstallSignalHandlers, CheckShutdown, AcceptNone, DrainWaits, DrainDone, Signal,
     DeadlinePasses, Accept, ProbeBusy, vars
<1>9. QED
  BY <1>2, <1>3, <1>4, <1>5, <1>6, <1>7, <1>8 DEF Next, Main, Handle, Visitors

LEMMA LocksHeld == Spec => []SyncsHoldLocks
<1>1. Init => SyncsHoldLocks
  BY DEF Init, SyncsHoldLocks, InSync
<1>2. QED BY <1>1, ServeTypeCorrect, LockStep, PTL DEF Spec

-----------------------------------------------------------------------------
\* The drain keeps its word.

\* What makes DrainKeepsItsWord inductive: a sync that ran at the signal keeps
\* its lock until it ends, so the drain cannot see its device free.
DrainInv ==
  /\ main = "drain" => shutdown
  /\ ~shutdown /\ Alive => inFlight = {}
  /\ \A t \in inFlight : /\ holder[Device(t)] = SyncBy(t)
                         /\ main = "drain" => Left(Device(t), visit["main"])
  /\ DrainKeepsItsWord

LEMMA DrainStep == TypeOK /\ SyncsHoldLocks /\ DrainInv /\ [Next]_vars => DrainInv'
<1> SUFFICES ASSUME TypeOK, SyncsHoldLocks, DrainInv, [Next]_vars
             PROVE  DrainInv'
  OBVIOUS
<1> USE DEF Alive, DrainKeepsItsWord
<1>1. CASE InstallSignalHandlers \/ AcceptNone \/ DeadlinePasses
  BY <1>1 DEF DrainInv, InstallSignalHandlers, AcceptNone, DeadlinePasses
<1>2. CASE Signal
  BY <1>2 DEF DrainInv, Signal
<1>3. CASE CheckShutdown
  <2>1. visit'["main"] = DeviceList \/ main' # "drain"
    BY <1>3 DEF TypeOK, CheckShutdown, Visitors
  <2>2. \A t \in inFlight : Left(Device(t), DeviceList)
    BY ListIsWhole DEF TypeOK, Threads, Device
  <2>3. QED BY <1>3, <2>1, <2>2 DEF DrainInv, CheckShutdown
<1>4. CASE DrainWaits
  <2>1. visit'["main"] = DeviceList \/ main' # "drain"
    BY <1>4 DEF TypeOK, DrainWaits, Visitors
  <2>2. \A t \in inFlight : Left(Device(t), DeviceList)
    BY ListIsWhole DEF TypeOK, Threads, Device
  <2>3. QED BY <1>4, <2>1, <2>2 DEF DrainInv, DrainWaits
<1>5. CASE DrainDone
  <2>1. inFlight = {}
    BY <1>5 DEF DrainInv, DrainDone, Left
  <2>2. QED BY <1>5, <2>1 DEF DrainInv, DrainDone
<1>6. ASSUME NEW r \in Requests, Accept(r) \/ ProbeBusy(r)
      PROVE  DrainInv'
  <2>1. visit'["main"] = visit["main"]
    BY <1>6, ServeAssumption DEF Accept, ProbeBusy, TypeOK, Visitors
  <2>2. QED BY <1>6, <2>1 DEF DrainInv, Accept, ProbeBusy
<1>7. ASSUME NEW v \in Visitors, ProbeFree(v)
      PROVE  DrainInv'
  <2>1. \A t \in inFlight : Device(t) # Head(visit[v])
    BY <1>7 DEF DrainInv, ProbeFree, SyncBy, Free
  <2>2. \A t \in inFlight : holder'[Device(t)] = holder[Device(t)]
    BY <1>7, <2>1 DEF ProbeFree, TypeOK, Threads, Device
  <2>3. QED BY <1>7, <2>2 DEF DrainInv, ProbeFree
<1>8. ASSUME NEW v \in Visitors, ProbeEnd(v)
      PROVE  DrainInv'
  <2> DEFINE d == Head(visit[v])
  <2>1. \A t \in inFlight : Device(t) # d
    BY <1>8 DEF DrainInv, ProbeEnd, SyncBy, ProbeBy
  <2>2. \A t \in inFlight : holder'[Device(t)] = holder[Device(t)]
    BY <1>8, <2>1 DEF ProbeEnd, TypeOK, Threads, Device
  <2>3. visit[v] \in Seq(Devices) /\ visit[v] # <<>>
    BY <1>8 DEF ProbeEnd, TypeOK
  <2>4. ASSUME NEW t \in inFlight, Left(Device(t), visit["main"])
        PROVE  Left(Device(t), visit'["main"])
    <3>1. CASE v = "main"
      <4>1. visit'["main"] = Tail(visit["main"])
        BY <1>8, <3>1 DEF ProbeEnd, TypeOK
      <4>2. QED BY <2>1, <2>3, <2>4, <3>1, <4>1, TailKeepsOthers
    <3>2. CASE v # "main"
      <4>1. visit'["main"] = visit["main"]
        BY <1>8, <3>2 DEF ProbeEnd, TypeOK, Visitors
      <4>2. QED BY <2>4, <4>1
    <3>3. QED BY <3>1, <3>2
  <2>5. UNCHANGED <<main, shutdown, late, inFlight>>
    BY <1>8 DEF ProbeEnd
  <2>6. QED BY <2>2, <2>4, <2>5 DEF DrainInv
<1>9. ASSUME NEW t \in Threads, Wake(t) \/ Skip(t) \/ GoOn(t)
      PROVE  DrainInv'
  BY <1>9 DEF DrainInv, Wake, Skip, GoOn
<1>10. ASSUME NEW t \in Threads, TryLock(t)
       PROVE  DrainInv'
  <2>1. \A u \in inFlight : Device(u) # Device(t)
    BY <1>10 DEF DrainInv, TryLock, SyncBy, Free
  <2>2. \A u \in inFlight : holder'[Device(u)] = holder[Device(u)]
    BY <1>10, <2>1 DEF TryLock, TypeOK, Threads, Device
  <2>3. QED BY <1>10, <2>2 DEF DrainInv, TryLock
<1>11. ASSUME NEW t \in Threads, SyncEnds(t)
       PROVE  DrainInv'
  <2>1. inFlight' = inFlight \ {t} /\ UNCHANGED <<main, shutdown, late, visit>>
    BY <1>11 DEF SyncEnds
  <2>2. \A u \in inFlight' : Device(u) # Device(t)
    BY <1>11, <2>1, OneHolder DEF SyncEnds, InSync, SyncsHoldLocks, DrainInv, TypeOK
  <2>3. \A u \in inFlight' : holder'[Device(u)] = holder[Device(u)]
    BY <1>11, <2>2, <2>1 DEF SyncEnds, TypeOK, Threads, Device
  <2>4. QED BY <2>1, <2>3 DEF DrainInv
<1>12. CASE UNCHANGED vars
  BY <1>12 DEF DrainInv, vars
<1>13. QED
  BY <1>1, <1>2, <1>3, <1>4, <1>5, <1>6, <1>7, <1>8, <1>9, <1>10, <1>11, <1>12
  DEF Next, Main, Handle, Visitors

\* The drain gives up on a sync that ran when the signal came only after 30 s,
\* whatever other syncs, requests and probes come between.
THEOREM DrainAlwaysKeepsItsWord == Spec => []DrainKeepsItsWord
<1>1. Init => DrainInv
  BY DEF Init, DrainInv, DrainKeepsItsWord, Alive
<1>2. DrainInv => DrainKeepsItsWord
  BY DEF DrainInv
<1>3. QED BY <1>1, <1>2, ServeTypeCorrect, LocksHeld, DrainStep, PTL DEF Spec
=============================================================================
