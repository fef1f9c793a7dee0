----------------------------- MODULE BridgeServe -----------------------------
(***************************************************************************)
(* The long-lived service, src/application/serve.rs: the main thread with  *)
(* its HTTP loop and its drain, a boot thread and a scheduler thread per   *)
(* device, a thread per HTTP request, and the threads requests start.      *)
(*                                                                         *)
(* A sync is DeviceSync seen from outside: it holds its device's lock      *)
(* while it talks to the device, uploads and clears.  The process starts   *)
(* once; what a new start finds on disk is DeviceSync's.                   *)
(***************************************************************************)
EXTENDS Naturals, Sequences

CONSTANTS
  DeviceList,   \* the configured devices, in the order of the config
  Requests,     \* bound: the HTTP requests that arrive
  Hangs         \* the devices whose syncs may block forever

Devices == {DeviceList[k] : k \in DOMAIN DeviceList}
Roles == {"boot", "scheduler"} \cup Requests
Threads == Roles \X Devices
Device(t) == t[2]

ASSUME ServeAssumption ==
  /\ DeviceList \in Seq(Devices)
  /\ Hangs \subseteq Devices
  /\ Requests \cap {"nobody", "main", "boot", "scheduler"} = {}

VARIABLES
  main,        \* where the main thread is in run
  shutdown,    \* the SHUTDOWN flag
  late,        \* the 30 s of the drain are over
  holder,      \* holder[d]: who holds d's lock: a sync, a probe or nobody
  pc,          \* pc[t]: where sync thread t is
  visit,       \* visit[v]: the devices v still has to look at, v a request or main
  asked,       \* asked[r]: what request r asked for
  inFlight     \* history: the syncs that ran when the signal came, still running

vars == <<main, shutdown, late, holder, pc, visit, asked, inFlight>>

Visitors == Requests \cup {"main"}
Alive == main # "exited"

Free == <<"free", "nobody">>
ProbeBy(v) == <<"probe", v>>
SyncBy(t) == <<"sync", t[1]>>

\* What a request can ask for, and the devices its thread looks at.
Health == <<"health", DeviceList>>
SyncAll == <<"sync", DeviceList>>
SyncOf(d) == <<"sync", <<d>>>>
Asks == {Health, SyncAll} \cup {SyncOf(d) : d \in Devices}

\* Mutant: every thread goes back to sleep, as a scheduler does.
AfterSleeps(t) == "sleep"

\* A scheduler sleeps until its next sync, the other threads end.
After(t) == IF t[1] = "scheduler" THEN "sleep" ELSE "done"

-----------------------------------------------------------------------------
\* start_boot_syncs and start_schedulers have run; run goes on.
Init ==
  /\ main = "boot"
  /\ shutdown = FALSE
  /\ late = FALSE
  /\ holder = [d \in Devices |-> Free]
  /\ pc = [t \in Threads |-> IF t[1] = "boot" THEN "ready"
                             ELSE IF t[1] = "scheduler" THEN "sleep" ELSE "none"]
  /\ visit = [v \in Visitors |-> <<>>]
  /\ asked = [r \in Requests |-> "nothing"]
  /\ inFlight = {}

\* Until its handlers are installed the process dies of the signal.
InstallSignalHandlers ==
  /\ main = "boot"
  /\ main' = "check"
  /\ UNCHANGED <<shutdown, late, holder, pc, visit, asked, inFlight>>

Signal ==
  /\ Alive /\ ~shutdown
  /\ inFlight' = {t \in Threads : holder[Device(t)] = SyncBy(t)}
  /\ IF main = "boot"
     THEN main' = "exited" /\ UNCHANGED shutdown
     ELSE shutdown' = TRUE /\ UNCHANGED main
  /\ UNCHANGED <<late, holder, pc, visit, asked>>

\* The top of the HTTP loop.
CheckShutdown ==
  /\ main = "check"
  /\ IF shutdown
     THEN main' = "drain" /\ visit' = [visit EXCEPT !["main"] = DeviceList]
     ELSE main' = "accept" /\ UNCHANGED visit
  /\ UNCHANGED <<shutdown, late, holder, pc, asked, inFlight>>

\* accept: no connection, or one whose thread then looks at its devices.
AcceptNone ==
  /\ main = "accept"
  /\ main' = "check"
  /\ UNCHANGED <<shutdown, late, holder, pc, visit, asked, inFlight>>

Accept(r) ==
  /\ main = "accept"
  /\ asked[r] = "nothing"
  /\ \E ask \in Asks :
       /\ asked' = [asked EXCEPT ![r] = ask[1]]
       /\ visit' = [visit EXCEPT ![r] = ask[2]]
  /\ main' = "check"
  /\ UNCHANGED <<shutdown, late, holder, pc, inFlight>>

-----------------------------------------------------------------------------
\* syncing() on the first device left: a try_lock that holds the lock if it
\* succeeds, and the drop of its guard.

ProbeFree(v) ==
  /\ Alive /\ visit[v] # <<>>
  /\ holder[Head(visit[v])] = Free
  /\ holder' = [holder EXCEPT ![Head(visit[v])] = ProbeBy(v)]
  /\ UNCHANGED <<main, shutdown, late, pc, visit, asked, inFlight>>

\* handle_sync starts a thread for a device it found free; health_body and the
\* drain only go on.
ProbeEnd(v) ==
  LET d == Head(visit[v]) IN
  /\ Alive /\ visit[v] # <<>>
  /\ holder[d] = ProbeBy(v)
  /\ holder' = [holder EXCEPT ![d] = Free]
  /\ visit' = [visit EXCEPT ![v] = Tail(@)]
  /\ pc' = IF v \in Requests /\ asked[v] = "sync"
           THEN [pc EXCEPT ![<<v, d>>] = "ready"] ELSE pc
  /\ UNCHANGED <<main, shutdown, late, asked, inFlight>>

\* A device that is syncing, or that someone else probes, is skipped.
ProbeBusy(r) ==
  /\ Alive /\ visit[r] # <<>>
  /\ holder[Head(visit[r])] \notin {Free, ProbeBy(r)}
  /\ visit' = [visit EXCEPT ![r] = Tail(@)]
  /\ UNCHANGED <<main, shutdown, late, holder, pc, asked, inFlight>>

Handle(r) == ProbeFree(r) \/ ProbeEnd(r) \/ ProbeBusy(r)

-----------------------------------------------------------------------------
\* The drain: wait until no device is syncing, at most 30 s.

\* Mutant: the drain goes on to the next device when one is syncing.
DrainPasses ==
  /\ main = "drain" /\ visit["main"] # <<>>
  /\ holder[Head(visit["main"])] \notin {Free, ProbeBy("main")}
  /\ IF late
     THEN main' = "exited" /\ UNCHANGED visit
     ELSE visit' = [visit EXCEPT !["main"] = Tail(@)] /\ UNCHANGED main
  /\ UNCHANGED <<shutdown, late, holder, pc, asked, inFlight>>

\* Mutant: the drain has no deadline.
DrainForever ==
  /\ main = "drain" /\ visit["main"] # <<>>
  /\ holder[Head(visit["main"])] \notin {Free, ProbeBy("main")}
  /\ visit' = [visit EXCEPT !["main"] = DeviceList]
  /\ UNCHANGED <<main, shutdown, late, holder, pc, asked, inFlight>>

DrainWaits ==
  /\ main = "drain" /\ visit["main"] # <<>>
  /\ holder[Head(visit["main"])] \notin {Free, ProbeBy("main")}
  /\ IF late
     THEN main' = "exited" /\ UNCHANGED visit
     ELSE visit' = [visit EXCEPT !["main"] = DeviceList] /\ UNCHANGED main
  /\ UNCHANGED <<shutdown, late, holder, pc, asked, inFlight>>

\* run returns and the process takes all its threads along.
DrainDone ==
  /\ main = "drain" /\ visit["main"] = <<>>
  /\ main' = "exited"
  /\ UNCHANGED <<shutdown, late, holder, pc, visit, asked, inFlight>>

DeadlinePasses ==
  /\ main = "drain" /\ ~late
  /\ late' = TRUE
  /\ UNCHANGED <<main, shutdown, holder, pc, visit, asked, inFlight>>

Main ==
  \/ InstallSignalHandlers \/ CheckShutdown \/ AcceptNone
  \/ ProbeFree("main") \/ ProbeEnd("main") \/ DrainWaits \/ DrainDone

-----------------------------------------------------------------------------
\* The threads that sync.

\* The scheduler's interval is over; it looks at SHUTDOWN just before its sync.
Wake(t) ==
  /\ Alive /\ pc[t] = "sleep"
  /\ pc' = [pc EXCEPT ![t] = IF shutdown THEN "done" ELSE "ready"]
  /\ UNCHANGED <<main, shutdown, late, holder, visit, asked, inFlight>>

TryLock(t) ==
  /\ Alive /\ pc[t] = "ready"
  /\ holder[Device(t)] = Free
  /\ holder' = [holder EXCEPT ![Device(t)] = SyncBy(t)]
  /\ pc' = [pc EXCEPT ![t] = "talk"]
  /\ UNCHANGED <<main, shutdown, late, visit, asked, inFlight>>

\* Mutant: a scheduler whose sync was skipped returns.
SkipEnds(t) ==
  /\ Alive /\ pc[t] = "ready"
  /\ holder[Device(t)] # Free
  /\ pc' = [pc EXCEPT ![t] = "done"]
  /\ UNCHANGED <<main, shutdown, late, holder, visit, asked, inFlight>>

Skip(t) ==
  /\ Alive /\ pc[t] = "ready"
  /\ holder[Device(t)] # Free
  /\ pc' = [pc EXCEPT ![t] = After(t)]
  /\ UNCHANGED <<main, shutdown, late, holder, visit, asked, inFlight>>

\* The sync goes on to its upload, and from there to the clear.
GoOn(t) ==
  /\ Alive /\ pc[t] \in {"talk", "upload"}
  /\ pc' = [pc EXCEPT ![t] = IF @ = "talk" THEN "upload" ELSE "clear"]
  /\ UNCHANGED <<main, shutdown, late, holder, visit, asked, inFlight>>

\* The sync ends after any of its parts: it failed, or there was no more to do.
SyncEnds(t) ==
  /\ Alive /\ pc[t] \in {"talk", "upload", "clear"}
  /\ pc' = [pc EXCEPT ![t] = After(t)]
  /\ holder' = [holder EXCEPT ![Device(t)] = Free]
  /\ inFlight' = inFlight \ {t}
  /\ UNCHANGED <<main, shutdown, late, visit, asked>>

Next ==
  \/ Main \/ Signal \/ DeadlinePasses
  \/ \E r \in Requests : Accept(r) \/ Handle(r)
  \/ \E t \in Threads : Wake(t) \/ TryLock(t) \/ Skip(t) \/ GoOn(t) \/ SyncEnds(t)

Spec == Init /\ [][Next]_vars

(***************************************************************************)
(* Every thread of a live process runs, and 30 s pass.  A part of a sync   *)
(* ends, by its timeouts if not before, except for the devices in Hangs.   *)
(***************************************************************************)
Fairness ==
  /\ WF_vars(Main) /\ WF_vars(DeadlinePasses)
  /\ \A r \in Requests : WF_vars(Handle(r))
  /\ \A t \in Threads :
       /\ WF_vars(Wake(t) \/ TryLock(t) \/ Skip(t))
       /\ Device(t) \notin Hangs => WF_vars(SyncEnds(t))

FairSpec == Spec /\ Fairness

-----------------------------------------------------------------------------
InSync == {"talk", "upload", "clear"}

\* Every variable holds a value of its type; only schedulers sleep, and only
\* the threads of requests are started late.
TypeOK ==
  /\ main \in {"boot", "check", "accept", "drain", "exited"}
  /\ shutdown \in BOOLEAN /\ late \in BOOLEAN
  /\ holder \in [Devices -> {Free} \cup {ProbeBy(v) : v \in Visitors}
                                  \cup {SyncBy(t) : t \in Threads}]
  /\ pc \in [Threads -> InSync \cup {"none", "sleep", "ready", "done"}]
  /\ \A t \in Threads : /\ pc[t] = "sleep" => t[1] = "scheduler"
                        /\ pc[t] = "none" => t[1] \in Requests
  /\ visit \in [Visitors -> Seq(Devices)]
  /\ asked \in [Requests -> {"nothing", "health", "sync"}]
  /\ inFlight \subseteq Threads

\* After a signal the handlers caught, the process ends before the 30 s are over
\* only if every sync that ran when the signal came has ended.
DrainKeepsItsWord == ~Alive /\ shutdown /\ ~late => inFlight = {}

\* A caught signal ends the process, whatever syncs hang.
ShutdownEnds == shutdown ~> ~Alive

\* "syncs on an independent schedule": a device is synced again and again until
\* shutdown, whatever other devices hang and whoever probes it.
IndependentSchedules ==
  \A d \in Devices \ Hangs :
    []<>(\/ holder[d][1] = "sync"
         \/ shutdown \/ ~Alive)
=============================================================================
