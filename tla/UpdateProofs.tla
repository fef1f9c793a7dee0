----------------------------- MODULE UpdateProofs -----------------------------
(***************************************************************************)
(* Theorems about the update of one machine's services: what is registered *)
(* as it begins is restarted with the new version, and a release that      *)
(* works is not rolled back.                                               *)
(***************************************************************************)
EXTENDS ServiceManagerProofs

-----------------------------------------------------------------------------
\* What a name, an entry or a pid that is at hand stands for, in every state.

EntryKnown(p, n) == IsAlive(p) => procs[p].name = n
EntriesKnown ==
  \A n \in Names : EntryKnown(registry[n], n) /\ EntryKnown(update.captured[n], n)
PidKnown ==
  pid # 0 => /\ IsAlive(pid) /\ procs[pid].child /\ procs[pid].name = job[1][2]
             /\ (procs[pid].new <=> binary = "new")
PreflightKnown == \A p \in Slots : procs[p].state = "preflight" => procs[p].boot
Known == EntriesKnown /\ PidKnown /\ PreflightKnown

\* Until the binary is replaced it is the old one.
Early ==
  /\ update.phase \in {"none", "captured"} =>
       binary = "old" /\ release = "good" /\ \A p \in Slots : Alive(procs[p]) => ~procs[p].new
  /\ update.phase = "restart" => binary = "new"

LEMMA Referred ==
  /\ pid \in References
  /\ \A n \in Names : registry[n] \in References /\ update.captured[n] \in References
BY DEF References

\* No slot that is referred to is used for another process.
LEMMA ReferredKept ==
  ASSUME TypeOK, [Next]_vars, NEW p \in References, p \in Slots, Alive(procs'[p])
  PROVE  /\ Alive(procs[p])
         /\ procs'[p].name = procs[p].name /\ procs'[p].new = procs[p].new
<1>1. CASE Wane
  <2>1. Follows(procs[p], procs'[p])
    BY <1>1 DEF Wane
  <2> QED BY <2>1 DEF Follows
<1>2. ASSUME NEW n, NEW b, Wax(n, b) PROVE procs'[p] = procs[p]
  <2>1. FreeSlot \in Slots /\ FreeSlot # p
    BY <1>2, FreeSlotIsFree DEF Wax
  <2> QED BY <1>2, <2>1 DEF Wax, TypeOK
<1> QED BY <1>1, <1>2, Evolution

\* An entry changes when a process registers itself or is confirmed, or it goes.
LEMMA RegistryMoves ==
  ASSUME TypeOK, [Next]_vars, NEW n \in Names
  PROVE  \/ registry'[n] \in {registry[n], 0}
         \/ \E p \in Slots : Preflight(p) /\ procs[p].name = n /\ registry'[n] = p
         \/ Confirm(n) /\ IsAlive(pid) /\ registry'[n] = pid
<1> USE DEF TypeOK, Entries
<1>1. CASE \E p \in Slots : Preflight(p)
  BY <1>1 DEF Preflight, Processes
<1>2. CASE (\E p \in Slots : Boot(p) \/ Drained(p) \/ Crash(p)) \/ Respawn \/ Setup \/ JobDies
           \/ UNCHANGED vars \/ (\E c \in Commands : Give(c[1], c[2]))
  BY <1>2 DEF Boot, Drained, Crash, Respawn, Setup, JobDies, Give, vars
<1>3. CASE \E m \in Names : Signal(m) \/ Spawn(m) \/ Terminate(m)
  BY <1>3 DEF Signal, Spawn, Terminate
<1>4. CASE \E m \in Names : Confirm(m)
  BY <1>4 DEF Confirm
<1>5. CASE \E m \in Names : Sweep(m)
  BY <1>5 DEF Sweep
<1>6. CASE \E m \in Names :
          \/ Unload(m) \/ Unloaded(m) \/ Entry(m) \/ Install(m) \/ Await(m) \/ List(m)
          \/ Exit(m) \/ Capture(m) \/ Replace(m) \/ WaitExit(m) \/ Relaunch(m)
          \/ AwaitUnit(m) \/ Health(m) \/ Rollback(m) \/ RolledBack(m)
  BY <1>6 DEF Unload, Unloaded, Entry, Install, Await, List, Exit, Capture, Replace, WaitExit,
     Relaunch, AwaitUnit, Health, Rollback, RolledBack
<1> QED BY <1>1, <1>2, <1>3, <1>4, <1>5, <1>6 DEF Next, ProcessStep, CommandStep

\* What becomes of the update in a step.
Rests ==
  /\ UNCHANGED <<binary, release>>
  /\ update'.phase = update.phase /\ update'.quiet = update.quiet
  /\ update'.captured = update.captured \/ (update'.captured = NoEntries /\ job' = <<>>)
Replaces(n) ==
  /\ At("replace", n) /\ update.phase = "captured"
  /\ binary' = "new" /\ release' \in Releases
  /\ update' = [update EXCEPT !.phase = "restart"] /\ Does(Replacing(n))

LEMMA UpdateMoves ==
  ASSUME TypeOK, Shape, [Next]_vars
  PROVE  \/ Rests
         \/ \E n \in Names : Capture(n) /\ update.phase = "none"
         \/ \E n \in Names : Replace(n) /\ Replaces(n)
         \/ \E n \in Names : Health(n) /\ update.phase = "restart" /\ update'.phase = "ok"
                             /\ UNCHANGED <<binary, release>> /\ update'.captured = update.captured
         \/ \E n \in Names : Rollback(n) /\ update.phase = "restart" /\ update'.phase = "rollback"
                             /\ release' = release /\ update'.quiet = update.quiet
                             /\ update'.captured = update.captured
         \/ update.phase \in Rolling /\ update'.phase \in Rolling
            /\ release' = release /\ update'.quiet = update.quiet
            /\ update'.captured = update.captured
<1>1. ASSUME NEW n \in Names, NEW s, At(s, n)
      PROVE  job # <<>> /\ job[1][1] = s
  <2>1. job # <<>> /\ job[1] = <<s, n>>
    BY <1>1, AtHead DEF TypeOK, Job
  <2> QED BY <2>1
<1>2. CASE ProcessStep \/ Setup \/ (\E p \in Slots : Crash(p)) \/ UNCHANGED vars
           \/ (\E c \in Commands : Give(c[1], c[2]))
  BY <1>2 DEF ProcessStep, Preflight, Boot, Drained, Respawn, Setup, Crash, Give, vars, settings,
     Rests
<1>3. CASE JobDies \/ \E n \in Names : Exit(n)
  <2>1. update' = [update EXCEPT !.captured = NoEntries] /\ job' = <<>>
        /\ UNCHANGED <<binary, release>>
    BY <1>3 DEF JobDies, Exit, settings
  <2> QED BY <2>1 DEF TypeOK, Rests
<1>4. CASE \E n \in Names : Capture(n)
  <2>1. PICK n \in Names : Capture(n)
    BY <1>4
  <2>2. update.phase = "none"
    BY <1>1, <2>1, PhaseByHead DEF Capture
  <2> QED BY <2>1, <2>2
<1>5. CASE \E n \in Names : Replace(n)
  <2>1. PICK n \in Names : Replace(n)
    BY <1>5
  <2>2. update.phase = "captured"
    BY <1>1, <2>1, PhaseByHead DEF Replace
  <2> QED BY <2>1, <2>2 DEF Replace, Replaces, Replacing, Rests
<1>6. CASE \E n \in Names : Health(n)
  <2>1. PICK n \in Names : Health(n)
    BY <1>6
  <2>2. update.phase = "restart"
    BY <1>1, <2>1, PhaseByHead DEF Health
  <2>3. /\ UNCHANGED <<binary, release>>
        /\ UNCHANGED update \/ update' = [update EXCEPT !.phase = "ok"]
    BY <2>1 DEF Health, settings
  <2> QED BY <2>1, <2>2, <2>3 DEF Rests, TypeOK
<1>7. CASE \E n \in Names : Rollback(n)
  <2>1. PICK n \in Names : Rollback(n)
    BY <1>7
  <2>2. At("rollback", n) /\ update' = [update EXCEPT !.phase = "rollback"] /\ release' = release
    BY <2>1 DEF Rollback, settings
  <2>3. job # <<>> /\ job[1][1] = "rollback"
    BY <1>1, <2>2
  <2>4. update.phase = "restart"
    BY <2>3, PhaseByHead
  <2> QED BY <2>1, <2>2, <2>4 DEF TypeOK
<1>8. CASE \E n \in Names : RolledBack(n)
  <2>1. PICK n \in Names : RolledBack(n)
    BY <1>8
  <2>2. At("rolled", n) /\ update' = [update EXCEPT !.phase = "rolled back"] /\ release' = release
    BY <2>1 DEF RolledBack, settings
  <2>3. job # <<>> /\ job[1][1] = "rolled"
    BY <1>1, <2>2
  <2>4. update.phase \in Rolling
    BY <2>3, PhaseByHead
  <2> QED BY <2>2, <2>4 DEF Rolling, TypeOK
<1>9. CASE \E n \in Names :
          \/ Unload(n) \/ Unloaded(n) \/ Signal(n) \/ Entry(n) \/ Install(n) \/ Await(n)
          \/ Spawn(n) \/ Confirm(n) \/ List(n) \/ Sweep(n) \/ Terminate(n) \/ WaitExit(n)
          \/ Relaunch(n) \/ AwaitUnit(n)
  BY <1>9 DEF Unload, Unloaded, Signal, Entry, Install, Await, Spawn, Confirm, List, Sweep,
     Terminate, WaitExit, Relaunch, AwaitUnit, settings, Rests
<1> QED BY <1>2, <1>3, <1>4, <1>5, <1>6, <1>7, <1>8, <1>9 DEF Next, CommandStep

\* Between the steps of a command its children stay, be it as zombies.
Aside ==
  \/ ProcessStep \/ Setup \/ (\E p \in Slots : Crash(p)) \/ UNCHANGED vars
  \/ \E c \in Commands : Give(c[1], c[2])

LEMMA ChildKept ==
  ASSUME TypeOK, Aside, NEW p \in Slots, Alive(procs[p]), procs[p].child
  PROVE  Alive(procs'[p]) /\ procs'[p].child
<1>1. ASSUME NEW q \in Slots, NEW r, procs' = [procs EXCEPT ![q] = r],
             q = p => Alive(r) /\ r.child
      PROVE  Alive(procs'[p]) /\ procs'[p].child
  BY <1>1 DEF TypeOK
<1>2. Alive(Exited(procs[p])) /\ Exited(procs[p]).child
  BY DEF Exited, Alive, TypeOK, Processes
<1>3. \A s : s # "none" => LET r == [procs[p] EXCEPT !.state = s] IN Alive(r) /\ r.child
  BY DEF Alive, TypeOK, Processes
<1>4. ASSUME NEW q \in Slots, procs' = [procs EXCEPT ![q] = Exited(@)]
      PROVE  Alive(procs'[p]) /\ procs'[p].child
  BY <1>1, <1>2, <1>4
<1>5. ASSUME NEW q \in Slots, NEW s \in {"starting", "up"},
             procs' = [procs EXCEPT ![q] = [procs[q] EXCEPT !.state = s]]
      PROVE  Alive(procs'[p]) /\ procs'[p].child
  <2>1. s # "none"
    OBVIOUS
  <2> QED BY <1>1, <1>3, <1>5, <2>1
<1>6. CASE \E q \in Slots : Preflight(q)
  <2>1. PICK q \in Slots : Preflight(q)
    BY <1>6
  <2>2. CASE procs' = [procs EXCEPT ![q].state = "starting"]
    <3>1. procs' = [procs EXCEPT ![q] = [procs[q] EXCEPT !.state = "starting"]]
      BY <2>2
    <3> QED BY <1>5, <3>1
  <2> QED BY <1>4, <2>1, <2>2 DEF Preflight
<1>7. CASE \E q \in Slots : Boot(q)
  <2>1. PICK q \in Slots : Boot(q)
    BY <1>7
  <2>2. \/ procs' = [procs EXCEPT ![q] = Exited(@)]
        \/ procs' = [procs EXCEPT ![q] = [procs[q] EXCEPT !.state = "up"]]
    BY <2>1 DEF Boot
  <2> QED BY <1>4, <1>5, <2>2
<1>8. CASE \E q \in Slots : Drained(q) \/ Crash(q)
  BY <1>4, <1>8 DEF Drained, Crash
<1>9. CASE Respawn
  <2>1. /\ FreeSlot \in Slots /\ FreeSlot # p
        /\ procs' = [procs EXCEPT ![FreeSlot] = Spawned("bridge", TRUE)]
    BY <1>9, FreeSlotIsFree DEF Respawn, Alive, Gone
  <2> QED BY <2>1 DEF TypeOK
<1>10. CASE Setup \/ UNCHANGED vars \/ \E c \in Commands : Give(c[1], c[2])
  BY <1>10 DEF Setup, vars, Give
<1> QED BY <1>6, <1>7, <1>8, <1>9, <1>10 DEF Aside, ProcessStep

LEMMA EntriesKnownKept ==
  ASSUME TypeOK, Shape, Pending, Known, [Next]_vars
  PROVE  EntriesKnown'
<1>1. ASSUME NEW n \in Names, NEW p \in References, p \in Slots \cup {0}, EntryKnown(p, n)
      PROVE  p # 0 /\ Alive(procs'[p]) => procs'[p].name = n
  BY <1>1, ReferredKept DEF EntryKnown, IsAlive, Alive
<1>2. ASSUME NEW n \in Names PROVE EntryKnown(registry[n], n)'
  <2>1. CASE registry'[n] \in {registry[n], 0}
    <3>1. registry[n] \in References /\ registry[n] \in Slots \cup {0} /\ EntryKnown(registry[n], n)
      BY Referred DEF TypeOK, Entries, Known, EntriesKnown
    <3> QED BY <1>1, <2>1, <3>1 DEF EntryKnown, IsAlive, Alive
  <2>2. CASE \E p \in Slots : Preflight(p) /\ procs[p].name = n /\ registry'[n] = p
    <3>1. PICK p \in Slots : Preflight(p) /\ procs[p].name = n /\ registry'[n] = p
      BY <2>2
    <3>2. Alive(procs'[p]) => procs'[p].name = n
      <4>1. CASE procs' = [procs EXCEPT ![p].state = "starting"]
        BY <3>1, <4>1 DEF TypeOK, Processes
      <4>2. CASE procs' = [procs EXCEPT ![p] = Exited(@)]
        <5>1. procs'[p] = Exited(procs[p])
          BY <4>2 DEF TypeOK
        <5>2. Alive(procs[p])
          BY <3>1 DEF Preflight, Alive
        <5> QED BY <3>1, <5>1, <5>2, ExitedFollows DEF TypeOK, Follows
      <4> QED BY <3>1, <4>1, <4>2 DEF Preflight
    <3> QED BY <3>1, <3>2 DEF EntryKnown, IsAlive, Alive
  <2>3. CASE Confirm(n) /\ IsAlive(pid) /\ registry'[n] = pid
    <3>1. job # <<>> /\ job[1] = <<"confirm", n>>
      BY <2>3, AtHead DEF TypeOK, Job, Confirm
    <3>2. job[1][2] = n
      BY <3>1
    <3>3. procs[pid].name = n /\ UNCHANGED procs
      BY <2>3, <3>2 DEF Known, PidKnown, IsAlive, Confirm
    <3> QED BY <2>3, <3>3 DEF EntryKnown, IsAlive
  <2> QED BY <2>1, <2>2, <2>3, RegistryMoves
<1>3. ASSUME NEW n \in Names PROVE EntryKnown(update.captured[n], n)'
  <2>1. CASE update'.captured = update.captured
    <3>1. update.captured[n] \in References /\ update.captured[n] \in Slots \cup {0}
          /\ EntryKnown(update.captured[n], n)
      BY Referred DEF TypeOK, Entries, Known, EntriesKnown
    <3> QED BY <1>1, <2>1, <3>1 DEF EntryKnown, IsAlive, Alive
  <2>2. CASE update'.captured = NoEntries
    BY <2>2 DEF NoEntries, EntryKnown, IsAlive
  <2>3. CASE \E m \in Names : Capture(m)
    <3>1. UNCHANGED procs
          /\ update'.captured = [m \in Names |-> IF Registered(m) THEN registry[m] ELSE 0]
      BY <2>3 DEF Capture
    <3> QED BY <3>1 DEF EntryKnown, IsAlive, Known, EntriesKnown
  <2>4. CASE \E m \in Names : Replaces(m)
    <3>1. update'.captured = update.captured
      BY <2>4 DEF Replaces, TypeOK
    <3> QED BY <2>1, <3>1
  <2> QED BY <2>1, <2>2, <2>3, <2>4, UpdateMoves DEF Rests
<1> QED BY <1>2, <1>3 DEF EntriesKnown

LEMMA PidKnownKept ==
  ASSUME TypeOK, Shape, Pending, Known, [Next]_vars
  PROVE  PidKnown'
<1>1. CASE Aside /\ pid # 0
  <2>1. job # <<>> /\ pid \in Slots /\ Alive(procs[pid]) /\ procs[pid].child
        /\ procs[pid].name = job[1][2] /\ (procs[pid].new <=> binary = "new")
    BY <1>1 DEF Pending, TypeOK, Known, PidKnown, IsAlive, Alive
  <2>2. UNCHANGED <<job, pid, binary>>
    BY <1>1, <2>1 DEF Aside, ProcessStep, Preflight, Boot, Drained, Respawn, Setup, Crash, Give,
       vars, command
  <2>3. Alive(procs'[pid]) /\ procs'[pid].child
    BY <1>1, <2>1, ChildKept
  <2>4. procs'[pid].name = procs[pid].name /\ procs'[pid].new = procs[pid].new
    BY <2>1, <2>3, Referred, ReferredKept
  <2> QED BY <1>1, <2>1, <2>2, <2>3, <2>4 DEF PidKnown, IsAlive, Alive
<1>2. CASE Aside /\ pid = 0
  <2>1. UNCHANGED pid
    BY <1>2 DEF Aside, ProcessStep, Preflight, Boot, Drained, Respawn, Setup, Crash, Give,
       vars, command
  <2> QED BY <1>2, <2>1 DEF PidKnown
<1>3. CASE JobDies
  BY <1>3 DEF JobDies, PidKnown
<1>4. CASE \E n \in Names : Confirm(n)
  BY <1>4 DEF Confirm, PidKnown
<1>5. ASSUME NEW n \in Names, NEW s, At(s, n), s # "confirm" PROVE pid = 0
  <2>1. job # <<>> /\ job[1] = <<s, n>>
    BY <1>5, AtHead DEF TypeOK, Job
  <2> QED BY <1>5, <2>1 DEF Pending
<1>6. CASE \E n \in Names : Spawn(n)
  <2>1. PICK n \in Names : Spawn(n)
    BY <1>6
  <2>2. pid = 0 /\ job # <<>> /\ job[1] = <<"spawn", n>>
    BY <1>5, <2>1, AtHead DEF Spawn, TypeOK, Job
  <2>3. CASE UNCHANGED pid
    BY <2>2, <2>3 DEF PidKnown
  <2>4. CASE Succeeds /\ pid' = FreeSlot /\ procs' = [procs EXCEPT ![FreeSlot] = Spawned(n, FALSE)]
    <3>1. FreeSlot \in Slots
      BY <2>1, FreeSlotIsFree DEF Spawn
    <3>2. procs'[pid'] = Spawned(n, FALSE) /\ pid' # 0
      BY <2>4, <3>1, NoSlotIsZero DEF TypeOK, ZeroIsNoSlot
    <3>3. Alive(procs'[pid']) /\ procs'[pid'].child /\ procs'[pid'].name = n
          /\ (procs'[pid'].new <=> binary = "new")
      BY <3>2, SpawnedIsProcess DEF Alive
    <3>4. job[1][1] = "spawn" /\ job[1][2] = n
      BY <2>2
    <3>5. job'[1] = job[2] /\ Goes(job[1], job[2])
      BY <2>2, <2>4, <3>4, NextStep DEF Shape
    <3>6. job'[1][2] = n
      BY <3>4, <3>5 DEF Goes
    <3>7. binary' = binary
      BY <2>1 DEF Spawn
    <3> QED BY <3>2, <3>3, <3>6, <3>7 DEF PidKnown, IsAlive, Alive
  <2> QED BY <2>1, <2>3, <2>4 DEF Spawn
<1>7. CASE \E n \in Names :
          \/ Unload(n) \/ Unloaded(n) \/ Signal(n) \/ Entry(n) \/ Install(n) \/ Await(n)
          \/ List(n) \/ Sweep(n) \/ Exit(n) \/ Capture(n) \/ Replace(n) \/ Terminate(n)
          \/ WaitExit(n) \/ Relaunch(n) \/ AwaitUnit(n) \/ Health(n) \/ Rollback(n)
          \/ RolledBack(n)
  <2>1. PICK n \in Names :
          \/ Unload(n) \/ Unloaded(n) \/ Signal(n) \/ Entry(n) \/ Install(n) \/ Await(n)
          \/ List(n) \/ Sweep(n) \/ Exit(n) \/ Capture(n) \/ Replace(n) \/ Terminate(n)
          \/ WaitExit(n) \/ Relaunch(n) \/ AwaitUnit(n) \/ Health(n) \/ Rollback(n)
          \/ RolledBack(n)
    BY <1>7
  <2>2. \E s \in Steps : s # "confirm" /\ At(s, n)
    BY <2>1 DEF Steps, Unload, Unloaded, Signal, Entry, Install, Await, List, Sweep, Exit, Capture,
       Replace, Terminate, WaitExit, Relaunch, AwaitUnit, Health, Rollback, RolledBack
  <2>3. UNCHANGED pid
    BY <2>1 DEF Unload, Unloaded, Signal, Entry, Install, Await, List, Sweep, Exit, Capture,
       Replace, Terminate, WaitExit, Relaunch, AwaitUnit, Health, Rollback, RolledBack
  <2> QED BY <1>5, <2>2, <2>3 DEF PidKnown
<1> QED BY <1>1, <1>2, <1>3, <1>4, <1>6, <1>7 DEF Next, CommandStep, Aside

LEMMA PreflightKnownKept ==
  ASSUME TypeOK, PreflightKnown, [Next]_vars
  PROVE  PreflightKnown'
<1>1. ASSUME NEW p \in Slots, procs'[p].state = "preflight" PROVE procs'[p].boot
  <2>1. CASE Wane
    BY <1>1, <2>1 DEF Wane, Follows, Alive, PreflightKnown
  <2>2. ASSUME NEW n \in Names, NEW b \in BOOLEAN, Wax(n, b) PROVE procs'[p].boot
    <3>1. FreeSlot \in Slots /\ procs' = [procs EXCEPT ![FreeSlot] = Spawned(n, b)]
      BY <2>2, FreeSlotIsFree DEF Wax
    <3>2. procs'[p] = IF p = FreeSlot THEN Spawned(n, b) ELSE procs[p]
      BY <3>1 DEF TypeOK
    <3> QED BY <1>1, <3>2, SpawnedIsProcess DEF PreflightKnown
  <2>3. "bridge" \in Names
    BY DEF Names
  <2> QED BY <2>1, <2>2, <2>3, Evolution
<1> QED BY <1>1 DEF PreflightKnown

LEMMA EarlyKept ==
  ASSUME TypeOK, Shape, Early, [Next]_vars
  PROVE  Early'
<1>1. CASE Rests \/ \E n \in Names : Capture(n) /\ update.phase = "none"
  <2>1. UNCHANGED <<binary, release>>
        /\ (update'.phase = "restart" => update.phase = "restart")
        /\ (update'.phase \in {"none", "captured"} => update.phase \in {"none", "captured"})
    BY <1>1 DEF Rests, Capture, settings
  <2>2. ASSUME update'.phase \in {"none", "captured"}, NEW p \in Slots, Alive(procs'[p])
        PROVE  ~procs'[p].new
    <3>1. ~(binary = "new") /\ (Alive(procs[p]) => ~procs[p].new)
      BY <2>1, <2>2 DEF Early
    <3>2. CASE Wane
      BY <2>2, <3>1, <3>2 DEF Wane, Follows
    <3>3. ASSUME NEW n \in Names, NEW b \in BOOLEAN, Wax(n, b) PROVE ~procs'[p].new
      <4>1. FreeSlot \in Slots /\ procs' = [procs EXCEPT ![FreeSlot] = Spawned(n, b)]
        BY <3>3, FreeSlotIsFree DEF Wax
      <4>2. procs'[p] = IF p = FreeSlot THEN Spawned(n, b) ELSE procs[p]
        BY <4>1 DEF TypeOK
      <4> QED BY <2>2, <3>1, <4>2, SpawnedIsProcess
    <3>4. "bridge" \in Names
      BY DEF Names
    <3> QED BY <3>2, <3>3, <3>4, Evolution
  <2> QED BY <2>1, <2>2 DEF Early
<1>2. CASE \E n \in Names : Replaces(n)
  BY <1>2 DEF Replaces, Early, TypeOK
<1>3. CASE update'.phase \in {"ok", "rollback"} \/ update'.phase \in Rolling
  BY <1>3 DEF Early, Rolling
<1> QED BY <1>1, <1>2, <1>3, UpdateMoves

LEMMA FrameAlways == Spec => []Frame
<1>1. Init => Unsupervised /\ Pending
  BY DEF Init, NoUpdate, Unsupervised, Pending, BootProcs, Gone
<1>2. TypeOK /\ Unsupervised /\ [Next]_vars => Unsupervised'
  BY UnsupervisedKept
<1>3. TypeOK /\ Shape /\ Pending /\ [Next]_vars => Pending'
  BY PendingKept
<1>4. TypeOK /\ Shape /\ Unsupervised /\ Pending => Frame
  BY DEF Frame
<1> QED BY <1>1, <1>2, <1>3, <1>4, ManagerTypeCorrect, ShapeAlways, PTL DEF Spec

LEMMA KnownAlways == Spec => [](Known /\ Early)
<1>1. Init => Known /\ Early
  <2> SUFFICES ASSUME Init PROVE Known /\ Early
    OBVIOUS
  <2>1. \A p \in Slots : procs[p].state = "none" /\ ~procs[p].new
    BY DEF Init, Gone
  <2>2. registry = NoEntries /\ update.captured = NoEntries /\ update.phase = "none" /\ pid = 0
        /\ binary = "old" /\ release = "good"
    BY DEF Init, NoUpdate
  <2>3. EntriesKnown
    BY <2>2 DEF EntriesKnown, EntryKnown, NoEntries, IsAlive
  <2> QED BY <2>1, <2>2, <2>3 DEF Known, PidKnown, PreflightKnown, Early
<1>2. Frame /\ Known /\ Early /\ [Next]_vars => Known' /\ Early'
  BY EntriesKnownKept, PidKnownKept, PreflightKnownKept, EarlyKept DEF Known, Frame
<1> QED BY <1>1, <1>2, FrameAlways, PTL DEF Spec

-----------------------------------------------------------------------------
\* The services are restarted in turn.

\* Each of those that were captured is restarted when its entry is gone, and
\* the entry of scan is that of its process at the health check.
TurnAt(step, n) ==
  /\ step \in Restarting => n \in Captured
  /\ step = "await unit" => n = "bridge" /\ unit
  /\ step = "spawn" /\ n = "bridge" => ~unit
  /\ step \in {"exited", "relaunch", "spawn"} /\ n = "scan" => registry["scan"] = 0
  /\ step = "health" /\ "scan" \in Captured =>
       IsAlive(registry["scan"]) /\ procs[registry["scan"]].child
Turns == update.phase = "restart" /\ job # <<>> => TurnAt(job[1][1], job[1][2])

\* The steps of a restart.
TurnStep(n) ==
  \/ Terminate(n) \/ WaitExit(n) \/ Relaunch(n) \/ AwaitUnit(n) \/ Spawn(n) \/ Confirm(n)
  \/ Health(n)

LEMMA RestartSteppings ==
  ASSUME Frame, [Next]_vars, update.phase = "restart", job # <<>>
  PROVE  \/ Aside \/ JobDies
         \/ \E n \in Names : TurnStep(n) \/ Rollback(n)
<1>1. ASSUME NEW n \in Names, NEW s, At(s, n) PROVE s \in Restarting \cup {"health", "rollback"}
  <2>1. job[1] = <<s, n>>
    BY <1>1, AtHead DEF Frame, TypeOK, Job
  <2>2. job[1][1] = s
    BY <2>1
  <2> QED BY <2>2, HeadByPhase DEF Frame
<1>2. CASE \E n \in Names :
          \/ Unload(n) \/ Unloaded(n) \/ Signal(n) \/ Entry(n) \/ Install(n) \/ Await(n)
          \/ List(n) \/ Sweep(n) \/ Exit(n) \/ Capture(n) \/ Replace(n) \/ RolledBack(n)
  <2>1. PICK n \in Names :
          \/ Unload(n) \/ Unloaded(n) \/ Signal(n) \/ Entry(n) \/ Install(n) \/ Await(n)
          \/ List(n) \/ Sweep(n) \/ Exit(n) \/ Capture(n) \/ Replace(n) \/ RolledBack(n)
    BY <1>2
  <2>2. \E s \in {"unload", "unloaded", "signal", "entry", "install", "await", "list", "sweep",
                  "exit", "else", "capture", "replace", "rolled"} : At(s, n)
    BY <2>1 DEF Unload, Unloaded, Signal, Entry, Install, Await, List, Sweep, Exit, Capture,
       Replace, RolledBack
  <2> QED BY <1>1, <2>2 DEF Restarting
<1> QED BY <1>2 DEF Next, CommandStep, Aside, TurnStep

\* The step that is next when a restart goes on.
LEMMA TurnGoesOn ==
  ASSUME TypeOK, Shape, update.phase = "restart", NEW n \in Names,
         NEW s, s \in OneRestart, At(s, n), Succeeds
  PROVE  /\ job' # <<>>
         /\ s = "terminate" => job'[1][1] = "exited" /\ job'[1][2] = n
         /\ s = "exited" => job'[1][1] = "relaunch" /\ job'[1][2] = n
         /\ s = "spawn" => job'[1][1] = "confirm" /\ job'[1][2] = n
         /\ s \in {"await unit", "confirm"} =>
              IF n = "bridge" /\ "scan" \in Captured
              THEN job'[1][1] = "terminate" /\ job'[1][2] = "scan"
              ELSE job'[1][1] = "health"
<1>1. job # <<>> /\ job[1] = <<s, n>>
  BY AtHead DEF TypeOK, Job
<1>2. job[1][1] = s /\ job[1][2] = n
  BY <1>1
<1>3. RestartGoes(Captured, job[1], job[2]) /\ job'[1] = job[2] /\ job' # <<>>
  <2>1. s # "exit"
    BY DEF OneRestart
  <2> QED BY <1>1, <1>2, <2>1, NextRestart, NextStep DEF Shape
<1> DEFINE b == job[2]
<1>4. /\ s = "terminate" => b = <<"exited", n>>
      /\ s = "exited" => b = <<"relaunch", n>>
      /\ s = "spawn" => b = <<"confirm", n>>
      /\ s \in {"await unit", "confirm"} =>
            IF n = "bridge" /\ "scan" \in Captured THEN b = <<"terminate", "scan">>
            ELSE b[1] = "health"
  BY <1>3, <1>2 DEF RestartGoes
<1>5. job'[1] = b /\ job' # <<>>
  BY <1>3
<1> HIDE DEF b
<1>6. ASSUME NEW t, NEW m, b = <<t, m>> PROVE b[1] = t /\ b[2] = m
  BY <1>6
<1>7. /\ s = "terminate" => b[1] = "exited" /\ b[2] = n
      /\ s = "exited" => b[1] = "relaunch" /\ b[2] = n
      /\ s = "spawn" => b[1] = "confirm" /\ b[2] = n
  BY <1>4, <1>6
<1>8. s \in {"await unit", "confirm"} =>
        IF n = "bridge" /\ "scan" \in Captured THEN b[1] = "terminate" /\ b[2] = "scan"
        ELSE b[1] = "health"
  BY <1>4, <1>6
<1> QED BY <1>5, <1>7, <1>8

LEMMA RelaunchFirst ==
  ASSUME TypeOK, NEW n \in Names, Relaunch(n)
  PROVE  /\ job' # <<>> /\ job'[1][2] = n
         /\ job'[1][1] = IF n = "bridge" /\ unit THEN "await unit" ELSE "spawn"
<1> DEFINE x == <<"await unit", n>>
           y == <<"spawn", n>>
           z == <<"confirm", n>>
           S == Steps \X Names
           r == job'
           f == IF n = "bridge" /\ unit THEN x ELSE y
           t == Tail(job)
<1>1. job \in Seq(S) /\ job # <<>>
  BY AtHead DEF TypeOK, Relaunch, Job
<1>2. t \in Seq(S)
  BY <1>1, HeadTailProperties
<1>3. x \in S /\ y \in S /\ z \in S
  BY StepNames, StepInSet DEF StepSet
<1>4. r = (IF n = "bridge" /\ unit THEN <<x>> ELSE <<y, z>>) \o t
  BY DEF Relaunch, Does
<1>5. f[2] = n /\ f[1] = IF n = "bridge" /\ unit THEN "await unit" ELSE "spawn"
  OBVIOUS
<1>6. f = IF n = "bridge" /\ unit THEN x ELSE y
  OBVIOUS
<1> HIDE DEF x, y, z, S, r, t, f
<1>7. ASSUME NEW s \in Seq(S), NEW a, Len(s) >= 1, s[1] = a, r = s \o t PROVE r # <<>> /\ r[1] = a
  <2>1. 1 \in 1..Len(s) /\ Len(s) \in Nat
    BY <1>7, LenProperties
  <2>2. 1 \in 1..Len(s \o t) /\ (s \o t)[1] = s[1]
    BY <1>2, <2>1, ConcatAt
  <2>3. Len(r) # 0
    BY <1>7, <2>2
  <2> QED BY <1>7, <2>2, <2>3, EmptySeq
<1>8. <<x>> \in Seq(S) /\ Len(<<x>>) >= 1 /\ <<x>>[1] = x
  BY <1>3
<1>9. <<y, z>> \in Seq(S) /\ Len(<<y, z>>) >= 1 /\ <<y, z>>[1] = y
  BY <1>3
<1>10. r # <<>> /\ r[1] = f
  BY <1>4, <1>6, <1>7, <1>8, <1>9
<1> QED BY <1>5, <1>10 DEF r

LEMMA HeadOf ==
  ASSUME TypeOK, NEW n \in Names, NEW s, At(s, n)
  PROVE  job # <<>> /\ job[1] = <<s, n>> /\ job[1][1] = s /\ job[1][2] = n
<1>1. job # <<>> /\ job[1] = <<s, n>>
  BY AtHead DEF TypeOK, Job
<1> QED BY <1>1

\* A restart that falls goes on with the roll-back.
LEMMA TurnFalls ==
  ASSUME TypeOK, Shape, update.phase = "restart", job # <<>>, job[1][1] \in Fallible, Fails,
         update'.captured = update.captured
  PROVE  job'[1][1] = "rollback"
<1>1. Captured' = Captured
  BY DEF Captured
<1> QED BY <1>1, RestartsFalls DEF Shape

LEMMA TurnsByAside ==
  ASSUME Frame, Known, Turns, [Next]_vars, Aside, update.phase = "restart"
  PROVE  Turns'
<1> SUFFICES ASSUME update'.phase = "restart", job' # <<>> PROVE TurnAt(job[1][1], job[1][2])'
  BY DEF Turns
<1>1. UNCHANGED <<job, unit, update>> /\ Captured' = Captured
  BY DEF Aside, ProcessStep, Preflight, Boot, Drained, Respawn, Setup, Crash, Give, vars, command,
     Captured
<1>2. TurnAt(job[1][1], job[1][2])
  BY <1>1 DEF Turns
<1>3. UNCHANGED registry \/ \E p \in Slots : Preflight(p)
  BY DEF Aside, ProcessStep, Boot, Drained, Respawn, Setup, Crash, Give, vars
<1>4. registry'["scan"] = registry["scan"]
  <2>1. ASSUME NEW p \in Slots, Preflight(p) PROVE registry'["scan"] = registry["scan"]
    <3>1. procs[p].name = "bridge"
      BY <2>1 DEF Preflight, Known, PreflightKnown, Frame, TypeOK, BootProcs
    <3>2. "scan" # "bridge" /\ "scan" \in Names
      BY DEF Names
    <3> QED BY <2>1, <3>1, <3>2 DEF Preflight, Frame, TypeOK, Entries
  <2> QED BY <1>3, <2>1
<1>5. IsAlive(registry["scan"]) /\ procs[registry["scan"]].child =>
        (IsAlive(registry["scan"]) /\ procs[registry["scan"]].child)'
  <2>1. registry["scan"] \in Slots \cup {0}
    BY DEF Frame, TypeOK, Entries, Names
  <2> QED BY <1>4, <2>1, ChildKept DEF IsAlive, Alive, Frame
<1> DEFINE s == job[1][1]
           n == job[1][2]
<1>6. TurnAt(s, n)
  BY <1>2
<1>7. s' = s /\ n' = n
  BY <1>1
<1> HIDE DEF s, n
<1>8. TurnAt(s, n)'
  BY <1>1, <1>4, <1>5, <1>6, <1>7 DEF TurnAt
<1> QED BY <1>8 DEF s, n

LEMMA TurnsByStep ==
  ASSUME Frame, Known, Turns, [Next]_vars, update.phase = "restart", NEW n \in Names,
         TurnStep(n), update'.phase = "restart"
  PROVE  Turns'
<1> SUFFICES ASSUME job' # <<>> PROVE TurnAt(job[1][1], job[1][2])'
  BY DEF Turns
<1>1. TypeOK /\ Shape
  BY DEF Frame
<1>2. UNCHANGED <<unit, update>> /\ Captured' = Captured
  <2>1. CASE Health(n)
    <3>1. UNCHANGED unit /\ (UNCHANGED update \/ update' = [update EXCEPT !.phase = "ok"])
      BY <2>1 DEF Health
    <3>2. UNCHANGED update
      BY <1>1, <3>1 DEF TypeOK
    <3> QED BY <3>1, <3>2 DEF Captured
  <2> QED BY <2>1 DEF TurnStep, Terminate, WaitExit, Relaunch, AwaitUnit, Spawn, Confirm, Captured
<1>3. ASSUME NEW s, At(s, n)
      PROVE  job # <<>> /\ job[1][1] = s /\ job[1][2] = n /\ TurnAt(s, n)
  BY <1>1, <1>3, HeadOf DEF Turns
<1>4. ASSUME job'[1][1] = "rollback" PROVE TurnAt(job[1][1], job[1][2])'
  BY <1>4 DEF TurnAt, Restarting
<1>5. ASSUME NEW s, At(s, n), s \in Fallible, Fails PROVE TurnAt(job[1][1], job[1][2])'
  BY <1>1, <1>2, <1>3, <1>4, <1>5, TurnFalls
<1>n. n \in {"bridge", "scan"} /\ "scan" \in Names /\ n \in Names
  BY DEF Names
<1>o. OneRestart \subseteq Restarting
  BY DEF OneRestart, Restarting
<1>6. CASE Terminate(n)
  <2>1. At("terminate", n) /\ Succeeds /\ "terminate" \in OneRestart
    BY <1>6 DEF Terminate, OneRestart
  <2>2. n \in Captured
    BY <1>3, <1>o, <2>1 DEF TurnAt
  <2>3. registry'[n] = 0
    BY <1>1, <1>6, <1>n DEF Terminate, TypeOK, Entries
  <2>4. job'[1][1] = "exited" /\ job'[1][2] = n
    BY <1>1, <2>1, TurnGoesOn
  <2> QED BY <1>2, <2>2, <2>3, <2>4 DEF TurnAt
<1>7. CASE WaitExit(n)
  <2>1. At("exited", n) /\ Succeeds /\ "exited" \in OneRestart /\ UNCHANGED registry
    BY <1>7 DEF WaitExit, OneRestart
  <2>2. TurnAt("exited", n) /\ n \in Captured
    BY <1>3, <1>o, <2>1 DEF TurnAt
  <2>3. job'[1][1] = "relaunch" /\ job'[1][2] = n
    BY <1>1, <2>1, TurnGoesOn
  <2> QED BY <1>2, <2>1, <2>2, <2>3 DEF TurnAt
<1>8. CASE Relaunch(n)
  <2>1. At("relaunch", n) /\ "relaunch" \in Restarting /\ UNCHANGED registry
    BY <1>8 DEF Relaunch, Restarting
  <2>2. TurnAt("relaunch", n) /\ n \in Captured
    BY <1>3, <2>1 DEF TurnAt
  <2>3. job'[1][2] = n /\ job'[1][1] = IF n = "bridge" /\ unit THEN "await unit" ELSE "spawn"
    BY <1>1, <1>8, RelaunchFirst
  <2> QED BY <1>2, <2>1, <2>2, <2>3 DEF TurnAt
<1>9. CASE AwaitUnit(n)
  <2>1. At("await unit", n) /\ (Succeeds \/ Fails) /\ "await unit" \in OneRestart
        /\ "await unit" \in Fallible
    BY <1>9 DEF AwaitUnit, OneRestart, Fallible
  <2>2. n = "bridge"
    BY <1>3, <2>1 DEF TurnAt
  <2>3. CASE Succeeds
    <3>1. IF n = "bridge" /\ "scan" \in Captured
          THEN job'[1][1] = "terminate" /\ job'[1][2] = "scan" ELSE job'[1][1] = "health"
      BY <1>1, <2>1, <2>3, TurnGoesOn
    <3> QED BY <1>2, <2>2, <3>1 DEF TurnAt, Restarting
  <2> QED BY <1>5, <2>1, <2>3
<1>10. CASE Spawn(n)
  <2>1. At("spawn", n) /\ (Succeeds \/ Fails) /\ "spawn" \in OneRestart /\ "spawn" \in Fallible
    BY <1>10 DEF Spawn, OneRestart, Fallible
  <2>2. CASE Succeeds
    <3>1. n \in Captured
      BY <1>3, <1>o, <2>1 DEF TurnAt
    <3>2. job'[1][1] = "confirm" /\ job'[1][2] = n
      BY <1>1, <2>1, <2>2, TurnGoesOn
    <3> QED BY <1>2, <3>1, <3>2 DEF TurnAt
  <2> QED BY <1>5, <2>1, <2>2
<1>11. CASE Confirm(n)
  <2>1. At("confirm", n) /\ "confirm" \in OneRestart /\ "confirm" \in Fallible /\ UNCHANGED procs
    BY <1>11 DEF Confirm, OneRestart, Fallible
  <2>2. pid # 0
    BY <1>3, <2>1 DEF Frame, Pending
  <2>3. IsAlive(pid) /\ procs[pid].child
    BY <2>2 DEF Known, PidKnown
  <2>4. Succeeds /\ registry' = [registry EXCEPT ![n] = pid]
    BY <1>11, <2>3 DEF Confirm
  <2>5. registry'[n] = pid
    BY <1>1, <2>4 DEF TypeOK, Entries
  <2>6. IF n = "bridge" /\ "scan" \in Captured
        THEN job'[1][1] = "terminate" /\ job'[1][2] = "scan" ELSE job'[1][1] = "health"
    BY <1>1, <2>1, <2>4, TurnGoesOn
  <2>7. IsAlive(registry[n])' /\ procs'[registry'[n]].child
    BY <2>1, <2>3, <2>5 DEF IsAlive
  <2>8. CASE n = "bridge"
    <3>1. IF "scan" \in Captured THEN job'[1][1] = "terminate" /\ job'[1][2] = "scan"
          ELSE job'[1][1] = "health"
      BY <2>6, <2>8
    <3> QED BY <1>2, <3>1 DEF TurnAt, Restarting
  <2>9. CASE n = "scan"
    <3>1. job'[1][1] = "health"
      BY <2>6, <2>9
    <3>2. (IsAlive(registry["scan"]) /\ procs[registry["scan"]].child)'
      BY <2>7, <2>9
    <3> QED BY <3>1, <3>2 DEF TurnAt, Restarting
  <2> QED BY <1>n, <2>8, <2>9
<1>12. CASE Health(n)
  <2>1. At("health", n) /\ "health" \in Fallible
    BY <1>12 DEF Health, Fallible
  <2>2. Fails
    BY <1>1, <1>2, <1>12 DEF Health, TypeOK
  <2> QED BY <1>5, <2>1, <2>2
<1> QED BY <1>6, <1>7, <1>8, <1>9, <1>10, <1>11, <1>12 DEF TurnStep

LEMMA TurnsKept ==
  ASSUME Frame, Known, Turns, [Next]_vars
  PROVE  Turns'
<1> SUFFICES ASSUME update'.phase = "restart", job' # <<>> PROVE Turns'
  BY DEF Turns
<1>1. TypeOK /\ Shape
  BY DEF Frame
<1>2. CASE update.phase = "restart" /\ job # <<>>
  <2>1. CASE \E n \in Names : Rollback(n)
    BY <1>1, <2>1 DEF Rollback, TypeOK
  <2>2. CASE JobDies
    BY <2>2 DEF JobDies
  <2> QED BY <1>2, <2>1, <2>2, RestartSteppings, TurnsByAside, TurnsByStep
<1>3. CASE update.phase = "restart" /\ job = <<>>
  <2>1. CASE CommandStep
    BY <1>3, <2>1 DEF CommandStep, At, Unload, Unloaded, Signal, Entry, Install, Await, Spawn,
       Confirm, List, Sweep, Exit, Capture, Replace, Terminate, WaitExit, Relaunch, AwaitUnit,
       Health, Rollback, RolledBack
  <2>2. CASE ~CommandStep
    BY <1>3, <2>2 DEF Next, ProcessStep, Preflight, Boot, Drained, Respawn, Setup, Crash, JobDies,
       Give, vars, command
  <2> QED BY <2>1, <2>2
<1>4. CASE update.phase # "restart"
  <2>1. PICK n \in Names : Replaces(n)
    BY <1>4, UpdateMoves, <1>1 DEF Rests, Capture, Rolling
  <2>2. Captured' = Captured
    BY <1>1, <2>1 DEF Replaces, Captured, TypeOK
  <2>3. Chain(RestartR(Captured), StepSet, job', FirstRestart(n), Exits)
    BY <1>1, <2>1, ReplaceRestarts DEF Replaces, Shape
  <2> DEFINE r == job'
  <2>4. r[1] \in FirstRestart(n)
    BY <2>3, ElementsOfChain
  <2> HIDE DEF r
  <2>5. \/ Captured = {} /\ r[1][1] = "health"
        \/ r[1][1] = "terminate" /\ r[1][2] \in Captured
    <3>1. CASE Captured = {}
      <4>1. r[1] = <<"health", n>>
        BY <2>4, <3>1 DEF FirstRestart
      <4> QED BY <3>1, <4>1
    <3>2. CASE Captured # {}
      <4>1. r[1] \in {"terminate"} \X Firsts
        BY <2>4, <3>2 DEF FirstRestart
      <4>2. PICK m \in Firsts : r[1] = <<"terminate", m>>
        BY <4>1
      <4> QED BY <4>2 DEF Firsts
    <3> QED BY <3>1, <3>2
  <2>6. TurnAt(job[1][1], job[1][2])'
    BY <2>2, <2>5 DEF TurnAt, Restarting, r
  <2> QED BY <2>6 DEF Turns
<1> QED BY <1>2, <1>3, <1>4

-----------------------------------------------------------------------------
\* The bridge in an update of what is all registered, in which nothing crashes.

Calm == crashes = 0 /\ update.quiet

Bridges == {p \in Slots : procs[p].name = "bridge" /\ Alive(procs[p])}

\* There is one bridge at most, the unit's if there is one.
Single ==
  /\ \A p \in Bridges : procs[p].boot = unit
  /\ \A p, q \in Bridges : p = q

\* The supervisor has started p for the new version.
Fresh(p) ==
  /\ unit /\ Runs(p) /\ procs[p].new
  /\ procs[p].state = "preflight" \/ registry["bridge"] = p

\* What a step of the processes and of the supervisor makes of the bridge.
Stays(p) ==
  /\ procs'[p].new = procs[p].new
  /\ Runs(p)' => Runs(p)
  /\ Fresh(p) => Fresh(p)'
Comes(p) == unit /\ procs'[p] = Spawned("bridge", TRUE)
Moved ==
  /\ \A p \in Bridges' : (p \in Bridges /\ Stays(p)) \/ Comes(p)
  /\ \A p \in Bridges : Runs(p) /\ ~(procs[p].new /\ release = "dies") =>
        p \in Bridges' /\ Runs(p)' /\ procs'[p].new = procs[p].new
  /\ ~unit => registry'["bridge"] = registry["bridge"]
  /\ \A p \in Bridges : registry["bridge"] = p => registry'["bridge"] = p
  /\ Single'

LEMMA NoPortHeld ==
  ASSUME Single, NEW q \in Bridges, procs[q].state \in {"preflight", "starting"}
  PROVE  ~PortHeld
BY DEF Single, Bridges, PortHeld, Alive

\* A step of one process.
LEMMA OneMoves ==
  ASSUME TypeOK, Single, UNCHANGED unit, NEW q \in Slots, NEW r,
         procs' = [procs EXCEPT ![q] = r], Follows(procs[q], r)
  PROVE  /\ Bridges' \subseteq Bridges /\ Single'
         /\ \A p \in Slots : p # q => procs'[p] = procs[p]
         /\ procs'[q] = r
<1>1. procs'[q] = r /\ \A p \in Slots : p # q => procs'[p] = procs[p]
  BY DEF TypeOK
<1>2. ASSUME NEW p \in Bridges' PROVE p \in Bridges /\ procs'[p].boot = procs[p].boot
  <2>1. Follows(procs[p], procs'[p])
    BY <1>1, FollowsItself DEF Bridges, TypeOK
  <2> QED BY <2>1 DEF Bridges, Follows
<1>3. Single'
  BY <1>2 DEF Single
<1> QED BY <1>1, <1>2, <1>3

LEMMA MovedByPreflight ==
  ASSUME TypeOK, PreflightKnown, Single, NEW q \in Slots, Preflight(q)
  PROVE  Moved
<1>1. q \in BootProcs /\ q \in Bridges /\ procs[q].name = "bridge" /\ unit
  BY DEF Preflight, PreflightKnown, TypeOK, BootProcs, Bridges, Alive, Single
<1>2. ~PortHeld
  BY <1>1, NoPortHeld DEF Preflight
<1> DEFINE r == [procs[q] EXCEPT !.state = "starting"]
<1>3. procs' = [procs EXCEPT ![q] = r] /\ registry' = [registry EXCEPT !["bridge"] = q]
      /\ unit' = unit
  BY <1>1, <1>2 DEF Preflight
<1>4. registry'["bridge"] = q
  BY <1>3 DEF TypeOK, Entries, Names
<1>5. Follows(procs[q], r)
  BY StateFollows DEF Preflight, Active, TypeOK
<1>6. r.state = "starting" /\ r.name = "bridge" /\ r.new = procs[q].new
  BY <1>1 DEF TypeOK, Processes
<1> HIDE DEF r
<1>7. Bridges' \subseteq Bridges /\ Single' /\ procs'[q] = r
  BY <1>3, <1>5, OneMoves
<1>8. \A p \in Bridges : p = q
  BY <1>1 DEF Single
<1>9. q \in Bridges' /\ Runs(q)' /\ Runs(q) /\ procs'[q].new = procs[q].new
  BY <1>6, <1>7 DEF Bridges, Runs, Alive, Preflight
<1>10. Fresh(q) => Fresh(q)'
  BY <1>1, <1>3, <1>4, <1>9 DEF Fresh
<1> QED BY <1>1, <1>4, <1>7, <1>8, <1>9, <1>10 DEF Moved, Stays

LEMMA MovedByBoot ==
  ASSUME TypeOK, Single, NEW q \in Slots, Boot(q)
  PROVE  Moved
<1> DEFINE fails == (procs[q].new /\ release = "dies") \/ (procs[q].name = "bridge" /\ PortHeld)
           r == IF fails THEN Exited(procs[q]) ELSE [procs[q] EXCEPT !.state = "up"]
<1>1. procs[q].state = "starting" /\ procs' = [procs EXCEPT ![q] = r]
      /\ UNCHANGED <<unit, registry>>
  BY DEF Boot
<1>2. procs[q] \in Processes /\ Alive(procs[q])
  BY <1>1 DEF TypeOK, Alive
<1>3. Follows(procs[q], r) /\ (fails => r.state \in {"zombie", "none"})
      /\ (~fails => r.state = "up" /\ r.name = procs[q].name /\ r.new = procs[q].new)
  BY <1>1, <1>2, ExitedFollows, StateFollows DEF Active, Processes
<1>4. q \in Bridges => (fails <=> procs[q].new /\ release = "dies")
  BY <1>1, NoPortHeld
<1>5. fails /\ unit /\ q \in Bridges => r.state = "none"
  <2>1. SUFFICES ASSUME fails, unit, q \in Bridges PROVE r.state = "none"
    OBVIOUS
  <2>2. q \in BootProcs
    BY <2>1 DEF Single, Bridges, BootProcs, Alive
  <2>3. r = Gone
    BY <2>1, <2>2 DEF TypeOK, Exited
  <2> QED BY <2>3 DEF Gone
<1> HIDE DEF r, fails
<1>6. Bridges' \subseteq Bridges /\ Single' /\ procs'[q] = r
      /\ \A p \in Slots : p # q => procs'[p] = procs[p]
  BY <1>1, <1>3, OneMoves
<1>7. ASSUME NEW p \in Bridges, p # q
      PROVE  p \in Bridges' /\ (Runs(p)' <=> Runs(p)) /\ procs'[p].new = procs[p].new
             /\ (Fresh(p) => Fresh(p)')
  BY <1>1, <1>6, <1>7 DEF Bridges, Runs, Fresh
<1>8. CASE q \in Bridges /\ fails
  <2>1. ~Runs(q)'
    BY <1>3, <1>6, <1>8 DEF Runs
  <2>2. q \in Bridges' => ~unit /\ procs'[q].new = procs[q].new
    BY <1>3, <1>5, <1>6, <1>8 DEF Bridges, Follows, Alive
  <2>3. ~unit => ~Fresh(q)
    BY DEF Fresh
  <2> QED BY <1>1, <1>4, <1>6, <1>7, <1>8, <2>1, <2>2, <2>3 DEF Moved, Stays
<1>9. CASE q \in Bridges /\ ~fails
  <2>1. q \in Bridges' /\ Runs(q)' /\ Runs(q) /\ procs'[q].new = procs[q].new
    BY <1>1, <1>3, <1>6, <1>9 DEF Bridges, Runs, Alive
  <2>2. Fresh(q) => Fresh(q)'
    BY <1>1, <2>1 DEF Fresh
  <2> QED BY <1>1, <1>6, <1>7, <2>1, <2>2 DEF Moved, Stays
<1>10. CASE q \notin Bridges
  BY <1>1, <1>6, <1>7, <1>10 DEF Moved, Stays
<1> QED BY <1>8, <1>9, <1>10

LEMMA MovedByDrained ==
  ASSUME TypeOK, Single, NEW q \in Slots, Drained(q)
  PROVE  Moved
<1> DEFINE r == Exited(procs[q])
<1>1. procs[q].state = "draining" /\ procs' = [procs EXCEPT ![q] = r]
      /\ UNCHANGED <<unit, registry>>
  BY DEF Drained
<1>2. Follows(procs[q], r) /\ r.state \in {"zombie", "none"}
  BY <1>1, ExitedFollows DEF TypeOK, Alive
<1> HIDE DEF r
<1>3. Bridges' \subseteq Bridges /\ Single' /\ procs'[q] = r
      /\ \A p \in Slots : p # q => procs'[p] = procs[p]
  BY <1>1, <1>2, OneMoves
<1>4. ASSUME NEW p \in Bridges, p # q
      PROVE  p \in Bridges' /\ (Runs(p)' <=> Runs(p)) /\ procs'[p].new = procs[p].new
             /\ (Fresh(p) => Fresh(p)')
  BY <1>1, <1>3, <1>4 DEF Bridges, Runs, Fresh
<1>5. ~Runs(q) /\ ~Runs(q)' /\ ~Fresh(q)
  BY <1>1, <1>2, <1>3 DEF Runs, Fresh
<1>6. q \in Bridges' => procs'[q].new = procs[q].new
  BY <1>2, <1>3 DEF Bridges, Follows
<1> QED BY <1>1, <1>3, <1>4, <1>5, <1>6 DEF Moved, Stays

LEMMA MovedByRespawn ==
  ASSUME TypeOK, Single, Respawn
  PROVE  Moved
<1>1. unit /\ BootProcs = {} /\ FreeSlot \in Slots
      /\ procs' = [procs EXCEPT ![FreeSlot] = Spawned("bridge", TRUE)]
      /\ UNCHANGED <<unit, registry>>
  BY FreeSlotIsFree DEF Respawn
<1>2. Bridges = {}
  BY <1>1 DEF Single, Bridges, BootProcs, Alive
<1>3. procs'[FreeSlot] = Spawned("bridge", TRUE)
      /\ \A p \in Slots : p # FreeSlot => procs'[p] = procs[p]
  BY <1>1 DEF TypeOK
<1>4. \A p \in Bridges' : p = FreeSlot
  BY <1>2, <1>3 DEF Bridges
<1>5. procs'[FreeSlot].boot = TRUE
  BY <1>3 DEF Spawned
<1>6. Single'
  BY <1>1, <1>4, <1>5 DEF Single, TypeOK
<1> QED BY <1>1, <1>2, <1>3, <1>4, <1>6 DEF Moved, Comes

LEMMA MovedByProcesses ==
  ASSUME TypeOK, PreflightKnown, Single, ProcessStep \/ UNCHANGED vars
  PROVE  Moved
<1>1. CASE UNCHANGED vars
  BY <1>1 DEF vars, Moved, Stays, Single, Bridges, Runs, Fresh
<1> QED
  BY <1>1, MovedByPreflight, MovedByBoot, MovedByDrained, MovedByRespawn DEF ProcessStep

-----------------------------------------------------------------------------
\* Where the bridge is, from the capture of the services to the health check.

\* The old one runs and is registered.
OldRuns ==
  LET c == update.captured["bridge"]
  IN registry["bridge"] = c /\ c \in Bridges /\ Runs(c) /\ ~procs[c].new

\* The old one is told to end; the supervisor may start another one behind it.
Leaves ==
  /\ \A p \in Bridges : Fresh(p) \/ (p = update.captured["bridge"] /\ ~Runs(p))
  /\ ~unit => registry["bridge"] = 0

\* The old one is gone.
Left ==
  /\ \A p \in Bridges : Fresh(p)
  /\ ~unit => registry["bridge"] = 0

\* The new one is there: the supervisor's, or the child r of the update.
Came(r) ==
  /\ \A p \in Bridges : Fresh(p) \/ (~unit /\ p = r /\ procs[p].new)
  /\ release = "good" => r \in Bridges /\ Runs(r)

BridgeAt(step, n) ==
  /\ step = "replace" \/ (step = "terminate" /\ n = "bridge") => OldRuns
  /\ step = "exited" /\ n = "bridge" => Leaves
  /\ step \in {"relaunch", "await unit", "spawn"} /\ n = "bridge" => Left
  /\ step = "confirm" /\ n = "bridge" => ~unit /\ Came(pid)
  /\ step = "health" \/ (step \in Restarting /\ n = "scan") => Came(registry["bridge"])

Updating == Calm /\ update.phase \in {"captured", "restart"} /\ job # <<>> /\ "bridge" \in Captured
Bridged == Updating => Single /\ BridgeAt(job[1][1], job[1][2])

LEMMA CameMoves ==
  ASSUME Moved, UNCHANGED <<unit, release>>, binary = "new"
  PROVE  /\ Came(pid) /\ UNCHANGED pid => Came(pid)'
         /\ Came(registry["bridge"]) => Came(registry["bridge"])'
<1>1. ASSUME NEW p \in Bridges', Comes(p) PROVE Fresh(p)'
  <2>1. procs'[p].state = "preflight" /\ procs'[p].new
    BY <1>1, SpawnedIsProcess DEF Comes, Names
  <2> QED BY <1>1, <2>1 DEF Comes, Fresh, Runs
<1>2. ASSUME NEW r, Came(r)
      PROVE  /\ \A p \in Bridges' : Fresh(p)' \/ (~unit' /\ p = r /\ procs'[p].new)
             /\ release' = "good" => r \in Bridges /\ Runs(r)
  BY <1>1, <1>2 DEF Moved, Stays, Came
<1>3. release = "good" => \A p \in Bridges : Runs(p) => p \in Bridges' /\ Runs(p)'
  BY DEF Moved
<1>4. Came(pid) /\ UNCHANGED pid => Came(pid)'
  BY <1>2, <1>3 DEF Came
<1>5. Came(registry["bridge"]) => Came(registry["bridge"])'
  <2> SUFFICES ASSUME Came(registry["bridge"]) PROVE Came(registry["bridge"])'
    OBVIOUS
  <2>1. ~unit => registry'["bridge"] = registry["bridge"]
    BY DEF Moved
  <2>2. release = "good" => registry'["bridge"] = registry["bridge"]
    BY DEF Moved, Came
  <2>3. \A p \in Bridges' : Fresh(p)' \/ (~unit' /\ p = registry'["bridge"] /\ procs'[p].new)
    BY <1>2, <2>1
  <2> QED BY <1>2, <1>3, <2>2, <2>3 DEF Came
<1> QED BY <1>4, <1>5

LEMMA StagesMove ==
  ASSUME Moved, UNCHANGED <<unit, update>>
  PROVE  /\ OldRuns => OldRuns'
         /\ binary = "new" => (Leaves => Leaves') /\ (Left => Left')
<1>1. OldRuns => OldRuns'
  BY DEF OldRuns, Moved
<1>2. ASSUME binary = "new", NEW p \in Bridges', Comes(p) PROVE Fresh(p)'
  <2>1. procs'[p].state = "preflight" /\ procs'[p].new
    BY <1>2, SpawnedIsProcess DEF Comes, Names
  <2> QED BY <1>2, <2>1 DEF Comes, Fresh, Runs
<1>3. binary = "new" => (Leaves => Leaves') /\ (Left => Left')
  BY <1>2 DEF Moved, Stays, Leaves, Left
<1> QED BY <1>1, <1>3

LEMMA BridgedByAside ==
  ASSUME Frame, Known, Early, Bridged, [Next]_vars, Aside
  PROVE  Bridged'
<1> SUFFICES ASSUME Updating' PROVE Single' /\ BridgeAt(job[1][1], job[1][2])'
  BY DEF Bridged
<1>1. UNCHANGED <<job, pid, unit, binary, release, update>>
      \/ (job = <<>> /\ \E c \in Commands : Give(c[1], c[2]))
  BY DEF Aside, ProcessStep, Preflight, Boot, Drained, Respawn, Setup, Crash, Give, vars, command,
     settings
<1>2. UNCHANGED <<job, pid, unit, binary, release, update>> /\ job # <<>>
      /\ update.phase \in {"captured", "restart"}
  BY <1>1 DEF Updating, Give
<1>3. ProcessStep \/ UNCHANGED vars
  <2>1. ~Setup /\ ~(\E c \in Commands : Give(c[1], c[2]))
    BY <1>2 DEF Setup, Give
  <2>2. ~(\E p \in Slots : Crash(p))
    BY DEF Crash, Updating, Calm, Frame, TypeOK
  <2> QED BY <2>1, <2>2 DEF Aside
<1>4. crashes' = crashes
  BY <1>3 DEF ProcessStep, Preflight, Boot, Drained, Respawn, vars
<1>5. Single /\ BridgeAt(job[1][1], job[1][2])
  BY <1>2, <1>4 DEF Bridged, Updating, Calm, Captured
<1>6. Moved
  BY <1>3, <1>5, MovedByProcesses DEF Frame, Known
<1>7. Single'
  BY <1>6 DEF Moved
<1>8. OldRuns => OldRuns'
  BY <1>2, <1>6, StagesMove
<1> DEFINE s == job[1][1]
           n == job[1][2]
<1>9. s \in Restarting \cup {"health"} => binary = "new"
  <2>1. SUFFICES ASSUME update.phase = "captured", s \in Restarting \cup {"health"} PROVE FALSE
    BY <1>2 DEF Early
  <2>2. job[1] \in Heads({"replace", "exit"})
    BY <1>2, <2>1 DEF Frame, Shape
  <2>3. s \in {"replace", "exit"}
    BY <2>2 DEF Heads
  <2> QED BY <2>1, <2>3 DEF Restarting
<1>10. s' = s /\ n' = n
  BY <1>2
<1>11. BridgeAt(s, n)
  BY <1>5
<1> HIDE DEF s, n
<1>12. binary = "new" => /\ (Leaves => Leaves') /\ (Left => Left') /\ (Came(pid) => Came(pid)')
                         /\ (Came(registry["bridge"]) => Came(registry["bridge"])')
  BY <1>2, <1>6, StagesMove, CameMoves
<1>13. BridgeAt(s, n)'
  BY <1>2, <1>8, <1>9, <1>10, <1>11, <1>12 DEF BridgeAt, Restarting
<1> QED BY <1>7, <1>13 DEF s, n

-----------------------------------------------------------------------------
\* The steps of the restart.

\* No step of a restart that is not the bridge's has to do with the bridge.
KeepsBridge ==
  /\ Bridges' = Bridges /\ \A p \in Bridges : procs'[p] = procs[p]
  /\ registry'["bridge"] = registry["bridge"] /\ UNCHANGED <<unit, release>>

LEMMA CameKept ==
  ASSUME KeepsBridge, Came(registry["bridge"])
  PROVE  Came(registry["bridge"])'
BY DEF KeepsBridge, Came, Fresh, Runs

LEMMA SingleWanes ==
  ASSUME Wane, UNCHANGED unit, Single
  PROVE  Single' /\ Bridges' \subseteq Bridges
BY DEF Wane, Follows, Single, Bridges

\* What a step of the restart finds, and what it leaves as it is.
Restarted(n) ==
  /\ Frame /\ Known /\ Early /\ Turns /\ Bridged /\ [Next]_vars
  /\ update.phase = "restart" /\ Updating /\ TurnStep(n)
  /\ UNCHANGED <<unit, binary, release, update, crashes>>

LEMMA RestartedHead ==
  ASSUME NEW n \in Names, Restarted(n), NEW s, At(s, n)
  PROVE  /\ TurnAt(s, n) /\ BridgeAt(s, n) /\ Single
         /\ job # <<>> /\ job[1][1] = s /\ job[1][2] = n /\ "bridge" \in Captured
BY HeadOf DEF Restarted, Turns, Bridged, Updating, Frame

LEMMA ScanKeepsBridge ==
  ASSUME Restarted("scan"), ~Health("scan")
  PROVE  KeepsBridge /\ Single'
<1>1. /\ "scan" \in Names /\ "bridge" \in Names /\ "scan" # "bridge"
      /\ TypeOK /\ UNCHANGED <<unit, release>>
  BY DEF Names, Restarted, Frame
<1>2. Single
  BY DEF Restarted, Bridged
<1>3. registry'["bridge"] = registry["bridge"]
  BY <1>1 DEF Restarted, TurnStep, Terminate, WaitExit, Relaunch, AwaitUnit, Spawn, Confirm, TypeOK,
     Entries
<1>4. CASE UNCHANGED procs
  BY <1>1, <1>2, <1>3, <1>4 DEF KeepsBridge, Single, Bridges
<1>5. CASE Terminate("scan")
  <2> DEFINE c == update.captured["scan"]
  <2>1. procs' = Terminated({c}) /\ EntryKnown(c, "scan")
    BY <1>1, <1>5 DEF Terminate, Restarted, Known, EntriesKnown
  <2>2. ASSUME NEW p \in Bridges PROVE procs'[p] = procs[p]
    BY <1>1, <2>1 DEF Bridges, Terminated, EntryKnown
  <2>3. Wane
    BY <1>1, <2>1, WaneTerminated, NoSlotIsZero DEF TypeOK, ZeroIsNoSlot
  <2>4. Single' /\ Bridges' \subseteq Bridges
    BY <1>1, <1>2, <2>3, SingleWanes
  <2>5. Bridges \subseteq Bridges'
    BY <2>2 DEF Bridges
  <2> QED BY <1>1, <1>3, <2>2, <2>4, <2>5 DEF KeepsBridge
<1>6. CASE Spawn("scan") /\ ~UNCHANGED procs
  <2>1. FreeSlot \in Slots /\ procs[FreeSlot] = Gone
        /\ procs' = [procs EXCEPT ![FreeSlot] = Spawned("scan", FALSE)]
    BY <1>6, FreeSlotIsFree DEF Spawn
  <2>2. procs'[FreeSlot].name = "scan" /\ FreeSlot \notin Bridges
    BY <1>1, <2>1, SpawnedIsProcess, GoneIsProcess DEF TypeOK, Bridges
  <2>3. \A p \in Slots : p # FreeSlot => procs'[p] = procs[p]
    BY <1>1, <2>1 DEF TypeOK
  <2>4. Bridges' = Bridges /\ \A p \in Bridges : procs'[p] = procs[p]
    BY <1>1, <2>2, <2>3 DEF Bridges
  <2> QED BY <1>1, <1>2, <1>3, <2>4 DEF KeepsBridge, Single
<1> QED
  BY <1>4, <1>5, <1>6 DEF Restarted, TurnStep, WaitExit, Relaunch, AwaitUnit, Confirm

\* The heads that a step of the restart can leave.
LEMMA RestartedNext ==
  ASSUME NEW n \in Names, Restarted(n)
  PROVE  \/ job'[1][1] = "rollback"
         \/ Terminate(n) /\ job'[1][1] = "exited" /\ job'[1][2] = n
         \/ WaitExit(n) /\ job'[1][1] = "relaunch" /\ job'[1][2] = n
         \/ Relaunch(n) /\ job'[1][1] \in {"await unit", "spawn"} /\ job'[1][2] = n
         \/ Spawn(n) /\ Succeeds /\ job'[1][1] = "confirm" /\ job'[1][2] = n
         \/ /\ AwaitUnit(n) \/ Confirm(n)
            /\ Succeeds
            /\ job'[1][1] = "health" \/ (job'[1][1] = "terminate" /\ job'[1][2] = "scan")
<1>1. TypeOK /\ Shape /\ update.phase = "restart" /\ update' = update
  BY DEF Restarted, Frame
<1>2. ASSUME NEW s, s \in Fallible, At(s, n), Fails PROVE job'[1][1] = "rollback"
  BY <1>1, <1>2, HeadOf, TurnFalls
<1>3. CASE Terminate(n)
  BY <1>1, <1>3, TurnGoesOn DEF Terminate, OneRestart
<1>4. CASE WaitExit(n)
  BY <1>1, <1>4, TurnGoesOn DEF WaitExit, OneRestart
<1>5. CASE Relaunch(n)
  BY <1>1, <1>5, RelaunchFirst
<1>6. CASE Spawn(n)
  <2>1. At("spawn", n) /\ (Succeeds \/ Fails) /\ "spawn" \in OneRestart /\ "spawn" \in Fallible
    BY <1>6 DEF Spawn, OneRestart, Fallible
  <2> QED BY <1>1, <1>2, <1>6, <2>1, TurnGoesOn
<1>7. CASE AwaitUnit(n) \/ Confirm(n)
  <2>1. {"await unit", "confirm"} \subseteq OneRestart \cap Fallible
    BY DEF OneRestart, Fallible
  <2>2. PICK s \in {"await unit", "confirm"} : At(s, n) /\ (Succeeds \/ Fails)
    BY <1>7 DEF AwaitUnit, Confirm
  <2>3. CASE Succeeds
    <3>1. IF n = "bridge" /\ "scan" \in Captured
          THEN job'[1][1] = "terminate" /\ job'[1][2] = "scan"
          ELSE job'[1][1] = "health"
      BY <1>1, <2>1, <2>2, <2>3, TurnGoesOn
    <3> QED BY <1>7, <2>3, <3>1
  <2> QED BY <1>2, <2>1, <2>2, <2>3
<1>8. CASE Health(n)
  <2>1. At("health", n) /\ Fails /\ "health" \in Fallible
    BY <1>1, <1>8 DEF Health, TypeOK, Fallible
  <2> QED BY <1>2, <2>1
<1> QED BY <1>3, <1>4, <1>5, <1>6, <1>7, <1>8 DEF Restarted, TurnStep

LEMMA RollbackAnywhere ==
  ASSUME job'[1][1] = "rollback"
  PROVE  BridgeAt(job[1][1], job[1][2])'
BY DEF BridgeAt, Restarting

LEMMA HeadOfStep ==
  ASSUME TypeOK, NEW n \in Names, NEW s, At(s, n)
  PROVE  /\ Terminate(n) => s = "terminate"
         /\ WaitExit(n) => s = "exited"
         /\ Relaunch(n) => s = "relaunch"
         /\ AwaitUnit(n) => s = "await unit"
         /\ Spawn(n) => s = "spawn"
         /\ Confirm(n) => s = "confirm"
<1>1. \A t : At(t, n) => s = t
  BY HeadOf
<1> QED BY <1>1 DEF Terminate, WaitExit, Relaunch, AwaitUnit, Spawn, Confirm

LEMMA BridgedByScan ==
  ASSUME Restarted("scan"), ~Health("scan")
  PROVE  Single' /\ BridgeAt(job[1][1], job[1][2])'
<1>1. "scan" \in Names /\ "scan" # "bridge" /\ KeepsBridge /\ Single'
  BY ScanKeepsBridge DEF Names
<1>2. \E s \in Restarting : At(s, "scan")
  BY DEF Restarted, TurnStep, Terminate, WaitExit, Relaunch, AwaitUnit, Spawn, Confirm, Restarting
<1>3. Came(registry["bridge"])'
  BY <1>1, <1>2, RestartedHead, CameKept DEF BridgeAt
<1>4. \/ job'[1][1] \in {"rollback", "health"}
      \/ job'[1][1] \in Restarting /\ job'[1][2] = "scan"
  BY <1>1, RestartedNext DEF Restarting
<1> QED BY <1>1, <1>3, <1>4 DEF BridgeAt, Restarting

LEMMA BridgedByTerminate ==
  ASSUME Restarted("bridge"), Terminate("bridge")
  PROVE  Single' /\ BridgeAt(job[1][1], job[1][2])'
<1> DEFINE c == update.captured["bridge"]
<1>1. "bridge" \in Names /\ TypeOK /\ UNCHANGED <<unit, update>>
  BY DEF Names, Restarted, Frame
<1>2. At("terminate", "bridge") /\ procs' = Terminated({c})
      /\ registry' = [registry EXCEPT !["bridge"] = 0]
  BY DEF Terminate
<1>3. Single /\ OldRuns
  BY <1>1, <1>2, RestartedHead DEF BridgeAt
<1>4. Wane
  BY <1>1, <1>2, WaneTerminated, NoSlotIsZero DEF TypeOK, ZeroIsNoSlot
<1>5. Single' /\ Bridges' \subseteq Bridges
  BY <1>1, <1>3, <1>4, SingleWanes
<1>6. c \in Bridges /\ \A p \in Bridges : p = c
  BY <1>3 DEF OldRuns, Single
<1>7. procs'[c] = Signalled(procs[c])
  BY <1>2, <1>6, NoSlotIsZero DEF Terminated, Bridges, IsAlive, Alive, ZeroIsNoSlot
<1>8. ~Runs(c)'
  <2>1. procs'[c].state \in {"draining", "zombie", "none"}
    BY <1>1, <1>6, <1>7, SignalledFollows DEF TypeOK, Bridges
  <2> QED BY <1>1, <2>1 DEF Runs
<1>9. registry'["bridge"] = 0
  BY <1>1, <1>2 DEF TypeOK, Entries
<1>10. Leaves'
  BY <1>1, <1>5, <1>6, <1>8, <1>9 DEF Leaves
<1>11. job'[1][1] = "rollback" \/ (job'[1][1] = "exited" /\ job'[1][2] = "bridge")
  BY <1>1, <1>2, HeadOfStep, RestartedNext
<1> QED BY <1>5, <1>10, <1>11, RollbackAnywhere DEF BridgeAt, Restarting

LEMMA BridgedByWaiting ==
  ASSUME Restarted("bridge"), WaitExit("bridge") \/ Relaunch("bridge")
  PROVE  Single' /\ BridgeAt(job[1][1], job[1][2])'
<1>1. "bridge" \in Names /\ TypeOK /\ UNCHANGED <<unit, update, procs, registry>>
  BY DEF Names, Restarted, Frame, WaitExit, Relaunch
<1>2. PICK s \in {"exited", "relaunch"} :
        At(s, "bridge") /\ (s = "exited" => ~IsAlive(update.captured["bridge"]))
  BY DEF WaitExit, Relaunch
<1>3. Single /\ BridgeAt(s, "bridge")
  BY <1>1, <1>2, RestartedHead
<1>4. Left
  <2>1. CASE s = "exited"
    <3>1. Leaves
      BY <1>3, <2>1 DEF BridgeAt
    <3> QED
      BY <1>2, <2>1, <3>1, NoSlotIsZero DEF Leaves, Left, Bridges, IsAlive, Alive, ZeroIsNoSlot
  <2>2. CASE s = "relaunch"
    BY <1>3, <2>2 DEF BridgeAt
  <2> QED BY <1>2, <2>1, <2>2
<1>5. Single' /\ Left'
  BY <1>1, <1>3, <1>4 DEF Single, Left, Bridges, Fresh, Runs
<1>6. job'[1][1] = "rollback"
      \/ (job'[1][1] \in {"relaunch", "await unit", "spawn"} /\ job'[1][2] = "bridge")
  BY <1>1, <1>2, HeadOfStep, RestartedNext
<1>7. ASSUME job'[1][1] \in {"relaunch", "await unit", "spawn"}, job'[1][2] = "bridge"
      PROVE  BridgeAt(job[1][1], job[1][2])'
  <2>1. job'[1][1] \notin {"replace", "terminate", "exited", "confirm", "health"}
        /\ job'[1][2] # "scan"
    BY <1>7
  <2> QED BY <1>5, <2>1 DEF BridgeAt
<1> QED BY <1>5, <1>6, <1>7, RollbackAnywhere

LEMMA BridgedByAwaitUnit ==
  ASSUME Restarted("bridge"), AwaitUnit("bridge")
  PROVE  Single' /\ BridgeAt(job[1][1], job[1][2])'
<1>1. "bridge" \in Names /\ TypeOK /\ UNCHANGED <<unit, release, procs, registry>>
  BY DEF Names, Restarted, Frame, AwaitUnit
<1>2. At("await unit", "bridge")
  BY DEF AwaitUnit
<1>3. Single /\ Left /\ unit
  BY <1>1, <1>2, RestartedHead DEF BridgeAt, TurnAt
<1>4. Single'
  BY <1>1, <1>3 DEF Single, Bridges
<1>5. job'[1][1] = "rollback"
      \/ (Succeeds /\ (job'[1][1] = "health" \/ (job'[1][1] = "terminate" /\ job'[1][2] = "scan")))
  BY <1>1, <1>2, HeadOfStep, RestartedNext
<1>6. CASE Succeeds /\ job'[1][1] # "rollback"
  <2>1. Registered("bridge")
    <3>1. Fails => job'[1][1] = "rollback"
      BY <1>1, <1>2, RestartedHead, TurnFalls DEF Restarted, Frame, Fallible
    <3> QED BY <1>6, <3>1 DEF AwaitUnit
  <2>2. registry["bridge"] \in Bridges
    BY <1>1, <2>1 DEF Registered, IsAlive, Bridges, Alive, Restarted, Known, EntriesKnown,
       EntryKnown, TypeOK, Entries
  <2>3. Came(registry["bridge"])
    BY <1>3, <2>2 DEF Left, Came, Fresh
  <2>4. Came(registry["bridge"])'
    BY <1>1, <2>3, CameKept DEF KeepsBridge, Bridges
  <2> QED BY <1>4, <1>5, <1>6, <2>4 DEF BridgeAt, Restarting
<1> QED BY <1>4, <1>5, <1>6, RollbackAnywhere

LEMMA BridgedBySpawn ==
  ASSUME Restarted("bridge"), Spawn("bridge")
  PROVE  Single' /\ BridgeAt(job[1][1], job[1][2])'
<1>1. "bridge" \in Names /\ TypeOK /\ UNCHANGED <<unit, update>> /\ binary = "new"
  BY DEF Names, Restarted, Frame, Early
<1>2. At("spawn", "bridge") /\ FreeSlots # {}
  BY DEF Spawn
<1>3. Single /\ Left /\ ~unit
  BY <1>1, <1>2, RestartedHead DEF BridgeAt, TurnAt
<1>4. Bridges = {} /\ registry["bridge"] = 0
  BY <1>3 DEF Left, Fresh
<1>5. Succeeds /\ pid' = FreeSlot /\ procs' = [procs EXCEPT ![FreeSlot] = Spawned("bridge", FALSE)]
  BY <1>4 DEF Spawn, Registered, IsAlive
<1>6. FreeSlot \in Slots
  BY <1>2, FreeSlotIsFree
<1>7. /\ procs'[FreeSlot] = Spawned("bridge", FALSE)
      /\ \A p \in Slots : p # FreeSlot => procs'[p] = procs[p]
  BY <1>1, <1>5, <1>6 DEF TypeOK
<1>8. /\ procs'[FreeSlot].new /\ procs'[FreeSlot].boot = FALSE
      /\ procs'[FreeSlot].name = "bridge" /\ procs'[FreeSlot].state = "starting"
  BY <1>1, <1>7, SpawnedIsProcess
<1>9. Bridges' = {FreeSlot}
  <2>1. FreeSlot \in Bridges'
    BY <1>6, <1>8 DEF Bridges, Alive
  <2>2. ASSUME NEW p \in Bridges' PROVE p = FreeSlot
    BY <1>4, <1>7 DEF Bridges
  <2> QED BY <2>1, <2>2
<1>10. Single'
  BY <1>1, <1>3, <1>8, <1>9 DEF Single, TypeOK
<1>11. ~unit' /\ Came(pid)'
  BY <1>1, <1>3, <1>5, <1>8, <1>9 DEF Came, Runs
<1>12. job'[1][1] = "rollback" \/ (job'[1][1] = "confirm" /\ job'[1][2] = "bridge")
  BY <1>1, <1>2, HeadOfStep, RestartedNext
<1> QED BY <1>10, <1>11, <1>12, RollbackAnywhere DEF BridgeAt, Restarting

\* The child that a restart has spawned is confirmed.
LEMMA RestartConfirms ==
  ASSUME NEW n \in Names, Restarted(n), Confirm(n)
  PROVE  Succeeds /\ registry'[n] = pid /\ UNCHANGED procs
<1>1. pid # 0
  BY HeadOf DEF Confirm, Restarted, Frame, Pending
<1>2. IsAlive(pid)
  BY <1>1 DEF Restarted, Known, PidKnown
<1> QED BY <1>2 DEF Confirm, Restarted, Frame, TypeOK, Entries

LEMMA BridgedByConfirm ==
  ASSUME Restarted("bridge"), Confirm("bridge")
  PROVE  Single' /\ BridgeAt(job[1][1], job[1][2])'
<1>1. "bridge" \in Names /\ TypeOK /\ UNCHANGED <<unit, release, procs>>
      /\ registry'["bridge"] = pid
  BY RestartConfirms DEF Names, Restarted, Frame, Confirm
<1>2. At("confirm", "bridge")
  BY DEF Confirm
<1>3. Single /\ Came(pid) /\ ~unit
  BY <1>1, <1>2, RestartedHead DEF BridgeAt
<1>4. Single'
  BY <1>1, <1>3 DEF Single, Bridges
<1>5. Came(registry["bridge"])'
  BY <1>1, <1>3 DEF Came, Bridges, Runs, Fresh
<1>6. job'[1][1] \in {"rollback", "health"} \/ (job'[1][1] = "terminate" /\ job'[1][2] = "scan")
  BY <1>1, <1>2, HeadOfStep, RestartedNext
<1> QED BY <1>4, <1>5, <1>6 DEF BridgeAt, Restarting

LEMMA BridgedByRestart ==
  ASSUME NEW n \in Names, Restarted(n)
  PROVE  Single' /\ BridgeAt(job[1][1], job[1][2])'
<1>1. CASE Health(n)
  <2>1. At("health", n) /\ UNCHANGED <<procs, unit>>
    BY <1>1 DEF Health
  <2>2. job'[1][1] = "rollback"
    <3>1. TypeOK
      BY DEF Restarted, Frame
    <3>2. ~Terminate(n) /\ ~WaitExit(n) /\ ~Relaunch(n) /\ ~AwaitUnit(n) /\ ~Spawn(n) /\ ~Confirm(n)
      <4>1. ASSUME NEW s, At(s, n) PROVE s = "health"
        BY <2>1, <3>1, <4>1, HeadOf
      <4> QED BY <4>1 DEF Terminate, WaitExit, Relaunch, AwaitUnit, Spawn, Confirm
    <3> QED BY <3>2, RestartedNext
  <2>3. Single
    BY DEF Restarted, Bridged
  <2> QED BY <2>1, <2>2, <2>3, RollbackAnywhere DEF Single, Bridges
<1>2. CASE n = "scan" /\ ~Health(n)
  BY <1>2, BridgedByScan
<1>3. CASE n = "bridge" /\ ~Health(n)
  BY <1>3, BridgedByTerminate, BridgedByWaiting, BridgedByAwaitUnit, BridgedBySpawn,
     BridgedByConfirm DEF Restarted, TurnStep
<1> QED BY <1>1, <1>2, <1>3 DEF Names

LEMMA BridgedByCapture ==
  ASSUME Frame, Known, Early, NEW n \in Names, Capture(n), update.phase = "none"
  PROVE  Bridged'
<1> SUFFICES ASSUME Updating' PROVE Single' /\ BridgeAt(job[1][1], job[1][2])'
  BY DEF Bridged
<1> DEFINE r == registry["bridge"]
<1>1. "bridge" \in Names /\ TypeOK /\ Shape /\ UNCHANGED <<procs, registry, unit>>
      /\ update' = [phase |-> "captured", quiet |-> Quiet,
                    captured |-> [m \in Names |-> IF Registered(m) THEN registry[m] ELSE 0]]
  BY DEF Names, Frame, Capture
<1>2. Quiet /\ update'.captured["bridge"] # 0
  BY <1>1 DEF Updating, Calm, Captured
<1>3. update'.captured["bridge"] = r /\ IsAlive(r) /\ EntryKnown(r, "bridge") /\ r \in Slots
  BY <1>1, <1>2 DEF Registered, Known, EntriesKnown, TypeOK, Entries, IsAlive
<1>4. ASSUME NEW p \in Bridges PROVE Runs(p) /\ r = p /\ procs[p].boot = unit
  <2>1. /\ p \in Slots /\ procs[p].name = "bridge"
        /\ procs[p].state \notin {"draining", "zombie", "none"}
    BY <1>2 DEF Bridges, Quiet, Alive
  <2>2. Runs(p)
    BY <1>1, <2>1 DEF TypeOK, Processes, States, Runs
  <2> QED BY <1>2, <2>1, <2>2 DEF Quiet
<1>5. r \in Bridges /\ Runs(r) /\ ~procs[r].new
  <2>1. r \in Bridges
    BY <1>3 DEF Bridges, EntryKnown, IsAlive, Alive
  <2> QED BY <1>4, <2>1 DEF Early, Bridges
<1>6. Single' /\ OldRuns'
  BY <1>1, <1>3, <1>4, <1>5 DEF Single, OldRuns, Bridges, Runs
<1>7. job'[1][1] = "replace"
  <2>1. job # <<>> /\ job[1][1] = "capture" /\ Succeeds
    BY <1>1, HeadOf DEF Capture
  <2> QED BY <1>1, <2>1, NextStep DEF Shape, Goes
<1> QED BY <1>6, <1>7 DEF BridgeAt, Restarting

LEMMA BridgedByReplace ==
  ASSUME Frame, Bridged, NEW n \in Names, Replace(n), Replaces(n)
  PROVE  Bridged'
<1> SUFFICES ASSUME Updating' PROVE Single' /\ BridgeAt(job[1][1], job[1][2])'
  BY DEF Bridged
<1>1. TypeOK /\ Shape /\ UNCHANGED <<procs, registry, unit, crashes>>
      /\ update'.quiet = update.quiet /\ update'.captured = update.captured /\ Captured' = Captured
  BY DEF Frame, Replace, Replaces, TypeOK, Captured
<1>2. job # <<>> /\ job[1][1] = "replace"
  BY <1>1, HeadOf DEF Replaces
<1>3. "bridge" \in Captured /\ Updating
  BY <1>1, <1>2 DEF Updating, Calm, Replaces
<1>4. Single /\ OldRuns
  BY <1>2, <1>3 DEF Bridged, BridgeAt
<1>5. Single' /\ OldRuns'
  BY <1>1, <1>4 DEF Single, OldRuns, Bridges, Runs
<1>6. job'[1][1] = "terminate" /\ job'[1][2] = "bridge"
  <2>1. Chain(RestartR(Captured), StepSet, job', FirstRestart(n), Exits)
    BY <1>1, ReplaceRestarts DEF Replaces, Shape
  <2> DEFINE r == job'
  <2>2. r[1] \in FirstRestart(n)
    BY <2>1, ElementsOfChain
  <2> HIDE DEF r
  <2>3. r[1] \in {"terminate"} \X Firsts
    BY <1>3, <2>2 DEF FirstRestart
  <2>4. PICK m \in Firsts : r[1] = <<"terminate", m>>
    BY <2>3
  <2>5. m = "bridge"
    BY <1>3 DEF Firsts
  <2> QED BY <2>4, <2>5 DEF r
<1> QED BY <1>5, <1>6 DEF BridgeAt, Restarting

\* An update in which nothing crashes has had no crash before.
LEMMA CrashesStay ==
  ASSUME TypeOK, [Next]_vars, crashes' = 0
  PROVE  crashes = 0 /\ ~JobDies /\ ~(\E p \in Slots : Crash(p))
<1>1. ~JobDies /\ ~(\E p \in Slots : Crash(p))
  BY DEF JobDies, Crash, TypeOK
<1>2. UNCHANGED crashes
  BY <1>1 DEF Next, ProcessStep, Preflight, Boot, Drained, Respawn, Setup, Give, vars, CommandStep,
     Unload, Unloaded, Signal, Entry, Install, Await, Spawn, Confirm, List, Sweep, Exit, Capture,
     Replace, Terminate, WaitExit, Relaunch, AwaitUnit, Health, Rollback, RolledBack
<1> QED BY <1>1, <1>2

LEMMA IdleStays ==
  ASSUME [Next]_vars, job = <<>>, update.phase # "none"
  PROVE  job' = <<>>
<1>1. ~CommandStep
  BY DEF CommandStep, At, Unload, Unloaded, Signal, Entry, Install, Await, Spawn,
     Confirm, List, Sweep, Exit, Capture, Replace, Terminate, WaitExit, Relaunch, AwaitUnit,
     Health, Rollback, RolledBack
<1> QED
  BY <1>1 DEF Next, ProcessStep, Preflight, Boot, Drained, Respawn, Setup, Crash, JobDies,
     Give, vars, command

LEMMA CapturedSteppings ==
  ASSUME Frame, [Next]_vars, update.phase = "captured", job # <<>>
  PROVE  Aside \/ JobDies \/ \E n \in Names : Replace(n) \/ Exit(n)
<1>1. ASSUME NEW n \in Names, NEW s, At(s, n) PROVE s \in {"replace", "exit"}
  <2>1. job[1][1] = s
    BY <1>1, HeadOf DEF Frame
  <2>2. job[1] \in Heads({"replace", "exit"})
    BY DEF Frame, Shape
  <2> QED BY <2>1, <2>2 DEF Heads
<1>2. ASSUME NEW n \in Names,
          \/ Unload(n) \/ Unloaded(n) \/ Signal(n) \/ Entry(n) \/ Install(n) \/ Await(n)
          \/ Spawn(n) \/ Confirm(n) \/ List(n) \/ Sweep(n) \/ Capture(n) \/ Terminate(n)
          \/ WaitExit(n) \/ Relaunch(n) \/ AwaitUnit(n) \/ Health(n) \/ Rollback(n)
          \/ RolledBack(n)
      PROVE  FALSE
  <2>1. \E s \in {"unload", "unloaded", "signal", "entry", "install", "await", "spawn", "confirm",
                  "list", "sweep", "capture", "terminate", "exited", "relaunch", "await unit",
                  "health", "rollback", "rolled"} : At(s, n)
    BY <1>2 DEF Unload, Unloaded, Signal, Entry, Install, Await, Spawn, Confirm, List, Sweep,
       Capture, Terminate, WaitExit, Relaunch, AwaitUnit, Health, Rollback, RolledBack
  <2> QED BY <1>1, <2>1
<1> QED BY <1>2 DEF Next, CommandStep, Aside

LEMMA BridgedKept ==
  ASSUME Frame, Known, Early, Turns, Bridged, [Next]_vars
  PROVE  Bridged'
<1> SUFFICES ASSUME Updating' PROVE Bridged'
  BY DEF Bridged
<1>1. TypeOK /\ Shape
  BY DEF Frame
<1>2. crashes' = 0 /\ crashes = 0 /\ ~JobDies
  <2>1. crashes' = 0
    BY DEF Updating, Calm
  <2> QED BY <1>1, <2>1, CrashesStay
<1>3. ASSUME NEW n \in Names, NEW s, At(s, n)
      PROVE  job # <<>> /\ job[1][1] = s /\ job[1][2] = n
  BY <1>1, <1>3, HeadOf
<1>4. CASE update'.phase # update.phase
  <2>1. CASE \E n \in Names : Capture(n) /\ update.phase = "none"
    BY <2>1, BridgedByCapture
  <2>2. CASE \E n \in Names : Replace(n) /\ Replaces(n)
    BY <2>2, BridgedByReplace
  <2>3. update'.phase \notin {"ok", "rollback"} \cup Rolling
    BY DEF Updating, Rolling
  <2> QED BY <1>1, <1>4, <2>1, <2>2, <2>3, UpdateMoves DEF Rests
<1>5. CASE update'.phase = update.phase
  <2>1. job # <<>> /\ update.phase \in {"captured", "restart"}
    BY <1>5, IdleStays DEF Updating
  <2>2. CASE Aside
    BY <2>2, BridgedByAside
  <2>3. CASE update.phase = "captured" /\ ~Aside
    <3>1. PICK n \in Names : Replace(n) \/ Exit(n)
      BY <1>2, <2>1, <2>3, CapturedSteppings
    <3>2. CASE Exit(n)
      BY <3>2 DEF Exit, Updating
    <3>3. CASE Replace(n) /\ update'.phase # "restart"
      <4>1. At("replace", n) /\ Fails /\ UNCHANGED <<update, procs, unit>>
        BY <1>1, <3>3 DEF Replace, TypeOK
      <4>2. job # <<>> /\ job[1][1] = "replace"
        BY <1>3, <4>1
      <4>3. Single
        BY <1>2, <2>1, <4>1 DEF Bridged, Updating, Calm, Captured
      <4>4. job'[1] \in Exits
        BY <1>1, <4>1, <4>2, ReplaceFails DEF Shape
      <4>5. job'[1][1] = "exit"
        BY <4>4, ExitsNoElse
      <4> QED BY <4>1, <4>3, <4>5 DEF Bridged, Single, Bridges, BridgeAt, Restarting
    <3> QED BY <1>5, <2>3, <3>1, <3>2, <3>3
  <2>4. CASE update.phase = "restart" /\ ~Aside
    <3>1. PICK n \in Names : TurnStep(n) \/ Rollback(n)
      BY <1>2, <2>1, <2>4, RestartSteppings
    <3>2. ~Rollback(n)
      BY <1>1, <1>5, <2>4 DEF Rollback, TypeOK
    <3>3. UNCHANGED update
      <4>1. UNCHANGED update \/ update' = [update EXCEPT !.phase = "ok"]
        BY <3>1, <3>2 DEF TurnStep, Terminate, WaitExit, Relaunch, AwaitUnit, Spawn, Confirm, Health
      <4> QED BY <1>1, <1>5, <2>4, <4>1 DEF TypeOK
    <3>4. UNCHANGED <<unit, binary, release, crashes>>
      BY <3>1, <3>2 DEF TurnStep, Terminate, WaitExit, Relaunch, AwaitUnit, Spawn, Confirm, Health,
         settings
    <3>5. Restarted(n)
      BY <1>2, <2>1, <2>4, <3>1, <3>2, <3>3, <3>4 DEF Restarted, Updating, Calm, Captured
    <3> QED BY <3>5, BridgedByRestart DEF Bridged
  <2> QED BY <2>1, <2>2, <2>3, <2>4
<1> QED BY <1>4, <1>5

LEMMA BridgedAlways == Spec => [](Turns /\ Bridged)
<1>1. Init => Turns /\ Bridged
  BY DEF Init, Turns, Bridged, Updating
<1>2. Frame /\ (Known /\ Early) /\ (Turns /\ Bridged) /\ [Next]_vars => Turns' /\ Bridged'
  BY TurnsKept, BridgedKept
<1> QED BY <1>1, <1>2, FrameAlways, KnownAlways, PTL DEF Spec

-----------------------------------------------------------------------------
\* When the update of a bridge is reported as done, in a machine on which
\* nothing crashes and all was registered as it began, the registered bridge
\* serves the new version: whatever the supervisor and the processes do between
\* two steps of the update, with a boot unit and without.
THEOREM UpdatedAlwaysRunsNew == Spec => UpdatedRunsNew
<1> DEFINE Done == update.phase # "ok" /\ update'.phase = "ok" /\ update.quiet /\ crashes = 0
                     /\ "bridge" \in Captured
           r == registry["bridge"]
           Runner == procs[r].state = "up" /\ procs[r].name = "bridge" /\ procs[r].new
<1>1. ASSUME Frame, Turns, Bridged, [Next]_vars, Done PROVE Runner
  <2>1. PICK n \in Names : Health(n) /\ update.phase = "restart"
    <3>1. TypeOK /\ Shape
      BY <1>1 DEF Frame
    <3>2. ~Rests /\ update'.phase \notin Rolling /\ update'.phase # "rollback"
      BY <1>1 DEF Rests, Rolling
    <3>3. ~(\E n \in Names : Capture(n)) /\ ~(\E n \in Names : Replaces(n))
      BY <1>1, <3>1 DEF Capture, Replaces, TypeOK
    <3> QED BY <1>1, <3>1, <3>2, <3>3, UpdateMoves
  <2>2. At("health", n) /\ \E p \in Slots : Serves(p)
    BY <1>1, <2>1 DEF Health
  <2>3. job # <<>> /\ job[1][1] = "health"
    BY <1>1, <2>2, HeadOf DEF Frame
  <2>4. Came(r)
    BY <1>1, <2>1, <2>3 DEF Bridged, Updating, Calm, BridgeAt
  <2>5. PICK p \in Slots : Serves(p)
    BY <2>2
  <2>6. p \in Bridges /\ procs[p].state = "up" /\ procs[p].name = "bridge"
    BY <2>5 DEF Serves, Bridges, Alive
  <2>7. p = r /\ procs[p].new
    BY <2>4, <2>6 DEF Came, Fresh
  <2> QED BY <2>6, <2>7
<1>2. Frame /\ (Turns /\ Bridged) /\ [Next]_vars => (Done => Runner)
  BY <1>1
<1> HIDE DEF Done, Runner
<1>3. Spec => [][Done => Runner]_vars
  BY <1>2, FrameAlways, BridgedAlways, PTL DEF Spec
<1> QED BY <1>3 DEF UpdatedRunsNew, Done, Runner

-----------------------------------------------------------------------------
\* No step of the restart of a good release fails.

Staying ==
  release = "good" /\ Calm =>
    /\ update.phase \notin Rolling
    /\ update.phase = "restart" /\ job # <<>> => job[1][1] # "rollback"

\* What a step of the restart of a good release finds.
GoodRestart(n) ==
  /\ Frame /\ Known /\ Turns /\ Bridged
  /\ release = "good" /\ Calm /\ update.phase = "restart" /\ job # <<>>
  /\ update'.phase = "restart" /\ TurnStep(n)

LEMMA GoodHead ==
  ASSUME NEW n \in Names, GoodRestart(n), NEW s, At(s, n)
  PROVE  /\ TypeOK /\ Shape /\ TurnAt(s, n)
         /\ job[1][1] = s /\ job[1][2] = n
         /\ "bridge" \in Captured => BridgeAt(s, n)
BY HeadOf DEF GoodRestart, Turns, Bridged, Updating, Frame

LEMMA GoodSpawn ==
  ASSUME NEW n \in Names, GoodRestart(n), Spawn(n)
  PROVE  Succeeds
<1>1. At("spawn", n) /\ n \in {"bridge", "scan"}
  BY DEF Spawn, Names
<1>2. TurnAt("spawn", n) /\ ("bridge" \in Captured => BridgeAt("spawn", n))
  BY <1>1, GoodHead
<1>3. registry[n] = 0
  <2>1. CASE n = "scan"
    BY <1>2, <2>1 DEF TurnAt
  <2>2. CASE n = "bridge"
    BY <1>2, <2>2 DEF TurnAt, BridgeAt, Left, Restarting
  <2> QED BY <1>1, <2>1, <2>2
<1> QED BY <1>3 DEF Spawn, Registered, IsAlive

LEMMA GoodConfirm ==
  ASSUME NEW n \in Names, GoodRestart(n), Confirm(n)
  PROVE  Succeeds
<1>1. pid # 0
  BY GoodHead DEF Confirm, GoodRestart, Frame, Pending
<1>2. IsAlive(pid)
  BY <1>1 DEF GoodRestart, Known, PidKnown
<1> QED BY <1>2 DEF Confirm

LEMMA GoodAwaitUnit ==
  ASSUME NEW n \in Names, GoodRestart(n), AwaitUnit(n)
  PROVE  Succeeds
<1>1. At("await unit", n)
  BY DEF AwaitUnit
<1>2. TypeOK /\ TurnAt("await unit", n) /\ ("bridge" \in Captured => BridgeAt("await unit", n))
  BY <1>1, GoodHead
<1>3. n = "bridge" /\ Left
  BY <1>2 DEF TurnAt, BridgeAt, Restarting
<1>4. PortHeld => Registered("bridge")
  <2> SUFFICES ASSUME NEW p \in Slots, procs[p].name = "bridge",
                      procs[p].state \in {"up", "draining"}
               PROVE  Registered("bridge")
    BY DEF PortHeld
  <2>1. Fresh(p)
    BY <1>3 DEF Left, Bridges, Alive
  <2>2. registry["bridge"] = p
    BY <2>1 DEF Fresh
  <2> QED BY <2>2, NoSlotIsZero DEF Registered, IsAlive, ZeroIsNoSlot
<1>5. release = "good" /\ ~(crashes > 0)
  BY DEF GoodRestart, Calm
<1>6. Succeeds \/ (~Registered(n) /\ PortHeld)
  BY <1>5 DEF AwaitUnit
<1> QED BY <1>3, <1>4, <1>6

LEMMA GoodHealth ==
  ASSUME NEW n \in Names, GoodRestart(n), Health(n)
  PROVE  FALSE
<1>1. At("health", n)
  BY DEF Health
<1>2. TypeOK /\ TurnAt("health", n) /\ ("bridge" \in Captured => BridgeAt("health", n))
  BY <1>1, GoodHead
<1>3. release = "good" /\ Captured \subseteq {"bridge", "scan"}
  BY DEF GoodRestart, Captured, Names
<1>4. ASSUME "bridge" \in Captured
      PROVE  registry["bridge"] \in Bridges /\ Runs(registry["bridge"])
  BY <1>2, <1>3, <1>4 DEF BridgeAt, Came
<1>5. \A m \in Captured : Registered(m)
  <2>1. "bridge" \in Captured => Registered("bridge")
    BY <1>4, NoSlotIsZero DEF Bridges, Alive, Registered, IsAlive, ZeroIsNoSlot
  <2>2. "scan" \in Captured => Registered("scan")
    BY <1>2 DEF TurnAt, Registered
  <2> QED BY <1>3, <2>1, <2>2
<1>6. ASSUME "bridge" \in Captured, \A p \in Slots : ~Serves(p)
      PROVE  \E p \in Slots : procs[p].state \in {"preflight", "starting"}
  <2>1. registry["bridge"] \in Slots /\ procs[registry["bridge"]].name = "bridge"
        /\ procs[registry["bridge"]].state \in {"preflight", "starting", "up"}
    BY <1>4, <1>6 DEF Bridges, Runs
  <2>2. procs[registry["bridge"]].state # "up"
    BY <1>3, <1>6, <2>1 DEF Serves
  <2> QED BY <2>1, <2>2
<1>7. update'.phase = "ok"
  BY <1>2, <1>5, <1>6 DEF Health, TypeOK
<1> QED BY <1>7 DEF GoodRestart

LEMMA GoodGoesOn ==
  ASSUME NEW n \in Names, GoodRestart(n)
  PROVE  job'[1][1] # "rollback"
<1>1. ASSUME NEW s \in OneRestart, At(s, n), Succeeds PROVE job'[1][1] # "rollback"
  <2>1. TypeOK /\ Shape /\ update.phase = "restart"
    BY DEF GoodRestart, Frame
  <2>2. \/ s = "terminate" \/ s = "exited" \/ s = "spawn" \/ s \in {"await unit", "confirm"}
    BY DEF OneRestart
  <2>3. CASE s \in {"terminate", "exited", "spawn"}
    BY <1>1, <2>1, <2>3, TurnGoesOn
  <2>4. CASE s \in {"await unit", "confirm"}
    <3>1. IF n = "bridge" /\ "scan" \in Captured
          THEN job'[1][1] = "terminate" /\ job'[1][2] = "scan"
          ELSE job'[1][1] = "health"
      BY <1>1, <2>1, <2>4, TurnGoesOn
    <3> QED BY <3>1
  <2> QED BY <2>2, <2>3, <2>4
<1>2. CASE Terminate(n) \/ WaitExit(n)
  BY <1>1, <1>2 DEF Terminate, WaitExit, OneRestart
<1>3. CASE Relaunch(n)
  <2>1. TypeOK
    BY DEF GoodRestart, Frame
  <2>2. job'[1][1] = IF n = "bridge" /\ unit THEN "await unit" ELSE "spawn"
    BY <1>3, <2>1, RelaunchFirst
  <2> QED BY <2>2
<1>4. CASE Spawn(n)
  BY <1>1, <1>4, GoodSpawn DEF Spawn, OneRestart
<1>5. CASE Confirm(n)
  BY <1>1, <1>5, GoodConfirm DEF Confirm, OneRestart
<1>6. CASE AwaitUnit(n)
  BY <1>1, <1>6, GoodAwaitUnit DEF AwaitUnit, OneRestart
<1>7. CASE Health(n)
  BY <1>7, GoodHealth
<1> QED BY <1>2, <1>3, <1>4, <1>5, <1>6, <1>7 DEF GoodRestart, TurnStep

LEMMA StayingByRestart ==
  ASSUME Frame, Known, Turns, Bridged, Staying, [Next]_vars, release = "good", Calm, ~JobDies,
         update.phase = "restart", update'.phase = "restart", job' # <<>>
  PROVE  job'[1][1] # "rollback"
<1>1. job # <<>>
  BY IdleStays
<1>2. job[1][1] # "rollback"
  BY <1>1 DEF Staying
<1>3. CASE Aside
  <2>1. UNCHANGED job
    BY <1>1, <1>3 DEF Aside, ProcessStep, Preflight, Boot, Drained, Respawn, Setup, Crash, Give,
       vars, command
  <2> QED BY <1>2, <2>1
<1>4. CASE \E n \in Names : TurnStep(n)
  BY <1>1, <1>4, GoodGoesOn DEF GoodRestart
<1>5. ~(\E n \in Names : Rollback(n))
  BY <1>2, HeadOf DEF Rollback, Frame
<1> QED BY <1>1, <1>3, <1>4, <1>5, RestartSteppings

LEMMA StayingKept ==
  ASSUME Frame, Known, Turns, Bridged, Staying, [Next]_vars
  PROVE  Staying'
<1> SUFFICES ASSUME release' = "good", Calm' PROVE Staying'
  BY DEF Staying
<1>1. TypeOK /\ Shape
  BY DEF Frame
<1>2. crashes = 0 /\ ~JobDies
  BY <1>1, CrashesStay DEF Calm
<1>3. CASE Rests
  <2>1. release = "good" /\ Calm /\ update'.phase = update.phase
    BY <1>2, <1>3 DEF Rests, Calm
  <2> QED BY <1>2, <2>1, StayingByRestart DEF Staying
<1>4. CASE \E n \in Names : Capture(n)
  <2>1. update'.phase = "captured"
    BY <1>4 DEF Capture
  <2> QED BY <2>1 DEF Staying, Rolling
<1>5. CASE \E n \in Names : Replaces(n)
  <2>1. PICK n \in Names : Replaces(n)
    BY <1>5
  <2>2. update'.phase = "restart"
    BY <1>1, <2>1 DEF Replaces, TypeOK
  <2>3. Chain(RestartR(Captured), StepSet, job', FirstRestart(n), Exits)
    BY <1>1, <2>1, ReplaceRestarts DEF Replaces, Shape
  <2> DEFINE r == job'
  <2>4. r[1] \in FirstRestart(n)
    BY <2>3, ElementsOfChain
  <2> HIDE DEF r
  <2>5. r[1][1] \in {"health", "terminate"}
    BY <2>4 DEF FirstRestart
  <2> QED BY <2>2, <2>5 DEF Staying, Rolling, r
<1>6. CASE update'.phase = "ok"
  BY <1>6 DEF Staying, Rolling
<1>7. CASE \E n \in Names : Rollback(n) /\ update.phase = "restart"
                            /\ release' = release /\ update'.quiet = update.quiet
  <2>1. job # <<>> /\ job[1][1] = "rollback"
    BY <1>1, <1>7, HeadOf DEF Rollback
  <2> QED BY <1>2, <1>7, <2>1 DEF Staying, Calm
<1>8. CASE update.phase \in Rolling /\ release' = release /\ update'.quiet = update.quiet
  BY <1>2, <1>8 DEF Staying, Calm
<1> QED BY <1>1, <1>3, <1>4, <1>5, <1>6, <1>7, <1>8, UpdateMoves

\* A release that works is not rolled back by an update in which nothing
\* crashes: no restart fails because the old bridge still holds the port,
\* because the supervisor is late or first, or by an entry that is gone.
THEOREM GoodReleaseAlwaysStays == Spec => []GoodReleaseStays
<1>1. Init => Staying
  BY DEF Init, NoUpdate, Staying, Rolling
<1>2. Frame /\ (Known /\ Early) /\ (Turns /\ Bridged) /\ Staying /\ [Next]_vars => Staying'
  BY StayingKept
<1>3. Staying => GoodReleaseStays
  BY DEF Staying, Calm, Rolling, GoodReleaseStays
<1> QED BY <1>1, <1>2, <1>3, FrameAlways, KnownAlways, BridgedAlways, PTL DEF Spec

=============================================================================
