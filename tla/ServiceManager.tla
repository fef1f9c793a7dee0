---------------------------- MODULE ServiceManager ----------------------------
(***************************************************************************)
(* The processes that fbsy starts on one machine: the commands of          *)
(* src/application/service.rs, autostart.rs and update.rs, the registry    *)
(* files that they and the supervised bridge write, and the supervisor of  *)
(* the OS.  One command runs at a time, as a list of steps, while          *)
(* processes boot, drain and die and the supervisor starts the bridge.     *)
(*                                                                         *)
(* There are two services: the bridge has a port and may have a boot unit, *)
(* "scan" stands for the others.  A process is a slot; one that is gone    *)
(* and that nobody refers to is used again, so that no pid is reused.      *)
(* Processes are those of a Unix: a dead child whose parent lives exists.  *)
(***************************************************************************)
EXTENDS Naturals, Sequences, FiniteSets

CONSTANTS
  Slots,       \* bound: the processes that exist or are referred to at once
  Releases,    \* subset of {"good", "dies", "sick"}: what the new release does
  Commands,    \* the commands given, see Script
  MaxUpsets    \* bound: the bridges and commands that die on their own and the
               \* changes of autoStartOnBoot, together

Names == {"bridge", "scan"}

ASSUME ManagerAssumption ==
  /\ Slots \subseteq Nat \ {0} /\ IsFiniteSet(Slots)
  /\ Releases \subseteq {"good", "dies", "sick"}
  /\ Commands \subseteq {"start", "stop", "restart", "show", "update"} \X Names
  /\ MaxUpsets \in Nat

VARIABLES
  procs,     \* the processes: [state, name, new, boot, child]
  registry,  \* run/<name>.json: the slot it names, or 0
  unit,      \* whether the bridge has a boot unit
  auto,      \* autoStartOnBoot of the config
  binary,    \* the version installed: "old" or "new"
  release,   \* what the installed version does, of the old one "good"
  job,       \* the steps <<do, name>> the running command has still to do
  pid,       \* the process the command has spawned last, or 0
  listing,   \* the registry as `show` has read it
  update,    \* the update: [phase, captured, quiet]
  crashes, setups,
  enabled    \* history: whether there ever was a boot unit

command == <<job, pid, listing>>
settings == <<auto, release, setups>>
vars == <<procs, registry, unit, binary, command, update, settings, crashes, enabled>>

States == {"none", "preflight", "starting", "up", "draining", "zombie"}
Gone == [state |-> "none", name |-> "bridge", new |-> FALSE, boot |-> FALSE,
         child |-> FALSE]
NoEntries == [n \in Names |-> 0]
NoUpdate == [phase |-> "none", captured |-> NoEntries, quiet |-> TRUE]

Init ==
  /\ procs = [p \in Slots |-> Gone]
  /\ registry = NoEntries
  /\ unit = FALSE /\ enabled = FALSE
  /\ auto \in BOOLEAN
  /\ binary = "old" /\ release = "good"
  /\ job = <<>> /\ pid = 0 /\ listing = NoEntries
  /\ update = NoUpdate
  /\ crashes = 0 /\ setups = 0

-----------------------------------------------------------------------------
\* Processes (runtime/process.rs).

\* is_alive: the process exists, be it as a zombie.
IsAlive(p) == p # 0 /\ procs[p].state # "none"
Registered(n) == IsAlive(registry[n])

Runs(p) == procs[p].state \in {"preflight", "starting", "up"}
Upsets == crashes + setups

PortHeld ==
  \E p \in Slots : procs[p].name = "bridge" /\ procs[p].state \in {"up", "draining"}
BootProcs == {p \in Slots : procs[p].boot /\ procs[p].state # "none"}

References ==
  {pid} \cup UNION {{registry[n], listing[n], update.captured[n]} : n \in Names}
FreeSlots == {p \in Slots : procs[p] = Gone} \ References
FreeSlot == CHOOSE p \in Slots : p \in FreeSlots

Exited(q) == IF q.child THEN [q EXCEPT !.state = "zombie"] ELSE Gone

\* SIGTERM: a bridge that serves drains its syncs, any other process ends.
Signalled(q) ==
  IF q.name = "bridge" /\ q.state \in {"up", "draining"}
  THEN [q EXCEPT !.state = "draining"]
  ELSE IF q.state = "zombie" THEN q ELSE Exited(q)
Terminated(P) ==
  [p \in Slots |-> IF p \in P /\ IsAlive(p) THEN Signalled(procs[p]) ELSE procs[p]]

Spawned(n, boot) ==
  [state |-> IF boot THEN "preflight" ELSE "starting", name |-> n,
   new |-> binary = "new", boot |-> boot, child |-> ~boot]

\* When a command ends, its children are the init process's, which waits for them.
Orphaned ==
  [p \in Slots |-> IF procs[p].state = "zombie" THEN Gone
                   ELSE [procs[p] EXCEPT !.child = FALSE]]

-----------------------------------------------------------------------------
\* run_supervised: the port must be free; then the process registers itself.
Preflight(p) ==
  /\ procs[p].state = "preflight"
  /\ \/ /\ ~PortHeld
        /\ procs' = [procs EXCEPT ![p].state = "starting"]
        /\ registry' = [registry EXCEPT ![procs[p].name] = p]
     \/ /\ PortHeld
        /\ procs' = [procs EXCEPT ![p] = Exited(@)]
        /\ UNCHANGED registry
  /\ UNCHANGED <<unit, binary, command, update, settings, crashes, enabled>>

\* The service's own start: the bridge binds its port.
Boot(p) ==
  LET fails == (procs[p].new /\ release = "dies")
               \/ (procs[p].name = "bridge" /\ PortHeld)
  IN /\ procs[p].state = "starting"
     /\ procs' = [procs EXCEPT ![p] = IF fails THEN Exited(@) ELSE [@ EXCEPT !.state = "up"]]
     /\ UNCHANGED <<registry, unit, binary, command, update, settings, crashes, enabled>>

Drained(p) ==
  /\ procs[p].state = "draining"
  /\ procs' = [procs EXCEPT ![p] = Exited(@)]
  /\ UNCHANGED <<registry, unit, binary, command, update, settings, crashes, enabled>>

Crash(p) ==
  /\ procs[p].state = "up" /\ procs[p].name = "bridge" /\ Upsets < MaxUpsets
  /\ crashes' = crashes + 1
  /\ procs' = [procs EXCEPT ![p] = Exited(@)]
  /\ UNCHANGED <<registry, unit, binary, command, update, settings, enabled>>

\* Mutant: a unit that does not start the bridge again (Restart=no).
RespawnOnce ==
  /\ unit /\ registry["bridge"] = 0 /\ BootProcs = {} /\ FreeSlots # {}
  /\ procs' = [procs EXCEPT ![FreeSlot] = Spawned("bridge", TRUE)]
  /\ UNCHANGED <<registry, unit, binary, command, update, settings, crashes, enabled>>

\* Mutant: a unit that is started once more while its process runs.
RespawnBeside ==
  /\ unit /\ ~Registered("bridge") /\ FreeSlots # {}
  /\ procs' = [procs EXCEPT ![FreeSlot] = Spawned("bridge", TRUE)]
  /\ UNCHANGED <<registry, unit, binary, command, update, settings, crashes, enabled>>

\* The supervisor starts the bridge, RestartSec after the last one is gone.
Respawn ==
  /\ unit /\ BootProcs = {} /\ FreeSlots # {}
  /\ procs' = [procs EXCEPT ![FreeSlot] = Spawned("bridge", TRUE)]
  /\ UNCHANGED <<registry, unit, binary, command, update, settings, crashes, enabled>>

\* The wizard changes autoStartOnBoot.
Setup ==
  /\ job = <<>> /\ update.phase = "none" /\ Upsets < MaxUpsets
  /\ auto' = ~auto /\ setups' = setups + 1
  /\ UNCHANGED <<procs, registry, unit, binary, command, update, release, crashes, enabled>>

-----------------------------------------------------------------------------
\* Commands.

StopSteps(n) == <<<<"unload", n>>, <<"unloaded", n>>, <<"signal", n>>>>
StartSteps(n) ==
  IF n = "bridge" /\ auto
  THEN StopSteps(n) \o <<<<"install", n>>, <<"await", n>>>>
  ELSE <<<<"spawn", n>>, <<"confirm", n>>>>

\* A command that fails goes on after its "else", if it has one.  `fbsy
\* restart` starts the bridge when the restart fails, whatever the error.
Script(cmd, n) ==
  CASE cmd = "start" -> StartSteps(n)
    [] cmd = "stop" -> StopSteps(n)
    [] cmd = "restart" ->
         <<<<"entry", n>>>> \o StopSteps(n) \o StartSteps(n)
           \o (IF n = "bridge" THEN <<<<"else", n>>>> \o StartSteps(n) ELSE <<>>)
    [] cmd = "show" -> <<<<"list", n>>, <<"sweep", n>>>>
    [] cmd = "update" -> <<<<"capture", n>>, <<"replace", n>>>>

\* Bound: an update is the last command.
Give(cmd, n) ==
  /\ job = <<>> /\ update.phase = "none"
  /\ job' = Script(cmd, n) \o <<<<"exit", n>>>>
  /\ UNCHANGED <<procs, registry, unit, binary, pid, listing, update, settings,
                 crashes, enabled>>

At(step, n) == job # <<>> /\ Head(job) = <<step, n>>
Does(steps) == job' = steps \o Tail(job)
Succeeds == Does(<<>>)
\* On after the next "else" of the command, or at its last step.
Fails ==
  LET elses == {i \in DOMAIN job : job[i][1] = "else"}
  IN \/ /\ elses = {}
        /\ job' = SubSeq(job, Len(job), Len(job))
     \/ \E i \in elses : /\ \A k \in elses : i <= k
                        /\ job' = SubSeq(job, i + 1, Len(job))

\* The command has done all its steps, or those before the "else".
Exit(n) ==
  /\ At("exit", n) \/ At("else", n)
  /\ job' = <<>> /\ procs' = Orphaned
  /\ update' = [update EXCEPT !.captured = NoEntries]
  /\ UNCHANGED <<registry, unit, binary, pid, listing, settings, crashes, enabled>>

\* The command is interrupted, or systemd ends it with the bridge that launched it.
JobDies ==
  /\ job # <<>> /\ Upsets < MaxUpsets
  /\ crashes' = crashes + 1
  /\ job' = <<>> /\ pid' = 0 /\ listing' = NoEntries /\ procs' = Orphaned
  /\ update' = [update EXCEPT !.captured = NoEntries]
  /\ UNCHANGED <<registry, unit, binary, settings, enabled>>

-----------------------------------------------------------------------------
\* stop_instance: the boot unit first, which systemctl stops and waits for.
Unload(n) ==
  /\ At("unload", n) /\ Succeeds
  /\ IF n = "bridge" /\ unit
     THEN unit' = FALSE /\ procs' = Terminated(BootProcs)
     ELSE UNCHANGED <<unit, procs>>
  /\ UNCHANGED <<registry, binary, pid, listing, update, settings, crashes, enabled>>

Unloaded(n) ==
  /\ At("unloaded", n) /\ Succeeds
  /\ n = "bridge" => BootProcs = {}
  /\ UNCHANGED <<procs, registry, unit, binary, pid, listing, update, settings,
                 crashes, enabled>>

Signal(n) ==
  /\ At("signal", n) /\ Succeeds
  /\ procs' = Terminated({registry[n]})
  /\ registry' = [registry EXCEPT ![n] = 0]
  /\ UNCHANGED <<unit, binary, pid, listing, update, settings, crashes, enabled>>

\* restart_instance: an entry names the instance, dead or alive.
Entry(n) ==
  /\ At("entry", n)
  /\ IF registry[n] # 0 THEN Succeeds ELSE Fails
  /\ UNCHANGED <<procs, registry, unit, binary, pid, listing, update, settings,
                 crashes, enabled>>

\* install_unit: the supervisor starts the bridge at once.
Install(n) ==
  /\ At("install", n) /\ Succeeds
  /\ unit' = TRUE /\ enabled' = TRUE
  /\ UNCHANGED <<procs, registry, binary, pid, listing, update, settings, crashes>>

\* wait_for_registered_pid: for 5 seconds.
Await(n) ==
  /\ At("await", n)
  /\ (Registered(n) /\ Succeeds) \/ (~Registered(n) /\ Fails)
  /\ UNCHANGED <<procs, registry, unit, binary, pid, listing, update, settings,
                 crashes, enabled>>

\* Mutant: an instance is started whether it runs or not.
SpawnAnyway(n) ==
  /\ At("spawn", n) /\ FreeSlots # {} /\ Succeeds
  /\ registry' = [registry EXCEPT ![n] = 0]
  /\ pid' = FreeSlot
  /\ procs' = [procs EXCEPT ![FreeSlot] = Spawned(n, FALSE)]
  /\ UNCHANGED <<unit, binary, listing, update, settings, crashes, enabled>>

\* spawn_service_with_exe: an entry that is alive is an error, a dead one goes.
Spawn(n) ==
  /\ At("spawn", n) /\ FreeSlots # {}
  /\ IF Registered(n) THEN Fails /\ UNCHANGED <<procs, registry, pid>>
     ELSE /\ Succeeds
          /\ registry' = [registry EXCEPT ![n] = 0]
          /\ pid' = FreeSlot
          /\ procs' = [procs EXCEPT ![FreeSlot] = Spawned(n, FALSE)]
  /\ UNCHANGED <<unit, binary, listing, update, settings, crashes, enabled>>

\* 300 milliseconds later the child must be alive, as a zombie is.
Confirm(n) ==
  /\ At("confirm", n)
  /\ IF IsAlive(pid)
     THEN Succeeds /\ registry' = [registry EXCEPT ![n] = pid]
     ELSE Fails /\ registry' = [registry EXCEPT ![n] = 0]
  /\ pid' = 0
  /\ UNCHANGED <<procs, unit, binary, listing, update, settings, crashes, enabled>>

\* snapshot: the entries are listed, then those whose process is gone cleared.
List(n) ==
  /\ At("list", n) /\ Succeeds
  /\ listing' = registry
  /\ UNCHANGED <<procs, registry, unit, binary, pid, update, settings, crashes, enabled>>

Sweep(n) ==
  /\ At("sweep", n) /\ Succeeds
  /\ registry' = [m \in Names |-> IF listing[m] # 0 /\ ~IsAlive(listing[m]) THEN 0
                                  ELSE registry[m]]
  /\ listing' = NoEntries
  /\ UNCHANGED <<procs, unit, binary, pid, update, settings, crashes, enabled>>

-----------------------------------------------------------------------------
\* perform_update.

\* As the update begins no process is on its way out or unregistered, and a
\* bridge is the boot unit's if there is one.
Quiet ==
  \A p \in Slots :
    /\ procs[p].state \notin {"draining", "zombie"}
    /\ Runs(p) => /\ registry[procs[p].name] = p
                  /\ procs[p].name = "bridge" => procs[p].boot = unit

Capture(n) ==
  /\ At("capture", n) /\ Succeeds
  /\ update' = [phase |-> "captured", quiet |-> Quiet,
                captured |-> [m \in Names |-> IF Registered(m) THEN registry[m] ELSE 0]]
  /\ UNCHANGED <<procs, registry, unit, binary, pid, listing, settings, crashes, enabled>>

Captured == {m \in Names : update.captured[m] # 0}

\* Mutant: an instance is started again before its old process is gone.
RestartStepsAtOnce(n) ==
  IF n \notin Captured THEN <<>> ELSE <<<<"terminate", n>>, <<"relaunch", n>>>>

\* restart_services: one instance after the other, by its captured pid.
RestartSteps(n) ==
  IF n \notin Captured THEN <<>>
  ELSE <<<<"terminate", n>>, <<"exited", n>>, <<"relaunch", n>>>>
RestartServices == RestartSteps("bridge") \o RestartSteps("scan")

\* The download and its checks may fail, then nothing has changed.
Replace(n) ==
  /\ At("replace", n)
  /\ \/ Fails /\ UNCHANGED <<binary, release, update>>
     \/ /\ binary' = "new" /\ release' \in Releases
        /\ update' = [update EXCEPT !.phase = "restart"]
        /\ Does(RestartServices \o <<<<"health", n>>, <<"else", n>>, <<"rollback", n>>>>)
  /\ UNCHANGED <<procs, registry, unit, pid, listing, auto, setups, crashes, enabled>>

Terminate(n) ==
  /\ At("terminate", n) /\ Succeeds
  /\ procs' = Terminated({update.captured[n]})
  /\ registry' = [registry EXCEPT ![n] = 0]
  /\ UNCHANGED <<unit, binary, pid, listing, update, settings, crashes, enabled>>

\* wait_for_exit: for 35 seconds, longer than a bridge drains.
WaitExit(n) ==
  /\ At("exited", n) /\ Succeeds
  /\ ~IsAlive(update.captured[n])
  /\ UNCHANGED <<procs, registry, unit, binary, pid, listing, update, settings,
                 crashes, enabled>>

Relaunch(n) ==
  /\ At("relaunch", n)
  /\ Does(IF n = "bridge" /\ unit THEN <<<<"await unit", n>>>>
          ELSE <<<<"spawn", n>>, <<"confirm", n>>>>)
  /\ UNCHANGED <<procs, registry, unit, binary, pid, listing, update, settings,
                 crashes, enabled>>

\* wait_for_supervised_restart: for 30 seconds, ten times RestartSec, so that
\* what comes up at all comes up in time.
AwaitUnit(n) ==
  /\ At("await unit", n)
  /\ \/ Registered(n) /\ Succeeds
     \/ ~Registered(n) /\ (release # "good" \/ crashes > 0 \/ PortHeld) /\ Fails
  /\ UNCHANGED <<procs, registry, unit, binary, pid, listing, update, settings,
                 crashes, enabled>>

\* Mutant: the health check reads the entries alone.
HealthOfEntries(n) ==
  /\ At("health", n)
  /\ IF \A m \in Captured : Registered(m)
     THEN Succeeds /\ update' = [update EXCEPT !.phase = "ok"]
     ELSE Fails /\ UNCHANGED update
  /\ UNCHANGED <<procs, registry, unit, binary, pid, listing, settings, crashes, enabled>>

\* The entries are read once; the port of the bridge is asked for some seconds,
\* in which a process that starts has started.
Serves(p) ==
  procs[p].name = "bridge" /\ procs[p].state = "up" /\ ~(procs[p].new /\ release = "sick")
Health(n) ==
  LET entries == \A m \in Captured : Registered(m)
      answers == "bridge" \in Captured => \E p \in Slots : Serves(p)
      booting == \E p \in Slots : procs[p].state \in {"preflight", "starting"}
  IN /\ At("health", n)
     /\ \/ entries /\ answers /\ Succeeds /\ update' = [update EXCEPT !.phase = "ok"]
        \/ ~entries /\ Fails /\ UNCHANGED update
        \/ ~answers /\ ~booting /\ Fails /\ UNCHANGED update
     /\ UNCHANGED <<procs, registry, unit, binary, pid, listing, settings, crashes, enabled>>

\* The old binary comes back, and the same services are restarted as before:
\* by the pids that were captured.  Their errors are ignored.
Rollback(n) ==
  /\ At("rollback", n)
  /\ binary' = "old"
  /\ update' = [update EXCEPT !.phase = "rollback"]
  /\ Does(RestartServices \o <<<<"rolled", n>>, <<"else", n>>, <<"rolled", n>>>>)
  /\ UNCHANGED <<procs, registry, unit, pid, listing, settings, crashes, enabled>>

RolledBack(n) ==
  /\ At("rolled", n) /\ Succeeds
  /\ update' = [update EXCEPT !.phase = "rolled back"]
  /\ UNCHANGED <<procs, registry, unit, binary, pid, listing, settings, crashes, enabled>>

-----------------------------------------------------------------------------
ProcessStep ==
  \/ \E p \in Slots : Preflight(p) \/ Boot(p) \/ Drained(p)
  \/ Respawn

CommandStep ==
  \E n \in Names :
    \/ Unload(n) \/ Unloaded(n) \/ Signal(n) \/ Entry(n) \/ Install(n) \/ Await(n)
    \/ Spawn(n) \/ Confirm(n) \/ List(n) \/ Sweep(n) \/ Exit(n)
    \/ Capture(n) \/ Replace(n) \/ Terminate(n) \/ WaitExit(n) \/ Relaunch(n)
    \/ AwaitUnit(n) \/ Health(n) \/ Rollback(n) \/ RolledBack(n)

Next ==
  \/ ProcessStep
  \/ CommandStep
  \/ \E c \in Commands : Give(c[1], c[2])
  \/ Setup
  \/ \E p \in Slots : Crash(p)
  \/ JobDies

\* Processes boot and drain, the supervisor supervises, and a command that runs
\* goes on; commands, crashes and the wizard need not come.
Fairness ==
  /\ \A p \in Slots : WF_vars(Preflight(p)) /\ WF_vars(Boot(p)) /\ WF_vars(Drained(p))
  /\ WF_vars(Respawn)
  /\ WF_vars(CommandStep)

Spec == Init /\ [][Next]_vars /\ Fairness

-----------------------------------------------------------------------------
Entries == [Names -> Slots \cup {0}]
Steps == {"unload", "unloaded", "signal", "entry", "install", "await", "spawn",
          "confirm", "list", "sweep", "capture", "replace", "terminate", "exited",
          "relaunch", "await unit", "health", "rollback", "rolled", "else", "exit"}
Phases == {"none", "captured", "restart", "ok", "rollback", "rolled back"}
Processes == [state : States, name : Names, new : BOOLEAN, boot : BOOLEAN, child : BOOLEAN]

TypeOK ==
  /\ procs \in [Slots -> Processes]
  /\ registry \in Entries /\ listing \in Entries
  /\ unit \in BOOLEAN /\ auto \in BOOLEAN /\ enabled \in BOOLEAN
  /\ binary \in {"old", "new"} /\ release \in Releases \cup {"good"}
  /\ job \in Seq(Steps \X Names) /\ pid \in Slots \cup {0}
  /\ update \in [phase : Phases, captured : Entries, quiet : BOOLEAN]
  /\ crashes \in Nat /\ setups \in Nat /\ Upsets <= MaxUpsets
  \* A process of the boot unit is the supervisor's, and there is one at most.
  /\ \A p, q \in BootProcs : p = q
  /\ \A p \in BootProcs : ~procs[p].child /\ procs[p].name = "bridge"

\* No detached process is lost: as long as there never was a boot unit, each one
\* that runs is the one its registry file names, or the one that a command is
\* still to confirm, so that the next stop, restart or update finds it.
NoOrphan ==
  ~enabled /\ crashes = 0 /\ update.phase \notin {"rollback", "rolled back"} =>
    \A p \in Slots : Runs(p) => p \in {registry[procs[p].name], pid}

\* An update is reported as done only when the bridge that ran before is served
\* by the new version, under the pid that is registered: when all that ran as it
\* began was registered and nothing crashes, the port that the health check asks
\* is that process's.
UpdatedRunsNew ==
  [][update.phase # "ok" /\ update'.phase = "ok" /\ update.quiet /\ crashes = 0
       /\ "bridge" \in Captured =>
       LET p == registry["bridge"]
       IN procs[p].state = "up" /\ procs[p].name = "bridge" /\ procs[p].new]_vars

\* A release that works is not rolled back: when all that runs is registered as
\* the update begins and nothing crashes, no restart of it fails, whether by the
\* port of the old process, the supervisor's delay or an entry that is gone.
GoodReleaseStays ==
  release = "good" /\ crashes = 0 /\ update.quiet =>
    update.phase \notin {"rollback", "rolled back"}

\* With a boot unit and a version that runs, the bridge comes back: after crashes,
\* stops that drain, updates and roll-backs.
BridgeUp == \E p \in Slots : procs[p].name = "bridge" /\ procs[p].state = "up"
ComesBack ==
  <>[](unit /\ (binary = "new" => release # "dies")) => []<>BridgeUp

\* A roll-back restores the services: none runs the new version any more
\* (update.rs:3-6, "roll back automatically if anything fails").
RollbackRestores ==
  update.phase = "rolled back" => \A p \in Slots : Runs(p) => ~procs[p].new
=============================================================================
