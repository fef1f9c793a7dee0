# FingerBridge in TLA+

FingerBridge (`fbsy`) carries attendance records from fingerprint and face
terminals at a site to an HRMS in the cloud. It pulls records from ZKTeco
devices over TCP, and it takes pushes from SenseFace terminals over HTTP. This
directory holds a model of the parts that decide whether a record arrives,
model-checked with TLC on small instances and, where a property matters most,
proved with TLAPS for every instance. `PROJECT.json` lists the runs, which
definition stands for which source lines, the hazards the properties are aimed
at, and the theorems.

## The system

| Part | Source | State it keeps | Operations |
|---|---|---|---|
| Sync core | `runtime/sync_state.rs`, `domain/event.rs`, `domain/sync_result.rs` | a lock, the last result and the learned org timezone per device and process; both of the latter also in files | `sync_once`, `syncing`, `last_result`, restart from the files |
| HRMS webhook client | `adapters/hrms_reqwest.rs` | none | post events in batches with retries; fetch and complete jobs |
| Device protocol | `adapters/device_zkteco_tcp.rs` | socket, session id, reply id | connect, authenticate, pull, clear, templates, users |
| Service | `application/serve.rs` | the shutdown flag, one `DeviceSyncState` per device | boot syncs, schedulers, `/health`, `/sync`, drain |
| One-shot sync | `application/sync_once.rs` | a `DeviceSyncState` of its own | sync every device once, from another process |
| SenseFace | `application/senseface.rs`, `adapters/senseface_sqlite.rs`, `runtime/senseface_forwarder.rs`, `domain/senseface.rs` | tables of raw requests, devices, employees and attendance rows | answer a push, save rows, forward pending rows, mark them |
| Job poller | `runtime/job_poller.rs` | none | fetch jobs, run them on a device, report |
| Service manager | `application/service.rs`, `runtime/registry.rs`, `runtime/process.rs` | a registry file per instance | start, stop, restart, list |
| Self-update | `application/update.rs` | backup and new binary, the services it found running | replace, restart, health check, roll back |
| Config and setup | `config/`, `adapters/config_file.rs`, `application/config.rs`, `application/setup.rs` | the config file | load, validate, save |
| Autostart, install | `application/autostart.rs`, `application/install.rs` | unit files of the OS | install, remove |
| Dashboard, scanner, CLI, mocks, logs, paths | `application/dashboard.rs`, `application/scanner.rs`, `cli/`, `application/test_server.rs`, `support/` | screen state, log files | show and call the parts above |

How they interact. The service starts a boot thread and a scheduler thread per
device, a thread per HTTP request, a job poller and the two SenseFace threads.
All threads that sync a device share its `DeviceSyncState` and meet at one
`try_lock`; `/health`, `/sync` and the drain look at that lock by taking it.
`fbsy sync` and the dashboard hold a `DeviceSyncState` of their own in another
process: they share with the service only the device, HRMS and the state files.
The job poller talks to devices without any lock. SenseFace threads meet in the
SQLite file. The service manager and the updater know other processes by
registry files and pids.

What is hard here: a clear that erases records decided on an older pull; a batch
of many that fails; several processes on one device; a death between two steps;
panics that poison a lock; a drain with a deadline; terminals that push again
because an answer was lost; rows posted and not yet marked. What would make each
part correct:

- *sync core*: nothing is erased that HRMS has not got, no result lies, every
  attempt ends, every record arrives, one check-in a day;
- *service*: shutdown ends and waits for what it should, one device never holds
  up another;
- *SenseFace*: what is answered OK is stored, what is marked is delivered, order
  is kept, everything arrives;
- *webhook client*: success means that every batch was answered 2xx, in order;
- *protocol*: a reply belongs to its command, a read is complete or fails;
- *job poller*: a job takes effect once, never in the middle of a sync;
- *service manager, self-update*: every process that runs is one that a stop, a
  restart or an update finds; an update that reports success runs the new version,
  a good release is not rolled back, a rollback leaves the old version running;
- *config*: what the wizard saves loads back with its meaning.

## The modules

| Module | Models |
|---|---|
| `AttendanceTransfer` | what the bridge promises: a client takes a copy of the device's records, delivers out of it, and clears only when all of the copy is delivered |
| `DeviceSync` | one device: the threads of any number of processes that sync it, the device, HRMS, the files |
| `BridgeServe` | the service process: main thread, schedulers, requests, drain |
| `SenseFace` | terminals, receiver threads, table, forwarder |
| `BatchForward` | what a caller of `forward_events` may rely on |
| `HrmsClient` | `forward_events` and its requests: chunks, attempts, the kinds of answers |
| `JobPoller` | one process's use of HRMS: `HrmsClient` beside the job poller, with restarts |
| `ZkDecode` | the bytes of a terminal's tables read as records |
| `ZkProtocol` | one connection to a terminal, command by command; uses `ZkDecode` |
| `ServiceManager` | processes, registry files, the boot unit, commands, the update |
| `Config` | parser, validation, writer and wizard of the config file |
| `Installation` | `Config` and `ServiceManager` composed |
| `MC*` | values of the constants for TLC |
| `*Proofs` | theorems about the module they extend |

### DeviceSync

`sync_once` is a worker's walk through `pc`: *idle*, *connect*, *pull*,
*forward*, *clear*, *release*, then *memory* and *file* for `store_result`,
which runs after the lock is dropped. Each return of `sync_with_client` and
`sync_once_locked` is one disjunct that goes to *release*. A prober is
`syncing()`, which holds the lock from a successful `try_lock` to the end of the
expression, so another thread can find the lock taken by a mere look at it.
`Panic` is the cut of an error text at byte 200 (`String::truncate`), which
panics inside a character: the thread ends, and the guard it held poisons the
lock. `Restart` is a death of one process at any step and its next start from
the files.

A record is a number, in the order of the device's clock; `Mappable` are the records
with a user id and a readable time. An event is a record with the zone that resolved its
time and its type. Zones matter because the same record in two zones is two different
events to HRMS. The webhook client is seen by the outcome of each batch: answered 2xx,
or failed after attempts one of which may have been stored; that it does no other is
what `HrmsClient` shows. The device is seen by what a read may return (all records, or
with `ShortPulls` any part of them, since `read_chunk` takes an acknowledgement without
data for an empty chunk) and by what a clear may do (its answer and its effect are
independent, since replies are not matched to commands). Files are written to a
temporary name and renamed, best effort: the old content, the new one, or an unreadable
one when two threads write the same temporary file.

Left out: what the log says, the text of an error except that it may be cut, the
count HRMS reports (it goes only into `forwarded` of the result), templates and
users. HRMS may answer any text as its timezone: `OrgZones` are those the bridge
can resolve, `BadZones` those it learns and cannot, `BlankZones` those it writes
and does not take from the file again (`LoadedZone`). `Learn` puts any of them
over what was there, as `learn_org_timezone` does. `DayOf` gives the employee and
local day of a record in a zone.

### BridgeServe

`main` follows `run`: *boot* until the signal handlers are installed, then the
HTTP loop (*check*, *accept*), then *drain*, then *exited*. A thread is a role
and a device. `visit` is the list of devices a request or the drain has still to
look at: `any(|s| s.syncing())` looks at one device after the other, stops at
the first that is syncing, and starts again 200 ms later until it passes them
all or the 30 s (`late`) are over. A sync is seen from outside: it holds its
device's lock in *talk*, *upload* and *clear* and may end after each. What it
does inside, its panics and a poisoned lock are DeviceSync's; what a next start
finds is too. `DeviceList` holds the devices of the config in order; `Requests`
bounds how many requests arrive. The SenseFace threads and the job poller touch
neither these locks nor the flag and are left out; so is the updater, which ends
the process by a signal.

### SenseFace

`Push` is a terminal's request arriving at a handler thread, `SaveLine` one
`INSERT OR IGNORE` of `handle_post_cdata`, keyed by the hash of the line,
`Reply` the OK that makes the terminal drop the records, `ReplyLost` an OK that
never arrives, so that the terminal pushes again. `Fetch`, `PostOk`,
`PostFails`, `Mark` and `MarkFails` are `forward_once`: rows of the cycle are
grouped by serial, in the order of a `BTreeMap`, posted and marked group by
group; a failed post goes on to the next terminal, a failed mark ends the cycle.
A group without events is marked without a post, because the client answers at
once. `SaveLineFails` is an insert that fails, which the code logs before it
answers OK; `Unsavable` bounds the records it may happen to, `unsaved` is history:
those it happened to. Terminals may send the same line, and HRMS may refuse all that a
terminal sends (`Rejected`). Raw requests, devices and employees are left out:
nothing that is forwarded depends on them. A line is a value; whether it maps to an
event is `Mappable`.

### BatchForward, HrmsClient and JobPoller

`BatchForward` is the promise: the events of a call are delivered chunk by chunk, in
order, and the call answers *ok* only when all are. `HrmsClient` is the code:
`ForwardEvents` starts a call, `Post` is one request of `post_once` with what becomes of
it (`Fates`), `Retry` the backoff after a failure that may pass, `GiveUp` the error that
ends the call, `Accepted` a 2xx with the count and the timezone HRMS gives; the count is
any number. The request is stored or not, independently of its answer, as far as the
answer leaves that open (`MayKeep`, `MustKeep`).

`JobPoller` extends it with `poll_once`: `Fetch` and `FetchNothing` are the
listing, the `Execute...` actions are `execute_job` for each kind of job,
`Report` and `ReportFails` `complete_job`, which is tried once. A job is pending
at HRMS until HRMS has a report of it. Of the terminal only one user matters,
the one all jobs are about: `template` is the job that wrote it last. `Restart` is
the death of the process, which loses the list the poller was at and ends the
call; `down` is an HRMS that cannot be reached for good.

### ZkDecode and ZkProtocol

A connection runs a script of calls (connect, pull, clear, templates, push, info, exit);
each call is a chain of commands, `pc` is the command whose answer the client awaits.
`Receive` takes the next packet, whatever command it answers, because `send_command`
compares no id; `Timeout` is the same step with `Silence`. `ReadSizes` and `FreeData`
swallow errors as the code does. The terminal is external: `Serve` answers in one of
five styles (`Prepared`, `Chunk`) that the code handles, `Misbehave` refuses a command,
loses it, or executes it and loses the answer, `Lose` takes any one datagram out of a
UDP line, one in the middle of a stream as well, and with `AckOnly` old firmware
acknowledges one chunk or another and sends nothing of it. `missing` is history: the
kinds of packets that were lost so. A terminal that is not *prompt* may also answer
after the client has given up. A table is a sequence of records and a packet brings a
range of its bytes; `got` is what came so far: of which table, how many bytes, and
whether they are its beginning without a hole (`Extended`), with `streamed` the bytes of
the stream that is being read. `ZkDecode` says what the decoders make of that: the
records, fewer of them, or `Garbled` when the format is wrong or there is a hole. A
script clears a log only right after it was pulled (`ScriptsAssumption`), as
`sync_with_client` does, the only caller of `clear_attendance`. A timeout in the middle
of a packet, a datagram that comes twice or overtakes another, checksums and the
password's hash are left out.

### ServiceManager, Config and Installation

A process is a slot with a state; `registry` is the slot each entry names. A
command is a list of steps (`Script`), so that boots, drains, the supervisor and
crashes come between any two of them: *unload* and *unloaded* are `systemctl
disable --now`, *signal* is the rest of `stop_instance`, *spawn* and *confirm*
are the two halves of `spawn_service_with_exe`, *list* and *sweep* those of
`snapshot`; an update is *capture*, *replace*, then *terminate*, *exited* and
*relaunch* for each captured instance, *health*, and in the failure *rollback*.
`"else"` marks where a failed command goes on: `fbsy restart` starts the bridge
after any error, the update rolls back. `Quiet` is history for the properties:
as the update began nothing was on its way out or unregistered. Processes are
those of a Unix: a dead child of a live command is a zombie and counts as alive,
which is why the 300 ms check of a start never sees a dead child. The boot unit is
systemd's; commands run one at a time.

`Config` has JSON objects as functions from keys to tagged values and gives, as
operators, what `from_json_value` and its helpers accept, default and clamp, what
`validate` refuses, what serde writes, and what the wizard makes of its answers. Its one
variable is where the config comes from until it is loaded. Numbers keep the range of
u16; those of u64 and i32 end at `MaxInput`, which they both hold. `Inputs` is what the
prompts let through, port 0 included. `Installation` starts with a config and hands its
`autoStartOnBoot` to the service manager.

## The runs

All runs finish in about three minutes or less on two cores.

| Run | Instance | Shows |
|---|---|---|
| `sync_restart` | one process, two workers, a prober, two records of which one maps, always clear, short pulls, panics, one zone from HRMS that can be read and one blank, one death | `TypeOK`, `LockMatchesSync`, `ResultsHonest`, `NoUtcOnceLearned` |
| `sync_processes` | two processes with one worker each, two records, clear at a threshold, one death | `NothingDropped`, `SafeErase`, `ImplementsTransfer` |
| `sync_delivery` | two workers of which one is a scheduler, two records of one day, never clear, failed batches and errors that panic, fairness | `OneCheckInPerDay`, `EventuallyDelivered`, `KeepsSyncing`, `EveryAttemptEnds` |
| `serve_shutdown` | two devices of which one may hang, a request of any kind, fairness | `TypeOK`, `DrainKeepsItsWord`, `ShutdownEnds`, `IndependentSchedules` |
| `senseface_store` | two terminals with a line in common, two handlers, three lines of which the shared one maps, one record whose insert may fail, one death | `TypeOK`, `MarkedIsDelivered`, `ForwardedInOrder`, `AcceptedIsStored` |
| `senseface_forward` | two terminals with lines of their own that all map, one of them refused and able to fill a cycle, one handler, one record whose insert may fail, one death, fairness | `EventuallyForwarded` |
| `zk_session` | five scripts, TCP and UDP, five styles, three record formats, locked or not, prompt or not, two records, one fault (a refusal, or a command, an answer or a datagram lost), chunks acknowledged without data, fairness | `TypeOK`, `InStep`, `PullIsTheLog`, `ClearIsDone`, `SavedIsWhole`, `SessionEnds` |
| `hrms_jobs` | calls of up to three events in chunks of two, one retry, two jobs of five combinations of kinds, two faults, counts up to one more than is sent, one death, HRMS down or not, fairness | `TypeOK`, `ReportIsTrue`, `NoRerun`, `ImplementsForward`, `EveryJobAnswered`, `CallEnds` |
| `service_update` | 12804 configs, some with a port 0, then any start, stop, restart and show, one crash, death of a command or change of the config, and an update to a release that works, dies or is sick, fairness | `TypeOK`, `NoOrphan`, `GoodReleaseStays`, `SavedLoadsBack`, `LegacyIsOneDevice`, `UpdatedRunsNew`, `ComesBack` |

Three runs show where the code does not do what its documentation says:

| Run | Expectation | What happens |
|---|---|---|
| `sync_loss` | `NoLoss`: README "RPO (data loss) Zero" | a record punched between the pull and the clear is erased by the clear and never sent |
| `zk_count` | `PullIsOfTheLog`: `device_zkteco_tcp.rs` "formats (8, 16, or 40 bytes) depending on device firmware" | the format is computed with a count read earlier; a record punched in between makes it 8, and the pull is garbage |
| `update_rollback` | `RollbackRestores`: `update.rs` "roll back automatically if anything fails" | the processes of the new version are neither terminated nor registered; they go on and hold the port |

What some properties leave open, because the code does. `NoUtcOnceLearned`: any
text HRMS answers as its timezone replaces the good one in memory and, if the
write succeeds, on disk; one that names no zone makes every sync use UTC until a
readable one comes. The property says that nothing else does that: it watches
the syncs that begin while the file holds a readable zone, and a fall to UTC
needs an unreadable text learned by that very process. `EventuallyDelivered`,
`KeepsSyncing`, `EveryAttemptEnds`: an error text that is cut inside a character
kills the thread with the lock in hand, and no thread of that process syncs the
device again (`Stopped`); the properties say that this is the only thing that
stops a device, that it does so for good, and that without it every attempt ends
with a result. `AcceptedIsStored`: OK is answered after an insert that failed, and a
line that another terminal has sent is ignored; these are its two exceptions.
`EventuallyForwarded`: a cycle reads the oldest pending rows, so once the rows of
refused terminals fill one (`Clogged`) no other row is read again.
`SavedLoadsBack`: a port 0 passes the prompts and `validate` and is saved, and the
loader refuses the file; the property says that it does exactly then.
`EveryJobAnswered`: a job that cannot be parsed keeps every list it is on from
being read (`Unlisted`), and one whose error text is cut inside a character ends
the poller (`Ended`); every other job is answered.

`InStep` and what follows from it is about terminals that answer in time and do
not end a TCP stream with an ACK_OK the client leaves unread, and connections that
lose no PREPARE_DATA (`Tidy`): without the last, `read_chunk` takes the first DATA
of the stream for all of it and leaves the others on the line. `PullIsTheLog`
supposes that the count was that of the table, and that no DATA was lost and no
chunk acknowledged without data: `recv_udp_stream` and `read_chunk` do not look at
the length of what came and return a table with a hole as complete. TLC shows both
when that premise is dropped; with it, the property says that there is no third
way, whatever else is refused, lost or not answered.

`UpdatedRunsNew` and `GoodReleaseStays` suppose that all that ran was registered and
that nothing crashes: TLC shows that a supervised bridge that crashes between the
capture and the replacement is respawned from the old binary and then taken for the
restarted one, and that a stray bridge answers the health check for one that is not
there. `NoOrphan` is about installations that never had a boot unit: a supervised
bridge that starts while the port is still held exits and comes again, and in
between nobody has its name. `ComesBack` needs a boot unit and a version that starts.

The bounds, and why they are enough. Two workers are the fewest that can collide
and a third meets the same lock; two records are the fewest of which one can
arrive, or be erased, after the other was pulled, and of which a batch of one
can fail after another was stored. `BatchSize` is 1 and `Limit` 2 instead of 500
and 200, so that batches and cycles end in the middle. One death suffices for
what a single start finds on disk. One request and two devices give all orders
of a probe, a start and the drain; a device in `Hangs` gives a sync without end.
Two terminals are the fewest for groups, order and a line in common; a refused one
with as many lines as `Limit` is the fewest that fills a cycle, and it may also have
fewer in the table; one record whose insert may fail is the
fewest that loses a record among others that are kept: in `senseface_store` a shared
line's, which the other terminal may still save, in `senseface_forward` the one that
ought to be forwarded. One zone that can be read and a blank one are the
fewest of which one replaces the other; a text that is unreadable and not blank
differs only in what a restart takes from the file, and the theorem is about both.
In `zk_session` chunks of 50 bytes and packets of 30 make a table of two records of
40 bytes two chunks and three packets, with a remainder, as 64 KB and 1 KB do with
thousands. Chunks of two of three events are one whole and one short chunk. One
retry is the fewest that tells an attempt from a retry; the theorems hold for
three. Two jobs are the fewest of which one can be behind the other. Five slots
are enough for two registered processes, the ones that replace them and one
that drains; an update is the last command of a behaviour. The configs are those
that reach every default, clamp and error at its boundary, alone. Where a
property holds for more than this, the theorems say so. `CHECK_DEADLOCK FALSE`
is given where the system really stops: an exited service, terminals that have
nothing left to send, a connection that is closed, a config that does not load.

Symmetry is used in two safety runs: workers of one process in `sync_restart`,
handlers in `senseface_store`. No run with fairness uses it.

### Fairness

- A thread inside `sync_once` goes on (weak): every call has a timeout or is
  bounded by the operating system's.
- A scheduler starts its next attempt (weak): its loop has no exit but shutdown.
- A prober drops its guard (weak).
- `ConnectOk`, `PullOk` and the acceptance of each record (strong): outages end. A panic
  may still come at any error. Without this no bridge delivers; with it the runs show
  that nothing in the bridge prevents delivery. `PostFails` has no fairness and may come
  every time in between.
- `Main`, `Handle`, `Wake`, `TryLock`, `Skip` (weak): threads of a live process
  run. `DeadlinePasses` (weak): time does. `SyncEnds` (weak) only for devices
  outside `Hangs`.
- A terminal pushes each of its records again and again, one of these pushes is
  saved, HRMS accepts a terminal it knows, a mark succeeds (strong).
  That does not bring back a record that the terminal dropped after a failed insert.

- The client of a connection goes on (weak on `Call`, `Receive`, `Timeout`): every
  read has a timeout. So does the terminal (weak on `Terminal`), which may refuse
  or lose what it is told.
- A call of the webhook and the poller's thread go on (weak): a request returns
  within 30 s, a sleep ends. HRMS answers at all by `MaxFaults` and `down` only.
- Processes boot and drain, the supervisor starts the unit, a running command does
  its next step (weak); no command, crash or wizard need come.

`TryLock` and `Skip` are fair only together: a scheduler may find its device
probed or syncing every time, so `IndependentSchedules` promises that the device
is being synced again and again, by someone.

## What is proved

`DeviceSyncProofs`, for any sets of processes, workers, probers and records, any
zones, batch size, threshold and number of deaths:

- `TypeCorrect`: `TypeOK`.
- `LockHeldExactlyInSync`: `LockMatchesSync`, which is inductive with `TypeOK`:
  a worker takes the lock only when it is free, and each way out of the locked
  part gives it up, leaves it poisoned or is a death of the process.
- `NothingDroppedAlways`, `EraseIsSafe`, `ResultsAlwaysHonest`: assume
  `~PartialAccept`. They rest on `SyncPhases`, which `NothingDropped` needs to be
  inductive: a worker holds a copy only while it forwards or clears, what it has
  to send is part of the copy, and at the clear nothing is left to send. Then
  `EraseIsSafe` is one step from `NothingDropped`, and `ResultsHonest` follows
  because HRMS never forgets and stored results come from workers. Short pulls
  are allowed: a sync never erases an unsent record *of its own pull*.
- `DeviceSyncImplementsTransfer`: assumes `~PartialAccept` and `~ShortPulls`.
  `held` is the worker's pull, `delivered` the records HRMS holds; a pull is a
  `Take`, a post a `Deliver`, a clear a `Clear`, a death a `Forget`, everything
  else stutters.

- `OneCheckInPerDayAlways`: `OneCheckInPerDay`, for `FirstInLastOut` and a device
  that is read whole and never cleared (`~ShortPulls`, `~ClearAfterSync`,
  `ClearThreshold = 0`). A pull is then a beginning of the device's records, so that
  the first record of a day is the same in every pull; the invariant
  (`CheckInsAreFirst`) says so of what is still to be sent and of what HRMS has.
- `NeverUtcOnceLearned`: `NoUtcOnceLearned`, for any texts HRMS answers as its
  timezone, readable, unreadable or blank, when one process syncs the device and UTC
  is neither its configured zone nor a zone HRMS names. Another process reads the
  file only when it starts, so the first is needed. `LearnedFollowsFile` makes it
  inductive: with a readable zone on disk, the process has learned some text too, so it
  does not fall back for lack of one.

`~PartialAccept` is the assumption that HRMS stores what it answers 2xx for. The
code cannot do without it: it goes on to the clear whatever count HRMS reports.

`BridgeServeProofs`, for any devices, requests and hanging devices:

- `ServeTypeCorrect`: `TypeOK`.
- `DrainAlwaysKeepsItsWord`: `DrainKeepsItsWord`. Two facts make it inductive: a
  sync in its phases holds its device's lock (`SyncsHoldLocks`), and, in a drain
  whose time is not over, every sync that ran at the signal is on a device the
  drain has still to look at (`DrainInv`).

`SenseFaceProofs`, for any terminals, lines, handlers and cycle size:

- `PushTypeCorrect`: `TypeOK`.
- `MarkedAlwaysDelivered`: `MarkedIsDelivered`, strengthened to what is posted and
  not yet marked (`DeliveredInv`).
- `AlwaysForwardedInOrder`: `ForwardedInOrder`, strengthened to: neither a cycle
  nor a posted group leaves out an older pending row of the same terminal
  (`OrderInv`).
- `AcceptedAlwaysStored`: `AcceptedIsStored`, with no assumption: any inserts may
  fail and any terminals share lines. Strengthened to the lines a handler is through
  with (`StoredInv`).

`JobPollerProofs`, for any batch size, number of retries, calls, jobs, faults and
deaths:

- `JobsTypeCorrect`: `TypeOK`.
- `ReportsAlwaysTrue`, `NeverRerun`: `ReportIsTrue` and `NoRerun`. `PollInv` makes
  them inductive: the result that is not reported yet is true as well, HRMS has
  a report of no job of the list, and the list names each job once.
- `OkAlwaysDelivered`: an *ok* of `forward_events` means that HRMS has every event
  of the call. `SentInv`: an accepted chunk is stored, and so are those before it.
- `ClientImplementsForward`: `ImplementsForward`, from `SentInv`; a request is a
  `Deliver` or a stutter, an accepted one an `Accept`, a retry a stutter.

`ZkProtocolProofs`, for any scripts that clear only what was pulled, any transports,
styles, record formats, chunk, packet and buffer sizes, records and faults:

- `TypeCorrect`: `TypeOK`. To be inductive it needs what the client has at hand
  while it awaits an answer (`Busy`: a call that runs, a table to read, a chunk to
  ask for) and that every record punched is on the terminal or erased (`Counted`).
- `InStepAlways`: `InStep`. `Calling` says which commands belong to which call, `Line`
  that, with a tidy terminal, the line holds nothing, the last command, or the answers
  to it, some of which may be lost, and nothing else. So the next packet is the answer
  that is awaited, although the code never compares the two.
- `SavedAlwaysWhole`: `SavedIsWhole`. `Pushing` adds how many chunks of a template
  the terminal holds at each step of `send_with_buffer`.
- `PullAlwaysTheLog`: `PullIsTheLog`. `Retrieving` adds that what came is no more than
  the prepared table up to where the client is (`UpTo`), and all of it as long as no
  DATA is missing (`Before`, `Began`), that the chunks still to ask for are the rest
  of it, cut where the chunks are, and what the packets of a stream on the line bring
  (`EndsAt`). At the end all of the table came, and the record format computed from
  its size and the count is the terminal's. With a hole, fewer
  bytes came than the table has.
- `ClearAlwaysDone`: `ClearIsDone`, from `Clearing`: the pull before returned
  records, so there were some to erase, and the terminal has erased them when it
  says so.

That the terminal is tidy is a premise of the last four properties, not of
`TypeCorrect`: see "what some properties leave open" above.

`ServiceManagerProofs`, for any slots, commands, releases and upsets. The module
starts with either value of `autoStartOnBoot`, and `Installation` adds to it only
where that value comes from:

- `ManagerTypeCorrect`: `TypeOK`, which includes that the supervisor never has two
  bridges. `Evolution` gives what becomes of the processes in a step: either none
  comes (`Wane`), or one comes in a slot that was free, and only when the supervisor
  starts the unit or a command spawns.
- `NoOrphanEver`: `NoOrphan`. A list of steps is data, so the argument first says
  what lists there are: `Shape` gives, for each phase of the update, which step
  follows which, and is inductive because every command writes such a list and goes
  on along it (`ShapeGoesOn`, `ShapeFalls`). With it `Pending` says that there is a
  process to confirm just before the step that confirms it and a list of entries
  just before the sweep, and `Unsupervised` that without a unit no process is the
  supervisor's. Then `Owned` is inductive as long as the property watches: each
  process that runs is registered or to be confirmed, the entry that a confirmation
  overwrites is empty, and the entries that a sweep, a replacement or a restart goes
  by are still those of the registry. The last two are needed because `snapshot` and
  `perform_update` act on entries they read earlier.

`UpdateProofs`, which extends it, follows the bridge through an update:

- `UpdatedAlwaysRunsNew`: `UpdatedRunsNew`, and `GoodReleaseAlwaysStays`:
  `GoodReleaseStays`. `Known` says what an entry, a captured pid and a child stand
  for: no pid is reused, so each still names a process of its service. `Turns` says
  that the services are restarted in turn, each when its entry is gone. `Bridged`
  says where the bridge is at each step: the old one runs and is registered
  (`OldRuns`), it was told to end (`Leaves`), it is gone (`Left`), the new one is
  there (`Came`). At every stage the supervisor may have started another one behind
  the old (`Fresh`), before the update looks for it. `Moved` is what a step of the
  processes and of the supervisor does to the bridge, whichever stage it is at, and
  it preserves all four. The health check then asks the port of the registered
  process, because there is no other bridge (`Single`). That no step of the restart
  of a good release fails (`Staying`) follows from the stages: the port is held by
  the registered process or by none when the supervisor is waited for, the entry is
  empty when a child is spawned, and the child exists when it is confirmed.

  Both need that nothing crashes and that all that ran was registered as the update
  began (`Calm`): a bridge that crashes between the capture and the restart comes
  back from the old binary, and one that is not registered is not restarted.

`ConfigProofs`, which extends `Installation`, for any answers in `Inputs`, ports of 0
included, and any objects with keys of a single device. The config is one of its sources
until it is loaded (`ConfigInv`), so both are facts about the operators:

- `SavedLoadsBackAlways`: `SavedLoadsBack`, in both directions: with a port 0 the file
  is refused, without one it loads as it was set. `WizardConfigType` says what the wizard
  can save. For a device, a mapping, the receiver and the root there is one lemma
  that says what stands under each key of the object that is written (`DeviceKeys`,
  `ReceiverKeys`, `ConfigKeys`), and one that the parser accepts it and makes of it
  what was written (`DeviceBack`, `MappingBack`, `ReceiverBack`, `ConfigBack`). They
  rest on the same fact for one number, flag or text (`IntBack`, `BoolBack`,
  `TextBack`, and `NothingBack` for what is left out). That the config was found
  valid before it was saved is needed because the parser takes an empty text for one
  that is absent, and because it validates once more (`ReloadedValid`).
- `LegacyIsOneDeviceAlways`: `LegacyIsOneDevice`. The list changes no key but
  `devices` (`KeysOfList`), so all that is read besides the devices is the same, and
  both objects give the one device (`LegacySame`).

The URLs with a host, the zones and the texts that are numbers stay those of the
tables in `Config`, and numbers end at `MaxInput`, so neither theorem says anything
of the text of a URL, of a zone or of a number.

Only model-checked: all liveness (`EventuallyDelivered`, `KeepsSyncing`,
`EveryAttemptEnds`, `ShutdownEnds`, `IndependentSchedules`, `EventuallyForwarded`,
`SessionEnds`, `EveryJobAnswered`, `CallEnds`, `ComesBack`), which depends on
fairness and is outside the prover.

## Known limits of the code

Behaviours met while modelling that the properties leave out or name as their
exceptions, besides the three runs above:

- With clearing on, the next pull of the same day has a first punch of its own
  (`event.rs:174`; CONFIGURATION says the first punch is the check-in).
- An `orgTimezone` that is empty or names no zone replaces the good one, in memory and
  on disk (`sync_state.rs:92`, `hrms_reqwest.rs:283`), and the next sync uses UTC.
- A cut error text poisons the lock of a device (`sync_state.rs:413`); every later
  sync is skipped as "in progress". The same cut at byte 300 ends the thread of
  the job poller (`hrms_reqwest.rs:302`), and the job is there again at the next start.
- A sync that outlasts the 30 s, or starts on a device the drain has passed, is
  cut mid-upload (`serve.rs:216`, whose comment says it never is).
- The receiver answers OK for records it could not save (`senseface.rs:284`). Once a
  refused terminal has 200 pending rows, no row of another is forwarded
  (`senseface_sqlite.rs:173`).
- Two terminals that send the same line share a row: the second is ignored and
  answered OK (`domain/senseface.rs:105`).
- A push whose report was lost is executed again when HRMS lists it again, and
  overwrites a newer push that was reported. A job without a field of `PendingJob`
  fails every listing it is part of. An empty `hrmsApiToken` is used as it is.
- A TCP stream that ends with an ACK_OK leaves it unread, so replies get out of
  step. A datagram lost in a UDP stream (`device_zkteco_tcp.rs:423`) and a chunk that is
  acknowledged without data (`:414`) leave a hole that is read across, and a sync that
  clears then erases records it never saw.
- Two starts at once both find no entry (`service.rs:72`). A restart of a bridge
  that drains finds its port held and leaves the bridge down (`service.rs:330`). Two
  writers of an entry share its temporary file (`registry.rs:53`). systemd kills the
  updater that a supervised bridge has launched when that bridge ends, because the
  unit keeps the default KillMode (`autostart.rs:132`; `serve.rs:300` says the
  opposite).
- The wizard accepts port 0, saves it, and the config does not load
  (`config/impls.rs:590`). `run` of
  `serve.rs` starts the senseFace threads whatever the bridgeMode, and senseFace is
  not validated in pull mode; its timezone never is. A null `bridgeMode` or
  `devices` is an error, not a default. A `bridgePort` equal to the senseFace port is
  accepted.

## What is not modelled, and the plan

Outside TLC's interest for good: terminal rendering (dashboard, scanner, setup
dialogues), argument parsing, the mock servers, logging, launchd and schtasks, the
download and its verification.

Left of the service: response bodies, the PID file. Left of SenseFace: the roster
(employees, USERINFO queries), raw requests, the HTTP framing. Left of the service
manager: two commands at once, the dashboard as the parent of what it starts.

Next, in this order:

1. The SenseFace roster, and datagrams that come twice or out of order in
   `ZkProtocol`.
2. `JobPoller` composed with the sync of the same device, whose lock it does not
   take.
3. Two commands at once in `ServiceManager`, with the temporary files of
   `registry::write`, `save_last_result` and `save_learned_org_timezone`.
