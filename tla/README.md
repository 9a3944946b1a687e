# scrcpy-web in TLA+

scrcpy-web shows and controls Android devices in a browser. A FastAPI process
runs on one asyncio loop. It drives the devices through adb, starts a scrcpy
server on a device for each video session, and forwards its packets over
WebSockets. This directory models that process in TLA+, checks the models with
TLC, and proves part of their safety with TLAPS. Source paths below are relative
to `src/backend/app/` unless they begin with `frontend/` or `config/`.

Contents:

1. Inventory: the parts, their state, what makes them hard, what makes them right
2. The modules and how they correspond to the code
3. The runs: bounds, fairness, what each one shows
4. The proofs
5. Divergences: where comments, tests and code disagree
6. What is not modelled
7. Plan

## 1. Inventory

All services live in one process and on one event loop. A coroutine is atomic
from one `await` to the next. There are no threads that share state with it.
Nearly every dictionary is keyed by device (or session) and no operation touches
two keys, so one device, or one session, is the whole state of a component.

| Part | State it keeps | Operations | Talks to |
|---|---|---|---|
| `StreamService` + video WebSocket | owner token, encoder, advisor, restart event, pending bit rate, epoch, stall history, report grace; per handler `seen_epoch`, parser | acquire, stream, restart, recover from stalls, take a report, release | encoder, advisor, clipboard mirror |
| `ScrcpyEncoder` (device end) | device id, adb process, remote pids, `_FINALIZING_PIDS`; on the device: servers, forward, server file | `start`, `stop` (two callers) | adb, `ServerManager` |
| `ScrcpyEncoder` (video queue) | `_data_queue`, key-frame gate, IDR throttle, idle and probe clocks | `read_socket`, the loop of `start` | video socket, control socket |
| `RecordingService` + recorder tasks | session per device, pending starts; the driver's task, path and degrade tables | start, stop, natural end, self heal, retry | adb |
| `BitrateAdvisor` | tier, window of samples, review, cooldown, last change | one report, reset | `StreamService` |
| Clipboard | waiters, last and suppressed text | get, set, mirror on/off, poll, answer | control socket |
| Control channel | connection, pointer, keys held | one operation as a sequence of messages, fallback | control socket, adb |
| Access units | pending units, parameter sets, config sent | one chunk | video handler |
| `DeviceService` + events | last states, cooldowns, info fetches, scan flag, subscribers; the page's list | refresh tick, connect, disconnect, scan, events | adb, repository |
| Performance / network monitoring | per device: task, sampler, buffer, subscribers, idle guard, recorder | start, stop, stream, poll, record, idle stop | samplers, `MetricRecorder` |
| `MetricRecorder`, `BatchLogWriter` | row buffers, flush tasks | submit, flush, stop | repository |
| `AlertEngine` | per rule: counts, active flag, cooldown base | sync, evaluate, snapshot | monitoring |
| `DebugService` + debug WebSocket | sessions, log buffers and sequence, subscribers, logcat, grace, shell and forwarding tasks | subscribe, record, pause, exec, input, resume, close, reap | adb, shell, log writer |
| `InteractiveShell` | process, two queues, executing flag, lock | execute, input, read, stop | adb shell |
| `SessionService` | participants, roles, controller | create, join, leave, transfer | - |
| `FileService` | busy devices, jobs, work directories | download, finalize, upload, sweep | adb |
| `AppService` | none of its own | list, details, launch, stop, clear, uninstall | adb |
| Settings and watcher | files, modification times, settings in effect | load, watch, reload, save | all services |
| Retention | four tables, size of the file | cleanup by loop and by hand | SQLite |

What makes each of them hard, and what must hold:

- **Stream sessions.** An `async for` over the generator is dropped when a send
  fails; its `finally` then runs in a task of its own, beside the handler's and
  beside any later session. Right means: one owner; cleanups touch only what is
  their own; a decided bit rate is not lost between an event and a frame; a slot is
  given back.
- **Device end of the encoder.** `start` and `stop` are sequences of adb calls,
  any of which can fail or be cancelled; `stop` runs twice at once for one encoder;
  the next encoder starts while the last one's stops still run. Right means: no
  server in use is killed, foreign servers are left alone, ours do not stay.
- **Video queue.** A bounded queue between a reader and a slow consumer, with
  packets that rest on earlier packets. Right means: no frame passes that rests on a
  dropped one; after a drop a key frame comes; the end is noticed behind a full queue.
- **Recording.** A recorder ends by itself, by a signal, or with an error that is
  retried from a callback, and a stop works through four adb calls meanwhile. Right
  means: one recorder at a time; a saved product stays saved; nothing blocks the
  device for ever.
- **Device registry.** Rows are written by ticks, by details that arrive late and
  by requests; a page puts lists and events together that cross each other. Right
  means: at rest the page shows what adb says, and it comes to rest.
- **Monitoring.** Several enders of one task, each popping maps by device. Right
  means: the one task that samples is the registered one; who watches is fed or
  told the end; a recording is being sampled; what nobody uses is stopped.
- **Debug sessions.** Iteration across awaits, check-then-create, close in pieces,
  numbers that continue over restarts. Right means: who records is served; one
  shell with one forwarder; no line is stored twice, lost without a count, or
  left out of an answer silently. An error of the collection is told to the pages one
  by one, while its task is still the registered one.
- **Interactive shell.** One stream of output, cut anywhere, for commands that end
  by a marker, from a terminal that repeats what it is given, marker included. Right
  means: output reaches its command, the terminal gets the rest, and a command that
  is reported as complete has run.
- **Clipboard.** Answers carry no request number. Right means: waiters are those who
  wait; no text is pushed back to where it came from; the page learns the text.
- **Control channel.** A drain that times out half way, and a second way to act.
  Right means: an operation acts once and leaves nothing pressed.
- **Access units.** Reads cut the stream anywhere. Right means: each picture
  whole, once, in order, under the sets it was made with.
- **Advisor, alerts.** Long sequences over several counters. Right means: the bit
  rate goes down only as reviews confirm; an alert comes and goes with its cause.
- **Collaborative sessions.** Right means: whoever controls takes part.
- **Files.** A slot with three givers-back and a lazy sweep. Right means: one
  transfer per device, with its directory; slot and disk are freed in the end.
- **Settings.** Files that other processes write between any two reads of a load or
  looks of the watcher. Right means: what can be loaded is in effect, or the next
  look notices that it is not.
- **Retention.** Right means: the oldest goes first, the limit is kept and not
  undercut, logs go last.
- **Applications.** Right means: an answer is true of some time of its request.

The hazards are listed with their lines and properties in `PROJECT.json`.
Smaller ones that no property is about: the last of the three tries of
`acquire_stream` sleeps and refuses without looking again
(`stream_service.py:117`); a failed kill is swallowed and the pids forgotten
(`scrcpy.py:1117`); the signal that ends a recorder goes to every screenrecord of
the device (`cli.py:1319`); closed debug sessions are restored at the next start;
the idle list of the reaper is stale while earlier closes are awaited.

## 2. The modules

| Module | Models | Run as part of |
|---|---|---|
| `StreamSlot` | abstract: one slot, granted only while free | refined by `StreamService` |
| `StreamService` | `StreamService` and its handlers, one device | `MCStreamService` |
| `ScrcpyDevice` | `ScrcpyEncoder.start`/`stop` against one device | `MCScrcpyDevice` |
| `Recording` | sessions of one device over the driver's tasks | `MCRecording` |
| `DeviceRegistry` | one address: adb's table, loop, details, requests, row, one page | `MCMonitor`, `MCRegistry` |
| `VideoQueue` | `read_socket`, `_data_queue`, the loop of `start` | `MCChannel` |
| `Clipboard` | waiters of the encoder, device, mirror, page | `MCChannel` |
| `ControlInput` | operations as messages, drains, fallback through adb | `MCChannel` |
| `AccessUnits` | aggregation, pairing of parameter sets, raw and packet mode | `MCChannel` |
| `BitrateAdvisor` | the advisor with its clock | `MCChannel` |
| `DebugSession` | subscribers, collector and the broadcast of its error, grace, close and reaping | `MCDebug` |
| `DebugShell` | shells of a session, forwarding, the command lock | `MCDebug` |
| `InteractiveShell` | one shell process with its terminal, its reader and its commands | `MCDebug` |
| `LogWriter` | numbers, memory buffer, batches, rows, restarts | `MCDebug` |
| `Monitoring` | one device under both monitoring services | `MCMonitor` |
| `MetricRecorder` | rows, three flushers, stop | `MCMonitor` |
| `AlertEngine` | one rule that changes | `MCMonitor` |
| `SessionControl` | `SessionService` | `MCServices` |
| `FileTransfer` | `FileService`, one device | `MCServices` |
| `Settings` | layers, environment, page, watcher, reload by request, editors | `MCServices` |
| `Retention` | cleanup of the four tables | `MCServices` |
| `Apps` | requests and orders for one application | `MCServices` |
| `StreamService_proofs`, `ScrcpyDevice_proofs`, `Recording_proofs` | theorems about the module they are named after | - |
| `Channel_proofs` | theorems: `VideoQueue`, `ControlInput`, `BitrateAdvisor`, `Clipboard`, `AccessUnits` | - |
| `DebugSession_proofs` | theorems: `DebugSession`, `DebugShell`, `InteractiveShell`, `LogWriter` | - |
| `Monitoring_proofs` | theorems: `Monitoring`, `MetricRecorder`, `AlertEngine`, `DeviceRegistry` | - |
| `Services_proofs` | theorems: `FileTransfer`, `Apps`, `SessionControl`, `Settings`, `Retention` | - |
| `SequenceFacts` | lemmas: least and greatest of a set of numbers, pieces of a sequence, an element taken out of one | - |

Conventions. A step is what one task does from one `await` to the next. A
program counter is a function from actors to step names. Dictionary entries keep
the code's names; a missing entry is a constant (`Absent`, `None`, ...). Variables
marked *history* record what happened for a property and guard nothing; a bound
(`MaxEvents`, `MaxRuns`, ...) is named where it is declared. Definitions marked
*faulty variant* are plausible errors of the definition after them; no
specification uses them, they show that a property can fail. The parts an MC
module puts together share no state in the code either (a stream's queue,
clipboard and input meet in the connection, whose failure each module has on its
own): its variable `focus` lets one part move and keeps the others in their first
state, so that state spaces add up and do not multiply.

**StreamService.** `AcquireWait`, `Refuse` and `Acquire` are the three tries of
`acquire_stream` and the synchronous beginning of `start_stream`; `GenRestart`,
`GenStall` and `GenEnd` the three ways the inner loop ends, each with its
`encoder.stop()` pending and then `RestartStopped`, `StallStopped`,
`BackoffDone` or `EndStopped`; `Teardown` the outer `finally`. The handler is
`FrameReady`, `SendOk`, `SendFail`, `Farewell`, `Release`; `GenClose` is the
interpreter's close of an abandoned generator; `ReportFps` the report of the
input task; `ClientGone` and `Reconnect` the client. A frame that is ready is
taken before a restart that is ready, as in the code. Clock windows are
abstracted: the 60 s stall window never forgets within a run of stalls, and
`GraceOver` may come at any time.

**ScrcpyDevice.** One action per awaited adb call of `start` and `stop`. Each
encoder has two possible callers of `stop`: the service, and the `finally` of
`start` itself. A server is named by the encoder that launched it, or `Other`.
`calm` splits the runs at the start: in calm runs looks and kills succeed and
nobody else starts a server, and the properties about servers are stated for
them; the properties about the encoder's own memory hold in all runs.

**Recording.** Recorders are pairs of session and attempt; the tables of the
driver (`tasks`, `paths`, `degraded`) are per device, whoever wrote them, as in
the code. `RecorderFinishes` is the end of the subprocess, the callback follows
as `LateRetry` or `TaskDone`. `UserStops`, `AutoFinalize` and the heal all lead
into the same stop: `Signal`, `Awaited`, `Probe`, `Pull`, `Remove`, or
`StopDies`, its unexpected exception.

**DeviceRegistry.** The refresh loop is asleep, querying details, saving, or deleting;
the task in `_info_tasks` is shared by loop, lists and scan, while `connect_tcp`
fetches by itself, which is what `registry_gone` is about. The page merges its list
with events as `frontend/src/stores/device.ts` does. `missed` is raised wherever the
code really loses a change (cooldown, failure, full queue, refused stream, state
between two ticks); the properties about the page are stated without it.

**VideoQueue.** The reader tags each packet with whether what it rests on is
there, so decodability is local to a packet. Time is counted in ticks of the
loop's wait, up to each threshold of the code. `SendTakesTime` lets the clocks
run while the handler is away with a frame.

**Clipboard, ControlInput, AccessUnits, BitrateAdvisor.** Texts, messages and
units are members of small sets. Requests are answered in order by a device that
numbers nothing; a time-out leaves its answer under way, and the end of the encoder
answers all who wait with nothing (`Fail`). An operation on the
control channel is the list of its messages; `SendLate` is a message written
whose drain timed out, after which the fallback acts again. A unit carries the
parameter sets it was encoded with, so that a wrong pairing shows. The advisor
counts samples of the window by their age.

**DebugSession, DebugShell, InteractiveShell, LogWriter.** The iteration of
`_notify_subscribers` is explicit (`cur`, `visited`, `size`, `dead`), because the
dictionary changes under it, and so is the broadcast of an error (`BreaksOff`, then
one `Tells` per subscriber of the copy, `toTell`), because joining, recording and
leaving go on meanwhile; `table` says whether the dictionary is still the one the
task works on. In `DebugShell`, `overlap` marks histories in which
two callers created a shell at once or one was created while the session closed,
against which the code takes no precaution. In `InteractiveShell` a line travels from
`typed` to the terminal, which repeats it (`Echoes`), and is then executed (`Emits`);
the reader may cut a marker in two wherever it stands. A command ends as `done` by the
printed marker or as `cut` by the repeated one. A flush of `LogWriter` takes the
oldest lines up to `MaxFlush`; the module restarts with the highest stored number.

**Monitoring, MetricRecorder, AlertEngine.** Sampling tasks are numbered;
`overlap` singles out what is started in the middle of an end. A batch belongs to
one of three flushers from the moment it left the buffer.

**FileTransfer, Settings, Retention, SessionControl, Apps.** A job keeps its entry,
its directory and its coroutine apart, since the sweep, the response and a restart
part them. A settings file is broken, missing, or gives keys values, and has a time of
modification; a load, a scan and a save of the page look at one file per step, between
which an editor may write (`Stat`, `Check`, `ReadFile`, `PutReads`, `PutReplaces`).
Two writes have different times here: a file that is written twice within the
resolution of the file system's clock is the watcher's limit and not modelled. Rows of
a table are counted per time, as the size of the set of these rows numbered within
their time; a cleanup goes step by step through deletions, trims and VACUUM while
writers go on.

The map from every definition to its lines is `map` in `PROJECT.json`; it covers
about a third of the implementation.

## 3. The runs

Where several invariants are about one component they are named parts of one
conjunction (`ShellInv`, `QueueInv`, ...), each commented where it is defined.

| Run | Instance | Question | Outcome |
|---|---|---|---|
| `stream_two` | 2 sessions, 2 tiers, 3 tries, 3 stalls, 4 epochs | do slot, routing, epochs and tiers survive every overlap; is `StreamSlot` implemented; is `IInv` an invariant | holds |
| `stream_live` | 2 sessions, 1 try, 1 stall, probe on | is the slot of a client that left released; does a decided bit rate take effect | holds |
| `device_servers` | 2 encoders, 1 foreign server | are servers in use spared and known ones ended | holds |
| `recording_run` | 2 sessions, up to 3 recorders each | do starts exclude each other; does done stay; do natural ends and stops come to an end | holds |
| `recording_retry` | same | is no recorder started after its stop | violated |
| `debug_run` | 2 pages, 2 handlers and 3 shells, 2 commands, 4 lines and 1 restart | who records is served (`LogInv`); one shell and one forwarder (`ShellInv`); output goes to its command (`InterInv`); lines are accounted for (`WriterInv`); nothing waits for ever (`DebugGoesOn`) | holds |
| `shell_echo` | same | has a command that is reported as complete been executed | violated |
| `monitor_run` | 2 viewers, 3 tasks; 4 rows; 2 rules, 8 ticks; one address, event queue of 1, 3 events | one sampler, fed viewers and recordings (`MonInv`), the idle guard stops (`IdleStops`), rows are counted (`RecInv`), alerts come and go (`AlertsHold`), the page is true at rest (`RegInv`) and comes to rest (`RegGoesOn`) | holds |
| `registry_gone` | one address | is a disconnected device without a row | violated |
| `channel_run` | queue of 3; 2 texts, 2 polls; 3 operations; 3 pictures, 2 changes of sets; 3 tiers | `QueueInv`, `ClipHolds`, `InputInv`, `UnitInv`, `AdvisorHolds`, and that ends are noticed, pictures move and texts arrive (`ChannelGoesOn`) | holds |
| `services_run` | 3 users; 2 transfers; 2 keys, 2 edits and 1 save; 3 inserts and 1 failure; 1 process | `ControlHolds`, `FileInv`, `SettingsHold`, `TrimHolds`, `AppsInv`, and that slots, cleanups, limits and changed settings come right (`ServicesGoOn`) | holds |
| `retention_lock` | 2 cleanups at once | does trimming leave the limit | violated |

**Bounds.** Two sessions are what the interesting overlaps of streams need: one whose
cleanup is late and one that took over; after it ended the first may come back
(`Reconnect`), so chains of sessions occur. `MaxEpoch` only stops further stalls and
reports, it disables no cleanup; with 4 every stall count up to the refusal of the
fourth is reached. The live instance is smaller because its property is about one
round: a switch, a stall, a departure. Two encoders give one that is being stopped and
one that starts. Two sessions of a recording give an old stop or retry against a new
start; the third recorder is the extra degrade that the second start grants. Three
places in the queue are the least in which a sentinel, a key frame and a delta compete
for room; the code's 100 differ only in how long filling takes. The ticks keep the
order of the default settings (idle below stall grace). An event queue of one place
makes every second event a full queue; the address is unknown to adb at first, in
`registry_gone` known or unknown. Two handlers of a session overlap in every pair of
steps, three shells are one that died, its successor and one created beside it. Four
lines fill a memory buffer of two and batches of two twice, and are two flushes
(`MaxFlush`). Each command of the shell has one chunk of text beside its repeated line
and its marker; the two commands are one that was left or cut and one after it. Three
sampling tasks are one that ends, one that was started in its end, and one after both.
The rules of the alert run have the two counts below, at and above each other; eight
ticks hold an episode, its end and a second one within the cooldown. Two transfers are
one that is swept and one that took its slot; the limits keep the order of the code's
(grace above the age of stale directories). The settings run has a base and a user
file with one key fixed by the environment; two edits and a save put an edit before,
between and behind the two reads of `base.yaml` and the read and write of the page.
The layer that APP_ENV names is loaded in the same way and is not in the instance. The
retention run has one cleanup and a failing step, the refuted one two cleanups without
failures.

**Deadlock** is checked for the stream runs, whose clients may always reconnect.
The others may really come to rest (all encoders over, the stream ended, all
events spent) and say so in their configuration.

**Fairness**, and why the code justifies it:

- Stream: every step that only waits for the loop or for a bounded adb call is
  weakly fair. `GenRestart` is strongly fair: a ready frame wins over the event,
  so it is enabled again and again and not continuously, but no client receives
  without a gap for ever. `SendFail` is strongly fair: sends to a client that is
  gone fail in the end. `FrameReady` is strongly fair only with the probe on,
  because the probe restarts a silent encoder, and a restarted encoder sends a
  frame even of a still screen. With the probe off nothing is assumed of the
  device, and then the slot is not released (section 5).
- Queue: loop, handler and reader run; the device answers a `RESET_VIDEO` and
  completes each restart with a key frame. Delta frames, rotations and the end of
  the server are under no fairness.
- Recording: callbacks and tasks are run by the loop; a recorder ends at its time
  limit; the self heal comes round every hour. Users, failures and `StopDies` are
  under no fairness.
- Registry: loop, detail task, connects, scans and disconnects go on, since every
  adb call has a time-out; the page is served, its stream opened or refused. Changes
  and requests are free.
- Debug, monitoring, shell, writer: tasks that are ready run, sends return or
  fail, sleeps end, saves return. Users, devices and closes are free, and so is the
  device's own output: a command that gets none ends by its time-out.
- Clipboard: the device serves and answers, the polls wake. Files: coroutines end and
  time passes. Nobody has to look at a job, for no page does: so a transfer frees its
  slot unless it is stuck (`SlotIsFreed`), and only if somebody looks again and again
  are stuck slots freed and directories removed (`LooksHelp`, which has this fairness
  as its premise). Settings: the watcher looks, and what the program has begun with
  the files it goes through with; editors, the page and requests are free. Retention:
  the loop begins and its steps end.

## 4. The proofs

TLAPS checks the theorems for every value of the constants under the assumptions
declared with them in the component's module: special values are distinct from
ordinary ones, bounds and thresholds are natural numbers. Each proof is: the
initial states satisfy an inductive invariant, each action keeps it (one lemma per
action or group of like actions), it implies the property. The specifications of
the proofs contain the next-state relations the runs use; where a run puts several
components together, each behaviour with the focus on a component is one of its
specification.

**`StreamService_proofs`.** `OwnerStreams` and `Routing` are not inductive: if a
cleanup pops a registry entry by identity, one has to know that an identity in
the registry belongs to a generator that is not over. `IInv` adds `Stages` (where
handler and generator of a session can be together), `Registered` (whose entries
the registry can hold, and that it is empty when all are over) and `Undisturbed`
(the epoch and tier equations of sessions no foreign cleanup met). Theorems:
`Invariance`, `TypeCorrect`, `ExclusiveSlot`, `StreamRouting`, `EpochsAgree`,
`CleanEnd`, and `Refinement`: `StreamService` implements `StreamSlot`, where the
holder is the owner token.

**`ScrcpyDevice_proofs`.** That no server in use is killed rests on a chain:
while one encoder starts, every other is unused, stopped or abandoned
(`Exclusive`); what passes the detection is finalizing, and what is finalizing
is being stopped (`Finished`); so from the detection to the enumeration every
other server on the device or on its way is being stopped (`Alone`); hence so is
all that was enumerated. `Stages` and `Cleaned` tie the steps of the two stops to
the encoder's memory, `Known` keeps enumerated servers in `remotePids` until a
kill has hit them, and `Spared` is the same for the foreign server. Theorems:
`TypeCorrect`, `NoneInUseKilled`, `OtherIsSpared`, `KnownServersDie`, and
`StoppedIsClean`, what the service's `stop()` leaves in the encoder's memory.

**`Recording_proofs`.** Type correctness is the hard part: the number of
recorders of a session is bounded because each start grants the device one
degraded retry and a retry uses it up (`Granted`). `Starts` says that a start
under way holds the only entry of `_pending_starts`, `Stops` that a stop in
flight belongs to a session that neither records nor is done. Theorems:
`TypeCorrect`, `OneStart`, `DoneStays` (an action property).

**`Channel_proofs`.** `QueueDecodes` (`VideoQueue`): no delta frame enters the
queue whose chain is broken, for any capacity. The flag `awaitingKey` alone does
not carry this: when a config takes the place of the backlog the chain is broken
and no flag is up. `Chain` says what makes it good there: the device sends a key
frame after its config, or the reader is just putting one, or has ended.
`InputActsOnce` (`ControlInput`): an operation acts once, and leaves a finger down
only where the connection was torn. `InHand` says which of its messages the device
has when the handler stands between two of them, or between a drain that timed out
and the fallback. `RateIsSteady` (`BitrateAdvisor`): the rate goes down after a
full bad window and comes back under review. The window is cut at its first fresh
sample; that this is the least of a set of indices, so that what stays is fresh and
not too long, is `WithFacts`. `WaitersAreServed` (`Clipboard`): who waits stands in
the queue once (`Placed`), one loop polls and another may only say that it gives up
(`MirrorRuns`), and the text of the page is suppressed, last seen, or about to be
replaced by another (`OwnIsKnown`), so that it is not pushed back at the page.
`EveryPictureArrives` (`AccessUnits`): each picture once, in order, with the sets it
was made with and alone in its message, and no picture waits, for packets and reads
of any length, any number of changes and restarts. Aggregation, pairing, forwarding
and what the page is shown are loops over sequences of any length. A loop has a value
after every unit (`JoinedRun`, `InterceptedRun`, `ForwardRun`, `ShownRun`), and what
one more unit leaves true holds of all (`CountingUp`). Of aggregation that is `After`:
the access units made so far hold the pictures from the first on, one each, and the
open one holds the last or is a prefix; it needs of its units that they are in order
(`InOrder`). The inductive invariant `UnitIInv` therefore speaks of the whole way from
`pending_aus` over the parser's last unit to what is not read yet (`Flow`): it is
pictures in order up to the last one made, and it starts behind the picture the page
had last (`PicturesFlow`). A read only moves a border in it (`CutRead`, `ReadFlow`),
and it is not enough that each of the three is in order by itself. In the packet mode
all three are empty, and the handler holds the encoder's sets once the encoder has
sent them (`PacketsPass`); before any change there is one pair of sets (`SetsSteady`).
What is assumed of the encoder is its module's: an SEI or a delimiter, not both, goes
before a picture, and sets come together.

**`DebugSession_proofs`.** `WhoRecordsIsServed` (`DebugSession`): a client whose
subscription is open has a handler waiting for its commands (`OpenIsReady`), the
session is gone only once its end is told (`GoneIsClosed`), and while a failed
collector tells its error, whoever records has been told, is about to be (`cur`,
`toTell`), is gone or began meanwhile (`StillToTell`). The last, `late`, is the case
the code does not provide for (section 5). `ShellsServe` (`DebugShell`): one
forwarder, of the one shell there is, for those who watch. The strengthening
(`OneByOne`): while shells are created one at a time, a handler that replaces or
creates one is the only one, no shell is registered beside it, and nothing but the
registered shell is forwarded, so that `_start_output_forwarding` never keeps a task
of an old shell for a new one. `AnswersAreOwn` (`InteractiveShell`): whoever is under
way holds the lock (`OneHolder`); what the device has still to execute or has said is
of commands under way or of such as were given up, failed or were cut (`UnderWay`);
behind a printed marker nothing of its command follows (`MarksAreLast`); and a
repeated line stands before all that its command says (`TypedIsUnheard`,
`EchoIsFirst`), so that a command it ends has said nothing. `LinesAreKept`
(`LogWriter`): the numbers of a life of the process begin above what is stored, which
needs that a finite set of numbers has a greatest one (`MaxIsLargest`), and a batch is
disjoint from what is in the buffer, in the database and counted as lost.

**`Monitoring_proofs`.** `WhoUsesIsServed` (`Monitoring`): as long as nothing
registers a task beside the end of another (`overlap`), an end in progress finds no
task registered (`Endings`); hence a task that samples is the registered one, its
viewers are listed, and a recording is sampled. `RowsAreCounted` (`MetricRecorder`):
rows are in one place, and no more of them are reported than are stored. A batch is
disjoint from everything else while it is saved (`Placed`), and stop's own batch is
empty until stop (`FinalRests`), so the count grows with the stored rows.
`AlertsComeAndGo` (`AlertEngine`): hysteresis, nothing missed, cooldown and
notification. `Counted` ties the two counts of the engine to the samples seen in a
row, `Noted` the times of the last notification, of the episode and of the page to
each other. `ThePageIsTrue` (`DeviceRegistry`): a state is known if the loop, the
page or the device is in it. What waits in the queue of events or is on its way in
an answer is known (`NewsIsKnown`, `PageIsKnown`), and what a full queue lost has
left the page marked for a fresh list (`WaitersAreFed`, `OffAsksNothing`); so at
rest the page shows what is so.

**`Services_proofs`.** `OneTransferAtATime` (`FileTransfer`): one transfer at work,
slot and table agree, and it has its directory, for any limits. Who is at work is
referenced (`AtWork`), and so spared by the sweep of directories, which is why the
property does not need the limit for old directories to exceed the grace.
`AnswersAreTrue` (`Apps`): what is so now is in the sight of every request (`Sees`,
`InSight`), and a request that has come to a step has seen what led it there.
`ControlStaysInside` (`SessionControl`): a user has one entry (`OnePlace`), so that
whoever leaves is gone when his first entry is removed, and his successor is an entry
of what is left. `StaleSettingsAreNoticed` (`Settings`): the clock is ahead of every
file, so that a file written after a look differs from it (`Timed`); what a load has
read of a file is what the file still says, or a change of it is due at the next look
(`Current`); and what is in effect was so when the load ended (`Settled`).
`TheOldestGoFirst` (`Retention`): three action properties and the types, for any
number of callers, times, rows and failing steps. Rows are counted by the cardinality
of a set, so that what a deletion leaves follows from unions and products of finite
sets (`BelowLeaves`, `EqualLeaves`, `OneMoreRow`, `NthFacts`) without induction. A cut
is of the past, and when it is looked at a second time nothing older is left
(`CutIsClean`); while one cleanup runs, what it has counted is still too much and
fewer rows than needed are older than its cut (`OneAtATime`), which is what a second
cleanup breaks in `retention_lock`; and the tables before the one that is trimmed by
size hold nothing older than the cleanup, unless one was skipped because the file was
small enough (`LogsWait`).

**`SequenceFacts`** holds what several of these need of sequences and numbers. That
a non-empty set of natural numbers has a least element is taken from the library's
theorem on well-founded orders, whose instance for `<` needs no operator as a
parameter; the induction theorems do, and are not used anywhere. Where a loop has to
be followed step by step, its invariant is the set of the steps at which it holds, and
`CountingUp` says that this is all of them: otherwise there is a least step outside.

Only model-checked: all liveness (fairness and ENABLED are out of the prover's
reach). Every invariant and every action property of the passing runs is a theorem,
with the four statements the code does not keep left to the runs that violate them.

## 5. Divergences

Statements of comments, docstrings, tests and documents that the code does not
keep. Four are runs, with their quotations under `findings` in `PROJECT.json`:

- The retry in the recorder's callback is not guarded by identity, and starts a
  recorder after its session was stopped (`recording_retry`, `cli.py:1259`).
- `connect_tcp` saves the details it fetched by itself after a disconnect has
  deleted the row (`registry_gone`, `device_service.py:372`).
- The terminal of the shell repeats the line of a command, which has the end marker
  in it; unless a read tears that marker, the command is reported as complete before
  it has run, and its output reaches the terminal or the next command (`shell_echo`,
  `shell.py:289`; `docs/API.md:707`).
- Two cleanups run into each other; there is no lock, though `docs/API.md:414`
  says there is (`retention_lock`, `debug_service.py:910`).

The others are stated beside the properties of their module, where TLC refutes
them if they are added to the run; no run keeps them:

| Statement | Module | What happens |
|---|---|---|
| `TeardownKeepsPending` | `StreamService` | the cleanup of an abandoned stream removes the pending bit rate of the session that took over (`stream_service.py:295`) |
| `SlotReleased` with the probe off | `StreamService` | on a still screen the handler does not learn that its client left (`ws/video.py:164`) |
| `NoLeftovers` | `ScrcpyDevice` | a start that fails between launch and enumeration leaves its server, and the next start is refused because of it (`scrcpy.py:272`) |
| `ForwardBeforeServer` | `ScrcpyDevice` | the late second stop of an encoder removes the forward of the next one (`scrcpy.py:1185`) |
| `KeysDecode` | `VideoQueue` | a config can be dropped, and its key frame passes (`scrcpy.py:507`) |
| `StalledWithoutSession` | `VideoQueue` | the start-up stall is raised although the session packet came, when the control socket did not connect (`scrcpy.py:585`) |
| `CloseStopsCollection` | `DebugSession` | a page that records while the session closes starts a collector that nobody stops |
| `RecordingRecovers` | `DebugSession` | a page that begins to record while a failed collector is telling the others finds its task not done and starts none (`debug_service.py:339`) |
| `OnlyUnreachedLeave` | `DebugSession` | the broadcast removes the entry of the session when its own dictionary has become empty, although somebody has joined a new one (`debug_service.py:328`) |
| `RegisteredIsForwarded` | `DebugShell` | two shells made at once: the forwarder stays with the first |
| `SeqMonotone` | `LogWriter` | after a crash numbers are given again that a browser has already |
| `EndIsTold` | `Monitoring` | a full queue swallows the end mark (`performance_service.py:207`) |
| `ReportIsExact` | `MetricRecorder` | batches still being saved at the stop are stored and not reported |
| `MirrorEndsWithSession` | `Clipboard` | a failed send of the mirror's quit clears the task of a loop started since, which polls on |
| `MirrorAlwaysTells` | `Clipboard` | a text that stays suppressed swallows a later genuine copy |
| `PrefixGoesForward` | `AccessUnits` | an SEI in the same read as the picture before it stays with that picture (`au_aggregator.py:12`) |
| `StuckIsFreed` | `FileTransfer` | a refused transfer sweeps nothing: without anybody who looks at a job the slot stays taken (`file_service.py:391`, `test_file_service.py:555`) |
| `EveryChangeArrives` | `Settings` | a change between the first load and the watcher's first look, or of a file removed before any look saw it, waits for the next change (`config_watch.py:109`) |
| `NeverDefaults` | `Settings` | `base.yaml` is emptied between its two reads, and the settings fall back to the defaults until the next look (`config/settings.py:437`, `386`) |
| `HandWorkKept` | `Settings` | an edit between the read and the write of the page is lost (`http/settings.py:140`, `156`) |

Met while modelling, and allowed for in the modules (a history variable, an
assumption of the property, or a choice of the action shows where):

- Debug: the end of logcat ends the collection without a word; `get_logs_since`
  never falls back to the database for a live session; subscribing again resets a
  recording page to paused and schedules no stop; `exec_shell` does not look for
  the session again when it has the lock; a line of a save that `stop` cancels is
  neither written for sure nor counted.
- Interactive shell: a drain that fails leaves `_executing` set; the next execute
  drains the end mark; the rest of a command that was cut by its repeated line is taken
  for the answer of the next; input waits while a command runs.
- Monitoring: a start in the middle of a stop loses its viewers; the old task
  releases the new tables; a recording begun during the end of a lost device
  keeps a recorder nobody ends.
- Registry: a details query that is saved late revives a row; the cooldown of
  a device at its announcement keeps it from being announced; the oldest event of
  a full queue is lost, and so are events before the stream is first open, and all of
  them once it was refused (`http/devices.py:108`); the
  disconnect of a device out of reach deletes the row and leaves adb's transport.
- Clipboard: the answer to a request that timed out goes to the next waiter.
- Control: the fallback repeats an operation whose drain timed out; a click whose
  second half fails acts twice, a pointer may stay down.
- Access units: two delimiters in a row make a unit without a picture
  (`au_aggregator.py:79`); the raw mode sends a later config before older pictures
  of the same chunk; a picture of several slices is cut.
- Sessions: creating again returns a session its creator has left; an admin who
  joins again as a viewer may leave a session without admins.
- Clipboard: a text the page set is noted as its own also where neither the device nor
  adb took it (`scrcpy.py:850`).
- Files: the late end of a swept transfer frees the slot of the next one; where no
  directory can be made the slot stays taken (`file_service.py:212`).
- Settings: half of an edit may be taken for a load's length; the next look finds it.
- Retention: deleting does not shrink the file, so the size limit may empty all
  tables; a failed VACUUM makes the next cleanup trim again.
- Applications: a command that timed out may still be carried out; memory may be
  asked of a process that is not the one reported.

## 6. What is not modelled

In the modelled parts: `stop_stream` and `stop_all_streams`, which nothing calls; the
debounce of `request_keyframe` with its `_last_keyframe_at`; the raw stream mode of
the queue; the deletion of the server file by a dying server, whose time is the
device's; the size limit of the recording directory and product names; the
cancellation of a recording start; in monitoring what a sample holds, exports and the
shutdown's cleanup; in debug sessions the parsing of logcat lines, level and rate
filters, export and shell history; in the interactive shell the wait for the first
prompt, keys, window size and the Windows pseudo-terminal; listing, renaming and
deleting of files and the checks of paths; the transaction a cleanup step leaves open
when it fails between its DELETE and the commit, for the connection goes back to the
pool without a rollback (`sqlite.py:79-86`) and whoever commits on it next commits the
deletion (a failing step of `Retention` deletes nothing); two writes of a settings
file within one tick of the file system's clock. Kill and look failures are in
`ScrcpyDevice`, but the properties about servers assume them away (`calm`): a failed
kill does leave a server.

Parts without a module:

- **ADB driver, samplers.** One subprocess per call and the parsing of its text.
  What a call answers or fails with is a choice of the module that makes it.
- **Start-up and shutdown.** A fixed sequence of start and stop calls between
  operating-system work (ports, mutex, browser window); what each call does is
  modelled with its service. One thing is left over: the logcat tasks are not
  stopped at shutdown and may open the database again (`lifecycle.py:124`).
- **HTTP interface, domain types.** Translation of requests and data classes.
- **Browser transport, player, views.** TypeScript with sockets and decoders. The
  page's end of the device list is in `DeviceRegistry`, that of the clipboard in
  `Clipboard`, reconnecting is in `StreamService`.
- **Plain database reads and connections.** SQL without control of its own.

## 7. Plan

What a further extension would take, in this order:

1. A parser-level model of the raw mode of the queue together with `AccessUnits`,
   which now meet only in what a chunk is.
2. `StreamService` over `BitrateAdvisor` in one instance: the tiers a report leads
   to are a free choice now, the epochs they cause are not the advisor's.
3. The start and stop order of the services (shutdown with logcat and writer).
