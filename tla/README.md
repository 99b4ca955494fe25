# Verification of XAMS slow control

TLA+ models of XAMS slow control (the Python package under `src/src/xams_sc`), the
configurations that model-check them with TLC on small instances, and theorems about them
checked by TLAPS for every value of their constants. Paths below are relative to
`src/src/xams_sc` unless they start with `docs/` or `tests/`.

## 1. The system

Each instrument has a **service** of its own: a process with a main loop that reads, averages and
publishes. An MQTT **broker** carries everything; topics that hold a state (values, heartbeats,
alarms, trip records) are *retained*, so the broker delivers the last message again to whoever
subscribes. Consumers are the **alarm engine**, the database **sinks**, the **web UI** and the
command line. Commands travel the other way, from a page or the command line over the bus to a
service, and are answered on a shared acknowledgement topic.

| Part | State it keeps | Operations | Talks to |
|---|---|---|---|
| Bus (`bus.py`) | connected flag, bounded buffer, drop counter | publish, connect and disconnect callbacks, flush | every process, the broker |
| Commands (`bus.py`, `api/state.py`) | an inbox of acknowledgements, shared by the threads of a process | open, send, claim, time-out | web UI or CLI, and a driver |
| Service runtime (`service.py`) | window of samples, failures, pause, state; a lock file | read, accumulate, emit, report an error, reconnect, reload, stop | device, bus |
| High voltage (`devices/caen.py`) | latched trips, counters of suspicious readings, retained trip records; the port of each supply | poll, detect, make safe, zero disabled channels; vset, output, clear; identify, relink | supplies, bus, hv pages |
| Gas analyser (`devices/rga.py`) | last status word, control, acquisition and `pending.json`, age of p105, last activity | poll, guard, idle rules; take, release, scan, save, emission, EM; shutdown | analyser, bus (p105 of another service) |
| Alarm engine (`alarms/engine.py`) | per channel: severity, threshold, acknowledged, stale, times; two switches with files; outbox | measurement, retained alarm, staleness check, reload, acknowledge, silence, switches, delivery | bus, gateway |
| Web UI state (`api/state.py`) | last value and heartbeat of each channel and service, with ages; one slot for the answer to a flow reset | callbacks of the bus, views, commands, reload | bus, pages |
| Flow integrator (`devices/derived.py`) | total, gaps, period start, saved in a file | measurement, reset | bus, sinks |
| Sinks (`sinks/`) | rows pending, last alarm seen, a connection per writer, health | add, flush, drain, close; one statement per record | bus, PostgreSQL, archive files |
| cDAQ (`devices/cdaq.py`) | tasks, background threads, the readings they leave | open, read, hand over, stop, close | modules, runtime |
| Temperature controller (`devices/lakeshore.py`) | serial port and its lock | read, setpoint, heater range, reconnect | instrument, runtime |
| Turbo pump (`devices/turbo.py`) | port, replies heard with their time | listen, read, reconnect | the pump's own bus, runtime |
| Launcher and CLI (`cli/xams_ctl.py`) | pid files | start, stop, restart, reload | operating system, bus |
| Configuration (`config.py`, `api/app.py`) | YAML files written by requests | save, load, reload | every service |
| UPS, scales, Grafana, tools | nothing that lasts | read; scripts | instrument, runtime, database |

### Where it is hard

* Two threads per process (the main loop and paho's network thread), sometimes three (staleness,
  notification worker, RGA command worker, cDAQ background threads), share state with little
  locking: the window of `BaseService` and `_tripped` of the CAEN service have no lock at all.
* A check and the action it allows are separated by a wait for a port, a lock or an instrument
  that takes seconds to follow; a port that was asked who is there is closed and opened again.
* Retained messages come back: after a reconnection and to the publisher itself, late.
* A serial reply carries no name: it answers whoever reads next.
* A bounded buffer, inbox, queue and outbox are full exactly when things go wrong.
* Ages are compared with limits after the fact; a value can look fresh for being delivered again,
  or for having waited in a port's buffer.
* A process may die anywhere; what it remembers is partly in files, partly in retained topics.
* Files are shared between processes and between requests: lock files, pid files, YAML files.

### What makes each part correct

* **Bus**: a loss is never silent; nothing is delivered twice or invented.
* **Commands**: an answer belongs to the command that gets it, or a rival explains the mix-up.
* **Runtime**: a dead instrument is shown as dead, a returned one as returned; samples from both
  sides of a command are mixed only after a write reported as refused or unconfirmed, or in a named
  race; one process per instrument.
* **High voltage**: a lasting trip is latched and made safe; clearing never finds a channel loaded;
  a cleared channel is latched again only on new evidence, except by the reading under judgement
  while it is cleared; records and latch agree; a disabled
  channel loses its setpoint; each supply is read and written under its own name, and a supply
  that is connected is read.
* **Gas analyser**: control is never given back with emission or EM on; the EM goes first; a
  forgotten analyser is released; a summary is of the file that stands; unsaved scans survive.
* **Alarm engine**: the worst limit is reported; no chatter inside the hysteresis; pages show what
  the engine believes; a silence is noticed; an acknowledgement never covers something worse;
  repeats are earned; a reload leaves no ghosts; leftovers are withdrawn.
* **Flow**: while samples keep their order, every second is in exactly one period, as total or as gap; a
  closed period is recorded, unless a fault or a death that section 5 names struck it.
* **Sinks**: a row is in the table, held or counted; a backlog is written; the newest alarm row
  is what the engine shows.
* **Drivers**: a background reading is handed over once; no task is closed under its thread; ok
  means the instrument holds the value; commands end; what a listener shows follows the bus.
* **Configuration**: once everybody was told, everybody has the limits and defaults of the files.

## 2. Modules

| Module | Models | Checked through |
|---|---|---|
| `Thresholds` | `_threshold_for` and the severity order, as operators | the two below |
| `ThresholdWatch` | one channel judged reading after reading | `Alarms` |
| `AlarmEngine` | `AlarmEngine` with its three threads, gateway, broker, files | `AlarmEngineMC`, `Alarms` |
| `LossyChannel` | abstract: a channel that delivers at most once and may lose | implemented by `BusOutbox` |
| `BusOutbox` | `Bus._publish`, `_on_connect`, `_flush`, `_on_disconnect` | `Messages` |
| `CommandAcks` | `AckInbox`, `CommandSession.send`, `SystemState.command` | `Messages` |
| `ConfigEdits` | saving the HV defaults, `write_hv_defaults`, `load`, the reload | `Messages` |
| `Launcher` | `SingleInstance`, `xams-ctl` start, stop, restart | `Messages` |
| `StatusPage` | `SystemState` heartbeats and values | `StatusPageMC` |
| `ServiceLoop` | `BaseService._loop`, with the window callbacks of the CAEN service | itself |
| `CdaqReader` | cDAQ tasks and background threads | `Instruments` |
| `CaenHv` | `CaenService`, the supply, its switches, the retained trip records | `CaenHvMC`, `CaenService` |
| `CaenLink` | identification, the link to each supply, `_relink` | `CaenService` |
| `RgaGuard` | `RgaService` control, emission and EM, `MMSPControl` | `RgaGuardMC` |
| `RgaScan` | acquisitions, `pending.json`, files, summaries | `Instruments` |
| `LakeshorePort` | the serial port of the temperature controller | `Instruments` |
| `TurboTap` | `PfeifferTap`, `TurboService` | `Instruments` |
| `FlowPeriods` | `derived.py`, `flow_writer.py` | `FlowPeriodsMC` |
| `Sinks` | bus callback, `PgWriter`, pump and main thread, `SinkHealth` | `SinksService` |
| `RecordWriters` | alarm, audit and RGA writers | `SinksService` |
| `Alarms`, `Messages`, `Instruments`, `CaenService`, `SinksService` | compositions of the above | `AlarmsMC`, `MessagesMC`, the others as they are |
| `*Proofs` | theorems and proofs | TLAPS |

The five compositions instantiate modules that share no state and explore each with the others at
rest: the variable `part` says which one moves. The behaviours of independent parts together are
shuffles of theirs, and no property here relates two of them, so shuffling would add states and no
information. A composition has its parts' constants and no values for them (those are in the `.cfg`
and the MC modules), so it is proved about like any module: each has a theorem that its behaviours
are, for every part, behaviours of the specification of that part (`AlarmsKeepTheirSpecs`,
`PartsKeepTheirSpecs`, `InstrumentsKeepTheirSpecs`, `ServiceKeepsBoth`, `PairKeepsBoth`), so
what is proved of a part holds in what TLC explores.
Where parts *do* share state they are in one module: the two threads of a service,
the service and its supply, the integrator, page and sink of a flow period, the pump and the main
thread of the sinks.

How state and actions correspond to the code, module by module. `map` in `PROJECT.json` gives the
lines of every definition.

**AlarmEngine.** The variables `severity`, `threshold`, `acknowledged`, `stale` are the fields of
`ChannelState`, `known` is the domain of `_states`, `retained` the broker's `xams/alarm/<channel>`,
`outbox` the notification queue. A handler that holds `_lock` is one action; `reload()` takes the
lock twice and is three actions, between which the staleness thread may run and the network thread
may not. Times are ages, saturated where the comparison stops telling them apart. A restart
forgets everything but the two files and what the broker retains.

**BusOutbox.** `_publish` reads the connected flag (`Publish`) and acts on it later (`Send`,
`Store`); `_flush` swaps the buffer under the lock (`FlushSwap`) and sends outside it (`FlushOne`).
`wire` is paho's queue and the socket together: what is on it at a disconnection arrives or is
lost.

**CommandAcks.** The inbox operations run under its lock and are atomic; a command is open before
it is published. Requests and answers travel in sets, because they overtake each other. A mix-up has
a cause: a rival command for the same target, or (`Abandoned`) an earlier one that the client itself
gave up. The rival need not be the one whose answer is taken: once an answer is late, each command
that follows may get the answer of the one before, which it takes three commands of one client to see.

**ConfigEdits.** Each request being served has its own place in `hv_defaults_save`: open the
temporary file, write and close it, replace, reload its own configuration, tell the others. All
requests use one temporary name, so the file may hold the texts of two (`Texts`). A limit edited by
hand, a lost reload and a restart of the web UI are troubles. A service keeps its old configuration
when the new one does not load.

**Launcher.** A process is `new`, creates the lock file or claims a left-over one (remove, then
create again: two steps), runs, closes. As on Windows, a file that is open cannot be removed. The
command line knows only the pid file; `taskkill` asks, and the process goes later.

**StatusPage.** Ages in ticks up to `Horizon`; `heartbeats` is the age *as stored on arrival*, which
the code does not let grow, `receivedAt` grows.

**ServiceLoop.** A value is the number of changes that led to it, so a mean is the *set* of values
in the window. A read is atomic: its exchanges are one step; time passes only while the loop waits.
Walking `window` while the network thread pops from it raises (`EmitRaises`) and ends the service;
the `KeyError` that the lack of a lock may also cause while reading appears as `ReadFails`. A command
whose write took is confirmed, and then the window forgets the channel (`CommandDrop`), or refused
because it was not acknowledged, not read back, or not read back as asked, and then nothing is
dropped (`caen.py:889-903`; the clear after a sibling was zeroed, 1666-1684): `unconfirmed` remembers
such channels until the window is dropped or emptied. A service that died is started again by its
wrapper (`StartAgain`), or given up after any number of tries (`GiveUp`, `pc = "abandoned"`).

**CdaqReader.** A slow module has a thread that reads, and hands over under `_bg_lock`; the loop
reads the fast modules, takes the list and replaces it in two steps. A module that fails hands over
errors. Stopping sets the flag and waits a bounded time for each thread before the tasks close.

**CaenHv.** A setpoint is zero or not; the trip bit of STAT and the channel's bit of BDALARM are
one flag; `FlagTrip` switches the channel off as the board does, `Collapse` is a trip without a
flag. The readings of one channel in one cycle are one action, the commands are split where the
port is taken: `OutputCheck` before it, `OutputWrite` inside. `locked` is the port held over the
steps of a clear. The dictionaries have no lock: the loop counts what a reading says of a channel
(`StoreCounts`, 1245-1248), looks for the latch (`TestLatch`, 1253), looks at the counts
(`TestCounts`, 1267-1271) and latches (`Latch`), or finds the latch and takes its record
(`TakeRecord`, 1257, which raises when it has gone meanwhile); the network thread pops the latch
(`ForgetTrip`, 1714), then the two counts (`PopFlags`, `PopCollapses`), then publishes the empty
record (`TellForgotten`), and each may run between any two of the other's. `unseen` is a history:
channels cleared and not read since; `watching.raced` says that the reading being judged met a pop.
`echo` is the queue of the service's own retained records on the way back.

**CaenLink.** A port is asked who is on it, closed, and opened again to be kept. The loop counts
the cycles each supply left unanswered and rebuilds every link; hands pull and put in cables at any
moment; a command uses the reader it took before. `crossed` remembers supplies whose cable moved
between being asked and opened.

**RgaGuard.** `asked` is what was last requested, `on` what the status word says, `word` what the
service last read. `Poll` fetches status and control in either order (they are elements of a
Python set); `command` is the worker's place in a command, so a release is up to four steps. A
request is obeyed, refused, or obeyed with its answer lost. `late` is a history: switches whose
request nobody has yet seen in a status word.

**RgaScan.** A scan is the acquisition the analyser took it for. The loop collects scan by scan
(`main`), the worker starts, stops and saves (`worker`); both write `pending.json`. A crash forgets
memory and keeps the disk and the analyser; `Start` takes up what is pending.

**LakeshorePort.** Settings are numbers; a reply is a value and whether it is a late one. The loop
and the command run their exchanges under the lock of the port *object* they started with, which a
reconnection replaces.

**TurboTap.** The controller of the pump asks its parameters in turn; one reply passes each tick.
Replies wait in the buffer and are stamped when polled. `calm` is a history: everything asked for
and nothing lost since the port was opened.

**FlowPeriods.** A sum is the function that says how often each second has been added; the value of
the flow plays no part. `mem` is `IntegratorState`, `disk` its file, `handler` where the callback
is between adding, saving and publishing. A reset replaces the state in memory (`Reset`, 183) and
then saves it (`SaveReset`, 189): when that raises, the closed period is never published. Each state
carries, as history, the sums of the periods before its own (`past`), so what a reset moved and what a
restart takes back stay together. The sinks may start without a row being opened (`SinksStart`,
`flow_writer.py:108`). Three histories say whose fault a missing row is: `undelivered` periods never
reached the sinks, `spoilt` ones were handled with a failing first statement or as the first one after
a row could not be opened (`unopened`). The answer to the page, and the one slot the page keeps for
it, change nothing here and are left out.

**Sinks.** Rows are numbered as they come. `batch` is what a flush has taken out of the queue and
not yet written or put back, per thread: at the end of the process the main thread drains beside
the pump. A write may store part of a batch and fail.

**RecordWriters.** Per writer a connection that is not there, open, or broken without knowing it.
The alarm writer remembers a transition *before* it inserts it.

## 3. Runs

| Run | Distinct states | Properties | What it shows |
|---|---|---|---|
| `alarms` | 111 k | WorstLimitReported, ClearsPastMargin, SilenceIsNoticed, LeftoverIsWithdrawn | every choice of four limits and every sequence of readings; liveness of the engine with a gateway that hangs for ever |
| `alarm_engine` | 1.32 M | RetainedAgrees, StaleFlagIsTheAlarm, AckNeverCoversWorse, ReloadLeavesNoGhost, RepeatsAreEarned | all interleavings of the engine's threads on one channel, three configurations, a restart or reconnection |
| `messages` | 606 k | NothingVanishes, ImplementsChannel, MixUpsHaveACause, EverybodyFollows, OneInstance | publishing through outages; whose answer a command gets, with three commands of one client and one of another; saves, edits and reloads; starts, stops and kills |
| `caen_pair` | 3.04 M | ClearedWhenUnloaded, OldEvidenceLatchesByARace | two channels in one clear, a fault, in one life of the service (`OneLifeSpec`: `caen` has the restart); the loop and the clear between each other's steps |
| `caen` | 218 k | RecordsAgree, TripIsAnswered, DisabledIsUnloaded, WrongOnlyByARace, PluggedIsRead | records and latch through a restart; liveness of the safety reactions; two supplies on two ports |
| `rga` | 594 k | GivenBackOff, EmGoesFirst, ForgottenIsReleased | control and switches through any two disturbances |
| `instruments` | 246 k | AnnouncedAsSaved, PendingKeepsUp, ScanEnds, OkMeansHeld, CommandsEnd, ShownAsHeard, HandedOnce, ClosedUnderNobody | acquisitions, the Lakeshore port, the background threads of the cDAQ, the tap on the turbo pump |
| `drivers` | 659 k | RecoveryIsShown, SilenceIsShown, OnlyUnconfirmedOrRacingWritesMix | the loop of every service, with confirmed and refused writes of the CAEN service, its death, restart or being given up |
| `flow` | 830 k | EverySecondOnce, ClosedIsRecorded | seconds and periods through three resets, two deaths, failing saves or statements, overtaking samples; which losses cost which period |
| `sinks` | 273 k | NothingUncounted, BacklogIsWritten, NewestRowIsTrue | the queue of rows with two threads draining; alarm rows |
| `page_silence` | violated | SilenceIsEvidence | finding 1 below |
| `caen_latched` | violated | LatchedCannotBeTurnedOn | finding 2 below |

Every property of a passing run has a mutant: a `Bug_...` operator that replaces a definition of the
model by what a plausible slip in the code would make of it (a dropped guard, a missing reset, a
wrong order), under which TLC finds the property violated.

### Findings

1. `page_silence`: `api/state.py:540-541` says "EVERY service publishes a heartbeat now, so silence
   is evidence for all of them alike". The age of a heartbeat is computed when it arrives (199) and
   never again: a service that dies while the page is up stays healthy on it.
2. `caen_latched`: `devices/caen.py:473-476` says of a latched trip "while present the channel cannot
   be turned on". `_handle_output` looks at the latch (1474) before it waits for the port; the poll
   can latch the channel in between, and the transaction looks only at the enable switch.

### Bounds, and why they suffice

* Numbers of things: one or two channels, publishers, clients, supplies, modules, requests; three
  processes (two that race for a left-over lock file and one that comes between). Handlers work on
  one channel; two appear where they meet (a clear of the whole board, two publishers on one buffer,
  two clients in one inbox, two supplies on two ports).
* Times: the smallest limits at which "younger", "at" and "older" are different ages. `MinRepeat = 2`
  tells "just told" from "told a while ago" from "due" (`alarm_engine`). In `rga`, `MaxAge` and
  `Grace` are 0 and the idle limits 1: a value is fresh, or old enough. In `flow`, three instants
  and `MaxInterval = 1` make an interval short enough to integrate and one that is a gap; three resets
  show that a row that could not be opened costs the next period and not the one after it.
* Depths: buffer 2, inbox 2, outbox 1, echo 2, row queue 1 with batches of 1: reached and overflowed
  with the number of messages allowed.
* `MaxFaults`, `MaxEvents`, `MaxCommands`, `MaxRestarts`, `MaxOutages`, `MaxTroubles`, `MaxMoves`,
  `MaxKills`, `MaxBlips`, `MaxDisturbances` and their like: how often the environment may act. Each
  known failure of these protocols needs at most two of them (a command and a trip; a request
  unheard and a release; a cable pulled and put in elsewhere is two moves per cable, hence four).
  `MaxDisturbances` counts all kinds together, so the run covers every pair. After the last one the
  system is left alone, which is what a liveness property needs.
* `CHECK_DEADLOCK FALSE` stands where the model really may stop: every message is published and
  delivered, every command answered or given up (`messages`); a service is stopped and nobody
  starts it again (`drivers`, `instruments`, `sinks`); all samples have come and all resets are
  handled (`flow`).
* `alarm_engine`, the rule in `alarms` and, apart from disturbances, `rga` count time only up to
  saturated ages and have no bound on the length of a behaviour.

### Fairness

Weak fairness is assumed of threads that loop without a condition to wait for: the staleness and
notification threads of the engine, the main loop of a service, a worker with a command, the pump
and the main thread of the sinks, the callbacks of the integrator and its sink. Time passes. paho
reconnects for ever (`bus.py`), and a broker that is reachable delivers what it retains. The service
wrapper starts a dead service again (`AppExit Default Restart`, `tools/install_services.ps1:193`)
unless it has given it up, which it may do at any time: one that cannot start is not retried for ever
(`docs/DESIGN.md:1783`, `install_services.ps1:187-192`). So `RecoveryIsShown` of `drivers` promises
nothing of a service that was given up. `flow` assumes no restart of anything: its liveness is that
of callbacks that run while their process lives.

Strong fairness is used three times. A message handled in arrival order is not overtaken for ever by
others (`OnRetainedAlarm`). A scan ends although the main loop looks for the end only once per cycle
(`CollectEnds`). A Lakeshore command that waits for the port gets it, because the loop sleeps between
its reads (`Command`).

| Run | Assumed |
|---|---|
| `alarms` | weak: time, staleness check, notification worker, the two later steps of a reload; strong: a retained alarm |
| `caen` | weak: main loop, a command under way, records that come back; the loop of the link |
| `rga` | weak: main loop, worker, time, analyser; strong: `CollectEnds` |
| `instruments` | weak: loop and strong: command of the port; weak: scans, the first five seconds, the loop of the analyser; nothing of the cDAQ and the tap |
| `drivers` | weak: loop, time, a command under way, starting again |
| `flow` | weak: the integrator's callbacks or its restart; the sink's |
| `sinks` | weak: pump, main thread |

Nothing is assumed of what the code does not control: nobody has to send a command, stop a service,
or move a cable, p105 need not come, drivers may stay silent and the gateway may hang. Failures are
bounded in number, never assumed away. The other runs check safety and assume nothing.

## 4. Proofs

| Theorem | Property | Establishes |
|---|---|---|
| **`AlarmEngineProofs`** | | |
| `WorstReported` | WorstLimitReported | For any limits and readings, the limit reported is the most severe the value is past |
| `NoChatter` | ClearsPastMargin | For any limits, readings and hysteresis, an alarm clears only past the margin |
| `TypeCorrect` |  | Every variable of the engine keeps its type and the outbox its bound, for any channels, limits and queue length |
| `PagesAgree` | RetainedAgrees | The retained alarm of every channel the engine remembers is the engine state, in every interleaving |
| `StaleFlagCorrect` | StaleFlagIsTheAlarm | The stale flag is set exactly while the staleness alarm stands |
| `AckCorrect` | AckNeverCoversWorse | No acknowledgement stands over a condition worse than the acknowledged one |
| `ReloadCorrect` | ReloadLeavesNoGhost | Outside a reload the engine remembers no disabled channel and no alarm on a limit of a channel without limits |
| `RepeatsCorrect` | RepeatsAreEarned | A condition that has not changed is told again only when nobody acknowledged or silenced it and the repeat time has passed, for any number of channels and any queue |
| `AlarmsKeepTheirSpecs` |  | The composition that TLC explores behaves, for each part, as the specification of the part says, so that what is proved of a part holds of it |
| **`MessagesProofs`** | | |
| `TypeCorrect` |  | The types of the outbox, for any number of publishers, messages and outages and any depth of the buffer |
| `NothingIsLostSilently` | NothingVanishes | Whatever the interleaving of publishing threads and the network thread, every message published is on its way, received, lost with the connection, or counted in _dropped |
| `OutboxImplementsChannel` | ImplementsChannel | The client implements the lossy channel: it delivers a message at most once and none that was not published |
| `AckTypesHold` |  | The types of commands, acknowledgements and inboxes, for any number of clients and inboxes and any depth |
| `AnswersAreHandedOnce` |  | No acknowledgement is handed to two commands that share an inbox, however late, lost and out of order answers are (HandedToOne of CommandAcks) |
| `OnlyRivalsMixUp` | MixUpsHaveACause | A command gets the answer of another one only when somebody else has begun a command for the same target or its client has given up an earlier one: for any number of clients and commands, also when a late answer passes from each command to the next |
| `ReloadsReachEverybody` | EverybodyFollows | Once no reload is missing or on its way, every service has the limits and defaults that are on disk, for any number of requests, hand edits, lost reloads and restarts |
| `OnlyOne` | OneInstance | For any number of processes, command lines, kills and left-over lock files: no two processes of one service run at the same time |
| `PartsKeepTheirSpecs` |  | The composition the runs explore is a behaviour of each of its four parts, so what is proved of a part holds in it |
| `EditsTypesHold` |  | The types of the two configuration files, the temporary one, the requests and the configurations in memory, for any channels, requests and limits |
| `LauncherTypesHold` |  | The types of processes, lock file, pid file and command lines, for any number of each |
| **`CaenProofs`** | | |
| `TypeCorrect` |  | Every variable of the supply and its service keeps its type, for any channels and bounds; no energised channel is disabled |
| `ClearIsSafe` | ClearedWhenUnloaded | BDCLR is sent only when every channel it is for is at zero, and off if it was seen on |
| `LatchIsFresh` | OldEvidenceLatchesByARace | A cleared channel is latched again on a reading from before the clear only if the loop was judging that very reading while the clear popped the channel |
| `RecordsCorrect` | RecordsAgree | With no record on its way, the retained trip records and the latch agree, through clears, restarts and late records |
| `LinkTypesHold` |  | The types of ports, handles, the main loop and commands, for any number of supplies and ports |
| `RightSupply` | WrongOnlyByARace | However cables are moved and whenever the link is rebuilt, a supply is read and written under its own name only, unless its cable was moved between the question who is there and the opening of its port: for any number of supplies, ports, moves and commands |
| `ServiceKeepsBoth` |  | The composition the run explores is a behaviour of CaenHv and of CaenLink |
| **`RgaGuardProofs`** | | |
| `ReleaseIsSafe` | GivenBackOff | Whatever the commands, failures and other clients: control is given back only with everything off that has been seen on |
| `EmIsFirst` | EmGoesFirst | No step of ours takes the emission away while the electron multiplier has been seen on |
| `TypesHold` |  | The types of the guard, for any limits and readings; the worker is idle while the service is stopped, and a half-read cycle is only in the poll |
| **`InstrumentsProofs`** | | |
| `ReaderTypesHold` |  | The types of the cDAQ service, for any modules, patience and number of readings |
| `ReadingsGoOnce` | HandedOnce | Every reading of a background thread is handed to one read() and to none twice, or is still with its thread, on the list or in the hand of the loop: for any number of threads and readings |
| `NobodyIsTorn` | ClosedUnderNobody | No task is closed under a read shorter than the time the service waits for it, for any number of modules and any patience |
| `InstrumentsKeepTheirSpecs` |  | The composition the run explores is a behaviour of each of its four parts, so what is proved of a part holds in it |
| `PortTypesHold` |  | The types of the port, its lock, the loop and the command, for any settings and bounds |
| `OkIsHonest` | OkMeansHeld | A command is answered ok only when the instrument held the value asked for when it was read back, or what was read back came late: for any number of commands, reconnections and late answers |
| `ScanTypesHold` |  | The types of acquisitions, files and the two threads of the gas analyser, for any number of acquisitions and scans |
| `AnnouncementsAreTrue` | AnnouncedAsSaved | A summary is of a file that stands and holds the scans it names, and there is one at most for an acquisition: for any number of acquisitions, scans, commands, crashes and failed writes |
| `UnsavedIsOnDisk` | PendingKeepsUp | The scans of an unsaved acquisition are in pending.json, all of them when nobody is about to write it, but for those of a stop that raced the loop |
| `TapTypesHold` |  | The types of the tap and of what it hears, for any parameters and bounds |
| `TapIsHonest` | ShownAsHeard | With any parameters, switches of the controller, cables and garbled replies, a value shown as ok was on the bus recently, and while the controller asks for all parameters in turn none is handed on as an error |
| **`ServiceLoopProofs`** | | |
| `LoopTypesHold` |  | The types of the loop, of the window and of what is shown, for any channels, intervals, changes and troubles |
| `MixesAreUnconfirmedOrRaced` | OnlyUnconfirmedOrRacingWritesMix | A mean of several values of a channel is published only when a write that took was refused as unconfirmed and the window has not been dropped since, or the command came while an older sample was past the filter or had not dropped the window yet; for any channels and any number of commands |
| **`FlowPeriodsProofs`** | | |
| `SecondsAreKept` | EverySecondOnce | Every second of flow is in exactly one total or gap, for any length of time, MAX_INTERVAL_S and number of resets, deaths and saves that fail, while samples keep their order |
| **`SinksProofs`** | | |
| `LossesAreCounted` | NothingUncounted | For any sizes of queue and batch, failures half way through a batch, and both threads draining at once: every row that came is in the table, held by the process, or counted as dropped |
| `RowsFollowTheEngine` | NewestRowIsTrue | For any channels and alarm states, and however often the database, the bus and the sinks go away: the newest row of a channel is what the engine shows as soon as its message has come, unless the database refused that row |
| `PairKeepsBoth` |  | The composition the run explores is a behaviour of Sinks and of RecordWriters |
| `SinkTypesHold` |  | The types of the queue, the batches, the table and the threads, for any sizes; no more is on disk than came |

Every safety property and every action property of a passing run is stated by a theorem, with its
name in the middle column: the run shows it on the instance of the `.cfg`, the theorem for every
value of the constants, hence for any number of channels, clients, supplies, modules, acquisitions,
rows, faults, commands and restarts.

Assumptions are the `ASSUME`s of the modules, which TLC evaluates on every run: finiteness of
`Channels`, `Supplies` and modules, numbers that are natural, confirmation counts of at least two,
configurations that `load()` accepts, a hysteresis that is a natural number of percent, and names
that are nobody's: of processes beside the two other states of a lock file (`Launcher`), of supplies
and ports beside "nobody" and "no port" (`CaenLink`), of settings beside 0, which stands for no
answer (`LakeshorePort`). Modules that are instantiated state theirs as definitions
(`LauncherAssumption`, `CommandAssumption`, ...) and the composition assumes them.

*Thresholds.* `LimitsOK` says that the limits and readings stay in their types; the margin is a
natural number; then each of the two properties follows from the definition of the rule.

*Alarm engine.* `Inv` is the conjunction of three invariants and `NoGhost`. `ReloadLeavesNoGhost`
holds only outside a reload, so it is not inductive: `NoGhost` says what already holds at each of
the three points of a reload. `TransitionAgrees` and `TransitionAck` state once what `_transition`
does to a channel, and the step of every handler uses them. For the repeats, `OnlyTheAnnounced`
shows that a channel gains a message only if `Announces` let it, whatever else is queued in the same
step and however much does not fit.

*Bus.* A message is in one of seven places (taken by a publisher, buffer, flush, wire, received,
lost, dropped); the invariant says that each published one is in exactly one of them and once, that
the counter counts the dropped ones, and that only the flush holds a taken buffer. The refinement
maps `Publish` to `Offer`, `Store` on a full buffer and `Disconnect` to `Lose`, `Deliver` to
`Arrive`, and everything else to a stutter.

*Commands.* A command is carried out once, and its acknowledgement is in one place of every inbox: on
its way to it, in it, or handed to one command (`AckInOnePlace`, `ToldIsGone`). A command is told
the answer of another only if both are for one target; if that was its own client's, the client had
given it up (`Numbered`: what is done with came before what is under way). Taking the first match out
of an inbox needs the least index that matches, which is the one use of well-founded induction. The
property in its first form, that the rival is the command whose answer was taken, failed to be
inductive, and was false: late answers pass from each command to the next.

*Configuration.* `Follow`: while no reload is missing or on its way to a process, what it has in
memory is what is on disk, if that loads. It holds because whoever changes a file leaves `untold`
set until everybody has been told, and a reload that came is taken whole or not at all.

*Launcher.* `HolderRuns`: who runs has the lock file open; while somebody does, nobody can create or
remove it.

*High voltage.* `ClearInv`: while a clear is being prepared, the targets dealt with so far are at
zero, and off if seen on; it is preserved because the network thread holds the port and everybody
else only turns things off. `FreshInv`, of a channel without a reading since its clear: while that
old reading still waits to be counted its counts are gone, or are being popped, and with
confirmation counts of two or more one reading cannot reach them; and if it is being judged and met
no pop, it was found latched, or counted, before the clear began. `RecordInv`: per channel the last
record on its way is the retained one, and a channel with none on its way, none in preparation and
no clear in the middle of it agrees with its latch.

*CAEN link.* `OpenToBoards`: whatever is open is open to a port with a board on it. `WhereFound`: the
handle of a supply whose cable did not move between being asked and being opened leads to that
supply, and so does what was found and is about to be opened. `CommandsReach` says the same of the
handle a command took, and of the supply it has written to.

*Gas analyser.* `Seen` is what is requested on and has been seen on (`asked \ late`). The status
word, as kept and as fetched in this cycle, shows it (`WordShows`); from that follow what each step
of the worker, the loop and the shutdown may rely on (`WorkerPart`, `LoopPart`, `ClosePart`). The
properties alone are not inductive: a release looks at the word steps before it acts on it.

*Acquisitions.* Four invariants beside the types. `TurnInv` says whose turn it is: the worker works on
the acquisition in memory or on the one it is about to begin, the loop on the same or on one that was
replaced meanwhile and no longer scans. `LengthInv`: an acquisition with all its scans is about to be
finished. `SavedInv`: between writing a file and announcing it, the file stands and nothing was
announced. `PendingInv`: what is in `pending.json` is a front of what is in memory, and all of it when
nobody is about to write it.

*Temperature controller.* `LockInv`: whoever uses an open port holds its lock, as long as the object
it works with is in place; so a reply that is not late answers the question of the one who reads it
(`ReadBackInv`), and a command that is confirmed read the value back while the instrument held it,
or got a late reply.

*cDAQ.* `Accounts` keeps the list of everything passed on so far, in the order it was: the readings
handed over, those in the hand of the loop and those on the shared list stand there once each, and
every other reading made is still with its thread. `StoppingInv`: a thread that still reads when the
service stops has read as long as the service has waited for it.

*Turbo pump.* `AgeInv`: what was polled was on the bus a pause before that at most, and what is shown
as ok is not older than the limit and that pause. `InTurnInv`: while the controller asks for all
parameters in turn and nothing is lost, one that had its turn some ticks ago waits in the buffer or
has been heard since, and one that has not had it since the port was opened is unknown; the turn is
as long as there are parameters, which is where the condition on the limits comes from.

*Service loop.* `CleanInv`: for a channel that only commands change, the window, and the samples the
filter has let pass or will, are of what the instrument holds now, unless the channel was raced, a
refused write changed it, or its command has not had the window dropped yet. Each step that could put
an older sample there either drops it or adds the channel to `raced` or `unconfirmed`; and a drop
takes the channel out of `unconfirmed` only if the loop does not hold an aggregate of it.

*Flow.* Per second, what the closed periods of a state, the total and the gaps count is 1 between the first and
the last sample and 0 elsewhere, for the state in memory and for the one on disk, as long as samples
keep their order (`Exact`, `InOrder`); `AccumulatedOnce` is the step.

*Sinks.* `Known` rows (in a batch, in the queue or in the table) are some of those that came, and
their number plus `dropped` is `came`. Cutting a batch off the queue and putting one back keep the
set of rows (`CutRows`, `JoinedRows`).

*Alarm rows.* `RememberedInv`: what the writer remembers of a channel whose message has come is what is
retained, and the newest row is what it remembers, unless the database refused it.

### Only model-checked

Liveness: `SilenceIsNoticed`, `LeftoverIsWithdrawn`, `TripIsAnswered`, `DisabledIsUnloaded`,
`PluggedIsRead`, `ClosedIsRecorded`, `ForgottenIsReleased`, `CommandsEnd`, `ScanEnds`,
`RecoveryIsShown`, `SilenceIsShown`, `BacklogIsWritten`. Fairness and ENABLED are beyond the prover,
which is also why the composition theorems speak of the parts' specifications without fairness.
`StatusPage` is in a finding run only, and nothing is proved of it; the claims of section 5 are false
of the code, so there is nothing to prove. What a recursive definition
computes over all data would need an induction the provers cannot do; no model here needs one.

## 5. Divergences between what is written and what is done

The modules state these claims of comments and documents too. They are not in the runs
above, except for the two findings; TLC refutes each of them when it is added to the configuration
of its module.

| Claim | Where | What the code does |
|---|---|---|
| `AlarmEngine!NextReadingAnnounces` | `engine.py:310-314`: everything still wrong announces itself on its next reading | a condition that began while the switch was off waits for the repeat interval (288) |
| `AlarmEngine!NothingSentWhileOff` | `engine.py:612-615`: nobody will be told while it is off | what was queued before is still delivered (411) |
| `AlarmEngine!ReloadKeepsAlarms` | `engine.py:484-490`: state is kept across a reload | a channel without limits loses also an alarm on quality (522) |
| `AlarmEngine!DisabledShowsNoAlarm` | `engine.py:502-508`: the alarm of a disabled channel is withdrawn | only if the engine knows the channel |
| `AlarmEngine!DeadIsNeverHealthy` | `engine.py:17-20`: a dead sensor must not read as healthy | `check_staleness` looks only at channels heard since the start (470) |
| `BusOutbox!RepublishedInOrder`, `BufferIsRepublished` | `bus.py:17-20`: republished in order when the broker returns | a new message overtakes the flush (294); one stored after the swap waits for the next outage (271) |
| `CommandAcks!HandedToWhoAsked` | `bus.py:337`: hands each to the command that asked | a late answer of an earlier command for the same target is taken (406) |
| `CommandAcks!NotAnsweredMeansNotDone` | `api/state.py:315-316`: "nothing was changed" | the command may still arrive, or its answer be lost |
| `StatusPage!StaleNeverShows` | `api/state.py:86-87`: a stale channel never shows its last number | a retained value delivered again counts as fresh (515) |
| `CaenHv!AcknowledgedIsForgotten` | `caen.py:1710-1711`: the latch goes | the reading the loop was judging while the clear popped the channel latches it again (1245-1271 and 1714-1716 share no lock) |
| `CaenHv!ClearedWhenOff` | `caen.py:1594-1598`: the channel is switched off before the clear | a tripped sibling whose status word did not come is only zeroed (1680) |
| `CaenLink!SwapIsHarmless` | `serial_id.py:4-7`: swapped cables are harmless | a cable moved after the port was asked and before it is opened binds the wrong supply, and it is not asked again |
| `CaenLink!TheOtherPaysNothing` | `caen.py:1796-1797`: one still unplugged costs the other nothing | a relink closes every port, also under a command to the healthy supply (1812) |
| `ServiceLoop!OnlyExitsUnidentified` | `service.py:17-18` | the window changes size under the loop (241, `caen.py:974` and `1005`) |
| `ServiceLoop!StaleNeverStands` | `service.py:19` | a window filled before the link went is published after the error (439) |
| `ServiceLoop!NoMeanAcrossAWrite` | `caen.py:991-996`: the window is dropped so that the page does not show an average of the old setpoint and the new one | a write that took and was refused returns without the drop (889-903, 1666-1684); and the races of `OldSamplesAreDropped` |
| `ServiceLoop!OldSamplesAreDropped` | `caen.py:1014` | the filter compares before the sample is stored (1028) |
| `RgaGuard!NeverLeftOn` | `docs/drivers/rga.md`, step 3: "Never left on behind the service" | release and shutdown look at a status word in which an emission requested seconds ago is not on yet; a failed EM off is only logged |
| `RgaGuard!DetectorIsTrue` | `docs/drivers/rga.md`, step 4: one detector per acquisition | the detector is taken from the status word while EM On is pending (837) |
| `RgaScan!OwnScans` | `docs/drivers/rga.md:407`: no scan is lost or read twice | a loop that was collecting when a stop and a new start came takes the first scan of the new acquisition for the old one |
| `RgaScan!StoppedIsKept` | `docs/drivers/rga.md:248-253`: unsaved data survives a restart | a scan recorded while a stop is carried out is not written: its acquisition no longer scans |
| `RgaScan!UnsavedCanBeSaved` | same: a finished one can still be saved | a write that failed half way leaves a file, and the next save will not replace it |
| `RgaScan!CompleteIsDone` | same | a crash after the last scan was kept and before the end was, and a complete acquisition comes back as stopped |
| `FlowPeriods!GapsStayGaps` | `derived.py:18-19`: samples whose quality is not ok are not integrated | what a bad sample says is not saved: after a death the good one that follows is integrated from before it |
| `FlowPeriods!NothingCountedTwice` | `derived.py:3`: the mass that has passed | line 149 returns after line 125 has moved the time back: after a sample was overtaken, a second is counted twice (TLC finds it with `MaxTime = 4`, `MaxInterval = 2`) |
| `FlowPeriods!RowSpansItsPeriod` | `flow_writer.py:3-4`: how much passed during each period | after a lost message a row spans two periods and has the total of one |
| `Sinks!IndexOverTheFiles` | `sinks/__main__.py:6-7`: the database is an index over the files | rows are written to the table while they wait in the file's buffer |
| `Sinks!LossIsSaid` | `sinks/__main__.py:404-405` | a loss after the last check, and the rows the last drain could not write, go unsaid |
| `Sinks!RecoveryIsReal` | `sinks/__main__.py:114-116`: only real once the backlog has drained | the rows of a write under way are not counted |
| `RecordWriters!AuditIsKept` | `audit_writer.py:14-17`: the record is in the archive regardless | the archive subscribes to measurements only (`jsonl_writer.py:116`) |
| `LakeshorePort!NeverDropped` | `docs/drivers/lakeshore.md:129`: never silently dropped | a command between its checks and its exchange whose port is taken away ends without an answer (541, 584) |
| `LakeshorePort!RefusedLeavesAlone` | `lakeshore.py:602`: "the write did not take" | the write was taken and only the read-back failed |
| `Launcher!ReleasedMeansReleased` | `xams_ctl.py:237`: stop means stopped | a process whose pid is not noted yet, or was replaced by that of a refused start, is not known |
| `ConfigEdits!FileIsWhole` | `config.py:411-417`: atomically | two requests write one temporary file |
| `ConfigEdits!ServicesCanStart` | `config.py:411-417` | a limit lowered by hand, or while a save is under way, makes the file one that does not load |
| `ConfigEdits!SavedMeansSaved` | `api/app.py:648-653`: saying "saved" would be a lie | another save may have replaced the file before this one is reported |

Modelled without a claim of its own: "Nothing is erased" (`derived.py:171-173`) does not hold of a
reset whose save fails. Memory already has the new period, the closed one is not published, and the
next good sample saves the new state over the old (`undelivered` in `FlowPeriods`).

Read in the code and not modelled as a property: a second request to reset the flow clears the answer
of the first (`api/state.py:270`), which then counts as not acknowledged (257); a fast cDAQ module that fails marks the slow
channels as errors too, while their readings pile up; the `reconnect` of `BaseService` returns True
("identity re-verified" is logged though nothing was); `_stop_services` says "All hardware released"
after its 20 seconds without looking; the results of `sc config` are ignored; `_hv_write` prints
"Nothing partial was left behind" also for commands that were not answered (`xams_ctl.py:579-582`);
`overall()` says ALL OK when the notification switch is unknown (`api/state.py:674`).

Hazards beyond those in `PROJECT.json`: most of the claims above bite at a line of their own; besides
them, a late set of the `connected` flag may leave a message in the buffer until the next outage
(`bus.py:272`).

## 6. Not modelled, and why

UPS and scales: read-only, one question a cycle under the runtime that `ServiceLoop` models. The
simulated driver and the table that picks a driver: nothing of theirs happens over time. Pure
conversions (scaling, recipes and file formats, parsing of YAML, mail text, page templates, SQL).
Delivery of messages behind the outbox, the mail accounts, the daily summary and the record of
recent readings: an environment that answers, fails or hangs. Grafana, one-off tools, backup
scripts and the schema. The other request handlers of the pages render, or send one command, which
is `CommandAcks`.

Inside modelled parts: the simulated devices; the ramp and switching records of the CAEN service;
the contents of the heartbeat; the bus will and the subscription table; the HTTP requests to the
analyser and the conversion of its spectra; the alarm list, backup status and history of the web UI;
two boards that report one serial number; calibration, in floating point.

## 7. What could come next

Further abstract specifications beside `LossyChannel`: the queue of the sinks as a channel that
delivers late and may lose, the lock file as mutual exclusion, the latch of a high-voltage channel as
the three states an operator knows. A model of the alarm list and backup status of the web UI beside
`StatusPage`, and of the CAEN ramp records.
