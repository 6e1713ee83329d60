# EdgeFlow gateway: TLA+ models and proofs

This directory holds the specification of the EdgeFlow energy gateway (the C program under
`src/src/`): TLA+ modules translated from the code, the TLC configurations that check them on
small instances, and TLAPS proofs of the most important results for every value of the
constants. `PROJECT.json` maps each definition to the lines it models.

    tlc -config SpscRing.cfg SpscRing        # one run
    tlapm ComponentProofs.tla                # one module of proofs

## 1. The system

A process with a main thread and three others, around one `gateway_app_t`:

    devices --Modbus--> ingress --SPSC ring--> worker --+--> SQLite (telemetry, alarms, commands)
                                                 |      +--> MQTT session (live publish)
                                                 +--> state engine --> command scheduler --> adapter
    timerfd --> monitor --> watchdog, heartbeats, MQTT session (replay, ping, heartbeat), metrics

| Component | State it keeps | Operations | Shared with | What makes it correct |
|---|---|---|---|---|
| SPSC ring, `core/ring.c` | buffer, head, tail, dropped | push, pop, count | ingress (push), worker (pop); both count | no two copies of one slot at a time; accepted points come out once, in order; every refused one is counted; counts are sound |
| State engine, `runtime/state_engine.c` | state, last SOC, temperature, grid power, next alarm id | process_telemetry | worker only | FAULT exactly while hot; commands only when safe and within the limit |
| Command scheduler, `runtime/command_scheduler.c` | queue of 32, next id | submit, tick | worker only | each accepted command is written once and in order, its row says what happened |
| Worker and ingress, `runtime/app.c` | the point in hand | poll, push; pop, rule, store, evaluate, act, publish, mark | ring, storage, session | decisions on recent readings; alarms and commands are recorded |
| MQTT session, `egress/mqtt_session.c` | socket, connected, mutex | publish, replay, ping, heartbeat, shutdown | worker, monitor, main | whole packets, one socket, no call left with the mutex, clean shutdown |
| Storage, `platform/storage.c` | three tables, `uploaded` flag | append, fetch, mark | worker, monitor | a row marked uploaded was sent; pending rows drain in order |
| Monitor and reactor, `runtime/app.c`, `core/reactor.c` | epoll and timer descriptors | set up, run_once, round, fall back | main (running) | no leak on any failure; a monitor that ended is replaced |
| Life cycle, `main.c`, `runtime/app.c` | exit flag, running, all handles | init, run, stop, destroy | all threads | nothing is released while used; the process ends when told to |
| Watchdog and heartbeats, `platform/watchdog.c`, `heartbeat.c` | notify socket, a time stamp per thread | ready, alive; touch, age | main, monitor; all threads | a gateway whose calls return is not restarted, one that hangs is; a thread that hangs is reported |
| Adapters, `ingress/*` | registry, libmodbus context | register, init, poll, write_command, shutdown | ingress, worker | an adapter that fails costs only its own points; no context leaks; the link comes back; readings are true |
| Metrics, `platform/metrics.c` | counters, gauges, a text file | count, refresh, write | all threads, CLI | counters add up, gauges catch up, damage to the file is explained and does not outlive the next good write |
| Device model, `model/` | plain records | constructors, conversions | all | used by the modules above |
| Logger, config, time, CLI | a file handle, plain values | | all | see section 7 |

What is hard in this code: the lock-free ring; one socket written by two threads with
reconnects in the middle; a live publish racing with a replay of the same row; decisions on
values that were measured at different times; crashes between an effect and its record; a
broker that disappears, hangs or dies unnoticed; a watchdog fed by a round that itself makes
blocking calls; failure in the middle of start-up. The list
of hazards with their lines is in `PROJECT.json`.

## 2. Modules

| Module | Models | State and actions against the code |
|---|---|---|
| `LossyFifo` | what the ring promises | a bounded queue that may refuse a point and then counts it |
| `SpscRing` | `core/ring.c`, called as `app.c` calls it | one action per atomic access or struct copy; `ipc`/`wpc` are the positions of the two threads, `ihead`, `wtail`, `chead` the C locals. `dropped` keeps its width as `% CounterMod` |
| `StateEngine` | `runtime/state_engine.c` | one action, `ProcessTelemetry`, which is the whole call; the early returns are alternatives |
| `CommandScheduler` | `runtime/command_scheduler.c` | `SubmitNew`; a tick is `TickBegin` (`TakePending` is its copying loop; the queue is emptied), then `TickWrite` and `TickStore` per command |
| `ControlLoop` | `ingress_main`, control half of `worker_main` | composes `LossyFifo`, `StateEngine` and `CommandScheduler` by INSTANCE; a turn ends with the publish, which returns or hangs; `Crash` may fall between any two steps; the tables survive it; `lost` is history: the alarms whose insert failed |
| `MqttSession` | `egress/mqtt_session.c` | every call is lock, ensure connected, write (in two chunks), unlock; a parser per socket is the broker |
| `Egress` | store, publish, fetch, replay, mark | rows with their flag; a packet is one step here because `MqttSession` shows that it is written whole under the mutex |
| `Lifecycle` | `main.c`, init/run/stop/destroy, `core/reactor.c`, `platform/watchdog.c`, systemd | `main` and `pc` are positions in the code, `open` the handles not yet released; of the storage these are the context and the connection in it |
| `Supervision` | `platform/heartbeat.c`, `watchdog.c`, `common/time_util.c` and the calls of the three loops | time as ages (a time stamp is the time since it was taken) and remaining times; `Ingress`, `Worker` and `Monitor` list the calls of one turn with the resource each needs; the monitor's calls 1, 3 and 4 are made once per row (`todo` rows are in hand; 3 and 4 inside one lock of the session); `Tick` may happen only when nobody has something to do at once |
| `Metrics` | `platform/metrics.c` and everything that counts | one action per access to an atomic, per SQL statement, per fopen and fclose, which may fail; `file` is a text and what follows it, `harm` what has happened to it since it was last truncated; `got` is a value loaded and not yet stored |
| `FieldBus` | `ingress/adapter.c`, Modbus and stub adapters, libmodbus link | `slots` and `protocol` are the registry, `out` the batch under construction, `asked` who was asked, with the place in the array each was given, `ctx` the static `g_ctx`; a plugin is any adapter that keeps the contract of `adapter.h` |
| `ComponentProofs` (ring, engine, scheduler), `ControlLoopProofs`, `MqttSessionProofs`, `EgressProofs`, `LifecycleProofs`, `SupervisionProofs`, `MetricsProofs`, `FieldBusProofs` | theorems | section 5 |

`SpscRing`, `StateEngine` and `CommandScheduler` are extended together by `ComponentProofs`, so their
specifications carry the component's name: `RingInit`, `RingNext`, `RingSpec`, `EngineSpec`, `SchedulerSpec` and so on.

`ControlLoop` uses the abstract queue instead of the ring: that is sound because the ring
implements it (`RingImplementsFifo`).

Abstractions common to all: doubles are integers (only their order and differences matter),
texts are left out, and time is left out of all modules but `Supervision`. The code's loads and stores are `seq_cst` atomics, so
interleaving is the right memory model for them; the plain struct copies are covered by
`NoDataRace`, which is checked and proved rather than assumed. SQLite runs in its default serialized
mode, so a statement is one step, but a SELECT that is stepped is one step per row.

Operators marked "Mutant" are small deliberate mistakes (a missing guard, an off-by-one).
Nothing uses them; each can be put in the place of the definition that follows it to see the
property it belongs to fail.

## 3. Runs

Every run finishes within two minutes or so on two cores.

| Run | Configuration | Shows |
|---|---|---|
| ring | `SpscRing.cfg`: 3 slots, 2 points, counter modulo 3 | types, `NoDataRace`, `CountSound`, and `ImplementsFifo`: refinement of the lossy FIFO with delivery |
| engine | `StateEngine.cfg`: readings 0..4 around limits of 1 | `FaultIffHot`, `DischargeIsSafe` |
| scheduler | `CommandScheduler.cfg`: queue of 2, 4 ids | `EveryCommandOnceInOrder`, `LogIsTruthful` |
| control | `ControlLoop.cfg`: ring of 2, 2 polls, 3 boots, 2 failed inserts, any publish may hang | `DischargeOnRecentSoc`, `AuditGap`, `LowSocAlarmed`, and the types of the engine in use |
| session | `MqttSession.cfg`: 2 descriptors, batch 2, broker may hang | `WholePackets`, `SocketDiscipline`, `StopReleases` |
| egress | `Egress.cfg`: 2 rows, batch 2, one each of outage, crash, failed statement; hang and SIGPIPE possible | `UploadedWasWritten`, `ReplayInOrder`, `DuplicatesBounded`, `PendingDrains` |
| lifecycle | `Lifecycle.cfg`: under systemd, 2 boots | `NoUseAfterRelease`, `NothingLeaks`, `StopEnds`, `DeadMonitorIsReplaced` |
| supervision | `Supervision.cfg`: a call takes up to 1 unit, batches of 2 rows, intervals of 1, `WatchdogSec` 26, stale after 14 | `OnlyStuckIsRestarted`, `NoFalseAlarm`, `StuckIsRestarted`, `StuckIngressIsReported` |
| metrics | `Metrics.cfg`: ring of 1, 2 points, one failed statement or file operation, two lengths of text | `CountersAddUp`, `FileIsWhole`, `GaugesSettle` |
| fieldbus | `FieldBus.cfg`: registry of 3, Modbus, stub and two plugins, 8 slots, registers of 4 values | `BatchIsComplete`, `CommandFindsBus`, `ReadingsAreTrue`, `LinkRecovers` |
| interlock, egress_quality | | section 6: what a document says and the code does not do |

Why the bounds are enough to meet the interesting cases. Ring: 3 slots give an empty, a
partly filled, a full and a wrapped ring, and the counter wraps; the theorems lift the
result to every size. Engine: readings below, at and above every limit, and beyond the
clamp. Scheduler: the queue fills, a submit is refused, and a tick handles two commands that
succeed or fail independently. Control: a batch has three points and the ring holds two, so
points of every kind are dropped; the SOC of the second poll can be lost while its grid power gets through; a command is followed by a crash at each of its steps and
by other boots. Session: nothing is counted, so the state space is complete; two descriptors
allow a leak to be seen, a batch of two a failure between two rows. Egress: with two rows the worker inserts, publishes or marks one while the
monitor is anywhere in its round with the other, or with the same one; more rows repeat these cases and only
lengthen the batch. Lifecycle: complete but for the number of boots. Supervision: nothing is
counted and no clock value is bounded, so the state space is complete for its time constants, and these are
the smallest for which `RoundFits` and `StampsFit` hold. A round lasts up to `Interval + 2 + (5 * Batch + 12) * CallMax`: two looks
at the heartbeats; `Batch + 1` steps of the SELECT, the connect, an UPDATE per row and four more calls, each of which may wait
for one of the worker's; and a send per row, which waits for nobody. That is 25 here, with a batch of two, in which the
replay goes round its loop, ends early and is waited for at every place. A stamp of the worker gets up to
`(2 * Batch + 10) * CallMax` old, since a publish may have to wait for a whole replay. For the shipped values (`WatchdogSec` 10 s, interval
2 s, batches of 50) the first bound is 262 calls in 8 s: while there is a backlog, no call on SQLite or the broker may take longer than
about 30 ms (24 ms with the largest batch, 64, to which the production configuration is cut), or a gateway that is only slow may be restarted. Metrics: one point is in the ring, in hand or
dropped while the other is; two lengths are a longer and a shorter text, and the one failure can be of a statement, of
fopen, or of a write after any part of a text. FieldBus: three adapters of three points each do not fit into eight slots,
so the last one finds too little room; plugins of any size fill the array at every place; registers of four
values have two negative ones.

`CHECK_DEADLOCK FALSE` appears where the model may stop for a reason of the system (the gateway
is stopped or down, the broker hangs, the process was killed and not restarted) or, in `ControlLoop`
and `Egress`, where a bound on polls or crashes is used up.

### Fairness

* `SpscRing`, `ControlLoop`: weak fairness of the worker's steps only: `worker_main` loops with
  a sleep of 20 ms. In `ControlLoop` this takes for granted that a statement of SQLite and a write to the PCS
  return; nothing is assumed of the broker (a publish may hang for ever, and `PublishHangs` is one of the worker's steps), of
  the devices that are polled, or of the ingress.
* `MqttSession`, `Egress`: weak fairness of the steps of a thread inside a call, strong fairness
  of taking the mutex. A pthread mutex is not fair by itself; here the other thread sleeps
  (monitor) or works on the database and the ring (worker) between two calls, so a waiting
  thread gets it. Reading the CONNACK is not forced when the broker hangs. In `Egress` the
  timer keeps firing and a broker that is down comes back; no crash, failure or outage is
  ever forced, except that recovery.
* `Supervision`: time passes (`TimePasses`): no thread does infinitely much in no time, and what is due, systemd's
  restart included, is done before the clock moves on. A mutex that is given back goes to the thread that waits for
  it, without which no bound on a round exists; pthreads and SQLite do not promise that. A call is one use of a resource that
  returns within `CallMax`: a connect with its CONNACK, a packet, a statement. To prepare and to finalize a statement
  is counted with it, a SELECT that is stepped is a call per row.
* `Metrics`: weak fairness of each thread, whose loops end every turn with a sleep or a timer. Nothing is assumed of
  publishing, which may fail for ever, but every call is taken to return: `GaugesSettle` says nothing of a thread that hangs in the
  broker, the database or the file, which is the subject of `Supervision`.
* `FieldBus`: weak fairness of polling; strong fairness of a connect and of a read that succeed: with the device
  there they do not fail for ever.
* `Lifecycle`: weak fairness of each thread and of systemd's expiry. The choice between
  success and failure of a system call stays open.

## 4. Properties in words

* `NoDataRace`: the struct copies at ring.c:56 and ring.c:76 never touch one slot at once.
* `CountSound`: the depth each thread reports is the exact occupancy for the producer and never counts
  a point that has left for the consumer.
* `ImplementsFifo`: accepted points come out once, unchanged and in order, and do come out.
* `FaultIffHot`, `DischargeIsSafe`: the promises of the engine, over all sequences of points.
* `EveryCommandOnceInOrder`, `LogIsTruthful`: the promises of the scheduler.
* `DischargeOnRecentSoc`: a discharge is never decided on the start-up defaults, and the SOC it is
  decided on is at most as many polls old as points were dropped.
* `AuditGap`: a setpoint without a row is explained by a failed insert or a crash.
* `LowSocAlarmed`: a low SOC in the ring becomes an alarm row, unless the process dies, the worker hangs in a publish, or the
  insert of this very alarm fails. No other failed insert excuses it.
* `WholePackets`, `SocketDiscipline` (types, `OneSocket` and `WritesGoToLiveSession`), `StopReleases`: the shared session. No
  call may keep the mutex, or stopping would not end.
* `UploadedWasWritten`, `ReplayInOrder`, `DuplicatesBounded`, `PendingDrains`: at-least-once up to the socket,
  in order, with a bound on duplicates. `PendingDrains` leaves out a broker that hangs, which the watchdog ends.
* `OnlyStuckIsRestarted`: the watchdog expires only when a call on the database or the session does not return, or the
  process was stopped, if the longest round fits into `WatchdogSec`.
* `StuckIsRestarted`: and in these cases it does expire, although the worker may be the one that hangs.
* `NoFalseAlarm`, `StuckIngressIsReported`: what the heartbeats are for. No thread is reported while all calls
  return, if `StampsFit`: a poll with its sleep, and `2 * Batch + 10` calls, fit into three heartbeat intervals (the worker has five calls
  from one stamp to the next and may wait for the monitor before each, for a whole replay when it publishes). An ingress that hangs is reported and never
  restarted; that is all the code does.
* `CountersAddUp`: the counters of three threads differ by no more than the points in hand, and after a stop
  they account for every point, those left in the ring included.
* `FileIsWhole`: at every moment the metrics file is one text, or what has happened since it was last truncated explains why not:
  two writers at once leave the end of another text, a failed write leaves nothing or a piece of one, and it is empty while
  it is written or until it could be opened. This is where the empty metrics file that `故障排查.md` line 12 lists comes from;
  it is gone after the next write that has the file to itself and succeeds.
* `GaugesSettle`: a gauge overwritten with an old value is right again once points stop coming.
* `BatchIsComplete`, `LinkRecovers`: a failing adapter costs its own points only, a failing link
  comes back with its device.
* `CommandFindsBus`: the adapter is found although its init rewrites the protocol it is found by.
* `ReadingsAreTrue`: registers are unsigned; a negative temperature reads as a huge one and the quality
  rule marks it BAD. Negative grid power has no such rule and is left out of the property.
* `NoUseAfterRelease`, `NothingLeaks`, `StopEnds`, `DeadMonitorIsReplaced`: the life cycle. A graceful stop releases everything. A failed
  start may leave the broker connection and the notify socket to the OS, or the connection of a `sqlite3_open` that failed:
  `storage_open` frees the context and never closes it (storage.c:101-104).

## 5. Proofs

`ComponentProofs`, first the ring, for every `Size >= 2`, every non-empty set of points and every counter modulus:

* `RingTypes`: `RingSpec => []RingTypeOK`
* `RaceFree`: `RingSpec => []NoDataRace`
* `CountsAreSound`: `RingSpec => CountSound`
* `RingImplementsFifo`: `RingSpec => Fifo!Spec`, the safety half of `ImplementsFifo`

The race is excluded by what each thread knows and not by the types, so the induction is over
`RingInv == RingTypeOK /\ IngressInv /\ WorkerInv`. `IngressInv` says that between its loads and its
store the producer's local head is the shared head, that the slot after it is still free (the
consumer can only free more) and that the copied point is still there. `WorkerInv` says the
same of the consumer's tail, and that the head loaded by a count is not behind the tail. If
both were copying one slot, head = tail, which the consumer's part excludes. The modular
arithmetic is in two lemmas, `SuccValue` and `DistanceFacts` (how the occupancy changes with each
index, and that 0 and Size - 1 are the empty and the full test). For the refinement the
abstract queue is the function of the slots from tail to head; a push appends at the step that
stores head, a pop removes at the step that stores tail, and every other step stutters.

Then the engine, for all limits, readings and timestamps that satisfy the assumptions of the
module: `FaultFollowsTemperature` (`FaultIffHot`) and `CommandsAreSafe` (`DischargeIsSafe`), from
`EngineInv`, which adds to both the types of the snapshot.

Last the scheduler, for every queue length and number of commands: `SchedulerTypes`,
`NoCommandLostOrRepeated` (`EveryCommandOnceInOrder`) and `TheLogIsTruthful` (`LogIsTruthful`). The two properties say
that the ids are in order; `SchedulerInv` says where each one is: the i-th write has id i, the i-th
command of the tick `Left + i`, the i-th of the queue `Left + Len(pending) + i`, and only the first command of a
tick can have been worked on. `TakesAll` shows that the copying loop takes the whole queue, because
everything in it is PENDING.

`ControlLoopProofs`, for a ring of any capacity and any readings, polls, restarts and failed inserts:
`TypeCorrect`, `SetpointsRestOnMeasurements` (`DischargeOnRecentSoc`) and `TheAuditGapIsBounded` (`AuditGap`). The
first property speaks of the moment of a decision; the induction follows every point on its way there. `Stream` is
the point in hand and the ring behind it. `SocComesFirst` says of every point in the stream that a SOC at most
`dropped` polls older is processed or precedes it, `TempComesFirst` the like of a temperature (with a ring of two or more; a
ring of one point may never let a temperature in), `InOrder` that timestamps never go back. `Based` keeps
the decision valid from the engine to the end of the tick, `Counted` bounds the ids by the points polled, and `Audited` counts the
rows that are missing against failed inserts and crashes, but for the command in hand.

`MqttSessionProofs`, for any number of descriptors and any batch: `SocketIsDisciplined` (`SocketDiscipline`) and `PacketsAreWhole`
(`WholePackets`). Whether a byte garbles a stream depends on who wrote before, so `SessionInv` adds `Mutex` (the
thread between lock and unlock is the owner), `Progress` (what the broker has read when a thread is at a given place of a
call) and `Settled` (a connection that will be reused is between two packets).

`EgressProofs`, for any number of rows and any batch, outages, crashes and failed statements: `TypeCorrect`,
`OnlyWrittenIsMarked` (`UploadedWasWritten`), `ReplayNeverOvertakes` (`ReplayInOrder`), `DuplicatesAreBounded`
(`DuplicatesBounded`). `NothingSkipped` says that a row the SELECT has passed over was written or is in the batch, although rows are
inserted and marked between two of its steps. `Budget` adds to the times a row was written those that are
still owed to it: one by a worker that holds it before its send, one by a replay that has it or can still fetch
it. A failed UPDATE or a crash can renew a debt, and each is paid for on the other side.

`LifecycleProofs`, for any number of boots: `TypeCorrect`, `NoThreadOutlivesItsData` (`NoUseAfterRelease`),
`EverythingIsReleased` (`NothingLeaks`). `Phases` ties the threads to the position of `main` (none before the first
`pthread_create`, none after the joins), `Held` says what is open in each phase, with the way out
of a failed `sqlite3_open` as a case of its own, `ReactorHeld` what the monitor holds.

`MetricsProofs`, for every capacity, batch and set of text lengths and any number of points and failures: `TypeCorrect`,
`TheCountersAddUp` (`CountersAddUp`), `TheFileIsWhole` (`FileIsWhole`). A counter lags behind its event by one step of
one thread; `Received`, `Handled` and `Accounted` turn each inequality into a balance that adds one for every
thread between an event and its increment. `Accounted` also bounds the replays: a row that is pending or
fetched was not counted as replayed yet. `Texts` says that a thread that has the file open alone finds
it as its own truncation left it, and gives every file that is not one whole text its reason: a failed write or open, or two threads in the file together.

`SupervisionProofs`, for all intervals, limits, lengths of a call and batches: `TypeCorrect`, `HealthyIsNotRestarted`
(`OnlyStuckIsRestarted`) and `HealthyIsNotReported` (`NoFalseAlarm`). The bound on a round adds up the monitor's calls and its
waits for the worker, so `SupervisionInv` follows the round call by call and row by row. `Places`, `Holding`, `Rows` and `Remaining` say where a
thread can be, which mutex it then has, how many rows the monitor has in hand (and that it replays them inside the session), and that nobody has
more than `CallMax` of a call left. `Due(n, r)` is the number of calls that can lie between WATCHDOG=1 and the monitor's call `n` with `r` rows
in hand; `DueGrows` shows, transition by transition, that the next call is due at least one call later, and two if this one may have to wait. `RoundOnTime` bounds
`silent`, the time since systemd was fed, at each place of the round by `Due` calls;
`RoundWaits` says that a monitor that waits has lost no more than the holder's call has used up, because the mutex goes to
the waiter. At the end stands `RoundMax = Interval + 2 + (5 * Batch + 12) * CallMax`, which `RoundFits` keeps below `WatchdogSec`.
`RoundOnTime` holds while nothing, or only the bus, is at fault: the ingress holds nothing the monitor needs.
`TurnOnTime` is the like for the age of the worker's stamp; there `Keeps` is needed, since the monitor keeps the session
over a whole replay: `Ahead` counts the sends and UPDATEs still to come, and while the worker waits for the session the monitor waits for nobody. In all
`(2 * Batch + 10) * CallMax`. `PollOnTime` does the same for the ingress. An age is capped above the limit it is compared with, so that the cap
hides no late stamp.

`FieldBusProofs`, for every registry, array length, set of plugins and register width: `TypeCorrect`, `BatchesAreComplete`
(`BatchIsComplete`), `CommandsFindTheBus` (`CommandFindsBus`), `TheReadingsAreTrue` (`ReadingsAreTrue`). `BusInv` adds
`Distinct` (no adapter is registered twice), `Protocols` (a slot has the protocol its adapter filled in until `modbus_init`
replaces it, so at most one has "rtu" or "tcp"), `Progress` (a read under way has a slot and room for three points; a
poll ends only at the end of the registry or the array), and `Within` (no adapter's points lie outside the batch). `ReturnedKeeps` is the heart
of it: an answer of any length up to the room left is appended behind the others. `ReadingsAreTrue` is arithmetic: a negative
value reads as at least half of `RegMod`, which lies above every limit that `RegisterAssumption` admits.

The assumptions are the ASSUMEs of the modules, named there (sizes and bounds are natural numbers, some of them
positive; thresholds and readings are integers); TLC evaluates them in the runs. Every inductive invariant was checked
with TLC before it was proved.

Only model-checked: all liveness (`PendingDrains`, `StopReleases`, `StopEnds`, `DeadMonitorIsReplaced`, `LowSocAlarmed`,
`GaugesSettle`, `LinkRecovers`, `StuckIsRestarted`, `StuckIngressIsReported` and the delivery half of `ImplementsFifo`), because the prover does no
fairness or ENABLED reasoning. Every safety property of a run is also proved.

## 6. Where documents and code disagree

| Run | What the counterexample shows |
|---|---|
| interlock | the rule in app.c:18 marks a temperature above the limit BAD and the engine ignores BAD points, so FAULT and BMS_TEMP_HIGH never occur in the gateway (device_model.h:122 names the transition) |
| egress_quality | replay sets every row to GOOD (storage.c:287), also those the rule marked BAD |

More are visible in the models and have no run of their own:

* A row written into a connection that has died unnoticed is marked uploaded and never replayed, while
  `运行时数据流.md` line 93 has it stay pending; `UploadedWasWritten` is what holds.
* With a broker that accepts and never answers, or an unreachable one behind `connect()`, the worker blocks and stores nothing more
  until the watchdog ends it (`StuckIsRestarted`); line 60 of `架构与设计.md` says storing goes on.
* Alarm and command ids restart at 1 with the process (device_model.h:196 and 217 call them globally increasing).
* Started from a shell, a write to a reset connection ends the gateway by SIGPIPE (`SigpipeKills` in `Egress`).
* A `sqlite3_open` that fails leaves its connection open (`StorageOpen` in `Lifecycle`); SQLite asks for a `sqlite3_close` in that case too. The
  process ends right after it.
* A signal between `signal()` and `atomic_init` in main is forgotten (`InitFlag` in `Lifecycle`; `StopEnds` leaves
  this case out).

## 7. Not modelled

* Log lines and the JSONL audit file: output only. A log line is three unlocked stdio calls (logger.c:32), so lines of
  three threads may interleave; the comment in the file asks for a mutex.
* The three heartbeat gauges of the metrics: copies of the ages in `Supervision`.
* Byte level: CRC16 (computed for a frame that is never sent), MQTT remaining length and packet buffers.
* `modbus_serial.c`, `mqtt_client.c`, the device online/offline counters: no thread of the gateway uses them.
* `config.c`: read once, before any thread; its values are the constants of the modules. Two values it lets through
  are assumed away there: a queue of less than two slots (the gateway fails at start-up, although
  `validate-config` accepts it) and a watchdog interval of 0 (the monitor's fallback loop never sleeps).
* The response timeout of libmodbus (modbus_libmodbus.c:55 passes it in microseconds only, and the library refuses a
  second or more) and name resolution (`inet_pton` takes no host names).
* `validate-config` and `storage-stats` of the CLI: they print what they load.
* SQLite, libmodbus, cJSON, the broker and systemd are external; what the gateway can see of them is in
  the models.

## 8. Plan

Done: the ring and its proofs, the engine and its proofs, the scheduler, the control loop, the
session, the egress path, the life cycle, the supervision, the metrics, the field bus.

Proved: all safety invariants and safety action properties of the runs, and the safety half of the ring's refinement.

Extensions that would fit: an abstract atomic session that `MqttSession` implements and `Egress` uses; the
MQTT remaining length against a decoder; the online/offline counters once a thread uses them.
