# FlexBMS in TLA+

FlexBMS is a battery-management system: a *master* (STM32G491, FreeRTOS,
`Software/Master`) that measures a chain of MC33771C/MC33772C cell monitors,
switches a high-voltage battery on and off and talks to an inverter over CAN; a
*gateway* (ESP32, ESP-IDF, `Software/Gateway`) that connects the master to Wi-Fi,
MQTT, energy meters and a web interface and updates its firmware; and the *Companion*
(`Software/Companion`), the web interface itself. This directory models the parts
of it where order, interruption and failure decide whether it is correct, checks
them with TLC and proves the most important facts with TLAPS.

Paths below are relative to the repository (`src/`). `PROJECT.json` maps every
definition that models code to the lines it models, and lists what is hard to test in
this code ("hazards"), each with the properties that cover it or the reason why none does.

    tlc -workers 2 -config HvControl.cfg HvControl.tla     # one run
    tlapm HvControl_proofs.tla                             # one proof module

## 1. Inventory

All master tasks have the same priority and preempt each other: `mainTask` (20 ms:
PCC, ADC health, watchdog), `bmsTask` (50 ms: slave controller), `goodweCan`
(5 ms), `bmsUart` (10 ms). They share state through critical sections, one
recursive mutex (PCC), one timed mutex (measurement frame) and atomics. On the gateway
the main task runs one loop (UART, services, Wi-Fi, MQTT, update), beside the HTTP
server's task, the event task of ESP-IDF, the MQTT library's task, the SNTP callback and
the meters' worker.

### Master

| Component | State | Operations | Interacts with | Hard behaviour | Correct when |
|---|---|---|---|---|---|
| Fault manager (`FaultManager.cpp`) | active and latched BMS/HV bits, warnings, start-up, HV and critical flags | set/clear a bit, acknowledge, can-enable test, snapshot | called by every task; calls PCC's safe-off when a bit becomes active | the bit changes in a critical section, the safe-off follows after it | no blocking fault leaves the outputs on; acknowledgement cannot hide a present fault |
| PCC (`pcc.cpp`) | stage of the sequence, run request, update prepared/locked, sample counter | loop with its five handlers, run request, PREPARE/COMMIT, safe-off | fault manager, board I/O, slave controller (`isHVReady`), UART | holds its mutex while it tests permissions and drives outputs; faults arrive in between | contactor only through self-test and precharge; safe-off always wins |
| Board I/O and ADC (`BoardIO.cpp`) | DMA samples with a version, health counter, pins | DMA completion (interrupt), snapshot read, health update | PCC, fault manager | interrupt writes while a task copies; ages by unsigned differences | a snapshot is of one scan; three failures, not one, are a fault |
| Main task (`Code.cpp`) | - | start-up order, 20 ms loop | all of the above | start-up order against the other tasks | - |
| Slave controller, life cycle (`SlaveController.cpp`) | task state, retry counters, fault inputs, communication counter | bring-up in four stages, measurement cycle, communication check, register mailbox, calibration | fault manager, PCC, UART, CAN, watchdog | every exchange can fail; retries; monitors forget addresses after 1024 ms | a chain that answers is eventually measured; HV only on a measured chain; fault bits equal their inputs |
| BCC driver (`bcc/bcc*.cpp`, `MC33771C.h`) | message counters, baselines, register values in locals | register transfers, start-up diagnostics, measurements, fault status, coulomb counter | slave controller, TPL chain | a transfer fails half way through a diagnostic or a burst | nothing of a diagnostic is left behind; no frame of two conversions; a lasting fault is reported |
| Snapshot and CAN (`SlaveController.cpp`, `GoodweCan.cpp`) | latest and last valid snapshot, measurement frame, freshness flags | publish, hold, invalidate; inverter frames | BMS task writes, CAN and UART tasks read | computed before, stored after other tasks moved | inverter is never told stale data is fresh; permission goes away with a fault |
| Cell balancing (`SlaveController.cpp`, `BatteryBalancing.h`, `BalancingCharge.h`, `SelfDischarge.h`) | believed switch state, active masks, accounting time lines | disable, configure, pause/resume, selection, charge accounting | monitors, configuration, fault manager | partial failure over the chain, unconfirmed commands | the belief is right, dissipation is bounded, charge is counted only where it flows |
| SoC, energy, limits (`BatterySoc.h`, `BatteryLimits.h`, `TemperatureLimits.h`, `CurrentLimitGuard.h`, `CoulombCounterDelta.h`, `CoulombIntegration.h`, `EnergyCounter.cpp`) | counters, remainders, dwell timers, records in backup registers | integrate, saturate, rate-limit, calibrate | slave controller, RTC backup domain | wrap-around, saturation, carry of remainders, reset between two words of a record | no lost or invented charge; limits within their dwell |
| Runtime configuration (`RuntimeConfiguration.cpp`) | two flash slots | load, save, update one flag | UART services, boot | power loss, flash errors, versions | changes as a whole or not at all; nothing not asked for is lost |
| Watchdog (`Watchdog.cpp`, `BccBreadcrumb.cpp`) | progress counters, stalled sources, two backup words | report progress, refresh, classify | main and BMS task | refresh only if both progressed; three writers of one record | a stuck task resets the master, and the next boot says which |
| BMS UART link (`BmsUart.cpp`) | two parsers, queue of 3 frames, link flags, pending register read, event subscriptions | receive (interrupt), serve, publish, recover the receiver | gateway, USB, all services | queue full, link loss 1500 ms, 500 ms register time-out, DMA errors | one answer per request; late answers are not taken for others; the receiver comes back |
| RTC, status LED | calendar, light pattern | set/get | UART | - | - |

### Gateway and Companion

| Component | State | Operations | Hard behaviour | Correct when |
|---|---|---|---|---|
| UART v1 codec (`uart_v1`) | parser position | encode, decode | noise that looks like a header | the next frame is found |
| Runtime (`GatewayMain.cpp`) | link health (1.5 s), confirmation of a new gateway image (10 s stable, 180 s deadline) | one loop: UART chunk, heartbeat, Wi-Fi, MQTT, boot check, time sync, `poll` | it drives all the others, the HTTP and SNTP tasks run beside it | it never stops reading the UART; a new image is confirmed or rolled back |
| MQTT (`mqtt_client`) | per topic: acquired, pending, fresh, due; start retry 5-60 s; discovery and state to resend | publish, acknowledge, reconnect, run request, configure | three tasks without a lock | nothing acquired before a reset is chosen for publication after it, and what was chosen already is one message at most; a client comes back |
| Energy meters (`energy_meters`) | configuration with a generation, readings | worker polls meters, commits a reading; publisher | configuration changes during a poll | no reading appears under another meter |
| Firmware update (`firmware_update`) | phase, target, who owns the UART, begun erase, ROM loader operation and block, deadlines | upload from the HTTP task, frames and `poll` from the main loop | any command fails before or after it took effect, late and lost answers, power cycles | the UART is given back; complete means installed; a broken image is remembered |
| Wi-Fi manager (`wifi_manager`) | networks, scan and retry timers, setup AP (after 30 s, for 10 min, 60 s apart) | connect, fall back, reconfigure | event task against main task | attempts go on; connected means an address |
| Time sync (`time_sync`) | pending time with its generation, delivery in flight | SNTP callback (another task), hand to the master, complete | a newer answer during the hand-over | a reported time was set |
| HTTP/WebSocket API (`gateway_api`) | one service slot (sequence 1..255, 3 s) shared with MQTT and time sync; per client 16 reliable replies and one replaceable state per topic (`DeliveryQueue.h`) | parse, forward, deliver, retire silent sockets | concurrent clients, slow sockets, reused sequence and socket numbers | no "ok" without the service; a browser gets the answer to what was accepted from it; replies arrive once and in order |
| Status LED (`status_led`) | pattern | - | - | - |
| Companion transports (`src/transports`, `uartV1.ts`) | socket and reconnect timer, chain of services, promises by identifier, decoder | request, retry a refused read, receive, reconnect | pauses, time-outs and late answers while the socket changes | a command is sent once and on its own socket; a promise is settled, by its own answer unless the gateway misdelivers one |
| Companion UI (`main.ts`) | view model | render | - | - |

## 2. What is modelled

Modules checked on their own, as roots of a run:

| Module | Kind | Models |
|---|---|---|
| `HvControl` | state machine | fault manager, PCC, ADC health and the three tasks that use them |
| `HvSequence` | abstract spec | what the HV supervisor promises; implemented by `HvControl` |
| `HvControl_proofs` | proofs | invariants of `HvControl`, refinement of `HvSequence` |
| `BmsLifecycle` | state machine | the BMS task: bring-up, measurement cycle, fault inputs, snapshot |
| `BmsLifecycle_proofs` | proofs | its types, fault bits, HV permission and snapshots |
| `Stm32Port` | state machine (part) | the master as seen on the UART during an update |
| `FirmwareUpdate` | state machine | the gateway's update, its HTTP handler and main loop, composed with `Stm32Port` |
| `FirmwareUpdate_proofs` | proofs | its types, the accounting of installations, completion |

Modules that share a run with others of their kind. `MCRetained`, `MCTasks` and
`MCGateway` extend the first one of their list and instantiate the others; the variable
`explored` picks the one that moves, while the others rest in an initial state:

| Root | Module | Models |
|---|---|---|
| `MCRetained` | `RuntimeConfigStore` | two flash slots, the requests that rewrite them, the boot |
| | `ConfigRegister` | abstract spec: one register; implemented by `RuntimeConfigStore` |
| | `RetainedRecords` | charge counter and calibration in the backup registers |
| | `EnergyCounter` | exact energy counters and their record |
| | `CoulombCounter` | a monitor's wrapping charge registers and the driver's samples of them |
| | `MCRetained_proofs` | refinement of `ConfigRegister`; records, charge and energy for any sizes (not part of the run) |
| `MCTasks` | `CellBalancing` | bleed switches against the task's beliefs |
| | `CellBalancing_proofs` | its properties for any chain (not part of the run) |
| | `BccRegisters`, `BccDiagnosticPrograms`, `BccDiagnostics` | bring-up of a monitor: register transfers of initialisation and of twelve diagnostics |
| | `BccMeasurementCycle`, `BccMeasurement` | the measuring cycle of two monitors over a lossy line |
| | `CurrentLimits` | charge limit, its recovery, the inverter's guard and the CAN task |
| | `CurrentLimits_proofs` | its properties for any limit and dwell (not part of the run) |
| | `BmsUart` | services of the UART task over two links, register mailbox |
| | `UartFraming` | the four decoders of one byte stream |
| | `AdcScan` | sequence-locked samples under an interrupt, their age and health |
| | `MasterSupervision` | watchdog, stall classification, records over its reset |
| | `WifiManager` | station, scans and access point over three tasks |
| | `MCTasks_proofs` | limits, register mailbox, ADC scan, Wi-Fi, supervision and measuring cycle side by side (not part of the run) |
| `MCGateway` | `GatewayServices` | the single service slot, the browsers that come and go on a socket number, time synchronisation and run requests |
| | `GatewayDelivery` | a WebSocket's delivery queue, and its sends when the socket number is reused |
| | `MqttClient` | life cycle of the client and publication of acquired samples |
| | `EnergyMeters` | meters' configuration, worker and publication |
| | `BmsUartLink` | recovery of the master's receiver at the other end of the UART |
| | `GatewayTransport` | the Companion's socket, its chain of services and its promises |
| | `MCGateway_proofs` | services, deliveries, Companion, MQTT and meters side by side (not part of the run) |

The parts of one root share no state in the code beyond what each module's header names
as external, and a behaviour of one says nothing about the others; exploring them side by
side is exploring each by itself, under one configuration. Where components do interact
they are one module: the fault manager with PCC and the tasks around it, the update with
the master's end of the line, the service slot with time synchronisation, the limit with
the guard and the CAN task.

The configurations give constants their values and replace no definition, so that TLC and
TLAPS speak of the same definitions. `Programs`, the constant of `BccDiagnostics`, is
given the operator `DriverPrograms`, and `ProgramsAssumption` says so: as a constant, its
value is computed once. A few definitions are preceded or followed by a variant that no
other definition uses ("mutated form", "for mutation"): it is what a plausible bug would
look like, put in the definition's place to show that a property notices it
(`PROJECT.json`, "mutants").

### HvControl

`at` is the main task's position in `PCC::loop` and `IO::updateAdcHealth`,
`safeOff[t]` the position of task `t` inside `forceSafeOffFromFaultManager`,
`serving` the rest of a UART request. The code is cut exactly where another task
can see or change what follows:

- `UpdateError` is the critical section of `FaultManager::updateError`. A newly
  active bit only *owes* a safe-off: without the lock `DropRelay` and then
  `DropContactor` (`SafeOffDrop`), then `SafeOffLocked` under the PCC mutex.
- `PCC::loop` holds the mutex from `LoopRefresh` (or `LoopInvalid`) to `Publish`
  (`MainInLoop`); other tasks wait for it (`MutexFreeFor`), but set and clear faults
  and drop outputs meanwhile. `Energize` is the gap between the permission test of
  `handleSelfTest` and `startPrecharge`.
- A handler writes relay and duty apart, and drops of other tasks fall in between:
  `CloseContactor` is the duty (`pcc.cpp:323`) many calls after the relay (`:288`) of
  `HandlePrecharge`, `PullIn` the second write of the pull-in (`:346` after `:345`). So
  CONTACTOR_CLOSE may be seen with the relay off and the duty full, or the other way
  round, while a safe-off is owed. Other adjacent writes are one step: there a drop
  between the two leaves what a drop before or after both leaves.
- `PullInTime`: a hold duty once set says that the pull-in time is over. When a safe-off
  has just dropped it, the model lets the loop pull in again, which the code does not.
- Branches of one handler that differ in what they do to the state are actions of
  their own (`SelfTestNotReady`, `SelfTestFails`, `SelfTestPasses`).
- Voltages and elapsed times are nondeterministic: each test may go either way.
  `DeadlinePasses` is the prepared deadline; `Reset` any reset, including the one
  out of the ROM loader (`serving = "Rom"`, where no task runs).

Left out: warnings other than the watchdog reset, LEDs, console commands.

### BmsLifecycle

`at` is the position within a cycle, `updates` the fault reports that
`faultDetection` has still to make one by one. `inputs` are the fifteen
`bmsFaultInputs`; `updateFault` merges them into `active` through `mapFault`.
The chain is external: `healthy` says whether it must answer and `chain` how far it
is configured; `May(outcome, needed)` allows failure always when it is not healthy
and forces success only when it is healthy *and* configured as needed. HV is three
values (`off`, `starting`, `RUN`), moved by `StartHv`, `MoveHv` and by every newly
active bit - here in one step, because `HvControl` has the steps in between. The
snapshot keeps its `valid`, `fresh`, `safe` and `comm` bits; `draft` is the one put
together before it is stored.

Left out: numbers (limits, voltages); the transfers behind each outcome, which are in
`BccDiagnostics` and `BccMeasurement`; the register mailbox, which is in `BmsUart`.

### The monitors: BccRegisters, BccDiagnostics, BccMeasurement, CellBalancing

`BccRegisters` gives every register the driver touches as a record of its fields, a value
being the set of bits that are one. `BccDiagnosticPrograms` writes initialisation and the
diagnostics as sequences of transfers in the code's order, with their values and the
slots that stand for the driver's local variables; `BccDiagnostics` runs one transfer per
step against a monitor that keeps what is written, converts the registers it had at the
start of conversion, and forgets everything when it times out. Any transfer may fail;
what follows is what the code does then, which is often to return. A check's verdict is
right when the monitor was in the condition the check needs and arbitrary otherwise, so
that a leftover of one diagnostic can spoil the next. `Devices` has one faulty part at
most, in a monitor of either parity, with or without checked current sensing.

`BccMeasurement` steps through the cycle of `BccMeasurementCycle`. Of the message counter
only the distance `lag` between the monitor's count and the driver's is kept; of a value
its age in conversions. Reads store frame by frame until one is refused.

`CellBalancing` has two halves: what the monitors do (`driver`, `chan`, `paused`,
`expired`) and what the task believes (`known`, `active`, `masks`, `line`).
`Exchange(old, new, outcome)` is the one assumption on TPL: a confirmed command was
obeyed, an unconfirmed one may or may not have been. Each exchange that moves a switch is
a step, so that a condition may change or a fault be acknowledged between two monitors; a
measurement, which only pauses, is one step. `after` is the return point of
`disableCellBalancing`, which has five callers with different continuations.

Assumed: a global write whose echo is right is received by every monitor (nothing the
driver reads would tell otherwise); `SYS_DIAG` is cleared when diagnostic mode is left; a
diagnostic ends within the monitor's 1 s `DIAG_TIMEOUT`; cells stay within their limits
during start-up. Left out: the MC33772C variant, which `UserSettings.h:74` does not
select; which cells are balanced (any set of at most `MaxCells`); charge in mA ms.

### CurrentLimits

A unit of current is what a limit recovers in a second. `published` is
`publishedChargeCurrentLimitA`, `guard` the timer of `CurrentLimitGuard`, `snapshot` and
`lastValid` the two snapshots. `Cycle`, `FailEarly`, `FailLate`, `Restart` and their
start-up forms are the ways through the BMS task's cycle as far as they touch them;
`makeCodecData` and `sendEncodedFrame` are the CAN task, whose copy may be older than the
snapshot. Requested limits, readings and violations are nondeterministic.
Left out: discharging, the hot stop and the interpolated curves, which go alike or set
only the requested number. Assumed: HV closes only after a cycle has seen it open
(precharge takes seconds), and the CAN task is not late by a second.

### What outlives a reset: RuntimeConfigStore, RetainedRecords, EnergyCounter, CoulombCounter

A slot of `RuntimeConfigStore` is blank, torn or a record with version, generation and
four groups of fields: the two that short frames and old records lack are kept apart
because the code treats them apart. `SetConfig` and `SetBalancingEnabled` are the two
handlers up to `save()`; `EraseSlot`, `ProgramDoubleword` (four doublewords stand for the
record's) and `Verify` are `save()`; `Reply` sends the answer; `Reset` and `PowerLoss`
end in `Boot`. `Outcomes` is what a doubleword may leave behind when it fails.

In `RetainedRecords` and `EnergyCounter` a record is written by a program of single
stores, `StoreNext` by `StoreNext`, and a reset may come between any two;
`RetainedRecords` also has the UART task, which reads the calibration register by
register while the BMS task writes it. Checksums stand for the tuple they cover.
`EnergyCounter` integrates with the code's bit-by-bit division. `CoulombCounter` has the
monitor's wrapping registers, the writes and resets that clear them, and the driver's
baseline. The sizes of registers, counters and intervals are constants: small in the run,
any in the proofs.

### UART of the master: BmsUart, BmsUartLink, UartFraming

`BmsUart` is the UART task over both links, with the mailbox it shares with the BMS task;
a read is a ticket, so that an answer can be told from another. `BmsUartLink` is the
receiver: interrupts arm the DMA and count frames, the task recovers what failed or fell
silent, and may be preempted between reading the clock and comparing. `UartFraming` feeds
the decoders of master (UART and USB), gateway and Companion the same noise and then
heartbeats.

### AdcScan, MasterSupervision

`AdcScan` has one action per load of `readAdcSnapshot` and one for the interrupt; a time
is kept as its age. `MasterSupervision` counts time in refresh periods; `seen` and `later`
are the two reads of a counter by `Watchdog::loop`, which a report may fall between. A
hang is injected once between two resets, in a task or in a transfer that keeps the
kernel locked. `overtaken` is the unsigned difference of `Watchdog.cpp:79`, where the
time is read before the other task's report. Assumed: the BMS task reports at least
every 100 ms while it runs; the watchdog's period is the 500 ms of `BMS_Master.ioc`.

### The gateway's tasks

`GatewayServices` cuts a request where the mutex is given back: reserve, write, fail or
wait; an answer or a time-out frees the slot (`Conclude`) before the browser is told
(`Tell`). The slot keeps the socket number of the browser that asked and nothing else
(`GatewayApi.cpp:1274`); `Leave` does not touch it, and `Arrive` gives the number to the
next browser, who then gets the answer. `browser` counts the browsers of a number, so that
the model can tell what the code cannot. `loop` is the main task's place, `wire` what the
STM32 has received and not answered; it may answer late, in any order or never, but has
answered or dropped a request when its number comes round (`NotOutstanding`).
`GatewayDelivery` follows one socket number over several clients: `generation` is what tells
them apart. `MqttClient` is cut wherever the main task reads or writes what the library's
task or `configure()` writes; the use of a client that `configure()` has destroyed meanwhile
may fail or crash the gateway (`UsesDestroyed`, `Crash`). Of a sample, `old` says that a
reset was asked for since it was acquired, `late` that it was sent nevertheless. In
`EnergyMeters` a read in flight carries the configuration the worker copied; of a sample,
`of` is the meter it was taken of. `WifiManager` has the event queue between driver and
event task, `main` and `http` for the places of the two others, and a driver that may refuse
any call.

`GatewayTransport` is the Companion's end of the socket. The browser runs one callback at
a time and then what it made runnable (`Quiet` guards the callbacks, `Run` is the
continuation of a service), while views may call at any time; `serviceTail` lists the
services whose promise is open, in the order of the chain. A configuration request is
sent at once and waits beside them. `Foreign` is an answer meant for the browser that had
the socket number before: every browser counts its requests from `r1`, so that it may
carry the identifier of any request that waits.

Left out: discovery documents, events and the retained diagnostic state of MQTT, energy
topics (as pack, and as electrical samples), identity reads, JSON, HTTP parsing; the 1.5 s
between storing new Wi-Fi credentials and the restart.

### FirmwareUpdate, Stm32Port

`FirmwareUpdate` extends `Stm32Port` and shares its two lines. `at` is the place of the
main loop (UART chunk, boot check, `poll`), `frames` what is left of the chunk it has
read: all of it goes to `onFrame`, also after one frame has given the UART to the ROM
protocol. The HTTP task and the main loop interleave between calls; a call is one step
because each function writes only in phases in which those of the other task return at
once. Every operation of `poll` is an action of its own and may fail: before the
loader heard it (the flash unchanged), after it obeyed, or half way (`Erase` may lose any
set of blocks). A programmed cell may end up `damaged` and a block may be misread, so
that verification has something to find. `Restart` is any restart of the gateway, with
the roll-back of an image that was not confirmed; `forgot` is a history variable.

Deadlines are timers that are armed and pass at some later moment. The ten seconds of
stability are not a timer: they may have passed whenever the loop has seen the station
connected in an earlier pass.

Assumed of the surroundings: an upload lasts longer than a frame stays on the line
(`UploadOutlastsLine`: seconds against milliseconds); nobody flashes the STM32 by wire
while the gateway installs; the boot loader of ESP-IDF falls back from an unconfirmed
image and `esp_ota_begin` refuses while one runs.

Left out: progress and messages, the roll-back record in NVS (reported, never read by
the update), the manifest's syntax, the refusal while a service is in flight.

## 3. Runs

| Run | Spec, bounds | Shows |
|---|---|---|
| `hv_safety` | `HvControl`, 2 BMS bits, limits 3 and 3 (the code's) | types; outputs under a fault are being shut off (`FaultedOutputsAreShutOff`), by somebody with reason (`NoStaleSafeOff`); an update holds HV off; drives match stages, but for what a trip has dropped of them; `HvSequence` is implemented: one driver without the other only while a trip is on its way |
| `hv_liveness` | 1 BMS bit, limits 2 and 1, fair | a blocking fault ends with the outputs off; a prepared update ends if scans arrive |
| `hv_prepared_unsensed` | same | **violation**: without scans the prepared state never ends |
| `hv_run_request` | same, no fairness | **violation**: a fault takes the run request away |
| `bms_lifecycle` | `BmsLifecycle`, 2 monitors, budgets 3 and 3 (the code's), counters modulo 5, two inputs that share a bit, fair | bits equal inputs; HV only on a running BMS; snapshots, held or fresh, are what they say (`SnapshotsTellTheTruth`); a lasting fault takes the inverter's permission; a healthy chain gets measured |
| `bms_register_retry` | 1 monitor, fair | **violation**: the register-initialization fault never clears |
| `bms_comm_clear` | 1 monitor | **violation**: the communication fault clears without a good cycle |
| `config_store` | `MCRetained`: 2 values of the main fields + 1 rejected, 2 rates, 2 allowances, generations to 3; records with 2 calibrations and 2 levels; registers of 5 and 8 values, counters to 3 | the slots behave as one register; accepted means stored and in force; `RecordsTellTheTruth`: a reset anywhere leaves no record that says more than took place; `CountedOnce`: charge and energy are exact |
| `master_tasks` | `MCTasks`: 2 monitors of 2 cells (1 at a time); monitors with at most one faulty part; measuring period 2; 2 s dwell, limit of 2 units; queue of 2; 6 bytes of noise; 1 pending Wi-Fi event and 1 browser scan | see below |
| `gateway` | `MCGateway`: 1 socket number and 2 browsers that follow each other on it, sequences to 2, 1 time; 1 topic, 3 replies, 2 connections; 2 meter slots, 2 configurations; 3 calls of the Companion, a chain of 2, 1 retry, 2 sockets, 1 foreign answer to a socket; fair | see below |
| `gw_update` | `FirmwareUpdate`, 2 images of 2 blocks, 2 frames each way, power cycles of both sides, fair | the UART is given back and a broken image remembered (`InstallationIsAccountedFor`); complete means installed; installations and pending boots end |
| `gw_update_recovery` | same without power cycles, no fairness | **violation**: an STM32 update is accepted although the last one left no application |

`master_tasks` has one property per part, each a conjunction of the named properties of
the part's module:

- `BalancingIsContained` (`BelievedOff`, `BleedingIsBounded`), `CountedIsDischarging`,
  `ProgrammedWhileOff`: belief, dissipation, accounting and programming order of
  balancing hold when every exchange may fail.
- `DiagnosticsAreSound`: RUNNING starts with the registers as initialisation set them
  (but for the balancing driver's enable, `NUMB_ODD` and the averaging), thresholds moved
  by a test are masked while they are, and no verdict is wrong.
- `MeasurementsAreWhole`: a fresh frame is of one conversion on all monitors; a lost or
  damaged answer costs its cycle and at most the next; a lasting fault is reported.
- `LimitsHold`: a current is offered only after recovery and after as many seconds as it
  has units; the guard trips after its dwell, and whenever the samples of five seconds
  violate.
- `UartHolds`: a register read gets its own answer; every decoder finds the next frame
  within what a false header can swallow.
- `ScanIsTrusted`: voltages are of one scan; a stopped converter is reported.
- `SupervisionHolds`: tasks that run are not reset, one that hangs where it works or
  waits is, and the report names it.
- `WifiHolds`: connected means an address, mDNS goes with it, attempts go on, the recovery
  period is counted once.

`gateway` has three beside the types:

- `AnswersReachTheirBrowser`. Of the services: a browser waits exactly for its request that
  has the slot or whose answer is on its way (`AcceptedHasTheSlot`), an "ok" is only for a
  request that the STM32 has served, and goes to the browser that asked and waits for it
  or, when that one has left, to whoever is on its socket (`OkMeansServed`), the slot is
  freed by its own answer, failed write or time-out (`SlotIsFreedByItsOwn`), a reported
  time was set. Of a WebSocket: replies once and in order, one send under way. Of the
  Companion: only a refused read is sent again, nothing on a later socket than its own
  (`NeverReplayed`); a promise is settled by an answer to its own request, or by a foreign
  one, of which each settles one promise at most (`AnswersAreOwn`); `OneReconnectLoop`.
  That answers go *only* to the browser that asked does not hold, see Observed.
- `PublishedIsTrue`: nothing acquired before a reset was asked for is chosen after it
  (`NothingOldIsDue`, `OnlyNewAcquisitions`), and at most the one message that was chosen
  already is sent in spite of the reset, before the main task has applied it
  (`LateAtMostOnce`); no sample is sent twice; the state that gates publishing is the
  session's; no reading under another meter.
- `NothingWaitsForever`: requests are answered or their browser has left, the receiver is
  armed again, the broker gets a client, the worker the newest configuration, every
  promise of the Companion is settled.

Why the bounds suffice. Faults of the same owner are treated alike: two BMS bits allow one
to be set while another is cleared. The debounce limits are the code's in the safety runs.
`CounterSize` is 256 in the code; 5 (3 in the violated run) is above the budget and lets the
counter wrap, which is the case of interest. Two monitors are the smallest chain with a
"some but not all". Two cells with one allowed let a stale and a new selection exceed the
limit. Three generations with records found at 1 and 2 allow both slots to be rewritten in
either order; `save()` beyond `MaxGeneration` is not taken (the code's bound of 2^32 is
beyond the endurance of the flash). Two calibrations are an old and a new one, which is all
a mix needs. The small registers of `CoulombCounter` wrap between two samples that are far
enough apart, which the driver's tests must then drop; within an interval they trust none
can wrap unseen (`CoulombAssumption`). The energy sizes keep remainders, carries and
saturation. A measuring period of 2 has a cycle that measures and one that does not; the
code's is 5. Two images tell an old application from the new one, two blocks allow a partial
erase and a bad block before a good one, two frames let an answer and a stale heartbeat
share one chunk. Two sequence numbers come round at once, while the answer of the service
before may still be late; three calls fill the Companion's chain of two, and two sockets are
an old and a new one; one socket number competes with time synchronisation and run requests
for the slot, which treat another number alike, and two browsers on it are one that asked
and one that gets its answer. One foreign answer can settle any promise. Two connections
follow each other on one socket; a queue of one reply is full at once. Two configurations of
two slots let a meter move from one to the other, and to nobody. A dwell of two seconds
needs two intervals, a limit of two units recovers in two steps. One unhandled event and one
browser scan let either fall between any two steps of `tick`; `Fallbacks = {}` leaves the
primary network, as a build without local fallbacks does, and the second candidate is one
more entry of the same list. Six bytes hold a false header and a false start inside it. The
theorems of section 4 hold for all values of the constants of their modules.

### Fairness

- `HvControl`: `WF(MainTask)` and weak fairness of the lock-free steps, because the
  scheduler time-slices tasks of one priority and none blocks for ever outside the PCC
  mutex; `SF` of `SafeOffLocked`, because the main task releases the mutex every loop
  and FreeRTOS hands it to the waiter of highest priority and longest wait. Not fair:
  requests, faults, acknowledgements, resets, readings. `SF(LoopPrepared)` is a
  hypothesis of `PreparedStateEndsIfSensed` only; without it the property is the
  violated one.
- `BmsLifecycle`: `WF(BmsTask)` as a whole - some step of the task - and
  `WF(RetryDelayPasses)`, which is time. The chain is only assumed to answer where a
  property says so (`<>[]healthy`).
- `FirmwareUpdate`: `WF(MainLoop)`, since the loop blocks nowhere without a time-out;
  `WF` of the installation's timers (at most one is armed) and of the confirmation
  deadline, which is time. Nothing is assumed of clients, Wi-Fi, the line, the STM32 or
  power.
- `MCGateway` conjoins the fairness its modules state. `GatewayServices`: the main loop
  runs; the three seconds of a service pass, however often answers come in between (`SF`
  of `Expire`). `BmsUartLink`: time, the task, and a HAL that does not refuse for ever.
  `MqttClient`: the main task runs and ticks (frames alone do not keep it from ticking),
  the hold-off passes, and there is memory for a client in the end. `EnergyMeters`: the
  worker's task runs. `GatewayTransport`: continuations run, timers fire and a socket that
  is closing gets its close event, as browsers guarantee. Brokers, meters, users and
  stations owe nothing. One part runs in a behaviour, so that the conditions of different
  parts are stated together, on the disjunction of their actions.
- The other modules state safety only; their bounded timing (`MasterSupervision`,
  `AdcScan`, `CurrentLimits`) is a guard of the step that lets time pass.

### Findings

1. `FaultKeepsRunRequest`: `Documentation/main.typ:671` says a blocking fault does not
   erase a run request; `forceSafeOffFromFaultManager` (`pcc.cpp:435`) does.
2. `PreparedStateEnds`: `Documentation/protocol/uart-v1.md:726` says the prepared state
   expires after 3 s; `PCC::loop` (`pcc.cpp:541`) returns before it looks at the deadline
   while HV samples are invalid, and all services stay BUSY.
3. `RegisterFaultClears`: a failed `initializeRegisters` is retried after a delay in
   which the monitors lose their addresses, without assigning them again
   (`SlaveController.cpp:1914`; the comment at `:1951` states the reason why failed
   diagnostics do go back). `HealthyChainRuns` therefore names the exception
   `StuckInRegisters`. Register reads of the Companion can keep the monitors awake,
   which is why `RetryDelayPasses` may also leave the addresses intact.
4. `CommunicationFaultClearsOnGoodCycle`: after a trip the restart forgets the failure
   count, so the next failed check clears the fault (`SlaveController.cpp:1073`) which
   `uart-v1.md:529-531` says only a complete cycle clears.
5. `RejectsUntilRecovered`: `uart-v1.md:734-736` says that after a failure behind the
   erase the gateway rejects STM32 updates until it sees a heartbeat. The memory of the
   erase is a RAM flag (`FirmwareUpdate.cpp:57`); a gateway update is still accepted, and
   its restart forgets it. `BrokenImageIsRemembered` is what does hold.

### Observed

Narrow races that a module states as a property, that TLC finds under that module's
`Spec`, and that no run claims. Checking one takes a configuration with the constants of
the module and the property:

| Property | Code | What happens |
|---|---|---|
| `AdcScan!RefusedWhenOld` | `BoardIO.cpp:306`, `:117` | the tick is read before the time of the last scan; an interrupt in between makes a fresh scan look 49 days old, and the contactor opens |
| `BmsUartLink!SilenceIsReal` | `BmsUart.cpp:271` | likewise for the last frame: the link counts as lost for one pass (`uart-v1.md:138-139`) |
| `EnergyMeters!OfflineIsTrue` | `MqttClient.cpp:554` | likewise for the readings: a meter is shown offline for one pass (`rs485-energy-meters.md:113`) |
| `WifiManager!AddressEndsRecovery` | `WifiManager.cpp:811`, `:359-394` | an address that arrives while `startAccessPoint` runs leaves the gateway in recovery on a working link (Gateway `README.md:160`) |
| `GatewayServices!SampleStaysPending` (with `MaxSample = 2`) | `TimeSync.cpp:118-123`, `:133-137` | a newer network time that comes during the hand-over is marked as delivered with the older one (`TimeSync.h:25`) |
| `GatewayServices!AnswersReachTheirAsker` | `GatewayApi.cpp:1274`, `:1589`, `:1678` | the answer to a service goes to its socket number; when the browser has left, the next one of that number gets it, and since every Companion counts from `r1` (`GatewayTransport.ts:25`, `:180`) it may settle a promise of its own. A scan's answer likewise (`:1318`, `:1424`) |
| `MqttClient!NothingOldIsSent` | `MqttClient.cpp:312`, `:339` | a connection that is lost and made again between the test and the publication lets one old sample out in the new session (`AcquiredPublication.h:9-10`) |
| `CurrentLimits!RecoveryIsAlwaysGradual` | `SlaveController.cpp:1113`, `:1307` | a zero from a held or a locked snapshot leaves the published limit remembered, so the offer steps back at once (`main.typ:617`) |

Between `pcc.cpp:288` and `:323`, and between `:345` and `:346`, the first write of another
task's safe-off may fall: the contactor is then driven without the precharge relay, or the
relay without the contactor, until the safe-off gets the mutex. `HvSequence` admits such a
drive only while a trip is on its way.

Read but not run: `Documentation` speaks of one minute for the confirmation of a new
gateway image where the code has 180 s, and says that the setup AP offers no updates
where `isAvailable()` allows the gateway's own. `tick` of the MQTT client clears
`discoveryDirty` and `stateDirty` after publishing, and so loses a request that came
meanwhile. A failed `saveCredentials` leaves the new broker in force until a restart. A
`main.typ:606` that stops transmission on stale measurements meets held snapshots that
are sent on purpose (`SlaveController.cpp:1090`).

## 4. Proofs

For all values of the constants that satisfy the named assumptions, by TLAPS.

**HvControl** (`BmsFaultAssumption`: the fault names are disjoint; `LimitAssumption`:
limits are positive). `FaultedOutputsAreShutOff` is not inductive. Two things are
missing: in `StartPrecharge` the permission was tested one step earlier, and a fault may
have arrived since; and an acknowledgement may remove the block while a safe-off is on
its way. `IInv` adds that relay and duty are those of the stage unless a safe-off is owed
(`DriveIsWhole`), where the main task can be when outputs go on
(`EnergizeJustified`), that a stage beyond OFF has a request and a completed start-up
behind it (`StageSupported`), that any driving stage under a block is being shut off
(`DrivingStageIsShutOff`), who can owe a safe-off and for which bit
(`OwedForACondition`), and that an update leaves nothing to restart (`UpdateReleased`).
`Inductive` proves `Spec => []IInv`; from it follow `FaultedPathIsShutOff`,
`OutputsFollowStage`, `UpdateKeepsPathOff` and `SafeOffsAreTimely`. `TypeCorrect` comes
first. `ImplementsSequence` shows that every step is a step of `HvSequence` or leaves
its variables alone; the refinement mapping is the identity on stage, request and drives,
and a trip is under way while some task owes a safe-off (`tripping <- SafeOffOwed`).

**MCRetained** (`ConfigAssumption`, `NoneAssumption`; `RecordsAssumption`: the full level is
a level; `EnergyAssumption`: natural numbers, and a denominator other than zero;
`CoulombAssumption`: an interval the driver trusts is too short for its registers to wrap).
`RetainedInductive` is the conjunction of the four parts' invariants, from which
`RetainedTypeCorrect`, `RecordsTrue` and `Counted` follow.

- The store. `StoreInv` says: while a slot is being rewritten it is the one `load()` would
  not pick (`TargetIsSpare`), the record outranks the other slot (`RecordOutranks`), and
  its fields are those the request asks for whether evaluated before or after it takes
  effect (`RecordIsRequest`, `ReplyIsTrue`). From it `NoTie`, `FlagInForce`, `TypeCorrect`,
  and `StoreImplementsRegister`: with `stored <- Load(slots)`, programming the CRC is the
  abstract `Apply`, and everything else stutters or is `Ask`, `Reply` or `PowerLoss`.
- The backup registers. `RecordsTellTheTruth` looks at what a reset would find, so the
  invariant has to say what each prefix of a program of stores leaves behind. `Progress` gives
  the place: a count, or a calibration at its end of the old details, level, full level,
  time or details, `k` stores into that group. `CounterStored` and `TimeStored` say
  what the `k` stores have put there, `CounterSound` and `DetailsSound` that whatever carries
  a marker is whole, and `ValuesTrue` that each word the UART task has read so far is of some
  calibration, which is why two words of different ones fail the checksum.
- Charge. `CoulombInv`: while a monitor answers, its registers are those of the baseline
  moved by what has passed since (`FollowsBaseline`), modulo their sizes, and no more has
  passed than time allows (`FlowBound`). A difference of an interval that is trusted is then
  the charge itself and not a wrap of it.
- Energy. The bit-by-bit division is a recursion over the interval: `SummedIsExact` says that
  it returns quotient and remainder of the product. It is induction over data, which the
  library's theorems do not give here; the proof goes by a least number without the property
  (`Least`, from the well-foundedness of the naturals). `EnergyInv` says, as for the
  records, what the first `k` stores of `persist` leave (`StoredUpTo`).

**BmsLifecycle** (`CountAssumption`: at least one monitor, a positive trip count and retry
budget, a failure counter wider than the budget; `DetectableAssumption`: what can be
detected is in the detection order). `TypesHold` first, together with `UpdatesOK`: the
reports of a cycle are all made before the task goes on. `BitsMatchInputs` is inductive
with these. `HvOnlyOnRunningBms` is not: the task leaves RUNNING in the middle of a cycle,
and only because every way out sets a fault first does it find HV open. `FaultShutsOff` (an
active bit means HV off) and `StepsFollowState` (which state a step of the cycle belongs to,
which input a restart starts with) say so. `SnapshotsTellTheTruth` relates a snapshot
to the check of its cycle, which is some steps back: `CountMatchesWarning`,
`KeptInRunning` and `PublicationIsJustified` carry what was known when the draft was built
to the step that stores it. `Invariance` is their conjunction; `BitsMatch`,
`HvOnRunningBmsOnly` and `SnapshotsAreTrue` are the three properties.

**CellBalancing** (`BalancingAssumption`: a chain of at least one monitor, finitely many
cells, at least one of them allowed at a time). Each property rests on a loop over the
monitors that may be left after any of them. `DisablingProgress` and `ProgrammingProgress`
say what the loop has achieved for the monitors it has passed (an account that is closed; if
all was confirmed so far, a driver that is off and channels that are clear; then the
selection, with the driver still off), `ConfiguredUnpaused` that nothing is paused from a
complete measurement to the start of the pulse, `ChannelsAreSelected` that the
channels of a running monitor are those of one selection, and `RatedIsClosed` that
an account counts only a closed switch. `BalancingInvariance`; from it
`BalancingContained`, `CountedDischarges` and `ProgrammingNeedsDriverOff`. That
a set of allowed size stays of allowed size is where finiteness is needed.

**CurrentLimits** (`ParametersOK`: a positive limit, and a dwell longer than the second
between two frames to the inverter; 5 s in the code). The offer: `OfferIsGradual` adds to the
property that the *next* limit is no more than has had time to recover either, and
`HeldIsOffered` that a held snapshot brings back what was offered. The guard: its timer
counts no more than the time without compliance (`AccruedIsViolated`) and no less than an
unbroken chain of violating samples (`ChainAccrued`), one that tracks nothing has no past
(`IdleTimer`), and a violation is not a period old before the CAN task has sent a limit in
it (`ToldInTime`), which is where the dwell must outlast the period. `LimitsInvariance`;
`OfferFollowsRecovery`, `OfferRecoversGradually`, `GuardTripsRightly`.

**MCTasks** (`LimitsAssumption`, which implies `ParametersOK`; `WifiAssumption`: the event
queue holds at least one event; `MeasurementAssumption`: a measuring period other than
zero). A step of `AllNext` is a step of one part and leaves the variables of the others
alone, so that an invariant of a part is one of `AllSpec`. `LimitsAreKept` gets the four
properties of the limits that way. `PartsInvariance` holds five more: `MailboxIsPending`
(the request in the mailbox, the one being read and the answer in it are of the read that is
pending, or of none), from which `ReadsAreAnsweredRightly` - the half of `UartHolds` that is
about register reads; `ScanInv` (what each position of the copying loop has copied is of the
scan whose version it started with, and the count of failures follows the age of the scan),
from which `ScanCanBeTrusted`; `WifiInv` (a loss that has not been handled is in the queue,
the responder follows the link or is about to, one recovery is counted, an attempt is under
way, or its end is unheard, or the next one is scheduled), from which `WifiIsRight`; and two
that take a paragraph each.

`SupervisionInv`, from which `SupervisionIsRight`. That a running master is not reset and a
hanging one is are bounds on the age of the last refresh, and neither is inductive:
a report may fall between the watchdog's two reads of a counter, count for this round,
for the next, or for both. `RefreshRecent` bounds the age of the refresh, for each place of the
main task, by the ages of the two tasks (a refresh is withheld only for as long as one of them
was away), `ReportRecent` the age of a report nobody has consumed, or has just
consumed, and `IdleBounded` ties both to the tasks' periods. `BccNamed` and
`MainNamed` say that whoever stands still is in the stalled sources, and in the record,
before the watchdog can bite; `ResetNames` that the record survives to the boot.

`MeasurementInv`, from which `MeasurementsStayWhole`. `CycleTable` establishes what the 31
entries of the cycle's table are, and the parts of the invariant say what holds at which
of them: `LinksInStep` which monitors' counts agree in a cycle that nothing has disturbed yet,
`FrameIsOfOneConversion` that a complete set has one age, too low for the period unless it is
being replaced, `BuffersAreFresh` that between reading and converting a buffer is of this
conversion, and `LastingFaultIsKept` where a fault that lasts is on its way: latched in the
monitor up to the read, noted up to the clearing, combined up to the report.

**MCGateway** (`ClientsAssumption`: finitely many socket numbers, at least one, none named
like the two internal owners of the slot; `SequenceAssumption`, `BrowsersAssumption`,
`SampleAssumption`, `DeliveryAssumption`, `MetersAssumption`, `TransportAssumption`:
positive sizes and bounds). `AnswersInvariance` has three parts. `ServicesInv`: a request
being written or on the wire that has the slot's number is the slot's (`SlotIsOneRequest`),
because a number is not reused while its answer is outstanding (which `NotOutstanding`
assumes of the STM32: 254 services lie between); and the slot of a time has the time that is
in flight or about to be (`SlotHasTheTime`). `BrowsersHold`: the browser of the slot, and
that of an answer on its way, has its socket number or had it before, never one still to
come, and the one that has it now waits for one of the two and they are never both its own;
`TellingHolds` ties an answer on its way to the main task's place. `ServicesPromise` is what
each step then keeps. `DeliveryInv`: nothing in the hands of a task or of the server belongs
to a generation that is still to come, of the present one there is one send at most and
`sendPending` knows it, and the replies received, on their way and queued count up from one.
`TabInv`: identifiers are fresh and each belongs to one promise, a call that is sent again
is a read whose request was refused, the chain has begun only its first service. From it
`AnswersReachBrowsers`. `PublicationInvariance` is of the client (what was sent does not
wait, an old sample waits only where a reset has been requested, and when a message is
chosen it is due and none has been late, `ChosenIsDue`) and of the meters (a reading under
way is of the meter in the worker's copy, which is the configuration if it is of the present
generation); from it `PublishedTruly`. `TypesInvariance` is of the types, two of which rest
on a count: a socket's generation is at most twice the clients it has had, because a
delivery is put away and found anew at most once for each, and a task that is about to find
one anew holds what is left of its client's share (`DeliveriesAreCounted`); and an
identifier is given to an attempt of a call at most once, so that there are no more of them
than pairs of a call and an attempt (`IdsAreCounted`); from it `GatewayTypeCorrect`.

**FirmwareUpdate** (`PortAssumption`: at least one image, not named like a block without
one; `ResetsAssumption`). `BrokenImageIsRemembered` speaks of the flash, which the gateway cannot
see. It depends on what is still on the lines: a heartbeat sent before the erase and read
after it would wipe out the memory, and a second acceptance would send a second
COMMIT. `OneHandoff` says that of PREPARE, its acceptance and COMMIT at most one is under
way, `LoaderIsAlone` that no heartbeat is left once a loader that answered erases,
`AppIsBootable` that an application which runs, or has been heard, is in flash,
`StagesInOrder` which flags go with which operation, `FramesAreRead` that the frames still to
be handled are the front of the line, and `VerifiedIsInFlash` what a read-back has shown.
`UpdateInvariance`; `UpdateTypes`, `InstallationAccounted`, `CompletionIsInstallation`.

Model-checked only:

- all liveness, since fairness and ENABLED are outside the prover: `NothingWaitsForever`
  and the temporal properties of `hv_liveness`, `bms_lifecycle` and `gw_update`;
- the half of `UartHolds` about framing: it speaks of what four decoders, folds over a stream
  of bytes, yield for every stream, and their states have no relation simple enough to carry
  from byte to byte. No module declares a RECURSIVE operator;
- `DiagnosticsAreSound`: the invariant would have to say, for each of more than two hundred
  transfers, what the registers are behind it. `Programs` has one value
  (`ProgramsAssumption`) and `Devices` no parameter, so that TLC explores every case there is;
- `AllTypeOK` of `MCTasks` as a whole. Types of a part are proved where an invariant needs
  them (ADC scan, supervision, measuring cycle, Wi-Fi); not among them are the diagnostics
  and the decoders, for the reasons above. `MCRetained` and `MCGateway` are proved in full.

## 5. Not modelled, and why

- Encoders, status LEDs, RTC arithmetic, user interface, HTTP rendering: no state beyond a
  call, or pure I/O.
- Numbers nothing branches on: interpolated limits, the choice of the cells to balance,
  temperatures and voltages from raw values. The tests made on them are nondeterministic
  choices in the modules above.
- What the Companion shows of messages, and its USB transport beyond the decoder. The
  latter matches answers by a sequence of 255 numbers with 5 s each. Two things seen on
  the way: a port picker that is cancelled leaves the state "connecting"
  (`WebSerialTransport.ts:40`), in which `App.vue:115` hides the button that would open it
  again; and `connect` clears cells and temperatures but not the pack, energy and HV
  voltages of the connection before (`:44-49`), so that the first snapshot may carry them.
- A monitor that misses an unacknowledged global write; NMI after an ECC double error in a
  torn slot; two firmware versions alternating on one store; a failure between COMMIT and
  the erase: in `PROJECT.json` with the reason, or outside what one version of the code can
  tell.

## 6. Plan

The model covers the components that decide, and the safety properties of the runs are proved
but for those named at the end of section 4. What may still be added:

1. The diagnostics, one program at a time: each leaves masked what it moves, and the registers
   as it found them, whatever the transfer at which it fails. That is a lemma per
   program, of which the invariant is the conjunction.
2. The violated properties whose cause is repaired in the code turn into properties of the
   passing runs.
