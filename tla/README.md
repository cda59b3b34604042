# Smart Plant Monitor: models, checks and proofs

The program is the firmware of a plant-watering device on a Raspberry Pi Pico 2 W
(RP2350, FreeRTOS SMP, lwIP): it reads soil, tank, light and climate sensors, runs a
water pump by one of five modes, talks to Home Assistant over MQTT, and is configured
through an access point opened with a button.  This directory holds TLA+ modules that
model its control, TLC configurations that check them on small instances, and TLAPS
proofs of the properties that matter most.  Paths below are relative to `src/`.

## 1. Inventory

### Tasks and threads

| who | priority | code | waits at |
|---|---|---|---|
| button task | 4 | `app/src/tasks/ButtonTask.cpp` | 50 ms delay |
| lwIP's tcpip thread (MQTT and DNS callbacks) | 3 | callbacks of `network/src/MQTTClient.cpp`, `MqttTransport.cpp` | its mailbox, the sensor mutex |
| sensor task | 2 | `app/src/tasks/SensorTask.cpp` | 100 ms delay, 500 ms in a soil read |
| network task | 2 | `NetworkTask.cpp` | 50 ms delay, delays while publishing |
| Wi-Fi task, irrigation task, LED task | 1 | `WifiTask.cpp`, `TaskEntry.cpp`, `LedTask.cpp` | delays, the command queue, the network |

They share `wifiCommandQueue` (2 commands), `sensorDataQueue` (5 messages), the flags
`apActive` and `apCancel`, the LED state, the flags of `MQTTClient`, and the
`IrrigationController`, which has no lock.  The `SensorController` has a recursive
mutex.

### Components

**IrrigationController** (`app/src/controllers/IrrigationController.cpp`).
State: mode, whether a session is open, its start and duration, the time of the last
stop, the sleep hint, the pump pin.  Operations: `update` (sensor task), `setMode` and
`startWatering` (MQTT callbacks), `checkWateringTimeout` and `nextSleepHintMs`
(irrigation task).  Hard: a 32-bit clock that wraps, the value 0 that means "never",
three callers without a lock, a timer task that sleeps up to 15 minutes.
Correct: OFF means idle; a run of the pump is bounded and ends; the cooldown is kept;
the timer is not early; no pump without a session.

**irrigationTask** (`app/src/tasks/TaskEntry.cpp:58`).  Checks the timer, then sleeps
for the hint.  Hard: nothing wakes it when a session starts.

**SensorTask**.  State: whether the last round saw a session, the read due after one,
the low-tank state, the time of the last read, the error LED.  Operations: one round
(look at the session, decide what to read, read, update the controller, report).
Hard: requests that come during a read, a full queue, the priority between four
reasons to read.  A session that starts and is ended by OFF between the looks of two rounds (`SensorTask.cpp:182`;
a round with a soil read takes over 500 ms) is never seen.
Correct: every request, and every session that a round has seen end, is followed by a
read; a low tank is signalled, and left when it is filled; a pump that has stopped is
shown as stopped, although the readings that say so are the ones that may be dropped.

**SensorController** and the **drivers** (`app/src/controllers/SensorController.cpp`,
`sensors/src`).  State: the initialised flag, the mutex, calibration.  Operations:
read all, read the soil, read the tank.  Hard: the mutex is held during a 500 ms soil
read, and an MQTT trigger waits for it in the network stack's own thread; half of a
water sensor may answer.  Correct: a trigger waits for one read only and every reader
finishes; the soil is sampled under power; a reading "ok" is of a tank that is at least a quarter full.

**MQTTClient**, **MqttTransport**, **networkTask** (`network/src`,
`app/src/tasks/NetworkTask.cpp`).  State: link ready, connected, announcement and
initial publish wanted, the last reading, the connection attempt.  Operations: `init`,
`loop`, `publishSensorState`, the connection callback, the command handlers.
Hard: the task and the tcpip thread write the same flags; a connection is finished or
dropped at any moment, half-way through an announcement that takes half a second.
Correct: one connection at a time; every lasting session is announced in full and
shown the last reading; a lost broker is dialled again.

**WifiTask**, **ButtonTask**, **ConnectionController** (`app/src/tasks`,
`app/src/controllers/ConnectionController.cpp`).  State: the command queue, `apActive`,
`apCancel`, three copies of the link state, the stored credentials and the copy read at
boot, the session's copy of the configuration, the Wi-Fi part of the error LED, the time of
the last attempt.  Operations: boot, retry, the access-point session (timeout, cancel, posted configuration), reboot;
press, hold and release of the button.  Hard: the button preempts the Wi-Fi task
between any two statements, the queue drops what does not fit, the page shows seconds of
what is stored in milliseconds, a client can hold the Wi-Fi task.  Correct: if no client does so
for ever, sessions end and a reboot that was accepted happens; a stop stops, MQTT is told the truth of the link, no copy goes stale, a device that
stays offline shows it, the page shows what is stored and loaded, saving a page unchanged keeps what it shows.

**FlashManager** (`utils/src/FlashManager.cpp`).  State: the last sector of the flash.
Operations: `saveConfig` (flush, erase, flush, program), `loadConfig`.  Hard: power
fails between any two pages; there is one copy only.  Correct: the device runs a whole
record, the newest, or none; what was saved is loaded.

**LedTask** (`app/src/tasks/LedTask.cpp`).  State: the network LED and when it was last
toggled.  Every 50 ms it copies the LED state, which three tasks write, to the pins.
Correct: the LED does not stay on when the MQTT session is gone.

**AppContext**, **main**, **Config.hpp**, **Types.hpp**: the shared
record, the start, the constants.  **DHCP server**: third-party.
**Tests** (`tests/`): stand-alone hardware checks that run none of the application.

`PROJECT.json` lists each component with the modules that model it, and every hazard
with its line and the properties that would catch it.

## 2. The modules

| module | models | time and data |
|---|---|---|
| `Pump` | what the controller promises: a pump that runs and rests within bounds | milliseconds |
| `Irrigation` | the controller and the timer task, one action per public call | millisecond clock modulo `W` |
| `MCIrrigation` | its instance for TLC | |
| `IrrigationProofs` | its invariant, six theorems, and that it implements `Pump` | |
| `IrrigationTasks` | the same controller, statement by statement, under preemption by priority | "elapsed" and "cooled" as flags |
| `IrrigationTasksProofs` | its invariant and three theorems | |
| `Link` | what the MQTT client may be told of the Wi-Fi link, and when | |
| `Provisioning` | button task, Wi-Fi task, access-point session, reboot, with the credentials each copy holds | intervals as flags or choices |
| `ProvisioningProofs` | its invariant, four theorems, and that it implements `Link` | |
| `ConfigStore` | what the device promises of its configuration: one record, replaced by a save | |
| `FlashStore` | saving and loading, page by page, with power loss | pages hold the configuration they came from |
| `FlashStoreProofs` | its invariant, three theorems, and that it implements `ConfigStore` | |
| `ConfigPage` | the provisioning page on top of `FlashStore`: load, show, post, save | a configuration is its interval, a number modulo `U` |
| `ConfigPageProofs` | it keeps the promise of `ConfigStore`, and four more theorems | |
| `Sensing` | three tasks reading through one mutex, the soil probe's power, the two halves of the tank sensor | waits as labels |
| `SensingProofs` | its invariant and five theorems | |
| `SensorTask` | the sensor task among commands, sessions and a full queue | intervals as flags |
| `Telemetry` | `SensorTask` and what the network task publishes of its messages | the publish interval as a flag |
| `TelemetryProofs` | its invariant and two theorems, one about `SensorTask` | |
| `MqttSession` | network task, tcpip thread, Wi-Fi task and LED task around one MQTT client | messages by the session they go to |
| `MqttSessionProofs` | its invariant, four theorems, and that it implements `Link` | |

**Irrigation.**  `ctl` is the controller's fields and the pump pin in one record, and
each method is an operator from record to record, so that `Update` composes as the code
does: hint reset, handler of the mode, timeout check.  `Elapsed` is the unsigned
difference of the code.  `delay` is what remains of the irrigation task's `vTaskDelay`;
`Tick` lets a due task be late by at most `Jitter`.  `recheck` is an input because
`shouldStartWatering` reads the sensors again, so it may disagree with the snapshot.
A stored mode outside the enumeration is handled by no branch of `update`, as TIMER and
MANUAL are, and is not listed apart.  `pumpRun` and `rest` are observers.

**Pump** knows no modes, sessions or timers: a pump is switched on when it has rested
(or when the last stop is forgotten, which the code's 0 for "never" allows at clock value
0), runs for at most `MaxRun`, and is switched off.  `ImplementsPump` is its specification
with `RunBound`, `Cooldown`, `ctl.pump`, `pumpRun` and `rest` for its parameters and
variables: a call of the controller is a switch or no step of the pump, and `Tick` is `Pass`.

**IrrigationTasks.**  One label per statement that reads or writes shared state; `ret`
is where a call returns to.  `CanRun` is FreeRTOS SMP with
`configRUN_MULTIPLE_PRIORITIES` at its default of 0 (`config/FreeRTOSConfig.h` does not
set it): two cores, but tasks of one priority at a time.  A task gives way to lower ones
only in `Waiting`: between rounds, at the sensor mutex, at the lock of stdout.

**Provisioning.**  One label per statement of the START command; the button's handlers
are one step each, because nothing that touches their state preempts priority 4.
Station connections succeed or fail; without credentials they fail.  A configuration is
its credentials: `flash` holds the stored ones, `startup` those of the copy that retries
use, `station` those the station is connected with.  `wifiError` is set by the connection
at boot and by retries only, as in the code.  `Restart` resets all but the flash.

A session is the loop of `runProvisioningLoop`: `LookAround` (its head, the only place where the
time and `apCancel` are looked at), `Select`, and the client that is served ("client", and "reply"
once its configuration is saved).  `lwip_recv` and `lwip_send` wait for the client as long as it
likes: the socket options of `ConnectionController.cpp:364` would need `LWIP_SO_RCVTIMEO` and
`LWIP_SO_SNDTIMEO`, which `config/lwipopts.h` does not define, and their results are ignored.  So
`ClientServed` is no step of the task and not fair: a client that sends nothing, or stops reading,
holds session, commands and retries for ever.  `PostMalformed` is `std::stoi` on an irrigation mode
that is no number, which without exceptions aborts the program before the save.

**Link** joins `Provisioning` and `MqttSession`, which model the same Wi-Fi task for different
questions: the first with every statement of a command, the second with just `wifiReady`.
`Link` says what the MQTT client may be told: that the link is gone when a session begins to
open, nothing during it, that the link is up only when it believed it down.  In both modules
`ImplementsLink` is the specification of `Link`, with the task's label mapped to `place`, so
that neither assumes of `setWifiReady` what the other does not do.

**ConfigStore** is what a user is promised of the configuration: one record or none, which
only a save changes; a power cut during a save costs the old record at worst, never leaves a
mixture and never brings back an older one.  `ImplementsStore` maps the pages of `FlashStore`
to it: the record is what `loadConfig` would return, the stage of a save follows from the label
(`SaveStage`); `Erase` is `Discard`, programming the page that completes the record is `Commit`,
and every other page is no step at all.

**FlashStore.**  The CRC is modelled by what it accepts: all pages of a record from one
save.  A power cut leaves any mix of old, erased and undefined pages during an erase, and
one undefined page during programming.  A failing flush of stdout or stderr ends
`saveConfig` before or after the erase.

**ConfigPage** extends `FlashStore` and adds `config`, the session's copy.  `Post` is
`updateConfigFromJson` followed by `SaveConfig` of what it returns; a body is what
`getJsonValue` finds in it, one number or nothing.  `Post` uses the flash only by `SaveConfig`, so
that every property of `FlashStore` carries over (`PageSteps`).  `ShownIsStored` joins the three
copies of a configuration, of which a save that fails half-way changes one or two.

**Sensing.**  A caller has a list of reads to make (`todo`); each takes the mutex, reads and
gives it back, and other callers come in between.  `FirstStep` is the early return of a sensor
that was missing at the start: only the climate and the light sensor can be, because the
other two drivers do not ask their device.  `Wet` counts the electrodes under water that
answer.  `tank` is an observer.

**SensorTask.**  One label per point at which another task may intervene.  `Cooled`
relates the controller to the task: the cooldown of 5 minutes is longer than a round and
than the 60 s delay of the read after a session, so no new session starts in between.
`post` is the read after a session; `scheduledReadTime` is an absolute time, so that a sum
that wraps is due at once, and one that was due is "missed" if the clock wraps before a
round sees it (`ClockLap`).

**Telemetry** extends `SensorTask`, whose `NetworkReceives` becomes `PublishReading` or
`DropMessage`.  `shown` is what Home Assistant shows of the pump.  A message is dropped
within the publish interval, without a session, and when the transport refuses it; a
session that begins publishes the last reading with the state of the pump at that moment.
An `interval/set` that shortens the interval does what time does.

**MqttSession.**  `npc`, `cpc` and `wpc` are where the network task, the connection
callback and the Wi-Fi task are.  `whole`, `announced` and `owed` are observers that
say what the current session has received.  `led` is the state the network task and the
Wi-Fi task write; the former looks and sets in two steps (`UpdateNetworkLed`,
`SetNetworkLed`).  `networkOn` is the pin, which `LedTask` makes of it.  DNS requests for one name count as one
attempt; a broker name replaced by a new `init` during an attempt is not represented.
A publish that the transport refuses is not retried by the code, and "sent" here means
handed to the transport of a live session.

Mutants (`...Unclamped`, `...Absolute`, `KeepCancel`, and others, each under a comment
that begins "Mutant:") are definitions with a plausible slip; they are used by no
specification, and show for each property an error it would catch.

## 3. What is checked

| run | module, configuration | properties | result |
|---|---|---|---|
| irrigation | `MCIrrigation.cfg` | `TypeOK`, `OffMeansIdle`, `PumpRunBounded`, `ImplementsPump`, `TimerNotEarly`, `PumpStops` | hold, 167 000 states |
| irrigation_overrun | `MCIrrigationOverrun.cfg` | `RunWithinMaxDuration` | **violated** |
| tasks | `IrrigationTasks.cfg` | `TypeOK`, `OrphanOnlyByOff`, `PumpStops`, `SessionEnds` | hold, 465 000 |
| tasks_orphan | `IrrigationTasksOrphan.cfg` | `NoOrphanPump` | **violated** |
| provisioning | `Provisioning.cfg` | `TypeOK`, `ReadyTracksLink`, `CopiesCurrent`, `CancelIsOwn`, `SessionEnds`, `ErrorShown`, `QueuedRebootHappens` | hold, 96 900 |
| prov_toggle | `ProvisioningToggle.cfg` | `StopMeansStop` | **violated** |
| prov_reboot | `ProvisioningReboot.cfg` | `AcceptedRebootHappens` | **violated** |
| config | `ConfigPage.cfg` | `TypeOK`, `RunsWholeRecord`, `SavedIsLoaded`, `ShownIsStored`, `ImplementsStore`, `ShownKept` | hold, 37 600 |
| config_omitted | `ConfigPageOmitted.cfg` | `OmittedKept` | **violated** |
| sensing | `Sensing.cfg` | `TypeOK`, `SoilReadPowered`, `TankNotOverstated`, `TriggerNotOvertaken`, `ReadersFinish` | hold, 45 900 |
| sensor | `Telemetry.cfg` | `TelemetryTypeOK`, `LowWaterSignalled`, `RequestServed`, `PostWateringRead`, `ShownCorrected` | hold, 272 000 |
| mqtt | `MqttSession.cfg` | `TypeOK`, `OneConnection`, `AnnouncedWhole`, `SessionAnnounced`, `ReadingShown`, `Redials`, `LedFollows` | hold, 79 100 |

Each property's comment in its module says what it means of the code.  `ImplementsLink` (of
both modules) and `OwedIsAsked` are proved and in no configuration.

### What the violated runs show

* **A session may run 180 times its maximum.**  `Config.hpp` bounds a session by
  `MAX_WATERING_DURATION_MS` = 5 s.  In EVAPOTRANSPIRATION the irrigation task sleeps up to
  15 minutes, a session that starts meanwhile does not wake it, and until the next
  `update` nobody looks at the timer.  What does hold is `PumpRunBounded`: a run ends
  within the longest sleep.
* **A pump with no session.**  OFF, handled in the tcpip thread, preempts the sensor task
  between `isWatering_ = true` and `activateWaterPump(true)`; the session is closed, then
  the pump goes on, and every later stop returns early.  `OrphanOnlyByOff` shows that no
  other interleaving does this.
* **Stop starts again.**  A press during an access-point session cancels it and also
  queues START; the next session opens at once.
* **A lost reboot.**  With two STARTs queued the REBOOT is dropped, and `rebootSent`
  keeps the button task from sending another.  No client needs to hold a session for it:
  `AcceptedRebootHappens` has the condition `ClientsFinish`, too.
* **A field left out is multiplied.**  `updateConfigFromJson` multiplies both intervals by
  1000 whether or not the body had them.  A body that leaves them out, or that arrives in a
  segment of its own after the headers, turns an hour into 41 days, and the next time into
  what remains modulo 2^32.

### Bounds, and why they are enough

* `irrigation`: `W` = 11, durations 1, 2, 3, cooldown 4, longest sleep 6, tick 1, jitter
  1, boot at 5.  The order of the constants is the code's (tick <= durations < cooldown,
  longest sleep above the longest duration), the clock is just longer than the longest
  run and the cooldown, as the assumptions ask, and every session, cooldown and sleep
  can straddle the wrap.  Nothing bounds the number of sessions or commands; the observer
  `pumpRun` stops counting one past `RunBound`, where `PumpRunBounded` is already false.
* `tasks`: no bound; the state is finite.  All modes at boot; commands for all but
  TIMER, which `update` and `setMode` do not tell from MANUAL.
* `provisioning`: `QueueSize` = 2, the code's own; two configurations with credentials, so that
  a copy can hold the wrong one, and one without.
* `config`: `U` = 7 in place of 2^32, `K` = 3 in place of 1000: neither divides the other, as in
  the code, products wrap, and there are intervals that are no whole seconds.  2 record pages
  and 4 buffer pages are the code's own: 452 bytes in pages of 256, a buffer of 1024.
* `sensing`: 4 and 8 electrodes in place of 8 and 12: one electrode is below 10 %, three are
  exactly 25 %.
* `sensor`: `QueueSize` = 1 in place of 5, the harshest value: two messages of one round do
  not fit, and every message that is waiting makes the next one be dropped.  The task asks
  for no more than whether the queue is full.  (Without `Telemetry`, the properties of
  `SensorTask` were checked with 2 as well: 351 000 states.)
* `mqtt`: no bound; the state is finite.

### Fairness, and what justifies it

* `irrigation`: time passes (`WF Tick`) and a due irrigation task runs.  No sensor reading
  and no command has to arrive.
* `tasks`: the tcpip thread, the highest of the three, goes on (`WF`); the sensor and the
  irrigation task go on whenever those above them sleep again and again (`SF`): their
  loops end in delays.  The session's time passes (`SF`, because it is observed only
  while nobody is inside a call).
* `provisioning`: the Wi-Fi task goes on, but for the labels at which it waits for a client; the
  session's time (`SESSION_TIMEOUT_MS`) and the 15 s between attempts pass, the button task polls.
  Nobody presses the button or posts a configuration, no attempt to connect has to succeed, and
  a client owes nothing.  `SessionEnds`, `ErrorShown` and `QueuedRebootHappens` are therefore
  conditional: they hold of the behaviours in which no client holds the task for good and none
  makes it abort (`ClientsFinish`), and TLC refutes all three without the condition.  With it,
  they still have to hold for any number of clients, one after the other: the mutant of
  `SessionEnds` renews the session's time with each.
* `sensor`: the task's loop, the network task's polling, and the passing of intervals, but
  not of the 49 days of the clock.  `ShownCorrected` alone also needs a transport that takes
  one of the readings it is offered again and again (`SF PublishReading`), and its formula
  excludes an interval that commands lengthen again and again, manual mode (no periodic
  readings) and a tank that is not full (nothing but the tank is read, nothing is reported).
* `mqtt`: the network task goes on; it finds its queue empty again and again (`SF
  QueueEmpty`), because it polls every 50 ms and a reading takes over 500 ms to make; a
  callback that began ends; 5 s and the blinking pass; the LED task goes on.  The broker, the DNS and the station owe nothing.
* `sensing`: a read that began goes on (`SF`: the tasks above sleep between their rounds, so the
  Wi-Fi task finds the mutex free again and again).  Nobody has to begin a read.
* `config`: safety only, no fairness.

## 4. What is proved

For every value of the constants that the named assumptions allow:

* `IrrigationProofs`, from `ConstantsAssumption` (the order of the durations, forecasts
  between the tick and the longest sleep, a clock longer than the cooldown and than
  `RunBound`): `TypeCorrect`, `OffIsIdle`, `BoundedRun`, `CooldownHolds`, `TimerHolds`,
  and `Refinement`: `Irrigation` implements `Pump`.
  `MaxDurationHolds` is the other side of the run irrigation_overrun: where no mode asks for a
  forecast (`NoForecastMode`, a condition on the sets of modes), every run ends within the
  maximum duration, one poll and the scheduler's delay.  Its invariant is that the hint and
  the task's sleep never exceed the active tick.
  `PumpRunBounded` is not inductive: a long `pumpRun` alone says nothing of the timer.
  The invariant `IInv` adds that the pin follows the flag (`PumpFollowsFlag`), that the
  clock's distance to the start of the session is the run's length
  (`SessionClock`, which is what makes the wrapped difference right), that the
  irrigation task wakes before the bound (`TaskCoversRun`: run plus remaining delay
  never exceeds what the bound allows), and that the clock's distance to the last stop
  is `rest` while that is below the cooldown (`CooldownClock`).  Each public call is one
  lemma about the operator, then one step of the invariance proof.  For the refinement, one
  lemma shows that a call switches the pump on only where `Pump` allows it, which needs
  `CooldownClock`, and another that `Tick` keeps to the bounds, which needs `TaskCoversRun`.
* `FlashStoreProofs`, from `FlashAssumption`: `TypeCorrect`, `WholeRecord`, `SavedLoads`,
  and `Refinement`: `FlashStore` implements `ConfigStore`.
  The invariant says which pages hold what at each label: during programming the pages
  before `page` hold the new record and the others are erased; outside of a save, a whole
  record in flash is the newest that began to be programmed.  For the refinement three lemmas
  say what `loadConfig` finds: nothing while a page of the record is missing, the record when all
  are there, and the same as before when the pages of the record did not change.

* `ConfigPageProofs`, from `FlashAssumption` and `PageAssumption`: the session's
  copy stays a configuration (`UpdateInRange`: the product is reduced modulo `U`), so that the
  theorems about `FlashStore` hold of the page.
  `PageRunsWholeRecord` and `PageKeepsPromise` (the page implements `ConfigStore`) then follow
  from `WholeRecord` and `FlashStoreProofs!Refinement`.  `PageShowsStored` holds because no session
  outlives a save and none is open when the device boots (`CopyFollowsFlash`).  `PageKeepsShown` is arithmetic: a
  product of whole seconds is no larger than what was stored, so that it does not wrap.
  `OmittedIsMultiplied` is the other side of config_omitted: whatever the width, a request without
  the interval changes every stored one that can be multiplied without wrapping.
* `SensingProofs`, from `SectionsAssumption` and `NoTaskAssumption`: `TypeCorrect`, `SoilIsPowered`,
  `TankIsCautious`, `NeverOvertaken`, `NobodyIsStuck`.  The invariant adds that the pin is high exactly while
  the holder of the mutex is between raising and lowering it.  `NobodyIsStuck` says without
  `ENABLED` that readers never wait for one another in a ring: the holder of the mutex can go
  on, because all above it wait, and with the mutex free the highest reader can.
* `IrrigationTasksProofs`, from `CommandModesAssumption`: `TypeCorrect`, `OnlyOffOrphans`
  and `NoOrphanWithoutOff`: a device whose commands never say OFF has no orphaned pump, so that
  the OFF of tasks_orphan is necessary and not only enough.
  Most statements only move a task (`Quietly`), and one lemma covers them.  The invariant
  adds `OpeningIsOpen`: a task between `isWatering_ = true` and the pump pin finds the flag
  still set, or an OFF has torn the session.  It needs the priorities: nothing below the
  opening task runs, and of what is above only an OFF stops.
* `ProvisioningProofs`, from `QueueSizeAssumption`: `TypeCorrect`, `ReadyIsTrue`,
  `CopiesAreCurrent`, `CancelsAreOwn`, and `Refinement`: `Provisioning` implements `Link`.
  The properties speak mostly of the moments between commands; the invariant follows each
  through a command: in a session, and before the first connection, the link is withdrawn
  (`AwayIsNotReady`).  `CopiesAreCurrent` holds because a
  flash that changes leads to a reboot (`StartupCurrent`) and because a session in which the
  station is not known to be down still has the credentials of before (`StationCurrent`).
* `MqttSessionProofs`, without assumptions: `TypeCorrect`, `OneAtATime`, `NoAnnouncementLost`,
  `OwedAsks`, and `Refinement`: `MqttSession` implements `Link`.
  The reset of `needsDiscovery_` is harmless because the task that publishes the discovery is
  the only one that dials: while it does, no newer session can come up (`DiscoveryAlone`).  `OwedAsks` is the safety under
  `ReadingShown`: a session that is owed the known reading has asked for it or is about to, and no
  interleaving of the task with the callbacks withdraws the request without publishing.
* `TelemetryProofs`, from `QueueSizeAssumption`: `TypeCorrect` and `LowWaterShown`, for the
  sensor task together with the network task.  The invariant follows the error LED through
  a round: up to the read it stands for `waterLevelError`, after it for the new reading.

Not claimed: that the pump runs on a tank with water only.  `TankNotOverstated` is about the
reading "ok"; a trigger command refuses an empty tank and waters on the readings "low" and
"invalid" as well (`network/src/MQTTClient.cpp:510`).

Model-checked only: every liveness property (`PumpStops`, `SessionEnds` and the other
leads-to formulas: liveness and ENABLED are beyond the prover).  Every invariant, every
action property and every refinement of a passing run is proved.

Not claimed: the cooldown under preemption.  With calls as atomic steps it is proved
(`CooldownHolds`, `ImplementsPump`).  In `IrrigationTasks` the pump may be switched on while
`cooled` is false: `stopWatering` clears `isWatering_` before it stores `lastWateringTime_`
(`app/src/controllers/IrrigationController.cpp:133`), and a start that preempts it in between,
and then waits for the lock of stdout while the stop goes on, was allowed by the session
before.  TLC gives the interleaving for `[][~pump /\ pump' => cooled]_vars`, with triggers alone.

## 5. What is not modelled

Register access and the floating-point formulas of the sensors, the DHCP server
(third-party), the text of HTTP and JSON, topics and payloads, the log, the activity LED and
the pin of the error LED.  `handleClientRequest` answers "ok" whether or not saving
succeeded; `Reply` does the same, and no property restates it.  The data race on the
strings of `MQTTClient::init` is listed as a hazard: its outcomes cannot be enumerated.  An MQTT payload is reassembled in a buffer of the
transport; that is not modelled.  The loss of a Wi-Fi link that was up is not either,
because nothing in the code notices it: `connected_` changes only where the station is
connected or an access point opened.  `MqttTransport::disconnect` and the last will are
never used, so that Home Assistant goes on showing a device that is gone as available.
The start of the program is sequential and ends before the scheduler runs.

## 6. Plan

Done, in this order: `Irrigation`, `IrrigationProofs`, `IrrigationTasks`, `Provisioning`,
`FlashStore`, `FlashStoreProofs`, `SensorTask`, `MqttSession`, `ConfigPage`,
`ConfigPageProofs`, `Sensing`, `SensingProofs`, `Pump` and the refinement of it,
`Telemetry`, the proofs about `Provisioning`, `MqttSession`, `Telemetry` and
`IrrigationTasks`, and `ConfigStore` and `Link` with the refinements of them: what waters a plant first, then what a user configures, then what a user is
told.

Next, modelling:

1. An abstract specification of the controller under preemption: `Pump` without its cooldown
   (see "Not claimed" above), with the orphan as a state of its own.
2. The soil percentage as a bounded function against a reference definition.
3. The reassembly of an MQTT payload around a drop.

Next, proofs: that `IrrigationTasks` implements it.

## 7. Running

`tlc -workers 2 -config <cfg> <module>` checks a run (under two minutes each);
`tlapm` on each module whose name ends in `Proofs` checks the proofs.
