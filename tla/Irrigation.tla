----------------------------- MODULE Irrigation -----------------------------
(***************************************************************************)
(* The watering controller (app/src/controllers/IrrigationController.cpp)  *)
(* and the task that runs its timer (irrigationTask, TaskEntry.cpp).       *)
(*                                                                         *)
(* Every public call of the controller is one action here; IrrigationTasks *)
(* looks inside the calls.  Time is the 32-bit millisecond clock of        *)
(* Utils::getTimeSinceBoot, which wraps: the clock counts modulo W.  The   *)
(* callers are the sensor task (update), the MQTT callbacks (setMode,      *)
(* startWatering) and the irrigation task (checkWateringTimeout), which    *)
(* sleeps for the time the controller last asked for.                      *)
(***************************************************************************)
EXTENDS Integers

CONSTANTS
    W,                \* the clock counts 0 .. W - 1 (2^32 in the code)
    BootTime,         \* clock value when the tasks start
    ActiveTick,       \* IRRIGATION_ACTIVE_TICK_MS
    MinDuration,      \* MIN_WATERING_DURATION_MS
    DefaultDuration,  \* DEFAULT_WATERING_DURATION_MS
    MaxDuration,      \* MAX_WATERING_DURATION_MS
    Cooldown,         \* WATERING_COOLDOWN_MS
    EvapoMaxSleep,    \* EVAPO_MAX_SLEEP_MS
    Forecasts,        \* sleep times the evapotranspiration forecast can give
    Jitter,           \* how late the scheduler may run a task that is due
    BootModes,        \* modes the stored configuration can select at boot
    CommandModes      \* modes an MQTT command can select

Modes == {"OFF", "MANUAL", "TIMER", "HUMIDITY", "EVAPOTRANSPIRATION"}

\* Sensor readings, by the thresholds the code compares them with.
SoilReadings  == {"invalid", "dry", "moist", "wet"}
WaterReadings == {"invalid", "empty", "low", "ok"}

Larger(a, b) == IF a > b THEN a ELSE b

(***************************************************************************)
(* The longest a pump run can be: the irrigation task either sleeps        *)
(* through the whole run, or polls it every ActiveTick.                    *)
(***************************************************************************)
RunBound == Larger(EvapoMaxSleep, MaxDuration + ActiveTick) + Jitter

ASSUME ConstantsAssumption ==
    /\ W \in Nat /\ ActiveTick \in Nat /\ MinDuration \in Nat
    /\ DefaultDuration \in Nat /\ MaxDuration \in Nat /\ Cooldown \in Nat
    /\ EvapoMaxSleep \in Nat /\ Jitter \in Nat /\ BootTime \in Nat
    /\ 0 < ActiveTick /\ ActiveTick <= EvapoMaxSleep
    /\ 0 < MinDuration /\ MinDuration <= DefaultDuration
    /\ DefaultDuration <= MaxDuration
    /\ Cooldown < W /\ RunBound < W /\ BootTime < W
    /\ Forecasts \subseteq ActiveTick .. EvapoMaxSleep
    /\ BootModes \subseteq Modes /\ CommandModes \subseteq Modes

VARIABLES
    now,       \* Utils::getTimeSinceBoot()
    ctl,       \* the fields of the IrrigationController and the pump pin
    delay,     \* time left of irrigationTask's vTaskDelay, <= 0 when due
    pumpRun,   \* observer: how long the pump has been on (0 when it is off);
               \* it counts no further than one past RunBound
    rest       \* observer: time since the pump went off, up to Cooldown

vars == <<now, ctl, delay, pumpRun, rest>>

Controllers ==
    [mode : Modes, isWatering : BOOLEAN, pump : BOOLEAN,
     wateringStartTime : 0 .. W - 1, lastWateringTime : 0 .. W - 1,
     wateringDuration : MinDuration .. MaxDuration,
     sleepHint : ActiveTick .. EvapoMaxSleep]

-----------------------------------------------------------------------------
(* Unsigned 32-bit subtraction, now - t. *)
Elapsed(t) == IF now >= t THEN now - t ELSE now - t + W

Clamp(d) == IF d < MinDuration THEN MinDuration
            ELSE IF d > MaxDuration THEN MaxDuration ELSE d

\* Mutant: the end of the cooldown compared as an absolute, wrapped time.
CanStartWateringWrapped(c) ==
    c.lastWateringTime = 0 \/ now >= (c.lastWateringTime + Cooldown) % W

CanStartWatering(c) ==
    c.lastWateringTime = 0 \/ Elapsed(c.lastWateringTime) >= Cooldown

\* Mutant: the duration is scaled but no longer clamped.
StartWateringUnclamped(c, d) ==
    IF c.isWatering \/ ~CanStartWatering(c) THEN c
    ELSE [c EXCEPT !.wateringDuration = d + MaxDuration, !.isWatering = TRUE,
                   !.wateringStartTime = now, !.sleepHint = ActiveTick,
                   !.pump = TRUE]

StartWatering(c, d) ==
    IF c.isWatering \/ ~CanStartWatering(c) THEN c
    ELSE [c EXCEPT !.wateringDuration = Clamp(d), !.isWatering = TRUE,
                   !.wateringStartTime = now, !.sleepHint = ActiveTick,
                   !.pump = TRUE]

StopWatering(c) ==
    IF ~c.isWatering THEN c
    ELSE [c EXCEPT !.isWatering = FALSE, !.lastWateringTime = now,
                   !.sleepHint = ActiveTick, !.pump = FALSE]

\* Mutants: the end of the session compared as an absolute time, which the
\* wrap of the clock puts out of reach, or wrapped, which makes it early.
CheckWateringTimeoutAbsolute(c) ==
    IF c.isWatering /\ now >= c.wateringStartTime + c.wateringDuration
    THEN StopWatering(c) ELSE c

CheckWateringTimeoutWrapped(c) ==
    IF c.isWatering /\ now >= (c.wateringStartTime + c.wateringDuration) % W
    THEN StopWatering(c) ELSE c

CheckWateringTimeout(c) ==
    IF c.isWatering /\ Elapsed(c.wateringStartTime) >= c.wateringDuration
    THEN StopWatering(c) ELSE c

\* Mutant: the mode changes under an open session.
SetModeOnly(c, m) == [c EXCEPT !.mode = m]

SetMode(c, m) ==
    IF c.mode = m THEN c
    ELSE [(IF m = "OFF" THEN StopWatering(c) ELSE c) EXCEPT !.mode = m]

NextSleepHint(c) == IF c.isWatering THEN ActiveTick ELSE c.sleepHint

-----------------------------------------------------------------------------
(***************************************************************************)
(* update(sensorData).  "data" is the snapshot the sensor task passes in,  *)
(* "recheck" what shouldStartWatering finds when it reads the soil and the *)
(* tank again (an uninitialised SensorController reads as FALSE), and      *)
(* "forecast" the clamped sleep time computed from the evaporation loss.   *)
(***************************************************************************)
Snapshots == [env : BOOLEAN, soil : SoilReadings, water : WaterReadings]

ShouldStartWatering(soil, water) == soil = "dry" /\ water = "ok"

Rechecks == {ShouldStartWatering(s, w) : s \in SoilReadings, w \in WaterReadings}

StopWhenWet(c, data) == IF data.soil = "wet" THEN StopWatering(c) ELSE c

HandleHumidityBasedMode(c, data, recheck) ==
    IF c.isWatering THEN StopWhenWet(c, data)
    ELSE IF recheck THEN StartWatering(c, DefaultDuration) ELSE c

HandleEvapotranspirationMode(c, data, recheck, forecast) ==
    CASE c.isWatering -> StopWhenWet(c, data)
      [] ~c.isWatering /\ (~data.env \/ data.soil = "invalid") ->
            HandleHumidityBasedMode(c, data, recheck)
      [] ~c.isWatering /\ data.env /\ data.soil # "invalid"
            /\ data.water # "ok" -> c
      [] ~c.isWatering /\ data.env /\ data.soil = "dry" /\ data.water = "ok" ->
            StartWatering(c, DefaultDuration)
      [] OTHER -> [c EXCEPT !.sleepHint = forecast]

HandleMode(c, data, recheck, forecast) ==
    CASE c.mode = "HUMIDITY" -> HandleHumidityBasedMode(c, data, recheck)
      [] c.mode = "EVAPOTRANSPIRATION" ->
            HandleEvapotranspirationMode(c, data, recheck, forecast)
      [] OTHER -> c

Update(c, data, recheck, forecast) ==
    CheckWateringTimeout(
        HandleMode([c EXCEPT !.sleepHint = ActiveTick], data, recheck, forecast))

-----------------------------------------------------------------------------
Init ==
    /\ now = BootTime
    /\ \E m \in BootModes :
         ctl = [mode |-> m, isWatering |-> FALSE, pump |-> FALSE,
                wateringStartTime |-> 0, lastWateringTime |-> 0,
                wateringDuration |-> DefaultDuration, sleepHint |-> ActiveTick]
    /\ delay = 0
    /\ pumpRun = 0
    /\ rest = Cooldown

(* The observers follow the pump pin. *)
Observe(c) ==
    /\ pumpRun' = IF c.pump /\ ctl.pump THEN pumpRun ELSE 0
    /\ rest' = IF ctl.pump /\ ~c.pump THEN 0 ELSE rest

(* sensorTask -> handleSensorRead -> update *)
SensorUpdate(data, recheck, forecast) ==
    /\ ctl' = Update(ctl, data, recheck, forecast)
    /\ Observe(ctl')
    /\ UNCHANGED <<now, delay>>

(* MQTT "mode/set" *)
ModeCommand(m) ==
    /\ ctl' = SetMode(ctl, m)
    /\ Observe(ctl')
    /\ UNCHANGED <<now, delay>>

(* MQTT "trigger/set": manual mode only, refused when the tank reads empty *)
TriggerCommand(water) ==
    /\ ctl.mode = "MANUAL"
    /\ water # "empty"
    /\ ctl' = StartWatering(ctl, DefaultDuration)
    /\ Observe(ctl')
    /\ UNCHANGED <<now, delay>>

(* One round of irrigationTask: check the timer, then sleep as hinted. *)
IrrigationTaskRound ==
    /\ delay <= 0
    /\ ctl' = CheckWateringTimeout(ctl)
    /\ delay' = NextSleepHint(ctl')
    /\ Observe(ctl')
    /\ UNCHANGED now

(* A millisecond passes; a task that is due runs within Jitter of them. *)
Tick ==
    /\ delay > -Jitter
    /\ now' = IF now = W - 1 THEN 0 ELSE now + 1
    /\ delay' = delay - 1
    /\ pumpRun' = IF ~ctl.pump THEN 0
                  ELSE IF pumpRun <= RunBound THEN pumpRun + 1 ELSE pumpRun
    /\ rest' = IF rest < Cooldown THEN rest + 1 ELSE rest
    /\ UNCHANGED ctl

Next ==
    \/ \E data \in Snapshots, recheck \in Rechecks, forecast \in Forecasts :
          SensorUpdate(data, recheck, forecast)
    \/ \E m \in CommandModes : ModeCommand(m)
    \/ \E water \in WaterReadings : TriggerCommand(water)
    \/ IrrigationTaskRound
    \/ Tick

(***************************************************************************)
(* Time passes and the scheduler runs the irrigation task when it is due.  *)
(* Nothing is assumed of the sensor task or of MQTT.                       *)
(***************************************************************************)
Spec == Init /\ [][Next]_vars /\ WF_vars(Tick) /\ WF_vars(IrrigationTaskRound)

-----------------------------------------------------------------------------
(* Types of the state: durations stay clamped and sleep hints in range. *)
TypeOK ==
    /\ now \in 0 .. W - 1
    /\ ctl \in Controllers
    /\ delay \in -Jitter .. EvapoMaxSleep
    /\ pumpRun \in 0 .. RunBound + 1
    /\ rest \in 0 .. Cooldown

(***************************************************************************)
(* Mode OFF means a dry plant bed: whatever sequence of updates, commands  *)
(* and timer rounds led to mode OFF, no session is open and the pump pin   *)
(* is low (setMode stops a session before it stores the mode, and no other *)
(* call starts one in mode OFF).                                           *)
(***************************************************************************)
OffMeansIdle == ctl.mode = "OFF" => ~ctl.isWatering /\ ~ctl.pump

(***************************************************************************)
(* No run of the pump outlasts RunBound, even across the wrap of the clock *)
(* and when nobody but the irrigation task looks at the timer.             *)
(***************************************************************************)
PumpRunBounded == pumpRun <= RunBound

(***************************************************************************)
(* The pump never restarts within Cooldown of its last stop, with the one  *)
(* exception the code has: lastWateringTime_ = 0 stands for "never", so a  *)
(* stop in the very millisecond in which the clock is 0 is forgotten.      *)
(***************************************************************************)
CooldownRespected ==
    [][~ctl.pump /\ ctl'.pump => rest = Cooldown \/ ctl.lastWateringTime = 0]_vars

(***************************************************************************)
(* The irrigation task's timer never cuts a session short, also when the   *)
(* clock wraps during the session.                                         *)
(***************************************************************************)
TimerNotEarly ==
    [][IrrigationTaskRound /\ ctl.pump /\ ~ctl'.pump
         => pumpRun >= ctl.wateringDuration]_vars

(***************************************************************************)
(* The controller keeps the promise made in Pump: runs no longer than      *)
(* RunBound, rests no shorter than Cooldown, whoever calls it and wherever *)
(* the clock wraps.  A call may close a session or open one, never both.   *)
(***************************************************************************)
Promise == INSTANCE Pump WITH
    MaxRun <- RunBound, MinRest <- Cooldown,
    on <- ctl.pump, run <- pumpRun, rest <- rest,
    forgotten <- ctl.lastWateringTime = 0, zero <- now = 0

ImplementsPump == Promise!Spec

(* Every run of the pump ends, with no help from sensors or MQTT. *)
PumpStops == ctl.pump ~> ~ctl.pump

(***************************************************************************)
(* What Config.hpp promises with MAX_WATERING_DURATION_MS, granting the    *)
(* timer its polling interval and the scheduler its delay.  It holds while *)
(* nobody selects EVAPOTRANSPIRATION.  In that mode it does not: the       *)
(* irrigation task may be asleep for EvapoMaxSleep when a session starts,  *)
(* and nothing wakes it.                                                   *)
(***************************************************************************)
RunWithinMaxDuration == pumpRun <= MaxDuration + ActiveTick + Jitter
=============================================================================
