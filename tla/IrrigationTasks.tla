--------------------------- MODULE IrrigationTasks ---------------------------
(***************************************************************************)
(* The watering controller seen from inside: three tasks call it, it has   *)
(* no lock, and a task of higher priority may preempt another between any  *)
(* two of its statements.                                                  *)
(*                                                                         *)
(*   mqtt       lwIP's tcpip thread, priority 3: handleModeCommand and     *)
(*              handleTriggerCommand                                       *)
(*   sensor     sensorTask, priority 2: update                             *)
(*   irrigation irrigationTask, priority 1: checkWateringTimeout           *)
(*                                                                         *)
(* FreeRTOS runs tasks of different priority one at a time (the kernel's   *)
(* default for configRUN_MULTIPLE_PRIORITIES), so a task steps only while  *)
(* the tasks above it sleep or wait.  A task can wait inside a call at the *)
(* sensor mutex and at the lock of stdout.  Times are abstracted to what   *)
(* the code asks of them: "expired" is what the timer check would find,    *)
(* "cooled" what canStartWatering would.                                   *)
(***************************************************************************)
EXTENDS Naturals

CONSTANT CommandModes   \* modes an MQTT command can select

Modes == {"OFF", "MANUAL", "TIMER", "HUMIDITY", "EVAPOTRANSPIRATION"}

ASSUME CommandModesAssumption == CommandModes \subseteq Modes

Tasks == {"mqtt", "sensor", "irrigation"}

Priority == [mqtt |-> 3, sensor |-> 2, irrigation |-> 1]

VARIABLES
    mode,        \* mode_
    isWatering,  \* isWatering_
    pump,        \* level of the pump pin
    expired,     \* now - wateringStartTime_ >= wateringDuration_
    cooled,      \* lastWateringTime_ = 0 or now - lastWateringTime_ >= cooldown
    pc,          \* the statement each task is about to execute
    ret,         \* where each task continues after start- or stopWatering
    arg,         \* the mode handleModeCommand is to set
    torn         \* observer: an OFF command has closed a session between the
                 \* statements that were opening it

vars == <<mode, isWatering, pump, expired, cooled, pc, ret, arg, torn>>

Labels ==
    {"idle",
     "mode71", "humidity", "recheck", "canStart", "mode76", "evapo", \* update
     "setMode", "setModeStop", "setModeStore", "trigger", "tank",    \* MQTT
     "startCheck", "startCool", "startFlag", "startTime", "startPump",
     "stopCheck", "stopFlag", "stopTime", "stopPump",
     "timeoutCheck", "timeoutTime"}

(* Where a task may wait for the sensor mutex or for the lock of stdout. *)
Waiting == {"idle", "recheck", "tank", "startFlag", "stopFlag", "setModeStop"}

(* Mutant: configRUN_MULTIPLE_PRIORITIES 1, one task on each core. *)
CanRunOnEitherCore(t) == TRUE

CanRun(t) == \A u \in Tasks : Priority[u] > Priority[t] => pc[u] \in Waiting

-----------------------------------------------------------------------------
(* Moves of one task's program counter. *)
At(t, label) == pc[t] = label /\ CanRun(t)
Goto(t, label) == pc' = [pc EXCEPT ![t] = label]
Call(t, label, back) == Goto(t, label) /\ ret' = [ret EXCEPT ![t] = back]
Return(t) == Goto(t, ret[t])

data == <<mode, isWatering, pump, expired, cooled>>

-----------------------------------------------------------------------------
(* startWatering *)
StartCheck(t) ==
    /\ At(t, "startCheck")
    /\ IF isWatering THEN Return(t) ELSE Goto(t, "startCool")
    /\ UNCHANGED <<data, ret, arg, torn>>

StartCool(t) ==
    /\ At(t, "startCool")
    /\ IF cooled THEN Goto(t, "startFlag") ELSE Return(t)
    /\ UNCHANGED <<data, ret, arg, torn>>

StartFlag(t) ==
    /\ At(t, "startFlag")
    /\ isWatering' = TRUE
    /\ Goto(t, "startTime")
    /\ UNCHANGED <<mode, pump, expired, cooled, ret, arg, torn>>

StartTime(t) ==
    /\ At(t, "startTime")
    /\ expired' = FALSE
    /\ Goto(t, "startPump")
    /\ UNCHANGED <<mode, isWatering, pump, cooled, ret, arg, torn>>

StartPump(t) ==
    /\ At(t, "startPump")
    /\ pump' = TRUE
    /\ Return(t)
    /\ UNCHANGED <<mode, isWatering, expired, cooled, ret, arg, torn>>

StartWatering(t) ==
    StartCheck(t) \/ StartCool(t) \/ StartFlag(t) \/ StartTime(t) \/ StartPump(t)

-----------------------------------------------------------------------------
(* stopWatering *)
StopCheck(t) ==
    /\ At(t, "stopCheck")
    /\ IF isWatering THEN Goto(t, "stopFlag") ELSE Return(t)
    /\ UNCHANGED <<data, ret, arg, torn>>

StopFlag(t) ==
    /\ At(t, "stopFlag")
    /\ isWatering' = FALSE
    /\ torn' = (torn \/ (t = "mqtt" /\ pc["sensor"] \in {"startTime", "startPump"}))
    /\ Goto(t, "stopTime")
    /\ UNCHANGED <<mode, pump, expired, cooled, ret, arg>>

StopTime(t) ==
    /\ At(t, "stopTime")
    /\ cooled' = FALSE
    /\ Goto(t, "stopPump")
    /\ UNCHANGED <<mode, isWatering, pump, expired, ret, arg, torn>>

StopPump(t) ==
    /\ At(t, "stopPump")
    /\ pump' = FALSE
    /\ Return(t)
    /\ UNCHANGED <<mode, isWatering, expired, cooled, ret, arg, torn>>

StopWatering(t) == StopCheck(t) \/ StopFlag(t) \/ StopTime(t) \/ StopPump(t)

-----------------------------------------------------------------------------
(* checkWateringTimeout; it is the tail of update and a round of the timer *)
TimeoutCheck(t) ==
    /\ At(t, "timeoutCheck")
    /\ Goto(t, IF isWatering THEN "timeoutTime" ELSE "idle")
    /\ UNCHANGED <<data, ret, arg, torn>>

(* Mutant: the elapsed time is compared the wrong way round. *)
TimeoutTimeSwapped(t) ==
    /\ At(t, "timeoutTime")
    /\ IF expired THEN Goto(t, "idle") /\ UNCHANGED ret
                  ELSE Call(t, "stopCheck", "idle")
    /\ UNCHANGED <<data, arg, torn>>

TimeoutTime(t) ==
    /\ At(t, "timeoutTime")
    /\ IF expired THEN Call(t, "stopCheck", "idle")
                  ELSE Goto(t, "idle") /\ UNCHANGED ret
    /\ UNCHANGED <<data, arg, torn>>

CheckWateringTimeout(t) == TimeoutCheck(t) \/ TimeoutTime(t)

-----------------------------------------------------------------------------
(* update, called by the sensor task; what the sensors say is left open *)
Update ==
    /\ At("sensor", "idle")
    /\ Goto("sensor", "mode71")
    /\ UNCHANGED <<data, ret, arg, torn>>

(* Mutant: the case HUMIDITY falls through to the next handler. *)
Mode71FallsThrough ==
    /\ At("sensor", "mode71")
    /\ IF mode = "HUMIDITY" THEN Call("sensor", "humidity", "evapo")
       ELSE Goto("sensor", "mode76") /\ UNCHANGED ret
    /\ UNCHANGED <<data, arg, torn>>

Mode71 ==
    /\ At("sensor", "mode71")
    /\ IF mode = "HUMIDITY" THEN Call("sensor", "humidity", "mode76")
       ELSE Goto("sensor", "mode76") /\ UNCHANGED ret
    /\ UNCHANGED <<data, arg, torn>>

(* handleHumidityBasedMode: a wet soil stops the session *)
Humidity ==
    /\ At("sensor", "humidity")
    /\ IF isWatering THEN Return("sensor") \/ Goto("sensor", "stopCheck")
                     ELSE Goto("sensor", "recheck")
    /\ UNCHANGED <<data, ret, arg, torn>>

(* shouldStartWatering reads the soil and the tank again *)
Recheck ==
    /\ At("sensor", "recheck")
    /\ Return("sensor") \/ Goto("sensor", "canStart")
    /\ UNCHANGED <<data, ret, arg, torn>>

CanStart ==
    /\ At("sensor", "canStart")
    /\ IF cooled THEN Goto("sensor", "startCheck") ELSE Return("sensor")
    /\ UNCHANGED <<data, ret, arg, torn>>

Mode76 ==
    /\ At("sensor", "mode76")
    /\ IF mode = "EVAPOTRANSPIRATION" THEN Call("sensor", "evapo", "timeoutCheck")
       ELSE Goto("sensor", "timeoutCheck") /\ UNCHANGED ret
    /\ UNCHANGED <<data, arg, torn>>

(* handleEvapotranspirationMode: invalid data falls back on the humidity   *)
(* handler, a dry soil starts, anything else only sets the sleep hint.     *)
Evapo ==
    /\ At("sensor", "evapo")
    /\ \/ Return("sensor")
       \/ isWatering /\ Goto("sensor", "stopCheck")
       \/ ~isWatering /\ Goto("sensor", "humidity")
       \/ ~isWatering /\ Goto("sensor", "startCheck")
    /\ UNCHANGED <<data, ret, arg, torn>>

SensorStep ==
    \/ Mode71 \/ Humidity \/ Recheck \/ CanStart \/ Mode76 \/ Evapo
    \/ StartWatering("sensor") \/ StopWatering("sensor")
    \/ CheckWateringTimeout("sensor")

-----------------------------------------------------------------------------
(* MQTT "mode/set" *)
ModeCommand(m) ==
    /\ At("mqtt", "idle")
    /\ arg' = m
    /\ Goto("mqtt", "setMode")
    /\ UNCHANGED <<data, ret, torn>>

SetMode ==
    /\ At("mqtt", "setMode")
    /\ Goto("mqtt", IF mode = arg THEN "idle" ELSE "setModeStop")
    /\ UNCHANGED <<data, ret, arg, torn>>

SetModeStop ==
    /\ At("mqtt", "setModeStop")
    /\ IF arg = "OFF" /\ isWatering THEN Call("mqtt", "stopCheck", "setModeStore")
       ELSE Goto("mqtt", "setModeStore") /\ UNCHANGED ret
    /\ UNCHANGED <<data, arg, torn>>

SetModeStore ==
    /\ At("mqtt", "setModeStore")
    /\ mode' = arg
    /\ Goto("mqtt", "idle")
    /\ UNCHANGED <<isWatering, pump, expired, cooled, ret, arg, torn>>

(* MQTT "trigger/set": manual mode only, refused when the tank is empty *)
TriggerCommand ==
    /\ At("mqtt", "idle")
    /\ Goto("mqtt", "trigger")
    /\ UNCHANGED <<data, ret, arg, torn>>

Trigger ==
    /\ At("mqtt", "trigger")
    /\ Goto("mqtt", IF mode = "MANUAL" THEN "tank" ELSE "idle")
    /\ UNCHANGED <<data, ret, arg, torn>>

Tank ==
    /\ At("mqtt", "tank")
    /\ \/ Goto("mqtt", "idle") /\ UNCHANGED ret
       \/ Call("mqtt", "startCheck", "idle")
    /\ UNCHANGED <<data, arg, torn>>

MqttStep ==
    \/ SetMode \/ SetModeStop \/ SetModeStore \/ Trigger \/ Tank
    \/ StartWatering("mqtt") \/ StopWatering("mqtt")

-----------------------------------------------------------------------------
(* irrigationTask: its sleep is over *)
IrrigationRound ==
    /\ At("irrigation", "idle")
    /\ Goto("irrigation", "timeoutCheck")
    /\ UNCHANGED <<data, ret, arg, torn>>

IrrigationStep ==
    \/ IrrigationRound
    \/ CheckWateringTimeout("irrigation") \/ StopWatering("irrigation")

(* Seconds pass only while nobody is busy inside a call. *)
Quiet == \A t \in Tasks : pc[t] \in Waiting

SessionElapses ==
    /\ Quiet /\ ~expired
    /\ expired' = TRUE
    /\ UNCHANGED <<mode, isWatering, pump, cooled, pc, ret, arg, torn>>

CooldownElapses ==
    /\ Quiet /\ ~cooled
    /\ cooled' = TRUE
    /\ UNCHANGED <<mode, isWatering, pump, expired, pc, ret, arg, torn>>

-----------------------------------------------------------------------------
Init ==
    /\ mode \in Modes
    /\ isWatering = FALSE /\ pump = FALSE
    /\ expired = TRUE /\ cooled = TRUE
    /\ pc = [t \in Tasks |-> "idle"]
    /\ ret = [t \in Tasks |-> "idle"]
    /\ arg = "OFF"
    /\ torn = FALSE

Next ==
    \/ Update \/ SensorStep
    \/ \E m \in CommandModes : ModeCommand(m)
    \/ TriggerCommand \/ MqttStep
    \/ IrrigationStep
    \/ SessionElapses \/ CooldownElapses

(***************************************************************************)
(* A call that has begun goes on, and a session's time passes.  The tasks  *)
(* above the irrigation task sleep between their rounds (vTaskDelay, the   *)
(* tcpip thread's mailbox), so it runs again and again although they keep  *)
(* preempting it: strong fairness.  No command and no update ever has to   *)
(* arrive.                                                                 *)
(***************************************************************************)
Fairness ==
    /\ WF_vars(MqttStep)
    /\ SF_vars(SensorStep)
    /\ SF_vars(IrrigationStep)
    /\ SF_vars(SessionElapses)

Spec == Init /\ [][Next]_vars /\ Fairness

-----------------------------------------------------------------------------
(* Types, and the continuation of a call is one its callers use. *)
TypeOK ==
    /\ mode \in Modes /\ arg \in Modes
    /\ isWatering \in BOOLEAN /\ pump \in BOOLEAN
    /\ expired \in BOOLEAN /\ cooled \in BOOLEAN /\ torn \in BOOLEAN
    /\ pc \in [Tasks -> Labels]
    /\ ret \in [Tasks -> {"idle", "mode76", "timeoutCheck", "setModeStore"}]

(***************************************************************************)
(* A pump that runs belongs to an open session, or a task is about to turn *)
(* it off.  Otherwise nothing in the program ever would: every stop looks  *)
(* at isWatering_ first.  The code does not keep it: an OFF that preempts  *)
(* the sensor task between isWatering_ = true and activateWaterPump(true)  *)
(* closes the session before its pump starts.                              *)
(***************************************************************************)
NoOrphanPump ==
    pump /\ ~isWatering => \E t \in Tasks : pc[t] \in {"stopTime", "stopPump"}

(***************************************************************************)
(* That is the only way: of all the interleavings of updates, triggers,    *)
(* mode commands and timer rounds, no other leaves the pump without a      *)
(* session.                                                                *)
(***************************************************************************)
OrphanOnlyByOff == torn \/ NoOrphanPump

(* However the tasks interleave otherwise, a running pump is turned off.   *)
PumpStops == pump ~> ~pump \/ torn

(* However the tasks interleave, a session ends. *)
SessionEnds == isWatering ~> ~isWatering
=============================================================================
