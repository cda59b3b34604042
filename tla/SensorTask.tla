------------------------------ MODULE SensorTask ------------------------------
(***************************************************************************)
(* The sensor task (app/src/tasks/SensorTask.cpp): when it reads, what it  *)
(* reads, and what it reports through sensorDataQueue.                     *)
(*                                                                         *)
(* Around it, each at any time: the MQTT callbacks, which request an       *)
(* update and change the mode; the controller, whose sessions start and    *)
(* end; the network task, which drains the queue (Telemetry says what it   *)
(* does with a message).  Times are abstracted to the comparisons the task *)
(* makes with them; the read after a session is compared with an absolute  *)
(* time, and the clock wraps.  The activity LED and the log on stdout are  *)
(* left out.                                                               *)
(***************************************************************************)
EXTENDS Naturals, Sequences

CONSTANT QueueSize      \* capacity of sensorDataQueue

ASSUME QueueSizeAssumption == QueueSize \in Nat \ {0}

Messages ==
    [type : {"SENSOR_DATA", "ACTIVITY_LOG"}, isWatering : BOOLEAN, forceUpdate : BOOLEAN]

WaterReadings == {"invalid", "low", "ok"}

VARIABLES
    pc,               \* where the task is in a round
    wasWatering, waterLevelError, force,           \* its local variables
    water,            \* data.water of the reading under way
    readDue,          \* now - lastSensorRead >= the interval that applies
    post,             \* the read after a session: "none" is pending, "waiting"
                      \* for scheduledReadTime, "due", or "missed": the clock
                      \* wrapped before a round saw that it was due
    sensorError,      \* the error LED
    queue,            \* sensorDataQueue
    updateRequest,    \* MQTTClient::updateRequest_
    manual,           \* the controller's mode is MANUAL
    watering,         \* the controller's isWatering_
    tank              \* what the water sensor would say

local  == <<wasWatering, waterLevelError, force, water>>
timers == <<readDue, post>>
world  == <<manual, watering, tank>>
vars == <<pc, local, timers, sensorError, queue, updateRequest, world>>

-----------------------------------------------------------------------------
ActivityLog == [type |-> "ACTIVITY_LOG", isWatering |-> FALSE, forceUpdate |-> FALSE]

SensorData ==
    [type |-> "SENSOR_DATA", isWatering |-> watering, forceUpdate |-> force]

Full == Len(queue) >= QueueSize

(* Mutant: the queue has no limit. *)
SendUnbounded(msg) == queue' = Append(queue, msg)

(* xQueueSend without waiting: a full queue drops the message. *)
Send(msg) == queue' = IF Full THEN queue ELSE Append(queue, msg)

(* Mutant: the LED shows a low tank and no other trouble. *)
ErrorLedWaterOnly(othersValid, reading) == sensorError' = (reading = "low")

(* The error LED; a reading of the tank alone leaves the others invalid. *)
UpdateErrorLed(othersValid, reading) ==
    sensorError' = (~othersValid \/ reading # "ok")

(* Mutant: a message that does not fit takes the read with it. *)
WateringStateChangeUnlessFull ==
    /\ pc = "top" /\ pc' = "needs"
    /\ wasWatering' = watering
    /\ IF wasWatering = watering THEN UNCHANGED queue ELSE Send(ActivityLog)
    /\ post' \in IF wasWatering /\ ~watering /\ ~Full THEN {"waiting", "due"} ELSE {post}
    /\ UNCHANGED <<waterLevelError, force, water, readDue, sensorError, updateRequest, world>>

(* A round begins with a look at the session.  The sum now + 60 s may wrap, *)
(* and the comparison with it is then true at once.                         *)
HandleWateringStateChange ==
    /\ pc = "top" /\ pc' = "needs"
    /\ wasWatering' = watering
    /\ IF wasWatering = watering THEN UNCHANGED queue ELSE Send(ActivityLog)
    /\ post' \in IF wasWatering /\ ~watering THEN {"waiting", "due"} ELSE {post}
    /\ UNCHANGED <<waterLevelError, force, water, readDue, sensorError, updateRequest, world>>

(* Mutant: the read after a session is left out in manual mode, too. *)
PostDueNotManual == ~manual /\ post = "due"

PostDue == post = "due"

(* shouldPerformSensorRead: sensorReadInterval, or 15 s while the tank is   *)
(* known to be low, and then the read that is due is of the tank only.      *)
PeriodicDue == ~manual /\ readDue

\* Mutant: onlyWaterLevel is not reset for the read after a session.
FullReadDueUnlessLow == (PostDue \/ PeriodicDue) /\ ~(PeriodicDue /\ waterLevelError)

FullReadDue == PostDue \/ (PeriodicDue /\ ~waterLevelError)

DetermineSensorReadNeeds ==
    /\ pc = "needs"
    /\ pc' = CASE updateRequest -> "clear"
                [] ~updateRequest /\ FullReadDue -> "read"
                [] ~updateRequest /\ ~FullReadDue /\ PeriodicDue -> "readWater"
                [] OTHER -> "top"
    /\ post' = IF ~updateRequest /\ PostDue THEN "none" ELSE post
    /\ UNCHANGED <<local, readDue, sensorError, queue, updateRequest, world>>

ClearUpdateRequest ==
    /\ pc = "clear" /\ pc' = "read"
    /\ updateRequest' = FALSE
    /\ force' = TRUE
    /\ UNCHANGED <<wasWatering, waterLevelError, water, timers,
                   sensorError, queue, world>>

(* Mutant: a tank that has been filled is read, and nothing comes of it. *)
HandleWaterLevelErrorStays ==
    /\ pc = "readWater"
    /\ UpdateErrorLed(FALSE, tank)
    /\ readDue' = FALSE
    /\ pc' = "top"
    /\ UNCHANGED <<local, post, queue, updateRequest, world>>

(* handleWaterLevelError: nothing else is read until the tank is filled. *)
HandleWaterLevelError ==
    /\ pc = "readWater"
    /\ IF tank = "ok"
       THEN /\ waterLevelError' = FALSE
            /\ pc' = "read"
            /\ UNCHANGED <<sensorError, readDue>>
       ELSE /\ UpdateErrorLed(FALSE, tank)
            /\ readDue' = FALSE
            /\ pc' = "top"
            /\ UNCHANGED waterLevelError
    /\ UNCHANGED <<wasWatering, force, water, post, queue,
                   updateRequest, world>>

(* handleSensorRead, in three steps: read, update the controller, report *)
ReadAllSensors ==
    /\ pc = "read" /\ pc' = "update"
    /\ water' = tank
    /\ \E othersValid \in BOOLEAN : UpdateErrorLed(othersValid, tank)
    /\ UNCHANGED <<wasWatering, waterLevelError, force, timers, queue,
                   updateRequest, world>>

(* The cooldown of 5 min since the last session outlasts a round, so that  *)
(* the task has seen it end, and the 60 s until the read after it.         *)
Cooled == ~wasWatering /\ post # "waiting"

(* IrrigationController::update may start or stop a session. *)
UpdateController ==
    /\ pc = "update" /\ pc' = "report"
    /\ watering' \in {FALSE, watering \/ Cooled}
    /\ UNCHANGED <<local, timers, sensorError, queue, updateRequest, manual, tank>>

(* Mutant: the request is cleared once more, when it has been served. *)
ReportClears ==
    /\ pc = "report" /\ pc' = "top"
    /\ Send(SensorData)
    /\ waterLevelError' = (water = "low") /\ water' = "invalid"
    /\ readDue' = FALSE /\ force' = FALSE
    /\ updateRequest' = FALSE
    /\ UNCHANGED <<wasWatering, post, sensorError, world>>

(* The message is built and sent, and the caller notes what was read. *)
Report ==
    /\ pc = "report" /\ pc' = "top"
    /\ Send(SensorData)
    /\ waterLevelError' = (water = "low") /\ water' = "invalid"
    /\ readDue' = FALSE /\ force' = FALSE
    /\ UNCHANGED <<wasWatering, post, sensorError, updateRequest,
                   world>>

SensorStep ==
    \/ HandleWateringStateChange \/ DetermineSensorReadNeeds
    \/ ClearUpdateRequest \/ HandleWaterLevelError
    \/ ReadAllSensors \/ UpdateController \/ Report

-----------------------------------------------------------------------------
(* MQTT: "update/trigger" and "mode/set" *)
RequestUpdate ==
    /\ updateRequest' = TRUE
    /\ UNCHANGED <<pc, local, timers, sensorError, queue, world>>

ModeCommand ==
    /\ manual' = ~manual
    /\ UNCHANGED <<pc, local, timers, sensorError, queue, updateRequest, watering,
                   tank>>

(* A command starts a session; the timer or a command ends one. *)
SessionStarts ==
    /\ ~watering /\ Cooled
    /\ watering' = TRUE
    /\ UNCHANGED <<pc, local, timers, sensorError, queue, updateRequest, manual,
                   tank>>

SessionEnds ==
    /\ watering /\ watering' = FALSE
    /\ UNCHANGED <<pc, local, timers, sensorError, queue, updateRequest, manual,
                   tank>>

TankChanges ==
    /\ tank' \in WaterReadings \ {tank}
    /\ UNCHANGED <<pc, local, timers, sensorError, queue, updateRequest, manual,
                   watering>>

(* networkTask takes a message; what comes of it is in Telemetry. *)
NetworkReceives ==
    /\ queue # <<>> /\ queue' = Tail(queue)
    /\ UNCHANGED <<pc, local, timers, sensorError, updateRequest, world>>

ReadIntervalElapses ==
    /\ ~readDue /\ readDue' = TRUE
    /\ UNCHANGED <<pc, local, post, sensorError, queue, updateRequest, world>>

PostElapses ==
    /\ post = "waiting" /\ post' = "due"
    /\ UNCHANGED <<pc, local, readDue, sensorError, queue, updateRequest, world>>

(* now >= scheduledReadTime is false again once the clock has wrapped, and *)
(* true again only near the end of its next lap of 49 days.                *)
ClockLap ==
    /\ \/ post = "due" /\ post' = "missed"
       \/ post = "missed" /\ post' = "due"
    /\ UNCHANGED <<pc, local, readDue, sensorError, queue, updateRequest, world>>

-----------------------------------------------------------------------------
(* The first interval starts in the future, and is over or not by the time *)
(* the task starts.                                                        *)
Init ==
    /\ pc = "top"
    /\ wasWatering = FALSE /\ waterLevelError = FALSE
    /\ force = FALSE /\ water = "invalid"
    /\ readDue \in BOOLEAN /\ post = "none"
    /\ sensorError = FALSE /\ queue = <<>>
    /\ updateRequest = FALSE /\ manual \in BOOLEAN /\ watering = FALSE
    /\ tank \in WaterReadings

(* Everything but the network task *)
Reading ==
    \/ SensorStep
    \/ RequestUpdate \/ ModeCommand \/ SessionStarts \/ SessionEnds \/ TankChanges
    \/ ReadIntervalElapses \/ PostElapses \/ ClockLap

Next == Reading \/ NetworkReceives

(***************************************************************************)
(* The task polls every 100 ms, time passes, the network task polls the    *)
(* queue.  No command has to arrive, no session has to start or to end.    *)
(***************************************************************************)
Fairness ==
    /\ WF_vars(SensorStep) /\ WF_vars(NetworkReceives)
    /\ WF_vars(ReadIntervalElapses) /\ WF_vars(PostElapses)

Spec == Init /\ [][Next]_vars /\ Fairness

-----------------------------------------------------------------------------
(* Types; the queue never exceeds its capacity. *)
TypeOK ==
    /\ pc \in {"top", "needs", "clear", "read", "readWater", "update", "report"}
    /\ wasWatering \in BOOLEAN /\ waterLevelError \in BOOLEAN
    /\ force \in BOOLEAN
    /\ water \in WaterReadings /\ tank \in WaterReadings
    /\ readDue \in BOOLEAN /\ post \in {"none", "waiting", "due", "missed"}
    /\ sensorError \in BOOLEAN
    /\ queue \in Seq(Messages) /\ Len(queue) <= QueueSize
    /\ updateRequest \in BOOLEAN /\ manual \in BOOLEAN /\ watering \in BOOLEAN

(***************************************************************************)
(* Between rounds, a tank known to be low keeps the error LED on, although *)
(* the two are set in different places and the retry that fails to read    *)
(* the tank touches only the LED.                                          *)
(***************************************************************************)
LowWaterSignalled == pc = "top" /\ waterLevelError => sensorError

(***************************************************************************)
(* Every "update/trigger" is followed by a forced read that began after    *)
(* it, however it falls between the look at updateRequest_ and its reset.  *)
(***************************************************************************)
RequestServed == updateRequest ~> pc = "read" /\ force

ReadOwed == (wasWatering /\ ~watering) \/ post \in {"waiting", "due"}

(***************************************************************************)
(* The end of a session that a round has seen is followed by a full read,  *)
(* also in manual mode, with a low tank, a full queue and under a stream   *)
(* of update requests, unless the clock wraps between the time it was due  *)
(* and the round that would have seen it.  (A session that starts and ends *)
(* between the looks of two rounds is not seen, and gets no read.)         *)
(***************************************************************************)
PostWateringRead == ReadOwed ~> pc = "read" \/ post = "missed"
=============================================================================
