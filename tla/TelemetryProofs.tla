---------------------------- MODULE TelemetryProofs ----------------------------
(***************************************************************************)
(* Proofs about SensorTask and Telemetry, for any capacity of              *)
(* sensorDataQueue.                                                        *)
(***************************************************************************)
EXTENDS Telemetry, TLAPS

(* Up to a read, the LED shows what the last read of the tank found. *)
ErrorShownBefore ==
    pc \in {"top", "needs", "clear", "read", "readWater"} /\ waterLevelError => sensorError

(* After it, what the new one found; waterLevelError follows in Report. *)
ErrorShownAfter == pc \in {"update", "report"} /\ water = "low" => sensorError

IInv == TypeOK /\ ErrorShownBefore /\ ErrorShownAfter

-----------------------------------------------------------------------------
LEMMA InitInv == Init => IInv
<1> SUFFICES ASSUME Init PROVE IInv
  OBVIOUS
<1>1. <<>> \in Seq(Messages) /\ Len(<<>>) <= QueueSize
  BY QueueSizeAssumption
<1> QED BY <1>1 DEF Init, IInv, TypeOK, WaterReadings, ErrorShownBefore, ErrorShownAfter

(* A full queue stays as it is. *)
LEMMA SendKeepsBound ==
    ASSUME NEW msg \in Messages, queue \in Seq(Messages), Len(queue) <= QueueSize,
           Send(msg)
    PROVE  queue' \in Seq(Messages) /\ Len(queue') <= QueueSize
<1>1. CASE Full
  BY <1>1 DEF Send
<1>2. CASE ~Full
  BY <1>2, QueueSizeAssumption DEF Send, Full
<1> QED BY <1>1, <1>2

LEMMA NetworkReceivesInv == IInv /\ NetworkReceives => IInv'
<1> SUFFICES ASSUME IInv, NetworkReceives PROVE IInv'
  OBVIOUS
<1>1. queue' \in Seq(Messages) /\ Len(queue') <= QueueSize
  BY QueueSizeAssumption DEF IInv, TypeOK, NetworkReceives
<1> QED BY <1>1 DEF NetworkReceives, IInv, TypeOK, ErrorShownBefore, ErrorShownAfter,
           local, timers, world

(* The task's own steps. *)
LEMMA SensorStepInv == IInv /\ SensorStep => IInv'
<1> SUFFICES ASSUME IInv, SensorStep PROVE IInv'
  OBVIOUS
<1> USE DEF local, timers, world, IInv, TypeOK, ErrorShownBefore, ErrorShownAfter
<1>1. CASE HandleWateringStateChange
  <2>1. queue' \in Seq(Messages) /\ Len(queue') <= QueueSize
    <3>1. ActivityLog \in Messages
      BY DEF ActivityLog, Messages
    <3> QED BY <1>1, <3>1, SendKeepsBound DEF HandleWateringStateChange
  <2>2. post' \in {"none", "waiting", "due", "missed"}
    BY <1>1 DEF HandleWateringStateChange
  <2> QED BY <1>1, <2>1, <2>2 DEF HandleWateringStateChange
<1>2. CASE DetermineSensorReadNeeds
  BY <1>2 DEF DetermineSensorReadNeeds
<1>3. CASE ClearUpdateRequest
  BY <1>3 DEF ClearUpdateRequest
<1>4. CASE HandleWaterLevelError
  <2>1. CASE tank = "ok"
    BY <1>4, <2>1 DEF HandleWaterLevelError
  <2>2. CASE tank # "ok"
    <3>1. sensorError' = TRUE
      BY <1>4, <2>2 DEF HandleWaterLevelError, UpdateErrorLed
    <3> QED BY <1>4, <2>2, <3>1 DEF HandleWaterLevelError
  <2> QED BY <2>1, <2>2
<1>5. CASE ReadAllSensors
  <2>1. PICK othersValid \in BOOLEAN : sensorError' = (~othersValid \/ tank # "ok")
    BY <1>5 DEF ReadAllSensors, UpdateErrorLed
  <2>2. sensorError' \in BOOLEAN /\ (tank = "low" => sensorError')
    BY <2>1
  <2> QED BY <1>5, <2>2 DEF ReadAllSensors
<1>6. CASE UpdateController
  <2>1. watering' \in BOOLEAN
    BY <1>6 DEF UpdateController
  <2> QED BY <1>6, <2>1 DEF UpdateController
<1>7. CASE Report
  <2>1. queue' \in Seq(Messages) /\ Len(queue') <= QueueSize
    <3>1. SensorData \in Messages
      BY DEF SensorData, Messages
    <3> QED BY <1>7, <3>1, SendKeepsBound DEF Report
  <2>2. waterLevelError' \in BOOLEAN /\ (waterLevelError' => water = "low")
    BY <1>7 DEF Report
  <2> QED BY <1>7, <2>1, <2>2 DEF Report, WaterReadings
<1> QED BY <1>1, <1>2, <1>3, <1>4, <1>5, <1>6, <1>7 DEF SensorStep

(* What happens around the task. *)
LEMMA ReadingInv == IInv /\ Reading => IInv'
<1> SUFFICES ASSUME IInv, Reading PROVE IInv'
  OBVIOUS
<1> USE DEF local, timers, world, IInv, TypeOK, ErrorShownBefore, ErrorShownAfter
<1>1. CASE SensorStep
  BY <1>1, SensorStepInv
<1>2. CASE RequestUpdate
  BY <1>2 DEF RequestUpdate
<1>3. CASE ModeCommand
  BY <1>3 DEF ModeCommand
<1>4. CASE SessionStarts
  BY <1>4 DEF SessionStarts
<1>5. CASE SessionEnds
  BY <1>5, ZenonT(40) DEF SessionEnds
<1>6. CASE TankChanges
  BY <1>6 DEF TankChanges
<1>7. CASE ReadIntervalElapses
  BY <1>7 DEF ReadIntervalElapses
<1>8. CASE PostElapses
  BY <1>8 DEF PostElapses
<1>9. CASE ClockLap
  BY <1>9 DEF ClockLap
<1> QED BY <1>1, <1>2, <1>3, <1>4, <1>5, <1>6, <1>7, <1>8, <1>9 DEF Reading

-----------------------------------------------------------------------------
(* The composition adds two variables and leaves the task as it is. *)
TelemetryInv == IInv /\ TelemetryTypeOK

LEMMA TelemetryInitInv == TelemetryInit => TelemetryInv
BY InitInv DEF TelemetryInit, TelemetryInv, TelemetryTypeOK, IInv

LEMMA StutterInv == IInv /\ UNCHANGED vars => IInv'
BY DEF vars, local, timers, world, IInv, TypeOK, ErrorShownBefore, ErrorShownAfter

LEMMA TelemetryStepInv == TelemetryInv /\ [TelemetryNext]_allVars => TelemetryInv'
<1> SUFFICES ASSUME TelemetryInv, [TelemetryNext]_allVars PROVE TelemetryInv'
  OBVIOUS
<1>1. IInv'
  <2>1. CASE UNCHANGED vars
    BY <2>1, StutterInv DEF TelemetryInv
  <2>2. CASE Reading
    BY <2>2, ReadingInv DEF TelemetryInv
  <2>3. CASE NetworkReceives
    BY <2>3, NetworkReceivesInv DEF TelemetryInv
  <2> QED BY <2>1, <2>2, <2>3 DEF TelemetryNext, PublishReading, DropMessage,
             SessionBegins, LengthenInterval, PublishIntervalElapses, allVars
<1>2. shown' \in BOOLEAN /\ publishDue' \in BOOLEAN
  <2> USE DEF telemetry, allVars, TelemetryInv, TelemetryTypeOK, TypeOK
  <2>1. CASE UNCHANGED telemetry
    BY <2>1
  <2>2. CASE PublishReading
    <3>1. Head(queue) \in Messages
      BY <2>2 DEF PublishReading, NetworkReceives
    <3> QED BY <2>2, <3>1 DEF PublishReading, Messages
  <2>3. CASE SessionBegins
    BY <2>3 DEF SessionBegins
  <2>4. CASE LengthenInterval
    BY <2>4 DEF LengthenInterval
  <2>5. CASE PublishIntervalElapses
    BY <2>5 DEF PublishIntervalElapses
  <2> QED BY <2>1, <2>2, <2>3, <2>4, <2>5 DEF TelemetryNext, DropMessage
<1> QED BY <1>1, <1>2 DEF TelemetryInv, TelemetryTypeOK, IInv

(***************************************************************************)
(* The strengthened invariant of the sensor task, with the network task    *)
(* emptying its queue.                                                     *)
(***************************************************************************)
THEOREM Invariance == TelemetrySpec => []TelemetryInv
BY TelemetryInitInv, TelemetryStepInv, PTL DEF TelemetrySpec

(* Types; the queue never exceeds its capacity. *)
THEOREM TypeCorrect == TelemetrySpec => []TelemetryTypeOK
<1>1. TelemetryInv => TelemetryTypeOK
  BY DEF TelemetryInv
<1> QED BY <1>1, Invariance, PTL

(***************************************************************************)
(* Between rounds the error LED is on while the task knows the tank to be  *)
(* low, whatever it failed to read since.                                  *)
(***************************************************************************)
THEOREM LowWaterShown == TelemetrySpec => []LowWaterSignalled
<1>1. TelemetryInv => LowWaterSignalled
  BY DEF TelemetryInv, IInv, ErrorShownBefore, LowWaterSignalled
<1> QED BY <1>1, Invariance, PTL
=============================================================================
