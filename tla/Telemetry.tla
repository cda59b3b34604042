------------------------------- MODULE Telemetry -------------------------------
(***************************************************************************)
(* From the sensor task to Home Assistant: what networkTask does with the  *)
(* messages SensorTask sends it (MQTTClient::publishSensorState), and what *)
(* is then shown of the pump.                                              *)
(*                                                                         *)
(* MqttSession says how a session begins and ends; here one may begin at   *)
(* any time, and without one a message is lost.  An activity text is       *)
(* published and forgotten; of a reading only isWatering is kept.          *)
(***************************************************************************)
EXTENDS SensorTask

VARIABLES
    shown,      \* Home Assistant shows the pump as running
    publishDue  \* nowMs - lastPublish_ >= publishIntervalMs

telemetry == <<shown, publishDue>>
allVars   == <<vars, telemetry>>

-----------------------------------------------------------------------------
(* Mutant: the test of the publish interval is the wrong way round. *)
MayPublishWithin(msg) == msg.forceUpdate \/ ~publishDue

MayPublish(msg) == msg.forceUpdate \/ publishDue

(* A reading is published and the interval begins anew. *)
PublishReading ==
    /\ NetworkReceives
    /\ Head(queue).type = "SENSOR_DATA" /\ MayPublish(Head(queue))
    /\ shown' = Head(queue).isWatering
    /\ publishDue' = FALSE

(* A message that is not a reading, comes too early or without a session,  *)
(* or that the transport refuses, is gone.                                 *)
DropMessage == NetworkReceives /\ UNCHANGED telemetry

(* A session begins with the last reading, if there is one, and with what  *)
(* the pump does at that moment.                                           *)
SessionBegins ==
    /\ shown' = watering /\ publishDue' = FALSE
    /\ UNCHANGED vars

(* "interval/set" can lengthen the interval that was over; to shorten it   *)
(* does what time does.                                                    *)
LengthenInterval ==
    /\ publishDue /\ publishDue' = FALSE
    /\ UNCHANGED <<vars, shown>>

PublishIntervalElapses ==
    /\ ~publishDue /\ publishDue' = TRUE
    /\ UNCHANGED <<vars, shown>>

-----------------------------------------------------------------------------
TelemetryInit ==
    /\ Init
    /\ shown \in BOOLEAN /\ publishDue \in BOOLEAN

TelemetryNext ==
    \/ Reading /\ UNCHANGED telemetry
    \/ PublishReading \/ DropMessage
    \/ SessionBegins
    \/ LengthenInterval \/ PublishIntervalElapses

(***************************************************************************)
(* SensorTask's fairness; time passes for the publish interval, too, and   *)
(* of the readings that may be published again and again one is.           *)
(***************************************************************************)
TelemetrySpec ==
    /\ TelemetryInit /\ [][TelemetryNext]_allVars
    /\ Fairness
    /\ WF_allVars(PublishIntervalElapses) /\ SF_allVars(PublishReading)

-----------------------------------------------------------------------------
(* Types *)
TelemetryTypeOK ==
    /\ TypeOK
    /\ shown \in BOOLEAN /\ publishDue \in BOOLEAN

(***************************************************************************)
(* A reading taken during a session is forced onto the screen or repeated  *)
(* when the broker is back, and the next ones may be held back by the      *)
(* publish interval, find the queue full or be lost.  The pump that has    *)
(* stopped is shown so in the end, where readings are periodic: outside of *)
(* manual mode, with water in the tank.  The interval is not lengthened    *)
(* for ever.                                                               *)
(***************************************************************************)
ShownCorrected ==
    /\ <>[](~manual /\ ~watering /\ tank = "ok")
    /\ <>[][~LengthenInterval]_allVars
    => <>[]~shown
=============================================================================
