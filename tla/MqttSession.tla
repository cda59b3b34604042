----------------------------- MODULE MqttSession -----------------------------
(***************************************************************************)
(* The MQTT session: MQTTClient::loop as networkTask calls it, the         *)
(* transport under it, whose callbacks run in lwIP's tcpip thread, and the *)
(* Wi-Fi task, which says when the link is ready.  The network LED is here *)
(* because the network task and the Wi-Fi task both write it.              *)
(*                                                                         *)
(* The network task begins a connection, and only it; the tcpip thread     *)
(* finishes and drops connections at any moment between the task's         *)
(* statements.  Topics and payloads are left out: what counts is which     *)
(* session a message goes to.                                              *)
(***************************************************************************)

LedStates == {"OFF", "CONNECTING", "PROVISIONING", "CONNECTED", "MQTT_CONNECTED"}

VARIABLES
    npc,             \* where networkTask is
    cpc,             \* where the tcpip thread is in mqttConnectionCb
    wpc,             \* where the Wi-Fi task is
    client,          \* client_ # nullptr, since the first init
    wifiReady, connected, needsDiscovery, needsInitialPublish, hasData,
    attempt,         \* a connection under way: "none", "dns" or "tcp"
    retryOver,       \* nowMs - lastReconnectAttempt_ >= RECONNECT_INTERVAL_MS
    led,             \* ledState.network
    networkOn,       \* the LED itself, as ledTask has set it
    blinkOver,       \* now - lastNetworkToggle >= the interval of the blinking
    message,         \* the reading networkTask has taken from sensorDataQueue
    whole,           \* observer: no drop since the discovery under way began
    announced,       \* observer: this session got a whole discovery
    owed             \* observer: it has not got the reading known when it began

mqtt == <<connected, needsDiscovery, needsInitialPublish, hasData>>
dial == <<attempt, retryOver>>
leds == <<led, networkOn, blinkOver>>
lamp == <<networkOn, blinkOver>>
seen == <<whole, announced, owed>>
vars == <<npc, cpc, wpc, client, wifiReady, mqtt, dial, leds, message, seen>>

-----------------------------------------------------------------------------
(* The connect callback: command topics are subscribed, then the network   *)
(* task is asked to announce the device.                                   *)

\* Mutant: a session after the first is not announced.
AskAnnouncementNone == UNCHANGED <<needsDiscovery, needsInitialPublish>>

AskAnnouncement == needsDiscovery' = TRUE /\ needsInitialPublish' = TRUE

\* Mutant: the attempt is not made again once the broker has been missed.
EnsureMqttOnce ==
    /\ npc = "ensure"
    /\ IF wifiReady /\ ~connected /\ retryOver /\ needsDiscovery
       THEN npc' = "connect" /\ retryOver' = FALSE
       ELSE npc' = "session" /\ UNCHANGED retryOver
    /\ UNCHANGED <<cpc, wpc, client, wifiReady, mqtt, attempt, leds, message, seen>>

EnsureMqtt ==
    /\ npc = "ensure"
    /\ IF wifiReady /\ ~connected /\ retryOver
       THEN npc' = "connect" /\ retryOver' = FALSE
       ELSE npc' = "session" /\ UNCHANGED retryOver
    /\ UNCHANGED <<cpc, wpc, client, wifiReady, mqtt, attempt, leds, message, seen>>

(* Mutant: connect does not look again whether there is a session by now.  *)
ConnectBlind ==
    /\ npc = "connect" /\ npc' = "session"
    /\ attempt' \in IF client /\ attempt = "none" THEN {"none", "dns", "tcp"} ELSE {attempt}
    /\ UNCHANGED <<cpc, wpc, client, wifiReady, mqtt, retryOver, leds, message, seen>>

(* MqttTransport::connect: nothing without a client, the callback at once  *)
(* when already connected; else a DNS query, which is answered from the    *)
(* cache, is sent, or fails.  lwIP refuses a second connection.            *)
Connect ==
    /\ npc = "connect" /\ npc' = "session"
    /\ IF client /\ connected THEN AskAnnouncement
                              ELSE UNCHANGED <<needsDiscovery, needsInitialPublish>>
    /\ attempt' \in IF client /\ ~connected /\ attempt = "none"
                    THEN {"none", "dns", "tcp"} ELSE {attempt}
    /\ UNCHANGED <<cpc, wpc, client, wifiReady, connected, hasData, retryOver, leds,
                   message, seen>>

(* The rest of loop: announce the device in a session that asks for it.    *)
CheckSession ==
    /\ npc = "session"
    /\ npc' = CASE ~connected -> "led"
                [] connected /\ needsDiscovery -> "discover"
                [] connected /\ ~needsDiscovery -> "initial"
    /\ whole' = (connected /\ needsDiscovery)
    /\ UNCHANGED <<cpc, wpc, client, wifiReady, mqtt, dial, leds, message, announced,
                   owed>>

(* publishDiscovery takes half a second; a message sent after a drop is lost. *)
DiscoveryDone ==
    /\ npc = "discover" /\ npc' = "initial"
    /\ needsDiscovery' = FALSE
    /\ announced' = (announced \/ whole)
    /\ whole' = FALSE
    /\ UNCHANGED <<cpc, wpc, client, wifiReady, connected, needsInitialPublish,
                   hasData, dial, leds, message, owed>>

InitialPublish ==
    /\ npc = "initial" /\ npc' = "led"
    /\ needsInitialPublish' = FALSE
    /\ owed' = (owed /\ ~(needsInitialPublish /\ hasData /\ connected))
    /\ UNCHANGED <<cpc, wpc, client, wifiReady, connected, needsDiscovery, hasData,
                   dial, leds, message, whole, announced>>

\* Mutant: the LED is only ever raised.
UpdateNetworkLedOn ==
    /\ npc = "led"
    /\ npc' = IF connected THEN "ledOn" ELSE "receive"
    /\ UNCHANGED <<cpc, wpc, client, wifiReady, mqtt, dial, leds, message, seen>>

(* updateNetworkLedState looks at the session and the LED, then sets it;   *)
(* in between, both may change.                                            *)
UpdateNetworkLed ==
    /\ npc = "led"
    /\ npc' = CASE connected -> "ledOn"
                [] ~connected /\ led = "MQTT_CONNECTED" -> "ledOff"
                [] OTHER -> "receive"
    /\ UNCHANGED <<cpc, wpc, client, wifiReady, mqtt, dial, leds, message, seen>>

SetNetworkLed ==
    /\ npc \in {"ledOn", "ledOff"} /\ npc' = "receive"
    /\ led' = IF npc = "ledOn" THEN "MQTT_CONNECTED" ELSE "CONNECTED"
    /\ UNCHANGED <<cpc, wpc, client, wifiReady, mqtt, dial, lamp, message, seen>>

(* networkTask empties sensorDataQueue.  publishSensorState keeps every    *)
(* reading, and publishes it when forced or when the interval is over.     *)
TakeMessage ==
    /\ npc = "receive" /\ npc' = "publish"
    /\ message' \in {"data", "forced", "activity"}
    /\ UNCHANGED <<cpc, wpc, client, wifiReady, mqtt, dial, leds, seen>>

(* Mutant: the message is left where it was when the next one is taken. *)
PublishKeeps ==
    /\ npc = "publish" /\ npc' = "receive"
    /\ hasData' = (hasData \/ message \in {"data", "forced"})
    /\ UNCHANGED <<cpc, wpc, client, wifiReady, connected, needsDiscovery,
                   needsInitialPublish, dial, leds, message, seen>>

Publish ==
    /\ npc = "publish" /\ npc' = "receive"
    /\ message' = "none"
    /\ hasData' = (hasData \/ message \in {"data", "forced"})
    /\ owed' \in IF message = "forced" /\ connected THEN {FALSE}
                 ELSE IF message = "data" /\ connected THEN {FALSE, owed} ELSE {owed}
    /\ UNCHANGED <<cpc, wpc, client, wifiReady, connected, needsDiscovery,
                   needsInitialPublish, dial, leds, whole, announced>>

QueueEmpty ==
    /\ npc = "receive" /\ npc' = "ensure"
    /\ UNCHANGED <<cpc, wpc, client, wifiReady, mqtt, dial, leds, message, seen>>

NetworkStep ==
    \/ EnsureMqtt \/ Connect \/ CheckSession \/ DiscoveryDone \/ InitialPublish
    \/ UpdateNetworkLed \/ SetNetworkLed \/ Publish

-----------------------------------------------------------------------------
(* The tcpip thread: the answer of the DNS, mqttConnectionCb, a drop.      *)
DnsAnswer ==
    /\ attempt = "dns" /\ cpc = "idle"
    /\ attempt' \in {"tcp", "none"}
    /\ UNCHANGED <<npc, cpc, wpc, client, wifiReady, mqtt, retryOver, leds, message, seen>>

Accepted ==
    /\ attempt = "tcp" /\ cpc = "idle"
    /\ connected' = TRUE /\ attempt' = "none"
    /\ owed' = hasData
    /\ cpc' = "subscribe"
    /\ UNCHANGED <<npc, wpc, client, wifiReady, needsDiscovery, needsInitialPublish,
                   hasData, retryOver, leds, message, whole, announced>>

Subscribe ==
    /\ cpc = "subscribe" /\ cpc' = "idle"
    /\ AskAnnouncement
    /\ UNCHANGED <<npc, wpc, client, wifiReady, connected, hasData, dial, leds,
                   message, seen>>

Refused ==
    /\ attempt = "tcp" /\ cpc = "idle"
    /\ connected' = FALSE /\ attempt' = "none"
    /\ UNCHANGED <<npc, cpc, wpc, client, wifiReady, needsDiscovery,
                   needsInitialPublish, hasData, retryOver, leds, message, seen>>

Drop ==
    /\ connected /\ cpc = "idle"
    /\ connected' = FALSE
    /\ whole' = FALSE /\ announced' = FALSE /\ owed' = FALSE
    /\ UNCHANGED <<npc, cpc, wpc, client, wifiReady, needsDiscovery,
                   needsInitialPublish, hasData, dial, leds, message>>

-----------------------------------------------------------------------------
(* The Wi-Fi task: an access-point session, or a retry, then the station.  *)
StartProvisioning ==
    /\ wpc = "idle" /\ wpc' = "notReady"
    /\ led' = "PROVISIONING"
    /\ UNCHANGED <<npc, cpc, client, wifiReady, mqtt, dial, lamp, message, seen>>

NotReady ==
    /\ wpc = "notReady" /\ wpc' = "connecting"
    /\ wifiReady' = FALSE
    /\ UNCHANGED <<npc, cpc, client, mqtt, dial, leds, message, seen>>

RetryConnection ==
    /\ wpc = "idle" /\ ~wifiReady /\ wpc' = "connecting"
    /\ led' = "CONNECTING"
    /\ UNCHANGED <<npc, cpc, client, wifiReady, mqtt, dial, lamp, message, seen>>

ConnectSta ==
    /\ wpc = "connecting"
    /\ \/ wifiReady' = TRUE /\ wpc' = "init"
       \/ wifiReady' = FALSE /\ wpc' = "down"
    /\ UNCHANGED <<npc, cpc, client, mqtt, dial, leds, message, seen>>

(* MQTTClient::init, if the stored configuration enables MQTT *)
InitClient ==
    /\ wpc = "init" /\ wpc' = "up"
    /\ client' \in {client, TRUE}
    /\ UNCHANGED <<npc, cpc, wifiReady, mqtt, dial, leds, message, seen>>

ShowLink ==
    /\ wpc \in {"up", "down"} /\ wpc' = "idle"
    /\ led' = IF wpc = "up" THEN "CONNECTED" ELSE "OFF"
    /\ UNCHANGED <<npc, cpc, client, wifiReady, mqtt, dial, lamp, message, seen>>

-----------------------------------------------------------------------------
\* Mutant: the LED is left as it is while the link is up without a session.
LedTaskSteady ==
    /\ networkOn' = IF led = "MQTT_CONNECTED" THEN TRUE
                     ELSE IF led = "OFF" THEN FALSE
                     ELSE networkOn # (blinkOver /\ led # "CONNECTED")
    /\ blinkOver' = (blinkOver /\ led \in {"MQTT_CONNECTED", "OFF", "CONNECTED"})
    /\ UNCHANGED <<npc, cpc, wpc, client, wifiReady, mqtt, dial, led, message, seen>>

(* ledTask: steady in a session, off without a link, blinking otherwise *)
LedTask ==
    /\ networkOn' = CASE led = "MQTT_CONNECTED" -> TRUE
                      [] led = "OFF" -> FALSE
                      [] OTHER -> networkOn # blinkOver
    /\ blinkOver' = (blinkOver /\ led \in {"MQTT_CONNECTED", "OFF"})
    /\ UNCHANGED <<npc, cpc, wpc, client, wifiReady, mqtt, dial, led, message, seen>>

BlinkElapses ==
    /\ ~blinkOver /\ blinkOver' = TRUE
    /\ UNCHANGED <<npc, cpc, wpc, client, wifiReady, mqtt, dial, led, networkOn, message,
                   seen>>

(* 5 s since the last attempt *)
RetryElapses ==
    /\ ~retryOver /\ retryOver' = TRUE
    /\ UNCHANGED <<npc, cpc, wpc, client, wifiReady, mqtt, attempt, leds, message, seen>>

-----------------------------------------------------------------------------
Init ==
    /\ npc = "ensure" /\ cpc = "idle" /\ wpc = "connecting"
    /\ client = FALSE /\ wifiReady = FALSE /\ connected = FALSE
    /\ needsDiscovery = TRUE /\ needsInitialPublish = TRUE /\ hasData = FALSE
    /\ attempt = "none" /\ retryOver \in BOOLEAN
    /\ led = "CONNECTING" /\ networkOn = FALSE /\ blinkOver \in BOOLEAN
    /\ message = "none"
    /\ whole = FALSE /\ announced = FALSE /\ owed = FALSE

Next ==
    \/ NetworkStep \/ TakeMessage \/ QueueEmpty
    \/ DnsAnswer \/ Accepted \/ Subscribe \/ Refused \/ Drop
    \/ StartProvisioning \/ NotReady \/ RetryConnection \/ ConnectSta
    \/ InitClient \/ ShowLink
    \/ LedTask \/ BlinkElapses \/ RetryElapses

(***************************************************************************)
(* The network task goes on; it empties the queue, because it polls it     *)
(* every 50 ms and a reading takes the sensor task over 500 ms; a callback *)
(* that began ends; the LED task goes on, time passes.  The broker owes    *)
(* nothing.                                                                *)
(***************************************************************************)
Spec ==
    /\ Init /\ [][Next]_vars
    /\ WF_vars(NetworkStep) /\ SF_vars(QueueEmpty)
    /\ WF_vars(Subscribe) /\ WF_vars(RetryElapses)
    /\ WF_vars(LedTask) /\ WF_vars(BlinkElapses)

-----------------------------------------------------------------------------
(* Where the tasks are; a message is held exactly while it is published. *)
PlacesOK ==
    /\ npc \in {"ensure", "connect", "session", "discover", "initial", "led",
               "ledOn", "ledOff", "receive", "publish"}
    /\ cpc \in {"idle", "subscribe"}
    /\ wpc \in {"idle", "notReady", "connecting", "init", "up", "down"}
    /\ attempt \in {"none", "dns", "tcp"}
    /\ led \in LedStates
    /\ message \in {"none", "data", "forced", "activity"}
    /\ message # "none" <=> npc = "publish"

FlagsOK ==
    /\ client \in BOOLEAN /\ wifiReady \in BOOLEAN /\ connected \in BOOLEAN
    /\ needsDiscovery \in BOOLEAN /\ needsInitialPublish \in BOOLEAN
    /\ hasData \in BOOLEAN /\ retryOver \in BOOLEAN
    /\ networkOn \in BOOLEAN /\ blinkOver \in BOOLEAN
    /\ whole \in BOOLEAN /\ announced \in BOOLEAN /\ owed \in BOOLEAN

(* Types, and a message is held exactly while it is being published. *)
TypeOK == PlacesOK /\ FlagsOK

(***************************************************************************)
(* While there is a session, no other connection is under way: although    *)
(* the callback may connect between the network task's look and its call,  *)
(* and an attempt may outlive the 5 s between attempts.                    *)
(***************************************************************************)
OneConnection == connected => attempt = "none"

(***************************************************************************)
(* The reset of needsDiscovery_ after the slow publishDiscovery never      *)
(* swallows the request of a newer session: a session that no longer asks  *)
(* for its announcement has had all of it.                                 *)
(***************************************************************************)
AnnouncedWhole == connected /\ cpc = "idle" /\ ~needsDiscovery => announced

(* A session that lasts is announced. *)
SessionAnnounced == connected ~> announced \/ ~connected

(***************************************************************************)
(* A session that lasts gets the reading that was known when it began,     *)
(* also after a reconnection within the publish interval.                  *)
(***************************************************************************)
ReadingShown == owed ~> ~owed

(* With the link ready, a lost broker is dialled again. *)
Redials == wifiReady /\ ~connected ~> npc = "connect" \/ connected \/ ~wifiReady

(***************************************************************************)
(* The LED does not stay on when the session is gone: the network task     *)
(* takes the state back that it set, whatever the Wi-Fi task sets          *)
(* meanwhile, and the LED task blinks or turns the LED off.                *)
(***************************************************************************)
LedFollows == networkOn /\ ~connected ~> ~networkOn \/ connected

(***************************************************************************)
(* The Wi-Fi task of this module does to the link what Link allows.        *)
(***************************************************************************)
Told == INSTANCE Link WITH
    ready <- wifiReady,
    place <- CASE wpc = "notReady" -> "closing"
               [] wpc = "connecting" -> "away"
               [] OTHER -> "idle"

ImplementsLink == Told!Spec

(***************************************************************************)
(* A session that is owed the known reading has asked for it, or is about  *)
(* to: no statement of the network task and no callback, in whatever order *)
(* they come, withdraws the request without publishing.                    *)
(***************************************************************************)
OwedIsAsked ==
    owed => connected /\ hasData /\ (needsInitialPublish \/ cpc = "subscribe")
=============================================================================
