---------------------------- MODULE Provisioning ----------------------------
(***************************************************************************)
(* The button, the Wi-Fi task and the access-point session between them:   *)
(* ButtonTask.cpp, WifiTask.cpp, and the part of ConnectionController.cpp  *)
(* that runs a session.                                                    *)
(*                                                                         *)
(* The button task (priority 4) preempts the Wi-Fi task (priority 1)       *)
(* between any two statements; its handlers are one step each.  The two    *)
(* share wifiCommandQueue, which drops what does not fit, and the flags    *)
(* apActive and apCancel.  A reboot clears everything but the flash.  A    *)
(* configuration is its Wi-Fi credentials.  The network LED and the MQTT   *)
(* client behind setWifiReady are in MqttSession.                          *)
(***************************************************************************)
EXTENDS Naturals, Sequences

CONSTANTS
    QueueSize,        \* capacity of wifiCommandQueue
    Configs,          \* configurations with Wi-Fi credentials
    NoCredentials     \* any other, or none

ASSUME QueueSizeAssumption == QueueSize \in Nat \ {0}
ASSUME ConfigsAssumption == NoCredentials \notin Configs

Commands == {"START_PROVISIONING", "REBOOT"}

Labels == {"boot", "loop", "retry",                               \* task loop
           "start", "clearCancel", "raise", "notReady", "open",   \* START ...
           "serve", "select", "client", "reply", "aborted",       \* ... its session
           "lower", "lowerReboot", "reload",
           "blink", "rebooting"}                                  \* REBOOT

VARIABLES
    pc,            \* where the Wi-Fi task is
    queue,         \* wifiCommandQueue
    apActive, apCancel,
    wifiReady,     \* MQTTClient::wifiReady_
    connected,     \* the Wi-Fi task's local variable
    station,       \* the configuration the station is connected with;
                   \* ConnectionController::connected_ says whether it is
    wifiError,     \* the error LED's share of the Wi-Fi task
    retryDue,      \* 15 s since lastConnectionAttempt
    timedOut,      \* SESSION_TIMEOUT_MS since the session began to serve
    flash,         \* the configuration in flash
    startup,       \* the copy the Wi-Fi task read at boot
    held,          \* the button: up, or how long it has been down
    rebootSent,
    stopAsked,     \* observer: the last AP press came during a session
    cancelled      \* observer: a press asked to end the current session

session == <<apActive, apCancel>>
link    == <<wifiReady, connected, station>>
retry   == <<wifiError, retryDue>>
timing  == <<retry, timedOut>>
stored  == <<flash, startup>>
button  == <<held, rebootSent>>
observers == <<stopAsked, cancelled>>
vars == <<pc, queue, session, link, timing, stored, button, observers>>

-----------------------------------------------------------------------------
(* Mutant: the queue has no limit. *)
SendUnbounded(cmd) == queue' = Append(queue, cmd)

(* xQueueSend without waiting: a full queue drops the command. *)
Send(cmd) == queue' = IF Len(queue) < QueueSize THEN Append(queue, cmd) ELSE queue

(* The button goes down; held under 3 s, then 3 to 5 s, then over 5 s. *)
Press ==
    /\ held = "up" /\ held' = "short"
    /\ UNCHANGED <<pc, queue, session, link, timing, stored, rebootSent, observers>>

HoldOn ==
    /\ \/ held = "short" /\ held' = "ap"
       \/ held = "ap" /\ held' = "long"
    /\ UNCHANGED <<pc, queue, session, link, timing, stored, rebootSent, observers>>

(* handleButtonHold: a hold over 5 s asks for a reboot, once. *)
HandleButtonHold ==
    /\ held = "long" /\ ~rebootSent
    /\ Send("REBOOT")
    /\ rebootSent' = TRUE
    /\ apCancel' = TRUE
    /\ cancelled' = TRUE
    /\ UNCHANGED <<pc, apActive, link, timing, stored, held, stopAsked>>

(* handleButtonRelease: a hold of 3 to 5 s toggles the access point. *)
HandleButtonRelease ==
    /\ held # "up" /\ held' = "up"
    /\ rebootSent' = FALSE
    /\ IF held = "ap" /\ ~rebootSent
       THEN /\ Send("START_PROVISIONING")
            /\ apCancel' = (apCancel \/ apActive)
            /\ cancelled' = (cancelled \/ apActive)
            /\ stopAsked' = apActive
       ELSE UNCHANGED <<queue, apCancel, observers>>
    /\ UNCHANGED <<pc, apActive, link, timing, stored>>

ButtonStep == Press \/ HoldOn \/ HandleButtonHold \/ HandleButtonRelease

-----------------------------------------------------------------------------
(* The outcome of connectSta is the network's; without credentials it fails. *)
ConnectSta(config, up) ==
    /\ up => config # NoCredentials
    /\ station' = IF up THEN config ELSE NoCredentials

(* handleInitialConnection, with the configuration read at boot *)
Boot ==
    /\ pc = "boot"
    /\ \E up \in BOOLEAN :
         /\ ConnectSta(startup, up)
         /\ connected' = up /\ wifiReady' = up /\ wifiError' = ~up
    /\ apActive' = FALSE
    /\ retryDue' = FALSE
    /\ pc' = "loop"
    /\ UNCHANGED <<queue, apCancel, timedOut, stored, button, observers>>

(* Mutant: a command empties the queue of those behind it. *)
ReceiveDrain ==
    /\ pc = "loop" /\ queue # <<>>
    /\ queue' = <<>>
    /\ pc' = IF Head(queue) = "REBOOT" THEN "blink" ELSE "start"
    /\ UNCHANGED <<session, link, timing, stored, button, observers>>

(* One round of the loop: a command, or none within 100 ms. *)
Receive ==
    /\ pc = "loop" /\ queue # <<>>
    /\ queue' = Tail(queue)
    /\ pc' = IF Head(queue) = "REBOOT" THEN "blink" ELSE "start"
    /\ UNCHANGED <<session, link, timing, stored, button, observers>>

NoCommand ==
    /\ pc = "loop" /\ queue = <<>>
    /\ pc' = "retry"
    /\ UNCHANGED <<queue, session, link, timing, stored, button, observers>>

MayRetry == ~connected /\ ~apActive /\ startup # NoCredentials /\ retryDue

(* Mutant: an attempt that fails is not shown. *)
RetryConnectionQuiet ==
    /\ pc = "retry" /\ pc' = "loop"
    /\ MayRetry /\ retryDue' = FALSE
    /\ \E up \in BOOLEAN :
         /\ ConnectSta(startup, up)
         /\ connected' = up
         /\ wifiReady' = (wifiReady \/ up)
         /\ wifiError' = (wifiError /\ ~up)
    /\ UNCHANGED <<queue, session, timedOut, stored, button, observers>>

(* handleConnectionRetry *)
RetryConnection ==
    /\ pc = "retry" /\ pc' = "loop"
    /\ MayRetry /\ retryDue' = FALSE
    /\ \E up \in BOOLEAN :
         /\ ConnectSta(startup, up)
         /\ connected' = up
         /\ wifiReady' = (wifiReady \/ up)
         /\ wifiError' = ~up
    /\ UNCHANGED <<queue, session, timedOut, stored, button, observers>>

NoRetry ==
    /\ pc = "retry" /\ pc' = "loop"
    /\ ~MayRetry
    /\ UNCHANGED <<queue, session, link, timing, stored, button, observers>>

RetryElapses ==
    /\ ~retryDue /\ retryDue' = TRUE
    /\ UNCHANGED <<pc, queue, session, link, wifiError, timedOut, stored, button, observers>>

-----------------------------------------------------------------------------
(* START_PROVISIONING, statement by statement *)
StartOrStop ==
    /\ pc = "start"
    /\ apCancel' = (apCancel \/ apActive)
    /\ pc' = IF apActive THEN "retry" ELSE "clearCancel"
    /\ UNCHANGED <<queue, apActive, link, timing, stored, button, observers>>

(* Mutant: a new session starts with whatever apCancel was left. *)
KeepCancel ==
    /\ pc = "clearCancel"
    /\ cancelled' = FALSE
    /\ pc' = "raise"
    /\ UNCHANGED <<queue, session, link, timing, stored, button, stopAsked>>

ClearCancel ==
    /\ pc = "clearCancel"
    /\ apCancel' = FALSE
    /\ cancelled' = FALSE
    /\ pc' = "raise"
    /\ UNCHANGED <<queue, apActive, link, timing, stored, button, stopAsked>>

RaiseActive ==
    /\ pc = "raise"
    /\ apActive' = TRUE
    /\ pc' = "notReady"
    /\ UNCHANGED <<queue, apCancel, link, timing, stored, button, observers>>

NotReady ==
    /\ pc = "notReady"
    /\ wifiReady' = FALSE
    /\ pc' = "open"
    /\ UNCHANGED <<queue, session, connected, station, timing, stored, button, observers>>

(* startApAndServe up to its loop: the driver or the socket may fail; the  *)
(* station is disconnected unless the driver never started.                *)
OpenAp ==
    /\ pc = "open"
    /\ \/ pc' = "lower" /\ UNCHANGED <<station, timedOut>>
       \/ pc' = "lower" /\ station' = NoCredentials /\ UNCHANGED timedOut
       \/ pc' = "serve" /\ station' = NoCredentials /\ timedOut' = FALSE
    /\ UNCHANGED <<queue, session, wifiReady, connected, retry, stored, button, observers>>

(***************************************************************************)
(* runProvisioningLoop.  Only at its head does the task look at the time   *)
(* and at apCancel; what comes later waits for the client being served.    *)
(* The timeouts set on a client's socket have no effect: lwipopts.h does   *)
(* not compile them in.                                                    *)
(***************************************************************************)
LookAround ==
    /\ pc = "serve"
    /\ pc' = IF timedOut \/ apCancel THEN "lower" ELSE "select"
    /\ UNCHANGED <<queue, session, link, timing, stored, button, observers>>

(* Mutant: a client that is accepted renews the session's time. *)
SelectRenews ==
    /\ pc = "select"
    /\ \/ pc' = "serve" /\ UNCHANGED timedOut
       \/ pc' = "client" /\ timedOut' = FALSE
    /\ UNCHANGED <<queue, session, link, retry, stored, button, observers>>

(* No client within 100 ms, or one that is accepted. *)
Select ==
    /\ pc = "select"
    /\ pc' \in {"serve", "client"}
    /\ UNCHANGED <<queue, session, link, timing, stored, button, observers>>

(* The client has sent what it had to and taken the answer, or has closed. *)
ClientServed ==
    /\ \/ pc = "client" /\ pc' = "serve"
       \/ pc = "reply" /\ pc' = "lowerReboot"
    /\ UNCHANGED <<queue, session, link, timing, stored, button, observers>>

(* Mutant: the session ends, but the device does not reboot. *)
PostConfigStays ==
    /\ pc = "client" /\ pc' = "lower"
    /\ flash' \in Configs \cup {NoCredentials}
    /\ UNCHANGED <<queue, session, link, timing, startup, button, observers>>

(* The posted configuration is saved, or lost should saving fail, before   *)
(* the client is answered.                                                 *)
PostConfig ==
    /\ pc = "client" /\ pc' = "reply"
    /\ flash' \in Configs \cup {NoCredentials}
    /\ UNCHANGED <<queue, session, link, timing, startup, button, observers>>

(* An irrigation mode that is no number: std::stoi throws, which without   *)
(* exceptions aborts the program, before anything is saved.                *)
PostMalformed ==
    /\ pc = "client" /\ pc' = "aborted"
    /\ UNCHANGED <<queue, session, link, timing, stored, button, observers>>

SessionElapses ==
    /\ pc \in {"serve", "select", "client"}
    /\ ~timedOut /\ timedOut' = TRUE
    /\ UNCHANGED <<pc, queue, session, link, retry, stored, button, observers>>

(* startApAndServe returns: the access point is down. *)
LowerActive ==
    /\ pc \in {"lower", "lowerReboot"}
    /\ apActive' = FALSE
    /\ pc' = IF pc = "lower" THEN "reload" ELSE "rebooting"
    /\ UNCHANGED <<queue, apCancel, link, timing, stored, button, observers>>

(* Mutant: the MQTT client is not told of the new connection. *)
ReloadSilent ==
    /\ pc = "reload" /\ pc' = "retry"
    /\ IF flash # NoCredentials
       THEN \E up \in BOOLEAN : ConnectSta(flash, up) /\ connected' = up
       ELSE /\ connected' = (connected /\ station # NoCredentials)
            /\ UNCHANGED station
    /\ UNCHANGED <<queue, session, wifiReady, timing, stored, button, observers>>

(* Back to the station: with the stored credentials, or as it was. *)
Reload ==
    /\ pc = "reload" /\ pc' = "retry"
    /\ IF flash # NoCredentials
       THEN \E up \in BOOLEAN : ConnectSta(flash, up) /\ connected' = up
       ELSE /\ connected' = (connected /\ station # NoCredentials)
            /\ UNCHANGED station
    /\ wifiReady' = connected'
    /\ UNCHANGED <<queue, session, timing, stored, button, observers>>

(* REBOOT: blink for 1.2 s, then reset *)
Blink ==
    /\ pc = "blink"
    /\ pc' = "rebooting"
    /\ UNCHANGED <<queue, session, link, timing, stored, button, observers>>

(* watchdog_reboot: only the flash survives *)
Restart ==
    /\ pc = "rebooting"
    /\ pc' = "boot"
    /\ queue' = <<>>
    /\ apActive' = FALSE /\ apCancel' = FALSE
    /\ wifiReady' = FALSE /\ connected' = FALSE /\ station' = NoCredentials
    /\ wifiError' = FALSE /\ retryDue' = FALSE /\ timedOut' = FALSE
    /\ startup' = flash
    /\ held' = "up" /\ rebootSent' = FALSE
    /\ stopAsked' = FALSE /\ cancelled' = FALSE
    /\ UNCHANGED flash

WifiStep ==
    \/ Boot \/ Receive \/ NoCommand \/ RetryConnection \/ NoRetry
    \/ StartOrStop \/ ClearCancel \/ RaiseActive \/ NotReady \/ OpenAp
    \/ LookAround \/ Select \/ LowerActive \/ Reload \/ Blink \/ Restart

-----------------------------------------------------------------------------
Init ==
    /\ pc = "boot"
    /\ queue = <<>>
    /\ apActive = FALSE /\ apCancel = FALSE
    /\ wifiReady = FALSE /\ connected = FALSE /\ station = NoCredentials
    /\ wifiError = FALSE /\ retryDue = FALSE /\ timedOut = FALSE
    /\ flash \in Configs \cup {NoCredentials} /\ startup = flash
    /\ held = "up" /\ rebootSent = FALSE
    /\ stopAsked = FALSE /\ cancelled = FALSE

ClientStep == ClientServed \/ PostConfig \/ PostMalformed

Next == ButtonStep \/ WifiStep \/ ClientStep \/ SessionElapses \/ RetryElapses

(***************************************************************************)
(* The Wi-Fi task goes on but where it waits for a client, time passes,    *)
(* and the button task polls every 50 ms.  Nobody has to press the button  *)
(* or to post a configuration, and a client owes nothing: one that sends   *)
(* nothing, or stops reading, holds the task for ever.                     *)
(***************************************************************************)
Spec ==
    /\ Init /\ [][Next]_vars
    /\ WF_vars(WifiStep) /\ WF_vars(HandleButtonHold)
    /\ WF_vars(SessionElapses) /\ WF_vars(RetryElapses)

(* The condition under which the Wi-Fi task does anything for ever: no     *)
(* client holds it for good, and none has made it abort.                   *)
ClientsFinish == []<>(pc \notin {"client", "reply", "aborted"})

-----------------------------------------------------------------------------
(* Types; the queue never exceeds its capacity. *)
TypeOK ==
    /\ pc \in Labels
    /\ queue \in Seq(Commands) /\ Len(queue) <= QueueSize
    /\ apActive \in BOOLEAN /\ apCancel \in BOOLEAN
    /\ wifiReady \in BOOLEAN /\ connected \in BOOLEAN
    /\ wifiError \in BOOLEAN /\ retryDue \in BOOLEAN
    /\ timedOut \in BOOLEAN
    /\ {station, flash, startup} \subseteq Configs \cup {NoCredentials}
    /\ held \in {"up", "short", "ap", "long"} /\ rebootSent \in BOOLEAN
    /\ stopAsked \in BOOLEAN /\ cancelled \in BOOLEAN

(***************************************************************************)
(* Between commands the MQTT client believes the link is up exactly when   *)
(* the Wi-Fi task does, although the retry that fails never tells it; and  *)
(* at no statement does it believe so without a station: it is told before *)
(* the access point takes the station down, and after it is back.          *)
(***************************************************************************)
ReadyTracksLink ==
    /\ pc \in {"loop", "retry"} => wifiReady = connected
    /\ wifiReady => station # NoCredentials

(***************************************************************************)
(* Between commands the copy that retries use is what flash holds, and so  *)
(* is what the station is connected with, although nothing refreshes the   *)
(* copy when a client stores another configuration.                        *)
(***************************************************************************)
CopiesCurrent ==
    pc \in {"loop", "retry"} =>
        /\ startup = flash
        /\ connected = (station # NoCredentials)
        /\ connected => station = flash

(***************************************************************************)
(* A session is cancelled by its own presses and by no others: one made    *)
(* before it, or during the last one, cannot end it, and one made while it *)
(* is opened or served is not forgotten.                                   *)
(***************************************************************************)
CancelIsOwn ==
    pc \in {"open", "serve", "select", "client"} => (apCancel <=> cancelled)

(***************************************************************************)
(* Every access-point session ends, whether or not anyone cancels it and   *)
(* however many clients come, if none of them holds the task for ever.     *)
(***************************************************************************)
SessionEnds == ClientsFinish => (apActive ~> ~apActive)

(***************************************************************************)
(* A device that stays offline shows it: the session that fails to         *)
(* reconnect says nothing, but no stream of commands keeps the retry that  *)
(* raises the error from coming, if no client holds the task for ever.     *)
(***************************************************************************)
ErrorShown ==
    ClientsFinish => (pc = "loop" /\ ~connected ~> wifiError \/ connected)

RebootQueued == \E i \in DOMAIN queue : queue[i] = "REBOOT"

(***************************************************************************)
(* A reboot command that made it into the queue is carried out, whatever   *)
(* session or connection attempt the Wi-Fi task is in the middle of, if no *)
(* client holds the task for ever.                                         *)
(***************************************************************************)
QueuedRebootHappens == ClientsFinish => (RebootQueued ~> pc = "rebooting")

(***************************************************************************)
(* What the MQTT client is told of the link is what Link says.             *)
(***************************************************************************)
Told == INSTANCE Link WITH
    ready <- wifiReady,
    place <- CASE pc = "notReady" -> "closing"
               [] pc \in {"boot", "open", "serve", "select", "client", "reply",
                          "aborted", "lower", "lowerReboot", "reload"} -> "away"
               [] OTHER -> "idle"

ImplementsLink == Told!Spec

(***************************************************************************)
(* "AP toggle requested": a press during a session asks it to stop, so no  *)
(* session may start until another press.  The code also queues a START    *)
(* for the press, and the session that was stopped starts again.           *)
(***************************************************************************)
StopMeansStop == [][~apActive /\ apActive' => ~stopAsked]_vars

(***************************************************************************)
(* "Reboot requested": a hold the button task has accepted (rebootSent)    *)
(* reboots the device.  With the queue full the command is dropped, and    *)
(* rebootSent keeps the task from sending it again.  No client need hold   *)
(* the Wi-Fi task for that.                                                *)
(***************************************************************************)
AcceptedRebootHappens == ClientsFinish => (rebootSent ~> pc = "rebooting")
=============================================================================
