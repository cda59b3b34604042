--------------------------------- MODULE Link ---------------------------------
(***************************************************************************)
(* The link as the MQTT client sees it: what MQTTClient::setWifiReady has  *)
(* told it, against where the Wi-Fi task is.  It is told that the link is  *)
(* gone after an access-point session has begun to open and before the     *)
(* station is taken down; in the session it is told nothing; only when it  *)
(* believes the link is down does the Wi-Fi task dial, and only then can   *)
(* it be told that the link is up.                                         *)
(*                                                                         *)
(* Provisioning implements this with the Wi-Fi task's statements, and      *)
(* MqttSession, which has only what the session needs of that task, does   *)
(* not let it do more.                                                     *)
(***************************************************************************)
VARIABLES
    place,   \* the Wi-Fi task: "idle" between commands, "closing" the link
             \* for a session, or "away" in one or in connectSta
    ready    \* wifiReady_

vars == <<place, ready>>

Init == place = "away" /\ ready = FALSE

Close == place = "idle" /\ place' = "closing" /\ UNCHANGED ready

Withdraw == place = "closing" /\ place' = "away" /\ ready' = FALSE

Dial == place = "idle" /\ ~ready /\ place' = "away" /\ UNCHANGED ready

(* From a session, from dialling, or having dialled at once. *)
Return ==
    /\ place \in {"idle", "away"} /\ ~ready
    /\ place' = "idle" /\ ready' \in BOOLEAN

(* The device restarts. *)
Reset == place' = "away" /\ ready' = FALSE

Next == Close \/ Withdraw \/ Dial \/ Return \/ Reset

Spec == Init /\ [][Next]_vars
=============================================================================
