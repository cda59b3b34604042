---------------------------- MODULE MCIrrigation ----------------------------
(* Instances of Irrigation small enough for TLC. *)
EXTENDS Irrigation

\* The shortest forecast, one inside the range and the longest.
MCForecasts == {ActiveTick, 4, EvapoMaxSleep}

\* Every mode, and every mode but the one that makes the task sleep long.
MCAllModes  == Modes
MCPollModes == Modes \ {"EVAPOTRANSPIRATION"}
=============================================================================
