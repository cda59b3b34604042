----------------------------- MODULE ConfigPage -----------------------------
(***************************************************************************)
(* The provisioning page over the flash: an access-point session loads the *)
(* configuration, shows it, updates its copy from what a client posts, and *)
(* saves it with FlashStore (ConnectionController.cpp).                    *)
(*                                                                         *)
(* A configuration is its publish interval in milliseconds, a 32-bit       *)
(* number; the sensor interval is handled alike, and the other fields are  *)
(* copied as they are.  The page shows and posts seconds.                  *)
(***************************************************************************)
EXTENDS FlashStore

CONSTANTS
    U,          \* 2^32
    K,          \* milliseconds in a second
    Default     \* DEFAULT_PUBLISH_INTERVAL_MS

Intervals == 0 .. U - 1

ASSUME PageAssumption ==
    /\ U \in Nat /\ K \in Nat /\ 0 < K /\ K < U
    /\ Default \in Intervals /\ Configs = Intervals

VARIABLE config     \* the session's copy, None outside of a session

pageVars == <<vars, config>>

-----------------------------------------------------------------------------
(* configToJson *)
Shown(c) == c \div K

(* What getJsonValue finds in a body: nothing, or a number strtoul reads.  *)
(* A body that has not arrived with the headers is empty.                  *)
Bodies == {{}} \cup {{n} : n \in Intervals}

CopyInt(c, body) == IF body = {} THEN c ELSE CHOOSE n \in body : TRUE

(* Mutant: the posted seconds are stored as they are. *)
UpdateConfigSeconds(c, body) == CopyInt(c, body)

UpdateConfig(c, body) == (CopyInt(c, body) * K) % U

-----------------------------------------------------------------------------
OrDefault(c) == IF c = None THEN Default ELSE c

(* startApAndServe: the stored configuration, or the defaults *)
OpenSession ==
    /\ pc = "idle" /\ config = None
    /\ config' = OrDefault(LoadConfig)
    /\ UNCHANGED vars

(* runProvisioningLoop: the session times out or is cancelled. *)
CloseSession ==
    /\ pc = "idle" /\ config # None
    /\ config' = None
    /\ UNCHANGED vars

(* handleClientRequest: POST /api/config.  (A body on which std::stoi       *)
(* aborts the program changes nothing; then there is only PowerLoss.)      *)
Post(body) ==
    /\ config # None
    /\ config' = UpdateConfig(config, body)
    /\ SaveConfig(config')

PageInit == Init /\ config = None

PageNext ==
    \/ OpenSession \/ CloseSession
    \/ \E body \in Bodies : Post(body)
    \/ (Boot \/ Erase \/ ProgramPage \/ Reply) /\ UNCHANGED config
    \/ (Reboot \/ PowerLoss) /\ config' = None

PageSpec == PageInit /\ [][PageNext]_pageVars

-----------------------------------------------------------------------------
(***************************************************************************)
(* Opening the page and saving it unchanged, also again and again and from *)
(* intervals that are no whole seconds, keeps what the page shows.         *)
(***************************************************************************)
ShownKept ==
    [][config # None /\ Post({Shown(config)})
         => Shown(config') = Shown(config)]_pageVars

(***************************************************************************)
(* Between requests the page shows what is stored and what the device has  *)
(* loaded, or the defaults for want of both.  A save that fails half-way   *)
(* is answered like one that succeeds, and leaves the session's copy, the  *)
(* flash and what was loaded apart: only the reboot brings them together.  *)
(***************************************************************************)
ShownIsStored ==
    pc = "idle" /\ config # None =>
        config = OrDefault(LoadConfig) /\ config = OrDefault(loaded)

(***************************************************************************)
(* A body without a field leaves the field as it is ("if (not              *)
(* val.empty())" in copyInt).  The multiplication that follows copyInt is  *)
(* done nevertheless.                                                      *)
(***************************************************************************)
OmittedKept == [][config # None /\ Post({}) => config' = config]_pageVars
=============================================================================
