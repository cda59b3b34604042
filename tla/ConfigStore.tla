----------------------------- MODULE ConfigStore -----------------------------
(***************************************************************************)
(* What the device promises of its configuration, whatever the flash does  *)
(* under it: there is one record or none; it changes only in a save, which *)
(* gives it up before the new one is there and never brings back an older  *)
(* one; a power cut during a save costs the old record at worst, and never *)
(* leaves a mixture.  The device runs with what was stored when it booted. *)
(* FlashStore implements this, page by page.                               *)
(***************************************************************************)
CONSTANTS Configs, None

VARIABLES
    stored,   \* the record, or None
    new,      \* the configuration being saved, or None
    save,     \* how far the save is
    up,       \* the device has booted
    running   \* the configuration it booted with, or None

vars == <<stored, new, save, up, running>>

Init ==
    /\ stored = None /\ new = None /\ save = "none"
    /\ up = FALSE /\ running = None

Boot ==
    /\ ~up
    /\ up' = TRUE /\ running' = stored
    /\ UNCHANGED <<stored, new, save>>

(* A save goes on to its next stage, or ends. *)
Ended == save' = "none" /\ new' = None
GoesOn(stage) == save' = stage /\ new' = new

Begin(c) ==
    /\ up /\ save = "none"
    /\ new' = c /\ save' = "begun"
    /\ UNCHANGED <<stored, up, running>>

(* The old record is given up; the save may fail here. *)
Discard ==
    /\ save = "begun"
    /\ stored' = None
    /\ GoesOn("erased") \/ Ended
    /\ UNCHANGED <<up, running>>

(* The new record is there; the save may have more to do. *)
Commit ==
    /\ save = "erased"
    /\ stored' = new
    /\ GoesOn("written") \/ Ended
    /\ UNCHANGED <<up, running>>

End ==
    /\ save = "written" /\ Ended
    /\ UNCHANGED <<stored, up, running>>

(* A reset or a power cut, also in the middle of a save. *)
Down ==
    /\ up /\ up' = FALSE
    /\ Ended
    /\ \/ stored' = stored
       \/ save = "begun" /\ stored' = None
    /\ UNCHANGED running

Next ==
    \/ Boot \/ (\E c \in Configs : Begin(c))
    \/ Discard \/ Commit \/ End \/ Down

Spec == Init /\ [][Next]_vars
=============================================================================
