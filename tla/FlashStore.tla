----------------------------- MODULE FlashStore -----------------------------
(***************************************************************************)
(* The configuration record in the last flash sector (FlashManager.cpp)    *)
(* and the request that saves it (POST /api/config in                      *)
(* ConnectionController.cpp), with power failing at any moment.            *)
(*                                                                         *)
(* saveConfig erases the sector, then programs a buffer of BufferPages     *)
(* pages; the record fills the first RecordPages of them and 0xFF, which   *)
(* is what erased flash reads as, the rest.  loadConfig accepts a record   *)
(* whose magic number and CRC fit: all its pages come from one save.       *)
(***************************************************************************)
EXTENDS Naturals

CONSTANTS Configs, Erased, Garbage, None, RecordPages, BufferPages

ASSUME FlashAssumption ==
    /\ RecordPages \in Nat /\ BufferPages \in Nat
    /\ 0 < RecordPages /\ RecordPages <= BufferPages
    /\ Erased \notin Configs /\ Garbage \notin Configs /\ None \notin Configs

VARIABLES
    flash,    \* what each page of the sector holds
    pc,       \* where saveConfig is
    page,     \* the next page to program
    cfg,      \* the configuration saveConfig was called with
    loaded,   \* what the last loadConfig returned
    last      \* observer: the newest configuration with bytes in the flash

vars == <<flash, pc, page, cfg, loaded, last>>

Pages == 1 .. BufferPages
Contents == Configs \cup {Erased, Garbage}

PageOf(c, i) == IF i <= RecordPages THEN c ELSE Erased

\* Mutant: the record is accepted by its magic number, on the first page.
HoldsMagic(c) == flash[1] = c

Holds(c) == \A i \in 1 .. RecordPages : flash[i] = c

LoadConfig ==
    IF \E c \in Configs : Holds(c) THEN CHOOSE c \in Configs : Holds(c) ELSE None

-----------------------------------------------------------------------------
Init ==
    /\ flash = [i \in Pages |-> Erased]
    /\ pc = "boot" /\ page = 1
    /\ cfg = None /\ loaded = None /\ last = None

(* Every task loads the configuration once, when the device starts. *)
Boot ==
    /\ pc = "boot"
    /\ loaded' = LoadConfig
    /\ pc' = "idle"
    /\ UNCHANGED <<flash, page, cfg, last>>

(* Mutant: the sector is erased before the streams are flushed. *)
EraseFirst(c) ==
    /\ pc = "idle"
    /\ cfg' = c
    /\ flash' = [i \in Pages |-> Erased]
    /\ pc' \in {"erase", "failed"}
    /\ UNCHANGED <<page, loaded, last>>

(* saveConfig(c): flush the output streams, or fail *)
SaveConfig(c) ==
    /\ pc = "idle"
    /\ cfg' = c
    /\ pc' \in {"erase", "failed"}
    /\ UNCHANGED <<flash, page, loaded, last>>

(* Mutant: the sector is programmed without having been erased. *)
SkipErase ==
    /\ pc = "erase"
    /\ pc' = "write" /\ page' = 1
    /\ UNCHANGED <<flash, cfg, loaded, last>>

(* erase, then flush again or fail; scheduler and interrupts are off *)
Erase ==
    /\ pc = "erase"
    /\ flash' = [i \in Pages |-> Erased]
    /\ pc' \in {"write", "failed"} /\ page' = 1
    /\ UNCHANGED <<cfg, loaded, last>>

(* Programming only clears bits: a page that was not erased is spoilt. *)
Programmed(i) == IF flash[i] = Erased THEN PageOf(cfg, i) ELSE Garbage

(* Mutant: the loop over the pages runs one page too far. *)
ProgramPageOverrun ==
    /\ pc = "write"
    /\ flash' = [flash EXCEPT ![page] = Programmed(page)]
    /\ last' = cfg
    /\ page' = page + 1
    /\ pc' = IF page < BufferPages THEN pc ELSE "saved"
    /\ UNCHANGED <<cfg, loaded>>

(* write: one page after the other *)
ProgramPage ==
    /\ pc = "write"
    /\ flash' = [flash EXCEPT ![page] = Programmed(page)]
    /\ last' = cfg
    /\ IF page < BufferPages THEN page' = page + 1 /\ pc' = pc
                             ELSE page' = page /\ pc' = "saved"
    /\ UNCHANGED <<cfg, loaded>>

(* Mutant: after a save that failed the session goes on. *)
ReplyUnlessFailed ==
    /\ pc \in {"saved", "failed"}
    /\ pc' = IF pc = "saved" THEN "reboot" ELSE "idle"
    /\ UNCHANGED <<flash, page, cfg, loaded, last>>

(* handleClientRequest answers the same whether or not the save succeeded. *)
Reply ==
    /\ pc \in {"saved", "failed"}
    /\ pc' = "reboot"
    /\ UNCHANGED <<flash, page, cfg, loaded, last>>

(* The session ends and the Wi-Fi task resets the device. *)
Reboot ==
    /\ pc = "reboot"
    /\ pc' = "boot"
    /\ UNCHANGED <<flash, page, cfg, loaded, last>>

(* Power fails; an erase or a page under way leaves its pages undefined. *)
PowerLoss ==
    /\ pc # "boot"
    /\ CASE pc = "erase" ->
              \E kept \in SUBSET Pages, cleared \in SUBSET Pages :
                 flash' = [i \in Pages |-> IF i \in kept THEN flash[i]
                                           ELSE IF i \in cleared THEN Erased
                                           ELSE Garbage]
         [] pc = "write" ->
              \E read \in {flash[page], Garbage} :
                 flash' = [flash EXCEPT ![page] = read]
         [] OTHER -> UNCHANGED flash
    /\ pc' = "boot"
    /\ UNCHANGED <<page, cfg, loaded, last>>

Next ==
    \/ Boot \/ \E c \in Configs : SaveConfig(c)
    \/ Erase \/ ProgramPage \/ Reply \/ Reboot
    \/ PowerLoss

(* Safety only: nobody has to save, and power may fail for good. *)
Spec == Init /\ [][Next]_vars

-----------------------------------------------------------------------------
(* Types of the state. *)
TypeOK ==
    /\ flash \in [Pages -> Contents]
    /\ pc \in {"boot", "idle", "erase", "write", "saved", "failed", "reboot"}
    /\ page \in Pages
    /\ cfg \in Configs \cup {None} /\ last \in Configs \cup {None}
    /\ loaded \in Configs \cup {None}

(***************************************************************************)
(* The configuration a device runs with is the newest one that reached the *)
(* flash, and all of it is there: never a record torn by a power cut, and  *)
(* never one older than a save that began to program.                      *)
(***************************************************************************)
RunsWholeRecord ==
    pc = "idle" /\ loaded # None
        => loaded = last /\ \A i \in 1 .. RecordPages : flash[i] = last

(* A save that ran to its end is what the device loads. *)
SavedIsLoaded == pc = "saved" => LoadConfig = cfg

(***************************************************************************)
(* The flash keeps the promise made in ConfigStore.  A configuration is    *)
(* lost only by a save, and then to the new one or to none; between the    *)
(* erase and the last page of the record nothing is loaded, whichever page *)
(* the power fails at; reboots and failed saves change nothing.            *)
(***************************************************************************)
Saving == pc \in {"erase", "write"}

SaveStage ==
    CASE pc = "erase" -> "begun"
      [] pc = "write" -> IF page <= RecordPages THEN "erased" ELSE "written"
      [] OTHER -> "none"

Store == INSTANCE ConfigStore WITH
    stored <- LoadConfig, new <- IF Saving THEN cfg ELSE None,
    save <- SaveStage, up <- pc # "boot", running <- loaded

ImplementsStore == Store!Spec
=============================================================================
