-------------------------- MODULE FlashStoreProofs --------------------------
(***************************************************************************)
(* Proofs about FlashStore, for any set of configurations and any sizes.   *)
(*                                                                         *)
(* The inductive invariant says what the pages can hold at each point of a *)
(* save: outside programming nothing but bytes of the newest record, and   *)
(* while programming the new record up to "page" and erased flash after.   *)
(***************************************************************************)
EXTENDS FlashStore, TLAPS

SaveUnderWay == pc \in {"erase", "write", "saved"} => cfg \in Configs

AtRest ==
    pc # "write" => \A i \in Pages : flash[i] \in {Erased, Garbage, last}

Programming ==
    pc = "write" =>
        \A i \in Pages : flash[i] = IF i < page THEN PageOf(cfg, i) ELSE Erased

NewestBytes == pc = "write" /\ page > 1 => last = cfg

Complete ==
    pc = "saved" => last = cfg /\ \A i \in Pages : flash[i] = PageOf(cfg, i)

IInv ==
    /\ TypeOK
    /\ SaveUnderWay
    /\ AtRest
    /\ Programming
    /\ NewestBytes
    /\ Complete
    /\ RunsWholeRecord

-----------------------------------------------------------------------------
(* loadConfig returns a configuration only if the whole record holds it. *)
LEMMA LoadIsWhole ==
    ASSUME LoadConfig # None
    PROVE  LoadConfig \in Configs /\ Holds(LoadConfig)
BY DEF LoadConfig

(* loadConfig finds a record that is there. *)
LEMMA WholeIsLoaded ==
    ASSUME NEW c \in Configs, Holds(c)
    PROVE  LoadConfig = c
<1>1. \A d \in Configs : Holds(d) => d = c
  BY FlashAssumption DEF Holds
<1> QED
  BY <1>1 DEF LoadConfig

-----------------------------------------------------------------------------
(* The inductive invariant holds in every reachable state. *)
THEOREM Invariance == Spec => []IInv
<1> USE FlashAssumption
<1>1. Init => IInv
  BY DEF Init, IInv, TypeOK, SaveUnderWay, AtRest, Programming, NewestBytes,
         Complete, RunsWholeRecord, Pages, Contents
<1>2. IInv /\ [Next]_vars => IInv'
  <2> SUFFICES ASSUME IInv, [Next]_vars PROVE IInv'
    OBVIOUS
  <2> USE DEF IInv
  <2>1. CASE Boot
    <3>1. LoadConfig # None => LoadConfig = last /\ \A i \in 1 .. RecordPages : flash[i] = last
      <4> SUFFICES ASSUME LoadConfig # None
                   PROVE  LoadConfig = last /\ \A i \in 1 .. RecordPages : flash[i] = last
        OBVIOUS
      <4>1. LoadConfig \in Configs /\ Holds(LoadConfig)
        BY LoadIsWhole
      <4>2. flash[1] = LoadConfig /\ 1 \in Pages
        BY <4>1 DEF Holds, Pages
      <4>3. LoadConfig = last
        BY <2>1, <4>1, <4>2 DEF Boot, AtRest
      <4> QED
        BY <4>1, <4>3 DEF Holds
    <3>2. loaded' \in Configs \cup {None}
      BY <2>1, LoadIsWhole DEF Boot
    <3> QED
      BY <2>1, <3>1, <3>2 DEF Boot, TypeOK, SaveUnderWay, AtRest, Programming,
         NewestBytes, Complete, RunsWholeRecord
  <2>2. ASSUME NEW c \in Configs, SaveConfig(c) PROVE IInv'
    BY <2>2 DEF SaveConfig, TypeOK, SaveUnderWay, AtRest, Programming,
       NewestBytes, Complete, RunsWholeRecord
  <2>3. CASE Erase
    <3>1. flash' \in [Pages -> Contents] /\ \A i \in Pages : flash'[i] = Erased
      BY <2>3 DEF Erase, Contents
    <3>2. page' = 1 /\ 1 \in Pages /\ \A i \in Pages : ~(i < 1)
      BY <2>3 DEF Erase, Pages
    <3> QED
      BY <2>3, <3>1, <3>2 DEF Erase, TypeOK, SaveUnderWay, AtRest, Programming,
         NewestBytes, Complete, RunsWholeRecord
  <2>4. CASE ProgramPage
    <3>1. /\ pc = "write" /\ page \in Pages /\ cfg \in Configs
          /\ flash \in [Pages -> Contents] /\ cfg' = cfg /\ last' = cfg
      BY <2>4 DEF ProgramPage, TypeOK, SaveUnderWay
    <3>2. flash[page] = Erased
      BY <3>1 DEF Programming, Pages
    <3>3. \A i \in Pages :
            flash'[i] = IF i = page THEN PageOf(cfg, i) ELSE flash[i]
      BY <2>4, <3>1, <3>2 DEF ProgramPage, Programmed
    <3>4. \A i \in Pages :
            flash'[i] = IF i < page + 1 THEN PageOf(cfg, i) ELSE Erased
      BY <3>1, <3>3 DEF Programming, Pages
    <3>5. flash' \in [Pages -> Contents]
      BY <2>4, <3>1, <3>2 DEF ProgramPage, Programmed, PageOf, Contents
    <3>6. CASE page < BufferPages
      BY <2>4, <3>1, <3>4, <3>5, <3>6 DEF ProgramPage, TypeOK, SaveUnderWay, AtRest,
         Programming, NewestBytes, Complete, RunsWholeRecord, Pages
    <3>7. CASE ~(page < BufferPages)
      <4>1. pc' = "saved" /\ page' = page
        BY <2>4, <3>7 DEF ProgramPage
      <4>2. \A i \in Pages : flash'[i] = PageOf(cfg, i)
        BY <3>1, <3>4, <3>7 DEF Pages
      <4> QED
        BY <2>4, <3>1, <3>5, <4>1, <4>2 DEF ProgramPage, PageOf, TypeOK, SaveUnderWay,
           AtRest, Programming, NewestBytes, Complete, RunsWholeRecord
    <3> QED
      BY <3>6, <3>7
  <2>5. CASE Reply
    BY <2>5 DEF Reply, TypeOK, SaveUnderWay, AtRest, Programming,
       NewestBytes, Complete, RunsWholeRecord
  <2>6. CASE Reboot
    BY <2>6 DEF Reboot, TypeOK, SaveUnderWay, AtRest, Programming,
       NewestBytes, Complete, RunsWholeRecord
  <2>7. CASE PowerLoss
    <3>1. /\ pc' = "boot"
          /\ UNCHANGED <<page, cfg, loaded, last>>
      BY <2>7 DEF PowerLoss
    <3>2. flash' \in [Pages -> Contents]
          /\ \A i \in Pages : flash'[i] \in {Erased, Garbage, last}
      <4>1. CASE pc = "erase"
        BY <2>7, <4>1 DEF PowerLoss, TypeOK, AtRest, Contents
      <4>2. CASE pc = "write"
        <5>1. page \in Pages /\ flash \in [Pages -> Contents]
          BY DEF TypeOK
        <5>2. \A i \in Pages : flash[i] \in {Erased, last}
          BY <4>2, <5>1 DEF Programming, NewestBytes, PageOf, Pages
        <5>3. PICK read \in {flash[page], Garbage} :
                 flash' = [flash EXCEPT ![page] = read]
          BY <2>7, <4>2 DEF PowerLoss
        <5> QED
          BY <5>1, <5>2, <5>3 DEF Contents
      <4>3. CASE pc \notin {"erase", "write"}
        BY <2>7, <4>3 DEF PowerLoss, TypeOK, AtRest
      <4> QED
        BY <4>1, <4>2, <4>3
    <3> QED
      BY <3>1, <3>2 DEF TypeOK, SaveUnderWay, AtRest, Programming,
         NewestBytes, Complete, RunsWholeRecord
  <2>8. CASE UNCHANGED vars
    BY <2>8 DEF vars, TypeOK, SaveUnderWay, AtRest, Programming,
       NewestBytes, Complete, RunsWholeRecord
  <2> QED
    BY <2>1, <2>2, <2>3, <2>4, <2>5, <2>6, <2>7, <2>8 DEF Next
<1> QED
  BY <1>1, <1>2, PTL DEF Spec

(* Types; the page under way is one of the buffer's. *)
THEOREM TypeCorrect == Spec => []TypeOK
<1>1. IInv => TypeOK
  BY DEF IInv
<1> QED
  BY <1>1, Invariance, PTL

(* Whatever power cuts do, a device runs with a whole and newest record. *)
THEOREM WholeRecord == Spec => []RunsWholeRecord
<1>1. IInv => RunsWholeRecord
  BY DEF IInv
<1> QED
  BY <1>1, Invariance, PTL

(* A save that ran to its end is what loadConfig returns. *)
THEOREM SavedLoads == Spec => []SavedIsLoaded
<1>1. IInv => SavedIsLoaded
  <2> SUFFICES ASSUME IInv, pc = "saved" PROVE LoadConfig = cfg
    BY DEF SavedIsLoaded
  <2>1. cfg \in Configs /\ Holds(cfg)
    BY FlashAssumption DEF IInv, SaveUnderWay, Complete, PageOf, Holds, Pages
  <2> QED
    BY <2>1, WholeIsLoaded
<1> QED
  BY <1>1, Invariance, PTL

-----------------------------------------------------------------------------
(* What the flash would load, from its pages: nothing while a page of the  *)
(* record holds no configuration, and a record that is there.              *)
LEMMA LoadsNothing ==
    /\ \A i \in 1 .. RecordPages : flash[i] \notin Configs => LoadConfig = None
    /\ \A i \in 1 .. RecordPages : flash'[i] \notin Configs => LoadConfig' = None
<1>1. ASSUME NEW i \in 1 .. RecordPages, flash[i] \notin Configs
      PROVE  LoadConfig = None
  BY <1>1 DEF LoadConfig, Holds
<1>2. ASSUME NEW i \in 1 .. RecordPages, flash'[i] \notin Configs
      PROVE  LoadConfig' = None
  BY <1>2 DEF LoadConfig, Holds
<1> QED BY <1>1, <1>2

LEMMA LoadsWhole ==
    ASSUME NEW c \in Configs, \A i \in 1 .. RecordPages : flash'[i] = c
    PROVE  LoadConfig' = c
<1>1. \A d \in Configs : Holds(d)' => d = c
  BY FlashAssumption DEF Holds
<1>2. Holds(c)'
  BY DEF Holds
<1> QED BY <1>1, <1>2 DEF LoadConfig

(* Pages of the record that stay as they are load as they did. *)
LEMMA LoadsSame ==
    ASSUME \A i \in 1 .. RecordPages : flash'[i] = flash[i]
    PROVE  LoadConfig' = LoadConfig
BY DEF LoadConfig, Holds

(* Programming a page completes the record, goes on, or ends the save. *)
LEMMA ProgramIsStoreStep ==
    ASSUME IInv, IInv', ProgramPage
    PROVE  [Store!Next]_Store!vars
<1> USE FlashAssumption
<1>1. /\ pc = "write" /\ page \in Pages /\ cfg \in Configs
      /\ cfg' = cfg /\ loaded' = loaded /\ flash \in [Pages -> Contents]
      /\ pc' \in {"write", "saved"}
      /\ \A i \in Pages : flash[i] = IF i < page THEN PageOf(cfg, i) ELSE Erased
  BY DEF ProgramPage, IInv, TypeOK, SaveUnderWay, Programming
<1>2. \A i \in Pages : flash'[i] = IF i = page THEN PageOf(cfg, i) ELSE flash[i]
  <2>1. flash[page] = Erased
    BY <1>1 DEF Pages
  <2> QED BY <1>1, <2>1 DEF ProgramPage, Programmed
<1>3. \A i \in Pages : flash'[i] = IF i <= page THEN PageOf(cfg, i) ELSE Erased
  BY <1>1, <1>2 DEF Pages
<1>4. 1 .. RecordPages \subseteq Pages
  BY DEF Pages
<1>5. \/ page < BufferPages /\ page' = page + 1 /\ pc' = "write"
      \/ page = BufferPages /\ page' = page /\ pc' = "saved"
  BY <1>1 DEF ProgramPage, Pages
<1>6. CASE page < RecordPages
  <2>1. LoadConfig = None /\ LoadConfig' = None
    <3>1. page \in 1 .. RecordPages /\ flash[page] = Erased
      BY <1>1, <1>6 DEF Pages
    <3>2. page + 1 \in 1 .. RecordPages /\ flash'[page + 1] = Erased
      BY <1>1, <1>3, <1>4, <1>6 DEF Pages
    <3> QED BY <3>1, <3>2, LoadsNothing
  <2>2. pc' = "write" /\ page' <= RecordPages /\ page <= RecordPages
    BY <1>1, <1>5, <1>6 DEF Pages
  <2> QED
    BY <1>1, <2>1, <2>2 DEF Store!vars, SaveStage, Saving
<1>7. CASE page = RecordPages
  <2>1. LoadConfig' = cfg
    BY <1>1, <1>3, <1>4, <1>7, LoadsWhole DEF PageOf
  <2>2. CASE pc' = "write"
    <3>1. page' > RecordPages /\ ~(page' <= RecordPages) /\ page <= RecordPages
      BY <1>1, <1>5, <1>7, <2>2 DEF Pages
    <3>2. SaveStage = "erased" /\ SaveStage' = "written"
      BY <1>1, <2>2, <3>1 DEF SaveStage
    <3>3. Store!Commit
      BY <1>1, <2>1, <2>2, <3>2 DEF Store!Commit, Store!GoesOn, Saving
    <3> QED BY <3>3 DEF Store!Next
  <2>3. CASE pc' = "saved"
    BY <1>1, <1>7, <2>1, <2>3
    DEF Store!Next, Store!Commit, Store!Ended, SaveStage, Saving
  <2> QED BY <1>1, <2>2, <2>3
<1>8. CASE page > RecordPages
  <2>1. LoadConfig' = LoadConfig
    <3>1. \A i \in 1 .. RecordPages : i # page
      BY <1>1, <1>8 DEF Pages
    <3> QED BY <1>2, <1>4, <3>1, LoadsSame
  <2>2. CASE pc' = "write"
    <3>1. page' > RecordPages /\ ~(page' <= RecordPages) /\ ~(page <= RecordPages)
      BY <1>1, <1>5, <1>8, <2>2 DEF Pages
    <3>2. SaveStage = "written" /\ SaveStage' = "written"
      BY <1>1, <2>2, <3>1 DEF SaveStage
    <3>3. Saving /\ Saving' /\ UNCHANGED (pc # "boot")
      BY <1>1, <2>2 DEF Saving
    <3> QED
      BY <1>1, <2>1, <3>2, <3>3 DEF Store!vars
  <2>3. CASE pc' = "saved"
    <3>1. SaveStage = "written" /\ SaveStage' = "none"
      BY <1>1, <1>8, <2>3 DEF SaveStage, Pages
    <3>2. Store!End
      BY <1>1, <2>1, <2>3, <3>1 DEF Store!End, Store!Ended, Saving
    <3> QED BY <3>2 DEF Store!Next
  <2> QED BY <1>1, <2>2, <2>3
<1> QED
  BY <1>1, <1>6, <1>7, <1>8 DEF Pages

(* A power cut leaves what was stored, or, under an erase, nothing. *)
LEMMA PowerLossIsStoreStep ==
    ASSUME IInv, PowerLoss
    PROVE  Store!Down
<1> USE FlashAssumption
<1>1. pc # "boot" /\ pc' = "boot" /\ loaded' = loaded /\ TypeOK
  BY DEF PowerLoss, IInv
<1>2. ~Saving' /\ SaveStage' = "none"
  BY <1>1 DEF Saving, SaveStage
<1>3. \/ LoadConfig' = LoadConfig
      \/ pc = "erase" /\ LoadConfig' = None
  <2>0. 1 .. RecordPages \subseteq Pages
    BY DEF Pages
  <2>1. CASE pc = "erase"
    <3>1. \A i \in Pages : flash'[i] \in {flash[i], Erased, Garbage}
      BY <1>1, <2>1 DEF PowerLoss
    <3>2. CASE \A i \in 1 .. RecordPages : flash'[i] = flash[i]
      BY <3>2, LoadsSame
    <3>3. CASE \E i \in 1 .. RecordPages : flash'[i] # flash[i]
      BY <2>0, <2>1, <3>1, <3>3, LoadsNothing
    <3> QED BY <3>2, <3>3
  <2>2. CASE pc = "write"
    <3>1. page \in Pages /\ flash \in [Pages -> Contents] /\ flash[page] = Erased
      BY <2>2 DEF IInv, TypeOK, Programming, Pages
    <3>2. PICK read \in {flash[page], Garbage} :
             flash' = [flash EXCEPT ![page] = read]
      BY <2>2 DEF PowerLoss
    <3>3. CASE page <= RecordPages
      <4>1. page \in 1 .. RecordPages
        BY <3>1, <3>3 DEF Pages
      <4>2. flash[page] \notin Configs /\ flash'[page] \notin Configs
        BY <3>1, <3>2
      <4> QED BY <4>1, <4>2, LoadsNothing
    <3>4. CASE page > RecordPages
      <4>1. \A i \in 1 .. RecordPages : i # page
        BY <3>1, <3>4 DEF Pages
      <4> QED BY <2>0, <3>1, <3>2, <4>1, LoadsSame
    <3> QED BY <3>1, <3>3, <3>4 DEF Pages
  <2>3. CASE pc \notin {"erase", "write"}
    <3>1. flash' = flash
      BY <2>3 DEF PowerLoss
    <3> QED BY <3>1, LoadsSame
  <2> QED BY <2>1, <2>2, <2>3
<1>4. pc = "erase" => SaveStage = "begun"
  BY DEF SaveStage
<1> QED
  BY <1>1, <1>2, <1>3, <1>4 DEF Store!Down, Store!Ended

(***************************************************************************)
(* FlashStore implements ConfigStore: page by page, and with power failing *)
(* at any of them, the sector behaves as one record that a save replaces.  *)
(***************************************************************************)
THEOREM Refinement == Spec => ImplementsStore
<1> USE FlashAssumption
<1>1. Init => Store!Init
  <2> SUFFICES ASSUME Init PROVE Store!Init
    OBVIOUS
  <2>1. 1 \in 1 .. RecordPages /\ flash[1] \notin Configs
    BY DEF Init, Pages
  <2>2. LoadConfig = None
    BY <2>1, LoadsNothing
  <2> QED
    BY <2>2 DEF Init, Store!Init, Saving, SaveStage
<1>2. IInv /\ IInv' /\ [Next]_vars => [Store!Next]_Store!vars
  <2> SUFFICES ASSUME IInv, IInv', [Next]_vars
               PROVE  [Store!Next]_Store!vars
    OBVIOUS
  <2>0. TypeOK
    BY DEF IInv
  <2>1. CASE Boot
    <3>1. LoadConfig' = LoadConfig
      BY <2>1, LoadsSame DEF Boot
    <3> QED
      BY <2>1, <3>1 DEF Boot, Store!Next, Store!Boot, Saving, SaveStage
  <2>2. ASSUME NEW c \in Configs, SaveConfig(c)
        PROVE  [Store!Next]_Store!vars
    <3>1. LoadConfig' = LoadConfig
      BY <2>2, LoadsSame DEF SaveConfig
    <3>2. CASE pc' = "erase"
      <4>1. Store!Begin(c)
        BY <2>2, <3>1, <3>2 DEF SaveConfig, Store!Begin, Saving, SaveStage
      <4> QED BY <4>1 DEF Store!Next
    <3>3. CASE pc' = "failed"
      BY <2>2, <3>1, <3>3 DEF SaveConfig, Store!vars, Saving, SaveStage
    <3> QED BY <2>2, <3>2, <3>3 DEF SaveConfig
  <2>3. CASE Erase
    <3>1. 1 \in 1 .. RecordPages /\ flash'[1] \notin Configs
      BY <2>3 DEF Erase, Pages
    <3>2. LoadConfig' = None /\ page' <= RecordPages
      BY <2>3, <3>1, LoadsNothing DEF Erase
    <3>3. CASE pc' = "write"
      BY <2>3, <3>2, <3>3
      DEF Erase, Store!Next, Store!Discard, Store!GoesOn, Saving, SaveStage
    <3>4. CASE pc' = "failed"
      BY <2>3, <3>2, <3>4
      DEF Erase, Store!Next, Store!Discard, Store!Ended, Saving, SaveStage
    <3> QED BY <2>3, <3>3, <3>4 DEF Erase
  <2>4. CASE ProgramPage
    BY <2>4, ProgramIsStoreStep
  <2>5. CASE Reply
    <3>1. LoadConfig' = LoadConfig
      BY <2>5, LoadsSame DEF Reply
    <3> QED
      BY <2>5, <3>1 DEF Reply, Store!vars, Saving, SaveStage
  <2>6. CASE Reboot
    <3>1. LoadConfig' = LoadConfig
      BY <2>6, LoadsSame DEF Reboot
    <3> QED
      BY <2>6, <3>1 DEF Reboot, Store!Next, Store!Down, Store!Ended, Saving, SaveStage
  <2>7. CASE PowerLoss
    BY <2>7, PowerLossIsStoreStep DEF Store!Next
  <2>8. CASE UNCHANGED vars
    <3>1. LoadConfig' = LoadConfig
      BY <2>8, LoadsSame DEF vars
    <3> QED
      BY <2>8, <3>1 DEF vars, Store!vars, Saving, SaveStage
  <2> QED
    BY <2>1, <2>2, <2>3, <2>4, <2>5, <2>6, <2>7, <2>8 DEF Next
<1> QED
  BY <1>1, <1>2, Invariance, PTL DEF Spec, ImplementsStore, Store!Spec
=============================================================================
