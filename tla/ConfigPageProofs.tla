-------------------------- MODULE ConfigPageProofs --------------------------
(***************************************************************************)
(* Proofs about ConfigPage, for any width of the interval and any number   *)
(* of milliseconds in a second.  What FlashStoreProofs shows of any use of *)
(* the flash holds of the page as well (PageSteps); the page shows what is *)
(* stored and loaded, and saving it unchanged keeps what it shows.         *)
(***************************************************************************)
EXTENDS ConfigPage, FlashStoreProofs

(* The session's copy is a configuration. *)
PageTypeOK == config \in Configs \cup {None}

-----------------------------------------------------------------------------
LEMMA ModInRange ==
    ASSUME NEW m \in Nat, NEW n \in Nat, 0 < n
    PROVE  m % n \in 0 .. n - 1
OBVIOUS

LEMMA ProductIsNat ==
    ASSUME NEW m \in Nat, NEW n \in Nat
    PROVE  m * n \in Nat
OBVIOUS

(* Whatever a client posts, the updated copy is a 32-bit number again. *)
LEMMA UpdateInRange ==
    ASSUME NEW c \in Configs, NEW body \in Bodies
    PROVE  UpdateConfig(c, body) \in Configs
<1>1. /\ U \in Nat /\ K \in Nat /\ 0 < U /\ Configs = 0 .. U - 1
  BY PageAssumption DEF Intervals
<1>2. CopyInt(c, body) \in Nat
  BY <1>1 DEF CopyInt, Bodies, Intervals
<1>3. CopyInt(c, body) * K \in Nat
  BY <1>1, <1>2, ProductIsNat
<1>4. (CopyInt(c, body) * K) % U \in 0 .. U - 1
  BY <1>1, <1>3, ModInRange
<1> QED
  BY <1>1, <1>4 DEF UpdateConfig

LEMMA QuotientBounds ==
    ASSUME NEW c \in Nat, NEW k \in Nat, 0 < k
    PROVE  c \div k \in Nat /\ (c \div k) * k <= c
OBVIOUS

LEMMA QuotientOfProduct ==
    ASSUME NEW q \in Nat, NEW k \in Nat, 0 < k
    PROVE  (q * k) \div k = q
OBVIOUS

LEMMA ModOfSmaller ==
    ASSUME NEW m \in Nat, NEW n \in Nat, m < n
    PROVE  m % n = m
OBVIOUS

(* Posting what the page shows gives a configuration it shows the same. *)
LEMMA ShownAgain ==
    ASSUME NEW c \in Configs
    PROVE  Shown(UpdateConfig(c, {Shown(c)})) = Shown(c)
<1> DEFINE q == c \div K
<1>1. /\ U \in Nat /\ K \in Nat /\ 0 < K /\ c \in Nat /\ c < U
  BY PageAssumption DEF Intervals
<1>2. q \in Nat /\ q * K <= c
  BY <1>1, QuotientBounds
<1>3. q * K \in Nat
  BY <1>1, <1>2, ProductIsNat
<1>4. (q * K) % U = q * K
  <2>1. q * K < U
    BY <1>1, <1>2, <1>3
  <2> QED
    BY <1>1, <1>3, <2>1, ModOfSmaller
<1>5. (q * K) \div K = q
  BY <1>1, <1>2, QuotientOfProduct
<1>6. CopyInt(c, {q}) = q
  BY DEF CopyInt
<1> QED
  BY <1>4, <1>5, <1>6 DEF Shown, UpdateConfig

-----------------------------------------------------------------------------
(* The session's copy stays a configuration. *)
LEMMA StepKeepsType ==
    ASSUME PageTypeOK, [PageNext]_pageVars
    PROVE  PageTypeOK'
<1>1. CASE OpenSession
  <2>1. LoadConfig # None => LoadConfig \in Configs
    BY LoadIsWhole
  <2> QED
    BY <1>1, <2>1, PageAssumption DEF OpenSession, OrDefault, PageTypeOK
<1>2. ASSUME NEW body \in Bodies, Post(body)
      PROVE  PageTypeOK'
  <2>1. config \in Configs /\ config' = UpdateConfig(config, body)
    BY <1>2 DEF Post, PageTypeOK
  <2> QED
    BY <2>1, UpdateInRange DEF PageTypeOK
<1>3. CASE CloseSession \/ config' = None \/ UNCHANGED config
  BY <1>3 DEF CloseSession, PageTypeOK
<1> QED
  BY <1>1, <1>2, <1>3 DEF PageNext, pageVars

(* Every step of the page is a step of the flash, or leaves it alone. *)
LEMMA StepUsesFlash ==
    ASSUME PageTypeOK, [PageNext]_pageVars
    PROVE  [Next]_vars
<1>1. CASE OpenSession \/ CloseSession
  BY <1>1 DEF OpenSession, CloseSession
<1>2. ASSUME NEW body \in Bodies, Post(body)
      PROVE  [Next]_vars
  <2>1. SaveConfig(config') /\ config' = UpdateConfig(config, body)
    BY <1>2 DEF Post
  <2>2. config' \in Configs
    BY <1>2, <2>1, UpdateInRange DEF Post, PageTypeOK
  <2> QED
    BY <2>1, <2>2 DEF Next
<1>3. CASE (Boot \/ Erase \/ ProgramPage \/ Reply) /\ UNCHANGED config
  BY <1>3 DEF Next
<1>4. CASE (Reboot \/ PowerLoss) /\ config' = None
  BY <1>4 DEF Next
<1>5. CASE UNCHANGED pageVars
  BY <1>5 DEF pageVars
<1> QED
  BY <1>1, <1>2, <1>3, <1>4, <1>5 DEF PageNext

(* To the flash, the page's sessions are saves, reboots and power cuts     *)
(* like any others, so that theorems about Spec hold of PageSpec.          *)
LEMMA PageSteps == PageSpec => Spec /\ []PageTypeOK
<1>1. PageInit => Init /\ PageTypeOK
  BY DEF PageInit, PageTypeOK
<1>2. PageTypeOK /\ [PageNext]_pageVars => [Next]_vars
  BY StepUsesFlash
<1>3. PageTypeOK /\ [PageNext]_pageVars => PageTypeOK'
  BY StepKeepsType
<1> QED
  BY <1>1, <1>2, <1>3, PTL DEF PageSpec, Spec

(* What a device configured by its page runs with is whole and the newest. *)
THEOREM PageRunsWholeRecord == PageSpec => []RunsWholeRecord
  BY PageSteps, WholeRecord, PTL

-----------------------------------------------------------------------------
(* A session opens on a device that has booted, and none outlives a save:  *)
(* that is why its copy cannot be older than the flash.                    *)
CopyFollowsFlash ==
    /\ pc = "boot" => config = None
    /\ pc = "idle" => loaded = LoadConfig
    /\ pc = "idle" /\ config # None => config = OrDefault(LoadConfig)

LEMMA StepKeepsCopy ==
    ASSUME CopyFollowsFlash, [PageNext]_pageVars
    PROVE  CopyFollowsFlash'
<1> USE DEF CopyFollowsFlash
<1>1. flash' = flash => LoadConfig' = LoadConfig
  BY DEF LoadConfig, Holds
<1>2. CASE OpenSession
  BY <1>1, <1>2 DEF OpenSession, vars
<1>3. CASE CloseSession
  BY <1>1, <1>3 DEF CloseSession, vars
<1>4. CASE \E body \in Bodies : Post(body)
  BY <1>4 DEF Post, SaveConfig
<1>5. CASE Boot /\ UNCHANGED config
  BY <1>1, <1>5 DEF Boot
<1>6. CASE (Erase \/ ProgramPage \/ Reply) /\ UNCHANGED config
  BY <1>6 DEF Erase, ProgramPage, Reply
<1>7. CASE (Reboot \/ PowerLoss) /\ config' = None
  BY <1>7 DEF Reboot, PowerLoss
<1>8. CASE UNCHANGED pageVars
  BY <1>1, <1>8 DEF pageVars, vars
<1> QED
  BY <1>2, <1>3, <1>4, <1>5, <1>6, <1>7, <1>8 DEF PageNext

(* Whatever save fails, the page never shows what is not stored and loaded. *)
THEOREM PageShowsStored == PageSpec => []ShownIsStored
<1>1. PageInit => CopyFollowsFlash
  BY DEF PageInit, Init, CopyFollowsFlash
<1>2. CopyFollowsFlash => ShownIsStored
  BY DEF CopyFollowsFlash, ShownIsStored
<1> QED
  BY <1>1, <1>2, StepKeepsCopy, PTL DEF PageSpec

(* Saving the page unchanged keeps what it shows. *)
THEOREM PageKeepsShown == PageSpec => ShownKept
<1>1. PageTypeOK
        => (config # None /\ Post({Shown(config)}) => Shown(config') = Shown(config))
  BY ShownAgain DEF PageTypeOK, Post
<1> QED
  BY <1>1, PageSteps, PTL DEF ShownKept

(***************************************************************************)
(* To whoever configures the device, the page over the flash is one record *)
(* that a save replaces: ConfigStore, by way of FlashStore.                *)
(***************************************************************************)
THEOREM PageKeepsPromise == PageSpec => ImplementsStore
  BY PageSteps, Refinement, PTL

-----------------------------------------------------------------------------
LEMMA ProductGrows ==
    ASSUME NEW m \in Nat, NEW k \in Nat, 0 < m, 1 < k
    PROVE  m < m * k
<1>1. m * 2 <= m * k
  OBVIOUS
<1> QED
  BY <1>1, ProductIsNat

(***************************************************************************)
(* The configurations whose interval in milliseconds can be multiplied by  *)
(* K once more without wrapping: with 32 bits, up to 71 minutes.           *)
(***************************************************************************)
Multiplies(c) == 0 < c /\ c * K < U

OmittedGrows ==
    [][config # None /\ Multiplies(config) /\ Post({}) => config' > config]_pageVars

(***************************************************************************)
(* A request without the interval never keeps it: whatever the width of an *)
(* interval, a configured one that can grow does.  The run config_omitted  *)
(* is no accident of its small constants.                                  *)
(***************************************************************************)
THEOREM OmittedIsMultiplied == 1 < K => (PageSpec => OmittedGrows)
<1> SUFFICES ASSUME 1 < K PROVE PageSpec => OmittedGrows
  OBVIOUS
<1>1. PageTypeOK
        => (config # None /\ Multiplies(config) /\ Post({}) => config' > config)
  <2> SUFFICES ASSUME PageTypeOK, config # None, Multiplies(config), Post({})
               PROVE  config' > config
    OBVIOUS
  <2>1. config \in Nat /\ K \in Nat /\ U \in Nat
    BY PageAssumption DEF PageTypeOK, Intervals
  <2>2. config' = (config * K) % U
    BY DEF Post, UpdateConfig, CopyInt
  <2>3. config * K \in Nat /\ config < config * K
    BY <2>1, ProductIsNat, ProductGrows DEF Multiplies
  <2>4. (config * K) % U = config * K
    BY <2>1, <2>3, ModOfSmaller DEF Multiplies
  <2>5. config' = config * K
    BY <2>2, <2>4
  <2> QED
    BY ONLY <2>1, <2>3, <2>5
<1> QED
  BY <1>1, PageSteps, PTL DEF OmittedGrows
=============================================================================
