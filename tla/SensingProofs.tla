---------------------------- MODULE SensingProofs ----------------------------
(***************************************************************************)
(* Proofs about Sensing, for any number of electrodes in each section of   *)
(* the tank.                                                               *)
(***************************************************************************)
EXTENDS Sensing, TLAPS

Labels == {"idle", "take", "powerUp", "settle", "sample", "powerDown", "bus", "give"}

(* The pin is high exactly while the mutex' holder is between raising and  *)
(* lowering it.  SoilReadPowered alone does not say that a reader who      *)
(* begins finds the pin low, nor that one who ends leaves it so.           *)
PowerFollowsReader ==
    /\ owner = NoTask => ~power
    /\ \A t \in Tasks :
         owner = t => (power <=> pc[t] \in {"settle", "sample", "powerDown"})

IInv == TypeOK /\ PowerFollowsReader /\ TankNotOverstated

-----------------------------------------------------------------------------
LEMMA TotalIsNat == Total \in Nat /\ Total > 0
BY SectionsAssumption DEF Total

(* No silent section adds an electrode that is not under water. *)
LEMMA WetIsNoMore ==
    ASSUME NEW level \in 0 .. Total, NEW low \in BOOLEAN, NEW high \in BOOLEAN
    PROVE  Wet(level, low, high) \in 0 .. level
<1>1. LowSections \in Nat /\ HighSections \in Nat /\ level \in Nat
  BY SectionsAssumption, TotalIsNat
<1>2. CASE low /\ high
  BY <1>1, <1>2 DEF Wet
<1>3. CASE low /\ ~high
  BY <1>1, <1>3 DEF Wet
<1>4. CASE ~low /\ high
  BY <1>1, <1>4 DEF Wet
<1>5. CASE ~low /\ ~high
  BY <1>1, <1>5 DEF Wet
<1> QED BY <1>2, <1>3, <1>4, <1>5

(* A tank that reads as full enough is full enough. *)
LEMMA ReadingIsCautious ==
    ASSUME NEW level \in 0 .. Total, NEW low \in BOOLEAN, NEW high \in BOOLEAN
    PROVE  /\ WaterReading(level, low, high) \in {"invalid", "empty", "low", "ok"}
           /\ WaterReading(level, low, high) = "ok" => 4 * level >= Total
<1> DEFINE n == Wet(level, low, high)
<1>1. n \in Nat /\ n <= level /\ level \in Nat /\ Total \in Nat
  BY WetIsNoMore, TotalIsNat
<1> HIDE DEF n
<1>2. WaterReading(level, low, high) =
        CASE ~low /\ ~high                                     -> "invalid"
          [] (low \/ high) /\ 10 * n < Total                   -> "empty"
          [] (low \/ high) /\ 10 * n >= Total /\ 4 * n < Total -> "low"
          [] (low \/ high) /\ 4 * n >= Total                   -> "ok"
  BY DEF WaterReading, n
<1>3. CASE ~low /\ ~high
  BY <1>2, <1>3
<1>4. CASE (low \/ high) /\ 4 * n < Total
  <2>1. 10 * n < Total \/ 10 * n >= Total
    BY <1>1
  <2>2. WaterReading(level, low, high) \in {"empty", "low"}
    BY <1>1, <1>2, <1>4, <2>1
  <2> QED BY <2>2
<1>5. CASE (low \/ high) /\ 4 * n >= Total
  <2>1. 4 * level >= Total
    BY <1>1, <1>5
  <2>2. 10 * n >= Total
    BY <1>1, <1>5
  <2>3. WaterReading(level, low, high) = "ok"
    BY <1>1, <1>2, <1>5, <2>2
  <2> QED BY <2>1, <2>3
<1>6. 4 * n < Total \/ 4 * n >= Total
  BY <1>1
<1> QED BY <1>3, <1>4, <1>5, <1>6

-----------------------------------------------------------------------------
LEMMA InitInv == Init => IInv
<1> SUFFICES ASSUME Init PROVE IInv
  OBVIOUS
<1>1. <<>> \in Seq(Kinds) /\ 0 \in 0 .. Total
  BY TotalIsNat
<1>2. TypeOK
  BY <1>1, NoTaskAssumption DEF Init, TypeOK, Kinds
<1> QED BY <1>2, NoTaskAssumption DEF Init, IInv, PowerFollowsReader, TankNotOverstated

LEMMA OrderIsRead ==
    ASSUME NEW t \in Tasks, NEW order \in Orders[t]
    PROVE  order \in Seq(Kinds) /\ order # <<>>
<1>1. /\ "environment" \in Kinds /\ "light" \in Kinds
      /\ "soil" \in Kinds /\ "water" \in Kinds
  BY DEF Kinds
<1>2. order \in {AllSensors, <<"water">>, <<"soil">>, <<"soil", "water">>}
  <2>1. CASE t = "mqtt"
    BY <2>1 DEF Orders
  <2>2. CASE t = "sensor"
    BY <2>2 DEF Orders
  <2>3. CASE t = "wifi"
    BY <2>3 DEF Orders
  <2> QED BY <2>1, <2>2, <2>3 DEF Tasks
<1>3. CASE order = AllSensors
  BY <1>1, <1>3 DEF AllSensors
<1>4. CASE order = <<"water">>
  BY <1>1, <1>4
<1>5. CASE order = <<"soil">>
  BY <1>1, <1>5
<1>6. CASE order = <<"soil", "water">>
  BY <1>1, <1>6
<1> QED BY <1>2, <1>3, <1>4, <1>5, <1>6

LEMMA TailIsRead ==
    ASSUME NEW s \in Seq(Kinds), s # <<>>
    PROVE  Tail(s) \in Seq(Kinds) /\ Head(s) \in Kinds
OBVIOUS

(* What is read first decides where the mutex' new holder goes. *)
LEMMA FirstStepIsLabel ==
    ASSUME NEW kind \in Kinds
    PROVE  FirstStep(kind) \in {"give", "powerUp", "bus"}
BY DEF FirstStep

LEMMA StepInv == IInv /\ [Next]_vars => IInv'
<1> SUFFICES ASSUME IInv, [Next]_vars PROVE IInv'
  OBVIOUS
<1> USE NoTaskAssumption DEF Labels
<1>1. CASE UNCHANGED vars
  BY <1>1 DEF vars, IInv, TypeOK, PowerFollowsReader, TankNotOverstated
<1>2. ASSUME NEW t \in Tasks, Begin(t) PROVE IInv'
  <2>1. PICK order \in Orders[t] : todo' = [todo EXCEPT ![t] = order]
    BY <1>2 DEF Begin
  <2>2. order \in Seq(Kinds) /\ order # <<>>
    BY <2>1, OrderIsRead
  <2> QED BY <1>2, <2>1, <2>2
       DEF Begin, At, Goto, IInv, TypeOK, PowerFollowsReader, TankNotOverstated
<1>3. ASSUME NEW t \in Tasks, Take(t) PROVE IInv'
  <2>1. owner = NoTask /\ todo[t] # <<>>
    BY <1>3 DEF Take, At, IInv, TypeOK
  <2>2. FirstStep(Head(todo[t])) \in {"give", "powerUp", "bus"}
    BY <2>1, TailIsRead, FirstStepIsLabel DEF IInv, TypeOK
  <2> QED BY <1>3, <2>1, <2>2
       DEF Take, At, Goto, IInv, TypeOK, PowerFollowsReader, TankNotOverstated
<1>4. ASSUME NEW t \in Tasks, PowerUp(t) PROVE IInv'
  BY <1>4 DEF PowerUp, At, Goto, IInv, TypeOK, PowerFollowsReader, TankNotOverstated
<1>5. ASSUME NEW t \in Tasks, Settle(t) PROVE IInv'
  BY <1>5 DEF Settle, At, Goto, IInv, TypeOK, PowerFollowsReader, TankNotOverstated
<1>6. ASSUME NEW t \in Tasks, Sample(t) PROVE IInv'
  BY <1>6 DEF Sample, At, Goto, IInv, TypeOK, PowerFollowsReader, TankNotOverstated
<1>7. ASSUME NEW t \in Tasks, PowerDown(t) PROVE IInv'
  BY <1>7 DEF PowerDown, At, Goto, IInv, TypeOK, PowerFollowsReader, TankNotOverstated
<1>8. ASSUME NEW t \in Tasks, ReadBus(t) PROVE IInv'
  <2>1. /\ reading' \in {"invalid", "empty", "low", "ok"}
        /\ tank' \in 0 .. Total
        /\ TankNotOverstated'
    BY <1>8, ReadingIsCautious DEF ReadBus, IInv, TypeOK, TankNotOverstated
  <2> QED BY <1>8, <2>1 DEF ReadBus, At, Goto, IInv, TypeOK, PowerFollowsReader
<1>9. ASSUME NEW t \in Tasks, Give(t) PROVE IInv'
  <2>1. owner = t /\ ~power /\ todo[t] # <<>>
    BY <1>9 DEF Give, At, IInv, TypeOK, PowerFollowsReader
  <2>2. Tail(todo[t]) \in Seq(Kinds)
    BY <2>1, TailIsRead DEF IInv, TypeOK
  <2>3. pc' = [pc EXCEPT ![t] = IF Tail(todo[t]) = <<>> THEN "idle" ELSE "take"]
    BY <1>9 DEF Give, Goto
  <2> QED BY <1>9, <2>1, <2>2, <2>3
       DEF Give, At, IInv, TypeOK, PowerFollowsReader, TankNotOverstated
<1> QED BY <1>1, <1>2, <1>3, <1>4, <1>5, <1>6, <1>7, <1>8, <1>9 DEF Next, Read

(***************************************************************************)
(* The strengthened invariant of every reader and of the soil probe's pin. *)
(***************************************************************************)
THEOREM Invariance == Spec => []IInv
BY InitInv, StepInv, PTL DEF Spec

(* The mutex is held exactly by the task that is inside a read. *)
THEOREM TypeCorrect == Spec => []TypeOK
<1>1. IInv => TypeOK
  BY DEF IInv
<1> QED BY <1>1, Invariance, PTL

(***************************************************************************)
(* The soil's sample is taken from a powered probe, and the probe is off   *)
(* whenever nobody reads.                                                  *)
(***************************************************************************)
THEOREM SoilIsPowered == Spec => []SoilReadPowered
<1>1. IInv => SoilReadPowered
  BY DEF IInv, TypeOK, PowerFollowsReader, SoilReadPowered
<1> QED BY <1>1, Invariance, PTL

(***************************************************************************)
(* A reading "ok" is from a tank that is at least a quarter full,          *)
(* whichever section of it stays silent.                                   *)
(***************************************************************************)
THEOREM TankIsCautious == Spec => []TankNotOverstated
<1>1. IInv => TankNotOverstated
  BY DEF IInv
<1> QED BY <1>1, Invariance, PTL

LEMMA NotOvertakenStep ==
    IInv /\ [Next]_vars =>
      [pc["mqtt"] = "take" /\ owner' # owner => owner' \in {NoTask, "mqtt"}]_vars
<1> SUFFICES ASSUME IInv, Next, pc["mqtt"] = "take", owner' # owner, owner' # NoTask
             PROVE  owner' = "mqtt"
  BY DEF vars
<1>1. PICK t \in Tasks : Take(t)
  BY DEF Next, Read, Begin, PowerUp, Settle, Sample, PowerDown, ReadBus, Give
<1>2. owner = NoTask /\ owner' = t
  BY <1>1 DEF Take, At, IInv, TypeOK
<1>3. SUFFICES ASSUME t # "mqtt" PROVE FALSE
  BY <1>2
<1>4. Waits("mqtt")
  BY <1>1, <1>3 DEF Take, At, CanRun, Tasks, Priority
<1> QED BY <1>2, <1>4, NoTaskAssumption DEF Waits

(***************************************************************************)
(* A trigger command that waits in the network stack's thread is never     *)
(* overtaken: it waits for the one read under way.                         *)
(***************************************************************************)
THEOREM NeverOvertaken == Spec => TriggerNotOvertaken
<1>1. IInv /\ [Next]_vars =>
        [pc["mqtt"] = "take" /\ owner' # owner => owner' \in {NoTask, "mqtt"}]_vars
  BY NotOvertakenStep
<1> QED BY <1>1, Invariance, PTL DEF Spec, TriggerNotOvertaken

-----------------------------------------------------------------------------
(* A task that is inside a round of reads and whose next step nothing      *)
(* hinders: no task above it wants the core, and the mutex, if it comes to *)
(* take it, is free.                                                       *)
MayGoOn(t) ==
    /\ pc[t] # "idle"
    /\ CanRun(t)
    /\ pc[t] = "take" => owner = NoTask

(* While anyone reads, somebody's read goes on. *)
NeverStuck == (\E t \in Tasks : pc[t] # "idle") => \E t \in Tasks : MayGoOn(t)

(* Whoever holds the mutex can go on: the tasks above it are idle or wait  *)
(* for the mutex, and both let it run.                                     *)
LEMMA HolderMayGoOn ==
    ASSUME TypeOK, NEW t \in Tasks, owner = t
    PROVE  MayGoOn(t)
<1>1. pc[t] \notin {"idle", "take"}
  BY DEF TypeOK
<1>2. ASSUME NEW u \in Tasks, u # t PROVE Waits(u)
  <2>1. pc[u] \in {"idle", "take"}
    BY <1>2 DEF TypeOK
  <2> QED BY <1>2, <2>1, NoTaskAssumption DEF Waits
<1>3. ~(Priority[t] > Priority[t])
  BY DEF Tasks, Priority
<1>4. CanRun(t)
  BY <1>2, <1>3 DEF CanRun
<1> QED BY <1>1, <1>4 DEF MayGoOn

(* With the mutex free, a reader above whom everybody is idle can go on. *)
LEMMA TopMayGoOn ==
    ASSUME TypeOK, owner = NoTask, NEW t \in Tasks, pc[t] # "idle",
           \A u \in Tasks : Priority[u] > Priority[t] => pc[u] = "idle"
    PROVE  MayGoOn(t)
BY DEF MayGoOn, CanRun, Waits

LEMMA SomebodyMayGoOn == TypeOK => NeverStuck
<1> SUFFICES ASSUME TypeOK, \E t \in Tasks : pc[t] # "idle"
             PROVE  \E t \in Tasks : MayGoOn(t)
  BY DEF NeverStuck
<1>1. CASE owner # NoTask
  BY <1>1, HolderMayGoOn DEF TypeOK
<1>2. CASE owner = NoTask
  <2>1. CASE pc["mqtt"] # "idle"
    BY <1>2, <2>1, TopMayGoOn DEF Tasks, Priority
  <2>2. CASE pc["mqtt"] = "idle" /\ pc["sensor"] # "idle"
    BY <1>2, <2>2, TopMayGoOn DEF Tasks, Priority
  <2>3. CASE pc["mqtt"] = "idle" /\ pc["sensor"] = "idle"
    <3>1. pc["wifi"] # "idle"
      BY <2>3 DEF Tasks
    <3> QED BY <1>2, <2>3, <3>1, TopMayGoOn DEF Tasks, Priority
  <2> QED BY <2>1, <2>2, <2>3
<1> QED BY <1>1, <1>2

(***************************************************************************)
(* No set of readers waits for one another: whatever has been preempted    *)
(* where, as long as a task is inside a round of reads some task's read    *)
(* takes its next step.  The network stack's thread waits for the mutex    *)
(* only behind a task that can give it.                                    *)
(***************************************************************************)
THEOREM NobodyIsStuck == Spec => []NeverStuck
BY TypeCorrect, SomebodyMayGoOn, PTL
=============================================================================
