------------------------------- MODULE Sensing -------------------------------
(***************************************************************************)
(* The sensors and who reads them (SensorController.cpp and the soil and   *)
(* water drivers).  Three tasks read: the sensor task, lwIP's tcpip thread *)
(* for a trigger command, and the Wi-Fi task for GET /api/sensors.  Every  *)
(* single read takes and gives the recursive mutex; a reading of all       *)
(* sensors is four reads, with others in between.                          *)
(*                                                                         *)
(* The soil probe is powered for half a second before its sample is taken. *)
(* The tank has one section of electrodes above the other, each read at an *)
(* address of its own, and either may stay silent.  Temperature, light and *)
(* the soil's percentage are left out.                                     *)
(***************************************************************************)
EXTENDS Naturals, Sequences

CONSTANTS
    LowSections, HighSections,   \* electrodes at the two addresses
    NoTask

ASSUME SectionsAssumption ==
    LowSections \in Nat /\ HighSections \in Nat /\ LowSections + HighSections > 0

Tasks == {"mqtt", "sensor", "wifi"}
Kinds == {"environment", "light", "soil", "water"}

ASSUME NoTaskAssumption == NoTask \notin Tasks

Priority == [mqtt |-> 3, sensor |-> 2, wifi |-> 1]

VARIABLES
    present,   \* sensors found when the device started; the drivers of soil
               \* and tank start without asking the sensor
    pc,        \* where each task is in a read
    todo,      \* the reads it has still to make, the current one first
    owner,     \* holder of sensorMutex_
    power,     \* level of the soil probe's power pin
    reading,   \* the last reading of the tank
    tank       \* observer: how many electrodes were under water then

vars == <<present, pc, todo, owner, power, reading, tank>>

Total == LowSections + HighSections

-----------------------------------------------------------------------------
(* Reads one caller makes in a row: readAllSensors, readWaterLevel, and    *)
(* what shouldStartWatering reads.                                         *)
AllSensors == <<"environment", "light", "soil", "water">>

Orders == [mqtt   |-> {<<"water">>},
           sensor |-> {AllSensors, <<"water">>, <<"soil">>, <<"soil", "water">>},
           wifi   |-> {AllSensors}]

(* A task that is idle, sleeps, or finds the mutex taken lets others run.  *)
(* The climate and light drivers sleep when they start a sensor again that *)
(* failed before.  Waits for the lock of stdout are left out.              *)
Waits(t) ==
    \/ pc[t] \in {"idle", "settle"}
    \/ pc[t] = "bus" /\ Head(todo[t]) # "water"
    \/ pc[t] = "take" /\ owner \notin {t, NoTask}

(* Mutant: configRUN_MULTIPLE_PRIORITIES 1, one task on each core. *)
CanRunOnEitherCore(t) == TRUE

CanRun(t) == \A u \in Tasks : Priority[u] > Priority[t] => Waits(u)

At(t, label) == pc[t] = label /\ CanRun(t)
Goto(t, label) == pc' = [pc EXCEPT ![t] = label]

-----------------------------------------------------------------------------
Begin(t) ==
    /\ At(t, "idle")
    /\ \E order \in Orders[t] : todo' = [todo EXCEPT ![t] = order]
    /\ Goto(t, "take")
    /\ UNCHANGED <<present, owner, power, reading, tank>>

FirstStep(kind) ==
    CASE kind \notin present                       -> "give"
      [] kind \in present /\ kind = "soil"         -> "powerUp"
      [] kind \in present /\ kind # "soil"         -> "bus"

(* Mutant: the soil is read without the mutex. *)
TakeUnlocked(t) ==
    /\ At(t, "take")
    /\ owner = NoTask \/ Head(todo[t]) = "soil"
    /\ owner' = t
    /\ Goto(t, FirstStep(Head(todo[t])))
    /\ UNCHANGED <<present, todo, power, reading, tank>>

(* The mutex is recursive, but no read is made inside another. *)
Take(t) ==
    /\ At(t, "take")
    /\ owner \in {NoTask, t}
    /\ owner' = t
    /\ Goto(t, FirstStep(Head(todo[t])))
    /\ UNCHANGED <<present, todo, power, reading, tank>>

(* SoilMoistureSensor::read *)
PowerUp(t) ==
    /\ At(t, "powerUp")
    /\ power' = TRUE
    /\ Goto(t, "settle")
    /\ UNCHANGED <<present, todo, owner, reading, tank>>

Settle(t) ==
    /\ At(t, "settle")
    /\ Goto(t, "sample")
    /\ UNCHANGED <<present, todo, owner, power, reading, tank>>

Sample(t) ==
    /\ At(t, "sample")
    /\ Goto(t, "powerDown")
    /\ UNCHANGED <<present, todo, owner, power, reading, tank>>

PowerDown(t) ==
    /\ At(t, "powerDown")
    /\ power' = FALSE
    /\ Goto(t, "give")
    /\ UNCHANGED <<present, todo, owner, reading, tank>>

(* WaterLevelSensor::read; an address that is silent counts as dry. *)
Wet(level, low, high) ==
    (IF low THEN (IF level < LowSections THEN level ELSE LowSections) ELSE 0)
    + (IF high /\ level > LowSections THEN level - LowSections ELSE 0)

(* Mutant: the percentage is one of the electrodes that answered. *)
WaterReadingOfAnswers(level, low, high) ==
    LET n == Wet(level, low, high)
        all == (IF low THEN LowSections ELSE 0) + (IF high THEN HighSections ELSE 0)
    IN  CASE ~low /\ ~high                               -> "invalid"
          [] (low \/ high) /\ 10 * n < all               -> "empty"
          [] (low \/ high) /\ 10 * n >= all /\ 4 * n < all -> "low"
          [] (low \/ high) /\ 4 * n >= all               -> "ok"

(* WaterLevelData::isEmpty below 10 %, isLow below 25 % *)
WaterReading(level, low, high) ==
    LET n == Wet(level, low, high)
    IN  CASE ~low /\ ~high                                   -> "invalid"
          [] (low \/ high) /\ 10 * n < Total                 -> "empty"
          [] (low \/ high) /\ 10 * n >= Total /\ 4 * n < Total -> "low"
          [] (low \/ high) /\ 4 * n >= Total                 -> "ok"

ReadBus(t) ==
    /\ At(t, "bus")
    /\ IF Head(todo[t]) = "water"
       THEN \E level \in 0 .. Total, low \in BOOLEAN, high \in BOOLEAN :
              reading' = WaterReading(level, low, high) /\ tank' = level
       ELSE UNCHANGED <<reading, tank>>
    /\ Goto(t, "give")
    /\ UNCHANGED <<present, todo, owner, power>>

(* Mutant: a tank reading that failed returns without giving the mutex. *)
GiveUnlessFailed(t) ==
    /\ At(t, "give")
    /\ owner' = IF Head(todo[t]) = "water" /\ reading = "invalid" THEN t ELSE NoTask
    /\ todo' = [todo EXCEPT ![t] = Tail(@)]
    /\ Goto(t, IF Tail(todo[t]) = <<>> THEN "idle" ELSE "take")
    /\ UNCHANGED <<present, power, reading, tank>>

Give(t) ==
    /\ At(t, "give")
    /\ owner' = NoTask
    /\ todo' = [todo EXCEPT ![t] = Tail(@)]
    /\ Goto(t, IF Tail(todo[t]) = <<>> THEN "idle" ELSE "take")
    /\ UNCHANGED <<present, power, reading, tank>>

Read(t) ==
    \/ Take(t) \/ PowerUp(t) \/ Settle(t) \/ Sample(t) \/ PowerDown(t)
    \/ ReadBus(t) \/ Give(t)

-----------------------------------------------------------------------------
Init ==
    /\ present \in {Kinds, Kinds \ {"environment"}, Kinds \ {"light"}, {"soil", "water"}}
    /\ pc = [t \in Tasks |-> "idle"]
    /\ todo = [t \in Tasks |-> <<>>]
    /\ owner = NoTask
    /\ power = FALSE
    /\ reading = "invalid" /\ tank = 0

Next == \E t \in Tasks : Begin(t) \/ Read(t)

(***************************************************************************)
(* A read that began goes on; the tasks above the Wi-Fi task sleep between *)
(* their rounds, so that it finds the mutex free again and again.  Nobody  *)
(* has to begin a read.                                                    *)
(***************************************************************************)
Spec == Init /\ [][Next]_vars /\ \A t \in Tasks : SF_vars(Read(t))

-----------------------------------------------------------------------------
(* Types, and the mutex is held exactly by the task inside a read. *)
TypeOK ==
    /\ present \subseteq Kinds
    /\ pc \in [Tasks -> {"idle", "take", "powerUp", "settle", "sample",
                         "powerDown", "bus", "give"}]
    /\ todo \in [Tasks -> Seq(Kinds)]
    /\ \A t \in Tasks : (todo[t] = <<>>) = (pc[t] = "idle")
    /\ \A t \in Tasks : (owner = t) = (pc[t] \notin {"idle", "take"})
    /\ owner \in Tasks \cup {NoTask}
    /\ power \in BOOLEAN
    /\ reading \in {"invalid", "empty", "low", "ok"} /\ tank \in 0 .. Total

(***************************************************************************)
(* The soil's sample is taken from a powered probe, which another reader   *)
(* does not switch off during the half second of waiting, and the probe is *)
(* off whenever nobody reads.                                              *)
(***************************************************************************)
SoilReadPowered ==
    /\ \A t \in Tasks : pc[t] \in {"settle", "sample"} => power
    /\ owner = NoTask => ~power

(***************************************************************************)
(* A sensor of which one half is silent may make the tank look emptier,    *)
(* never fuller: a reading that counts as "ok" is from a tank that is at   *)
(* least a quarter full.  Nothing is said of the readings "low" and        *)
(* "invalid", on which a trigger command waters, too.                      *)
(***************************************************************************)
TankNotOverstated == reading = "ok" => 4 * tank >= Total

(***************************************************************************)
(* The network stack's thread, waiting for the mutex with a trigger        *)
(* command, waits for the one read under way: nobody takes the mutex       *)
(* before it, neither the rest of a reading of all sensors nor a page.     *)
(***************************************************************************)
TriggerNotOvertaken ==
    [][pc["mqtt"] = "take" /\ owner' # owner => owner' \in {NoTask, "mqtt"}]_vars

(* Every reader gets its readings, also with sensors missing. *)
ReadersFinish == \A t \in Tasks : pc[t] = "take" ~> pc[t] = "idle"
=============================================================================
