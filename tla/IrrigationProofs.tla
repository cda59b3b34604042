-------------------------- MODULE IrrigationProofs --------------------------
(***************************************************************************)
(* Proofs about Irrigation, for every value of its constants.              *)
(*                                                                         *)
(* PumpRunBounded is not inductive: that the pump stops in time depends on *)
(* how long the irrigation task still sleeps and on the modular clock      *)
(* agreeing with the time that really passed.  IInv adds both.             *)
(***************************************************************************)
EXTENDS Irrigation, TLAPS

PumpFollowsFlag == ctl.pump = ctl.isWatering

(* The modular difference the code computes is the true age of the run. *)
SessionClock ==
    /\ ctl.pump => Elapsed(ctl.wateringStartTime) = pumpRun
    /\ ~ctl.pump => pumpRun = 0

(* The irrigation task looks at an open session before the bound is due. *)
TaskCoversRun == ctl.pump => pumpRun + delay <= RunBound - Jitter

(* Within Cooldown of a stop that was recorded, the code knows its age. *)
CooldownClock ==
    ctl.lastWateringTime # 0 /\ rest < Cooldown
        => Elapsed(ctl.lastWateringTime) = rest

IInv ==
    /\ TypeOK
    /\ PumpFollowsFlag
    /\ OffMeansIdle
    /\ SessionClock
    /\ TaskCoversRun
    /\ CooldownClock

(***************************************************************************)
(* What a call may do to the controller: leave the session as it is, open  *)
(* one (when the cooldown allows), or close it and record when.            *)
(***************************************************************************)
Coherent(c) ==
    /\ c \in Controllers
    /\ c.pump = c.isWatering
    /\ c.mode = "OFF" => ~c.isWatering

Kept(c, d) ==
    /\ d.isWatering = c.isWatering
    /\ d.wateringStartTime = c.wateringStartTime
    /\ d.lastWateringTime = c.lastWateringTime
    /\ d.wateringDuration = c.wateringDuration

Opened(c, d) ==
    /\ ~c.isWatering /\ d.isWatering
    /\ CanStartWatering(c)
    /\ d.wateringStartTime = now
    /\ d.lastWateringTime = c.lastWateringTime

Closed(c, d) ==
    /\ c.isWatering /\ ~d.isWatering
    /\ d.lastWateringTime = now

LegalCall(c, d) == Coherent(d) /\ (Kept(c, d) \/ Opened(c, d) \/ Closed(c, d))

-----------------------------------------------------------------------------
LEMMA ActiveTickIsHint == ActiveTick \in ActiveTick .. EvapoMaxSleep
  BY ConstantsAssumption

LEMMA RunBoundIsNat == RunBound \in Nat /\ RunBound < W
  BY ConstantsAssumption DEF RunBound, Larger

(* Opening a session, in any mode but OFF, is a legal call. *)
LEMMA StartIsLegal ==
    ASSUME NEW STATE c, Coherent(c), c.mode # "OFF", now \in 0 .. W - 1,
           NEW d \in Nat
    PROVE  LegalCall(c, StartWatering(c, d))
<1>1. Clamp(d) \in MinDuration .. MaxDuration
  BY ConstantsAssumption DEF Clamp
<1>2. CASE c.isWatering \/ ~CanStartWatering(c)
  BY <1>2 DEF StartWatering, LegalCall, Kept
<1>3. CASE ~c.isWatering /\ CanStartWatering(c)
  <2> DEFINE e == StartWatering(c, d)
  <2>1. e = [c EXCEPT !.wateringDuration = Clamp(d), !.isWatering = TRUE,
                      !.wateringStartTime = now, !.sleepHint = ActiveTick,
                      !.pump = TRUE]
    BY <1>3 DEF StartWatering
  <2>2. e \in Controllers
    BY <1>1, <2>1, ActiveTickIsHint DEF Coherent, Controllers
  <2>3. /\ e.isWatering /\ e.pump /\ e.wateringStartTime = now
        /\ e.lastWateringTime = c.lastWateringTime /\ e.mode = c.mode
    BY <2>1 DEF Coherent, Controllers
  <2> QED
    BY <1>3, <2>2, <2>3 DEF LegalCall, Coherent, Opened
<1> QED
  BY <1>2, <1>3

(* Closing a session is a legal call and always leaves the pump off. *)
LEMMA StopIsLegal ==
    ASSUME NEW STATE c, Coherent(c), now \in 0 .. W - 1
    PROVE  /\ LegalCall(c, StopWatering(c))
           /\ ~StopWatering(c).isWatering
           /\ StopWatering(c).mode = c.mode
<1>1. CASE ~c.isWatering
  BY <1>1 DEF StopWatering, LegalCall, Kept
<1>2. CASE c.isWatering
  <2> DEFINE e == StopWatering(c)
  <2>1. e = [c EXCEPT !.isWatering = FALSE, !.lastWateringTime = now,
                      !.sleepHint = ActiveTick, !.pump = FALSE]
    BY <1>2 DEF StopWatering
  <2>2. e \in Controllers
    BY <2>1, ActiveTickIsHint DEF Coherent, Controllers
  <2>3. /\ e.isWatering = FALSE /\ e.pump = FALSE
        /\ e.lastWateringTime = now /\ e.mode = c.mode
    BY <2>1 DEF Coherent, Controllers
  <2> QED
    BY <1>2, <2>2, <2>3 DEF LegalCall, Coherent, Closed
<1> QED
  BY <1>1, <1>2

(* The timer closes a session only when it is over; an open one is young. *)
LEMMA TimeoutIsLegal ==
    ASSUME NEW STATE c, Coherent(c), now \in 0 .. W - 1
    PROVE  /\ LegalCall(c, CheckWateringTimeout(c))
           /\ CheckWateringTimeout(c).isWatering =>
                /\ CheckWateringTimeout(c) = c
                /\ ~(Elapsed(c.wateringStartTime) >= c.wateringDuration)
           /\ ~c.isWatering => CheckWateringTimeout(c) = c
           /\ CheckWateringTimeout(c) # c =>
                Elapsed(c.wateringStartTime) >= c.wateringDuration
<1>1. CASE c.isWatering /\ Elapsed(c.wateringStartTime) >= c.wateringDuration
  <2>1. CheckWateringTimeout(c) = StopWatering(c)
    BY <1>1 DEF CheckWateringTimeout
  <2> QED
    BY <1>1, <2>1, StopIsLegal
<1>2. CASE ~(c.isWatering /\ Elapsed(c.wateringStartTime) >= c.wateringDuration)
  <2>1. CheckWateringTimeout(c) = c
    BY <1>2 DEF CheckWateringTimeout
  <2> QED
    BY <1>2, <2>1 DEF LegalCall, Kept
<1> QED
  BY <1>1, <1>2

(* Changing the mode is a legal call: on the way to OFF the session closes. *)
LEMMA SetModeIsLegal ==
    ASSUME NEW STATE c, Coherent(c), now \in 0 .. W - 1, NEW m \in Modes
    PROVE  LegalCall(c, SetMode(c, m))
<1>1. CASE c.mode = m
  BY <1>1 DEF SetMode, LegalCall, Kept
<1>2. CASE c.mode # m
  <2> DEFINE s == IF m = "OFF" THEN StopWatering(c) ELSE c
             e == SetMode(c, m)
  <2>1. LegalCall(c, s) /\ (m = "OFF" => ~s.isWatering)
    BY StopIsLegal DEF LegalCall, Kept
  <2>2. e = [s EXCEPT !.mode = m]
    BY <1>2 DEF SetMode
  <2>3. s \in Controllers
    BY <2>1 DEF LegalCall, Coherent
  <2> HIDE DEF s
  <2> SUFFICES LegalCall(c, e)
    OBVIOUS
  <2>4. e \in Controllers
    BY <2>2, <2>3 DEF Controllers
  <2>5. /\ e.mode = m /\ e.isWatering = s.isWatering /\ e.pump = s.pump
        /\ e.wateringStartTime = s.wateringStartTime
        /\ e.lastWateringTime = s.lastWateringTime
        /\ e.wateringDuration = s.wateringDuration
    BY <2>2, <2>3 DEF Controllers
  <2> HIDE DEF e
  <2> QED
    BY <2>1, <2>4, <2>5 DEF LegalCall, Coherent, Kept, Opened, Closed
<1> QED
  BY <1>1, <1>2

(* The two automatic modes, from a controller whose hint was just reset. *)
LEMMA HumidityIsLegal ==
    ASSUME NEW STATE c, Coherent(c), c.mode # "OFF", now \in 0 .. W - 1,
           NEW data, NEW recheck
    PROVE  LegalCall(c, HandleHumidityBasedMode(c, data, recheck))
<1>1. LegalCall(c, c)
  BY DEF LegalCall, Kept
<1>2. LegalCall(c, StopWatering(c))
  BY StopIsLegal
<1>3. LegalCall(c, StartWatering(c, DefaultDuration))
  BY StartIsLegal, ConstantsAssumption
<1> QED
  BY <1>1, <1>2, <1>3 DEF HandleHumidityBasedMode, StopWhenWet

LEMMA EvapotranspirationIsLegal ==
    ASSUME NEW STATE c, Coherent(c), c.mode # "OFF", now \in 0 .. W - 1,
           NEW data, NEW recheck, NEW forecast \in Forecasts
    PROVE  LegalCall(c, HandleEvapotranspirationMode(c, data, recheck, forecast))
<1>1. LegalCall(c, c)
  BY DEF LegalCall, Kept
<1>2. LegalCall(c, StopWatering(c))
  BY StopIsLegal
<1>3. LegalCall(c, StartWatering(c, DefaultDuration))
  BY StartIsLegal, ConstantsAssumption
<1>4. LegalCall(c, HandleHumidityBasedMode(c, data, recheck))
  BY HumidityIsLegal
<1>5. LegalCall(c, [c EXCEPT !.sleepHint = forecast])
  <2> DEFINE e == [c EXCEPT !.sleepHint = forecast]
  <2> SUFFICES LegalCall(c, e)
    OBVIOUS
  <2>1. forecast \in ActiveTick .. EvapoMaxSleep
    BY ConstantsAssumption
  <2>2. e \in Controllers
    BY <2>1 DEF Coherent, Controllers
  <2>3. /\ e.mode = c.mode /\ e.isWatering = c.isWatering /\ e.pump = c.pump
        /\ e.wateringStartTime = c.wateringStartTime
        /\ e.lastWateringTime = c.lastWateringTime
        /\ e.wateringDuration = c.wateringDuration
    BY DEF Coherent, Controllers
  <2> HIDE DEF e
  <2> QED
    BY <2>2, <2>3 DEF LegalCall, Coherent, Kept
<1> QED
  BY <1>1, <1>2, <1>3, <1>4, <1>5
  DEF HandleEvapotranspirationMode, StopWhenWet

(* A whole update, the timer check at its end included, is a legal call. *)
LEMMA UpdateIsLegal ==
    ASSUME NEW STATE c, Coherent(c), now \in 0 .. W - 1,
           NEW data, NEW recheck, NEW forecast \in Forecasts
    PROVE  LegalCall(c, Update(c, data, recheck, forecast))
<1> DEFINE r == [c EXCEPT !.sleepHint = ActiveTick]
           h == HandleMode(r, data, recheck, forecast)
           u == CheckWateringTimeout(h)
<1>1. /\ r.mode = c.mode /\ r.isWatering = c.isWatering /\ r.pump = c.pump
      /\ r.wateringStartTime = c.wateringStartTime
      /\ r.lastWateringTime = c.lastWateringTime
      /\ r.wateringDuration = c.wateringDuration
  BY DEF Coherent, Controllers
<1>2. Coherent(r)
  <2>1. r \in Controllers
    BY ActiveTickIsHint DEF Coherent, Controllers
  <2> QED
    BY <1>1, <2>1 DEF Coherent
<1>3. CanStartWatering(r) = CanStartWatering(c)
  BY <1>1 DEF CanStartWatering
<1> SUFFICES LegalCall(c, u)
  BY DEF Update
<1> HIDE DEF r
<1>4. LegalCall(r, h)
  <2>1. CASE r.mode = "HUMIDITY"
    BY <1>2, <2>1, HumidityIsLegal DEF HandleMode
  <2>2. CASE r.mode = "EVAPOTRANSPIRATION"
    BY <1>2, <2>2, EvapotranspirationIsLegal DEF HandleMode
  <2>3. CASE r.mode # "HUMIDITY" /\ r.mode # "EVAPOTRANSPIRATION"
    BY <1>2, <2>3 DEF HandleMode, LegalCall, Kept
  <2> QED
    BY <2>1, <2>2, <2>3
<1> HIDE DEF h
<1>5. Coherent(h)
  BY <1>4 DEF LegalCall
<1>6. /\ LegalCall(h, u)
      /\ ~h.isWatering => u = h
      /\ u # h => Elapsed(h.wateringStartTime) >= h.wateringDuration
  BY <1>5, TimeoutIsLegal
<1> HIDE DEF u
<1>7. CASE Kept(r, h)
  <2>1. CanStartWatering(h) = CanStartWatering(c)
    BY <1>1, <1>7 DEF CanStartWatering, Kept
  <2> QED
    BY <1>1, <1>6, <1>7, <2>1 DEF LegalCall, Kept, Opened, Closed
<1>8. CASE Opened(r, h)
  <2>1. Elapsed(h.wateringStartTime) = 0
    BY <1>8 DEF Opened, Elapsed
  <2>2. h.wateringDuration > 0
    BY <1>5, ConstantsAssumption DEF Coherent, Controllers
  <2>3. u = h
    BY <1>6, <2>1, <2>2, <1>5, ConstantsAssumption DEF Coherent, Controllers
  <2> QED
    BY <1>1, <1>3, <1>5, <1>8, <2>3 DEF LegalCall, Opened
<1>9. CASE Closed(r, h)
  BY <1>1, <1>5, <1>6, <1>9 DEF LegalCall, Closed
<1> QED
  BY <1>4, <1>7, <1>8, <1>9 DEF LegalCall

-----------------------------------------------------------------------------
(* What every legal call preserves, whoever makes it. *)
LEMMA CallPreserves ==
    ASSUME IInv, LegalCall(ctl, ctl'), Observe(ctl'), now' = now
    PROVE  /\ ctl' \in Controllers
           /\ pumpRun' \in 0 .. RunBound + 1 /\ rest' \in 0 .. Cooldown
           /\ PumpFollowsFlag' /\ OffMeansIdle'
           /\ SessionClock' /\ CooldownClock'
<1> USE ConstantsAssumption, RunBoundIsNat
<1>1. /\ now \in 0 .. W - 1 /\ now' = now
      /\ ctl \in Controllers /\ ctl' \in Controllers
      /\ pumpRun \in 0 .. RunBound + 1 /\ rest \in 0 .. Cooldown
  BY DEF IInv, TypeOK, LegalCall, Coherent
<1>2. /\ ctl.pump \in BOOLEAN /\ ctl'.pump \in BOOLEAN
      /\ ctl.pump = ctl.isWatering /\ ctl'.pump = ctl'.isWatering
      /\ ctl'.mode = "OFF" => ~ctl'.isWatering
  BY <1>1 DEF IInv, PumpFollowsFlag, LegalCall, Coherent, Controllers
<1>3. pumpRun' \in 0 .. RunBound + 1 /\ rest' \in 0 .. Cooldown
  BY <1>1 DEF Observe
<1>4. PumpFollowsFlag' /\ OffMeansIdle'
  BY <1>2 DEF PumpFollowsFlag, OffMeansIdle
<1>5. CASE Kept(ctl, ctl')
  <2>1. pumpRun' = pumpRun /\ rest' = rest /\ ctl'.pump = ctl.pump
    BY <1>2, <1>5 DEF Kept, Observe, IInv, SessionClock
  <2>2. SessionClock' /\ CooldownClock'
    BY <1>1, <1>5, <2>1 DEF Kept, IInv, SessionClock, CooldownClock, Elapsed
  <2> QED
    BY <1>1, <1>3, <1>4, <2>1, <2>2
<1>6. CASE Opened(ctl, ctl')
  <2>1. pumpRun' = 0 /\ rest' = rest /\ ~ctl.pump
    BY <1>2, <1>6 DEF Opened, Observe
  <2>2. SessionClock' /\ CooldownClock'
    BY <1>1, <1>6, <2>1 DEF Opened, IInv, SessionClock, CooldownClock, Elapsed
  <2> QED
    BY <1>1, <1>3, <1>4, <2>1, <2>2
<1>7. CASE Closed(ctl, ctl')
  <2>1. pumpRun' = 0 /\ rest' = 0 /\ ~ctl'.pump
    BY <1>2, <1>7 DEF Closed, Observe
  <2>2. SessionClock' /\ CooldownClock'
    BY <1>1, <1>7, <2>1 DEF Closed, IInv, SessionClock, CooldownClock, Elapsed
  <2> QED
    BY <1>1, <1>3, <1>4, <2>1, <2>2
<1> QED
  BY <1>5, <1>6, <1>7 DEF LegalCall

(* A call that does not touch the irrigation task's sleep keeps IInv. *)
LEMMA CallKeepsIInv ==
    ASSUME IInv, LegalCall(ctl, ctl'), Observe(ctl'), UNCHANGED <<now, delay>>
    PROVE  IInv'
<1>1. TypeOK' /\ PumpFollowsFlag' /\ OffMeansIdle' /\ SessionClock' /\ CooldownClock'
  BY CallPreserves DEF IInv, TypeOK
<1>2. delay' = delay /\ delay \in Int /\ delay <= EvapoMaxSleep
  BY ConstantsAssumption DEF IInv, TypeOK
<1>3. EvapoMaxSleep \in Nat /\ RunBound - Jitter \in Nat
      /\ EvapoMaxSleep <= RunBound - Jitter
  BY ConstantsAssumption DEF RunBound, Larger
<1>4. TaskCoversRun'
  <2> SUFFICES ASSUME ctl'.pump
               PROVE  pumpRun' + delay <= RunBound - Jitter
    BY <1>2 DEF TaskCoversRun
  <2>1. CASE ctl.pump
    <3>1. pumpRun' = pumpRun
      BY <2>1 DEF Observe
    <3> QED
      BY <2>1, <3>1 DEF IInv, TaskCoversRun
  <2>2. CASE ~ctl.pump
    <3>1. pumpRun' = 0
      BY <2>2 DEF Observe
    <3> QED
      BY <1>2, <1>3, <3>1
  <2> QED
    BY <2>1, <2>2
<1> QED
  BY <1>1, <1>4 DEF IInv

(* A round of the irrigation task keeps IInv: it stops the pump or, the run *)
(* being younger than its duration, looks again after ActiveTick.           *)
LEMMA RoundKeepsIInv ==
    ASSUME IInv, IrrigationTaskRound
    PROVE  IInv'
<1> USE ConstantsAssumption
<1>1. Coherent(ctl) /\ now \in 0 .. W - 1
  BY DEF IInv, TypeOK, PumpFollowsFlag, OffMeansIdle, Coherent
<1>2. /\ LegalCall(ctl, ctl')
      /\ ctl'.isWatering =>
            ctl' = ctl /\ ~(Elapsed(ctl.wateringStartTime) >= ctl.wateringDuration)
  BY <1>1, TimeoutIsLegal DEF IrrigationTaskRound
<1>3. ctl' \in Controllers
  BY <1>2 DEF LegalCall, Coherent
<1>4. delay' \in -Jitter .. EvapoMaxSleep
  BY <1>3 DEF IrrigationTaskRound, NextSleepHint, Controllers
<1>5. TypeOK' /\ PumpFollowsFlag' /\ OffMeansIdle' /\ SessionClock' /\ CooldownClock'
  BY <1>2, <1>4, CallPreserves DEF IrrigationTaskRound, IInv, TypeOK
<1>6. TaskCoversRun'
  <2> SUFFICES ASSUME ctl'.pump
               PROVE  pumpRun' + delay' <= RunBound - Jitter
    BY DEF TaskCoversRun
  <2>1. ctl'.isWatering /\ ctl' = ctl
    BY <1>2, <1>5 DEF PumpFollowsFlag
  <2>2. delay' = ActiveTick
    BY <2>1 DEF IrrigationTaskRound, NextSleepHint
  <2>3. pumpRun' = pumpRun
    BY <2>1 DEF IrrigationTaskRound, Observe
  <2>4. pumpRun < ctl.wateringDuration
    BY <1>1, <1>2, <2>1 DEF IInv, SessionClock, TypeOK, Controllers
  <2>5. ctl.wateringDuration \in MinDuration .. MaxDuration /\ pumpRun \in Nat
    BY RunBoundIsNat DEF IInv, TypeOK, Controllers
  <2> QED
    BY <2>2, <2>3, <2>4, <2>5 DEF RunBound, Larger
<1> QED
  BY <1>5, <1>6 DEF IInv

(* The passing of time keeps IInv; here the clock may wrap. *)
LEMMA TickKeepsIInv ==
    ASSUME IInv, Tick
    PROVE  IInv'
<1> USE ConstantsAssumption
<1>0. RunBound \in Nat /\ RunBound < W
  BY RunBoundIsNat
<1>1. /\ now \in 0 .. W - 1 /\ delay \in -Jitter .. EvapoMaxSleep
      /\ pumpRun \in 0 .. RunBound + 1 /\ rest \in 0 .. Cooldown
      /\ ctl \in Controllers
      /\ ctl' = ctl /\ delay' = delay - 1 /\ delay > -Jitter
      /\ now' = IF now = W - 1 THEN 0 ELSE now + 1
      /\ rest' = IF rest < Cooldown THEN rest + 1 ELSE rest
  BY DEF IInv, TypeOK, Tick
<1>10. ctl.pump => pumpRun < RunBound
  BY <1>0, <1>1 DEF IInv, TaskCoversRun
<1>11. pumpRun' = IF ctl.pump THEN pumpRun + 1 ELSE 0
  BY <1>0, <1>1, <1>10 DEF Tick
<1>2. /\ ctl.wateringStartTime \in 0 .. W - 1
      /\ ctl.lastWateringTime \in 0 .. W - 1
  BY <1>1 DEF Controllers
<1>3. TypeOK'
  BY <1>0, <1>1, <1>10, <1>11 DEF TypeOK
<1>4. PumpFollowsFlag' /\ OffMeansIdle'
  BY <1>1 DEF IInv, PumpFollowsFlag, OffMeansIdle
<1>5. TaskCoversRun'
  BY <1>0, <1>1, <1>11 DEF IInv, TaskCoversRun
<1>6. SessionClock'
  <2>1. CASE ctl.pump
    <3>1. pumpRun + 1 < W
      BY <1>0, <1>1, <1>10, <2>1
    <3> QED
      BY <1>1, <1>2, <1>11, <2>1, <3>1 DEF IInv, SessionClock, Elapsed
  <2>2. CASE ~ctl.pump
    BY <1>1, <1>11, <2>2 DEF SessionClock
  <2> QED
    BY <2>1, <2>2
<1>7. CooldownClock'
  BY <1>1, <1>2 DEF IInv, CooldownClock, Elapsed
<1> QED
  BY <1>3, <1>4, <1>5, <1>6, <1>7 DEF IInv

(* Every step of the system is, for the controller, a legal call. *)
LEMMA StepIsLegalCall ==
    ASSUME IInv, [Next]_vars
    PROVE  LegalCall(ctl, ctl')
<1>1. Coherent(ctl) /\ now \in 0 .. W - 1
  BY DEF IInv, TypeOK, PumpFollowsFlag, OffMeansIdle, Coherent
<1>2. ASSUME NEW data \in Snapshots, NEW recheck \in Rechecks,
             NEW forecast \in Forecasts, SensorUpdate(data, recheck, forecast)
      PROVE  LegalCall(ctl, ctl')
  BY <1>1, <1>2, UpdateIsLegal DEF SensorUpdate
<1>3. ASSUME NEW m \in CommandModes, ModeCommand(m)
      PROVE  LegalCall(ctl, ctl')
  <2>1. m \in Modes
    BY ConstantsAssumption
  <2> QED
    BY <1>1, <1>3, <2>1, SetModeIsLegal DEF ModeCommand
<1>4. ASSUME NEW water \in WaterReadings, TriggerCommand(water)
      PROVE  LegalCall(ctl, ctl')
  <2>1. ctl.mode # "OFF" /\ DefaultDuration \in Nat
    BY <1>4, ConstantsAssumption DEF TriggerCommand
  <2> QED
    BY <1>1, <1>4, <2>1, StartIsLegal DEF TriggerCommand
<1>5. CASE IrrigationTaskRound
  BY <1>1, <1>5, TimeoutIsLegal DEF IrrigationTaskRound
<1>6. CASE Tick \/ UNCHANGED vars
  BY <1>1, <1>6 DEF Tick, vars, LegalCall, Kept
<1> QED
  BY <1>2, <1>3, <1>4, <1>5, <1>6 DEF Next

-----------------------------------------------------------------------------
(* The inductive invariant holds throughout every behaviour. *)
THEOREM Invariance == Spec => []IInv
<1>1. Init => IInv
  <2> SUFFICES ASSUME Init PROVE IInv
    OBVIOUS
  <2>1. ctl \in Controllers /\ ctl.pump = FALSE /\ ctl.isWatering = FALSE
        /\ ctl.lastWateringTime = 0
    BY ActiveTickIsHint, ConstantsAssumption DEF Init, Controllers
  <2> QED
    BY <2>1, RunBoundIsNat, ConstantsAssumption
    DEF Init, IInv, TypeOK, PumpFollowsFlag, OffMeansIdle,
        SessionClock, TaskCoversRun, CooldownClock
<1>2. IInv /\ [Next]_vars => IInv'
  <2> SUFFICES ASSUME IInv, [Next]_vars PROVE IInv'
    OBVIOUS
  <2>1. LegalCall(ctl, ctl')
    BY StepIsLegalCall
  <2>2. ASSUME NEW data \in Snapshots, NEW recheck \in Rechecks,
               NEW forecast \in Forecasts, SensorUpdate(data, recheck, forecast)
        PROVE  IInv'
    BY <2>1, <2>2, CallKeepsIInv DEF SensorUpdate
  <2>3. ASSUME NEW m \in CommandModes, ModeCommand(m)
        PROVE  IInv'
    BY <2>1, <2>3, CallKeepsIInv DEF ModeCommand
  <2>4. ASSUME NEW water \in WaterReadings, TriggerCommand(water)
        PROVE  IInv'
    BY <2>1, <2>4, CallKeepsIInv DEF TriggerCommand
  <2>5. CASE IrrigationTaskRound
    BY <2>5, RoundKeepsIInv
  <2>6. CASE Tick
    BY <2>6, TickKeepsIInv
  <2>7. CASE UNCHANGED vars
    BY <2>7 DEF vars, IInv, TypeOK, PumpFollowsFlag, OffMeansIdle, SessionClock,
                TaskCoversRun, CooldownClock, Elapsed
  <2> QED
    BY <2>2, <2>3, <2>4, <2>5, <2>6, <2>7 DEF Next
<1> QED
  BY <1>1, <1>2, PTL DEF Spec

(* Types hold in every reachable state. *)
THEOREM TypeCorrect == Spec => []TypeOK
<1>1. IInv => TypeOK
  BY DEF IInv
<1> QED
  BY <1>1, Invariance, PTL

(* Mode OFF implies no open session and a pump that is off. *)
THEOREM OffIsIdle == Spec => []OffMeansIdle
<1>1. IInv => OffMeansIdle
  BY DEF IInv
<1> QED
  BY <1>1, Invariance, PTL

(* No run of the pump outlasts RunBound, wherever the clock wraps. *)
THEOREM BoundedRun == Spec => []PumpRunBounded
<1>1. IInv => PumpRunBounded
  <2> SUFFICES ASSUME IInv PROVE pumpRun <= RunBound
    BY DEF PumpRunBounded
  <2>1. /\ delay \in -Jitter .. EvapoMaxSleep /\ pumpRun \in Nat
        /\ RunBound \in Nat
    BY RunBoundIsNat, ConstantsAssumption DEF IInv, TypeOK
  <2>2. ctl.pump => pumpRun + delay <= RunBound - Jitter
    BY DEF IInv, TaskCoversRun
  <2>3. ~ctl.pump => pumpRun = 0
    BY DEF IInv, SessionClock
  <2> QED
    BY <2>1, <2>2, <2>3, ConstantsAssumption
<1> QED
  BY <1>1, Invariance, PTL

(* No restart within Cooldown of a stop, but for a stop at clock value 0. *)
THEOREM CooldownHolds == Spec => CooldownRespected
<1>1. IInv /\ [Next]_vars
        => (~ctl.pump /\ ctl'.pump => rest = Cooldown \/ ctl.lastWateringTime = 0)
  <2> SUFFICES ASSUME IInv, [Next]_vars, ~ctl.pump, ctl'.pump
               PROVE  rest = Cooldown \/ ctl.lastWateringTime = 0
    OBVIOUS
  <2>1. ctl.pump = ctl.isWatering /\ ctl'.pump = ctl'.isWatering
    BY StepIsLegalCall DEF LegalCall, Coherent, IInv, PumpFollowsFlag
  <2>2. CanStartWatering(ctl)
    BY <2>1, StepIsLegalCall DEF LegalCall, Kept, Opened, Closed
  <2>3. rest \in 0 .. Cooldown /\ Cooldown \in Nat
    BY ConstantsAssumption DEF IInv, TypeOK
  <2> QED
    BY <2>2, <2>3 DEF CanStartWatering, IInv, CooldownClock
<1> QED
  BY <1>1, Invariance, PTL DEF CooldownRespected, Spec

(* The timer of the irrigation task never ends a session early. *)
THEOREM TimerHolds == Spec => TimerNotEarly
<1>1. IInv /\ [Next]_vars
        => (IrrigationTaskRound /\ ctl.pump /\ ~ctl'.pump
              => pumpRun >= ctl.wateringDuration)
  <2> SUFFICES ASSUME IInv, IrrigationTaskRound, ctl.pump, ~ctl'.pump
               PROVE  pumpRun >= ctl.wateringDuration
    OBVIOUS
  <2>1. Coherent(ctl) /\ now \in 0 .. W - 1
    BY DEF IInv, TypeOK, PumpFollowsFlag, OffMeansIdle, Coherent
  <2>2. CheckWateringTimeout(ctl) # ctl
    BY DEF IrrigationTaskRound
  <2>3. Elapsed(ctl.wateringStartTime) >= ctl.wateringDuration
    BY <2>1, <2>2, TimeoutIsLegal
  <2> QED
    BY <2>3 DEF IInv, SessionClock
<1> QED
  BY <1>1, Invariance, PTL DEF TimerNotEarly, Spec
-----------------------------------------------------------------------------
(* A legal call is one step of Pump, or none: it switches at most once. *)
LEMMA CallIsPumpStep ==
    ASSUME IInv, LegalCall(ctl, ctl'), Observe(ctl'), now' = now
    PROVE  [Promise!Next]_Promise!vars
<1>1. /\ ctl.pump \in BOOLEAN /\ ctl'.pump \in BOOLEAN
      /\ ctl.pump = ctl.isWatering /\ ctl'.pump = ctl'.isWatering
  BY DEF IInv, TypeOK, PumpFollowsFlag, LegalCall, Coherent, Controllers
<1>2. CASE Kept(ctl, ctl')
  <2>1. pumpRun' = pumpRun /\ rest' = rest /\ ctl'.pump = ctl.pump
    BY <1>1, <1>2 DEF Kept, Observe, IInv, SessionClock
  <2> QED
    BY <1>2, <2>1 DEF Kept, Promise!vars
<1>3. CASE Opened(ctl, ctl')
  <2>1. /\ ~ctl.pump /\ ctl'.pump /\ pumpRun' = 0 /\ rest' = rest
        /\ ctl'.lastWateringTime = ctl.lastWateringTime
    BY <1>1, <1>3 DEF Opened, Observe
  <2>2. rest = Cooldown \/ ctl.lastWateringTime = 0
    <3>1. rest \in 0 .. Cooldown /\ Cooldown \in Nat
      BY ConstantsAssumption DEF IInv, TypeOK
    <3> QED
      BY <1>3, <3>1 DEF Opened, CanStartWatering, IInv, CooldownClock
  <2>3. Promise!SwitchOn
    BY <1>1, <2>1, <2>2 DEF Promise!SwitchOn
  <2> QED
    BY <2>3 DEF Promise!Next
<1>4. CASE Closed(ctl, ctl')
  <2>1. /\ ctl.pump /\ ~ctl'.pump /\ pumpRun' = 0 /\ rest' = 0
        /\ ctl'.lastWateringTime = now
    BY <1>1, <1>4 DEF Closed, Observe
  <2>2. Promise!SwitchOff
    BY <1>1, <2>1 DEF Promise!SwitchOff
  <2> QED
    BY <2>2 DEF Promise!Next
<1> QED
  BY <1>2, <1>3, <1>4 DEF LegalCall

(* While the pump runs, a tick passes only before RunBound is reached. *)
LEMMA TickIsPumpStep ==
    ASSUME IInv, Tick
    PROVE  Promise!Next
<1>1. /\ delay \in -Jitter .. EvapoMaxSleep /\ delay > -Jitter
      /\ pumpRun \in 0 .. RunBound + 1 /\ ctl' = ctl
      /\ RunBound \in Nat
  BY RunBoundIsNat DEF IInv, TypeOK, Tick
<1>2. ctl.pump => pumpRun < RunBound
  BY <1>1, ConstantsAssumption DEF IInv, TaskCoversRun
<1>3. pumpRun' = IF ctl.pump THEN pumpRun + 1 ELSE 0
  BY <1>1, <1>2 DEF Tick
<1>4. (now = 0)' \in BOOLEAN
  OBVIOUS
<1>5. Promise!Pass
  BY <1>1, <1>2, <1>3, <1>4 DEF Tick, Promise!Pass
<1> QED
  BY <1>5 DEF Promise!Next

(* Irrigation implements Pump. *)
THEOREM Refinement == Spec => ImplementsPump
<1>1. Init => Promise!Init
  BY DEF Init, Promise!Init
<1>2. IInv /\ [Next]_vars => [Promise!Next]_Promise!vars
  <2> SUFFICES ASSUME IInv, [Next]_vars
               PROVE  [Promise!Next]_Promise!vars
    OBVIOUS
  <2>1. LegalCall(ctl, ctl')
    BY StepIsLegalCall
  <2>2. ASSUME NEW data \in Snapshots, NEW recheck \in Rechecks,
               NEW forecast \in Forecasts, SensorUpdate(data, recheck, forecast)
        PROVE  [Promise!Next]_Promise!vars
    BY <2>1, <2>2, CallIsPumpStep DEF SensorUpdate
  <2>3. ASSUME NEW m \in CommandModes, ModeCommand(m)
        PROVE  [Promise!Next]_Promise!vars
    BY <2>1, <2>3, CallIsPumpStep DEF ModeCommand
  <2>4. ASSUME NEW water \in WaterReadings, TriggerCommand(water)
        PROVE  [Promise!Next]_Promise!vars
    BY <2>1, <2>4, CallIsPumpStep DEF TriggerCommand
  <2>5. CASE IrrigationTaskRound
    BY <2>1, <2>5, CallIsPumpStep DEF IrrigationTaskRound
  <2>6. CASE Tick
    BY <2>6, TickIsPumpStep
  <2>7. CASE UNCHANGED vars
    BY <2>7 DEF vars, Promise!vars
  <2> QED
    BY <2>2, <2>3, <2>4, <2>5, <2>6, <2>7 DEF Next
<1> QED
  BY <1>1, <1>2, Invariance, PTL DEF Spec, ImplementsPump, Promise!Spec

-----------------------------------------------------------------------------
(***************************************************************************)
(* The promise of Config.hpp, where it holds: while neither the stored     *)
(* configuration nor a command selects EVAPOTRANSPIRATION, the irrigation  *)
(* task never sleeps longer than ActiveTick.                               *)
(***************************************************************************)
NoForecastMode == "EVAPOTRANSPIRATION" \notin BootModes \cup CommandModes

Wakeful(c) == c.mode # "EVAPOTRANSPIRATION" /\ c.sleepHint = ActiveTick

TaskPolls ==
    /\ Wakeful(ctl)
    /\ delay <= ActiveTick
    /\ ctl.pump => pumpRun + delay <= MaxDuration + ActiveTick

(* No call sends a controller to sleep, or to the mode that forecasts. *)
LEMMA CallsStayWakeful ==
    ASSUME NEW STATE c, Coherent(c), Wakeful(c)
    PROVE  /\ \A d \in Nat : Wakeful(StartWatering(c, d))
           /\ Wakeful(StopWatering(c))
           /\ Wakeful(CheckWateringTimeout(c))
           /\ \A m \in Modes \ {"EVAPOTRANSPIRATION"} : Wakeful(SetMode(c, m))
<1>1. ASSUME NEW d \in Nat
      PROVE  Wakeful(StartWatering(c, d))
  BY DEF StartWatering, Wakeful, Coherent, Controllers
<1>2. Wakeful(StopWatering(c))
  BY DEF StopWatering, Wakeful, Coherent, Controllers
<1>3. Wakeful(CheckWateringTimeout(c))
  BY <1>2 DEF CheckWateringTimeout
<1>4. ASSUME NEW m \in Modes \ {"EVAPOTRANSPIRATION"}
      PROVE  Wakeful(SetMode(c, m))
  BY DEF SetMode, StopWatering, Wakeful, Coherent, Controllers
<1> QED
  BY <1>1, <1>2, <1>3, <1>4

(* An update in a mode that does not forecast asks for ActiveTick again. *)
LEMMA UpdateStaysWakeful ==
    ASSUME Coherent(ctl), ctl.mode # "EVAPOTRANSPIRATION", now \in 0 .. W - 1,
           NEW data, NEW recheck, NEW forecast \in Forecasts
    PROVE  Wakeful(Update(ctl, data, recheck, forecast))
<1> DEFINE r == [ctl EXCEPT !.sleepHint = ActiveTick]
           h == HandleMode(r, data, recheck, forecast)
<1>1. Coherent(r) /\ Wakeful(r)
  BY ActiveTickIsHint DEF Coherent, Controllers, Wakeful
<1> SUFFICES Wakeful(CheckWateringTimeout(h))
  BY DEF Update
<1> HIDE DEF r
<1>2. Coherent(h) /\ Wakeful(h)
  <2>1. CASE r.mode = "HUMIDITY"
    <3>1. h = HandleHumidityBasedMode(r, data, recheck)
      BY <2>1 DEF HandleMode
    <3>2. Coherent(h)
      BY <1>1, <2>1, <3>1, HumidityIsLegal DEF LegalCall
    <3>3. /\ Wakeful(StopWatering(r))
          /\ Wakeful(StartWatering(r, DefaultDuration))
      BY <1>1, CallsStayWakeful, ConstantsAssumption
    <3> QED
      BY <1>1, <3>1, <3>2, <3>3 DEF HandleHumidityBasedMode, StopWhenWet
  <2>2. CASE r.mode # "HUMIDITY"
    BY <1>1, <2>2 DEF HandleMode, Wakeful
  <2> QED
    BY <2>1, <2>2
<1> HIDE DEF h
<1> QED
  BY <1>2, CallsStayWakeful

(* Every step of the system leaves the controller wakeful. *)
LEMMA StepStaysWakeful ==
    ASSUME NoForecastMode, IInv, Wakeful(ctl), [Next]_vars
    PROVE  Wakeful(ctl')
<1>1. Coherent(ctl) /\ now \in 0 .. W - 1
  BY DEF IInv, TypeOK, PumpFollowsFlag, OffMeansIdle, Coherent
<1>2. ASSUME NEW data \in Snapshots, NEW recheck \in Rechecks,
             NEW forecast \in Forecasts, SensorUpdate(data, recheck, forecast)
      PROVE  Wakeful(ctl')
  BY <1>1, <1>2, UpdateStaysWakeful DEF SensorUpdate, Wakeful
<1>3. ASSUME NEW m \in CommandModes, ModeCommand(m)
      PROVE  Wakeful(ctl')
  <2>1. m \in Modes \ {"EVAPOTRANSPIRATION"}
    BY ConstantsAssumption DEF NoForecastMode
  <2> QED
    BY <1>1, <1>3, <2>1, CallsStayWakeful DEF ModeCommand
<1>4. ASSUME NEW water \in WaterReadings, TriggerCommand(water)
      PROVE  Wakeful(ctl')
  BY <1>1, <1>4, CallsStayWakeful, ConstantsAssumption DEF TriggerCommand
<1>5. CASE IrrigationTaskRound
  BY <1>1, <1>5, CallsStayWakeful DEF IrrigationTaskRound
<1>6. CASE Tick \/ UNCHANGED vars
  BY <1>6 DEF Tick, vars
<1> QED
  BY <1>2, <1>3, <1>4, <1>5, <1>6 DEF Next

(***************************************************************************)
(* In a step that makes a call and lets the irrigation task sleep on, a    *)
(* run that begins is seen within ActiveTick.                              *)
(***************************************************************************)
LEMMA CallKeepsPolling ==
    ASSUME IInv, TaskPolls, Wakeful(ctl'), Observe(ctl'), ctl' \in Controllers,
           UNCHANGED <<now, delay>>
    PROVE  TaskPolls'
<1>1. /\ delay \in Int /\ pumpRun \in Int
      /\ MaxDuration \in Nat /\ ActiveTick \in Nat
  BY ConstantsAssumption, RunBoundIsNat DEF IInv, TypeOK
<1>2. pumpRun' = (IF ctl'.pump /\ ctl.pump THEN pumpRun ELSE 0)
  BY DEF Observe
<1>3. ctl'.pump => pumpRun' + delay <= MaxDuration + ActiveTick
  <2>1. CASE ctl.pump
    BY <1>2, <2>1 DEF TaskPolls
  <2>2. CASE ~ctl.pump
    BY <1>1, <1>2, <2>2 DEF TaskPolls
  <2> QED
    BY <2>1, <2>2
<1> QED
  BY <1>3 DEF TaskPolls, Wakeful

LEMMA StepKeepsPolling ==
    ASSUME NoForecastMode, IInv, IInv', TaskPolls, [Next]_vars
    PROVE  TaskPolls'
<1> USE ConstantsAssumption
<1>1. Wakeful(ctl) /\ Wakeful(ctl') /\ ctl' \in Controllers
  BY StepStaysWakeful DEF TaskPolls, IInv, TypeOK
<1>2. ASSUME NEW data \in Snapshots, NEW recheck \in Rechecks,
             NEW forecast \in Forecasts, SensorUpdate(data, recheck, forecast)
      PROVE  TaskPolls'
  BY <1>1, <1>2, CallKeepsPolling DEF SensorUpdate
<1>3. ASSUME NEW m \in CommandModes, ModeCommand(m)
      PROVE  TaskPolls'
  BY <1>1, <1>3, CallKeepsPolling DEF ModeCommand
<1>4. ASSUME NEW water \in WaterReadings, TriggerCommand(water)
      PROVE  TaskPolls'
  BY <1>1, <1>4, CallKeepsPolling DEF TriggerCommand
<1>5. CASE IrrigationTaskRound
  <2>1. delay' = ActiveTick
    BY <1>1, <1>5 DEF IrrigationTaskRound, NextSleepHint, Wakeful
  <2>2. delay' <= ActiveTick
    BY <2>1, ConstantsAssumption
  <2>3. ASSUME ctl'.pump
        PROVE  pumpRun' + delay' <= MaxDuration + ActiveTick
    <3>1. Coherent(ctl) /\ now \in 0 .. W - 1 /\ ctl'.isWatering
      BY <2>3 DEF IInv, TypeOK, PumpFollowsFlag, OffMeansIdle, Coherent
    <3>2. ctl' = ctl /\ ~(Elapsed(ctl.wateringStartTime) >= ctl.wateringDuration)
      BY <1>5, <3>1, TimeoutIsLegal DEF IrrigationTaskRound
    <3>3. pumpRun' = pumpRun /\ Elapsed(ctl.wateringStartTime) = pumpRun
      BY <1>5, <2>3, <3>2 DEF IrrigationTaskRound, Observe, IInv, SessionClock
    <3>4. ctl.wateringDuration \in MinDuration .. MaxDuration /\ pumpRun \in Int
      BY RunBoundIsNat DEF IInv, TypeOK, Controllers
    <3>5. pumpRun + ActiveTick <= MaxDuration + ActiveTick
      BY <3>2, <3>3, <3>4, ConstantsAssumption
    <3> QED
      BY <2>1, <3>3, <3>5
  <2> QED
    BY <1>1, <2>2, <2>3 DEF TaskPolls, Wakeful
<1>6. CASE Tick
  <2>1. /\ delay \in Int /\ delay' = delay - 1 /\ ctl' = ctl
        /\ pumpRun \in Int
        /\ ctl.pump => pumpRun' \in {pumpRun, pumpRun + 1}
    BY <1>6, RunBoundIsNat DEF Tick, IInv, TypeOK
  <2> QED
    BY <1>1, <2>1 DEF TaskPolls, Wakeful
<1>7. CASE UNCHANGED vars
  BY <1>7 DEF vars, TaskPolls, Wakeful
<1> QED
  BY <1>2, <1>3, <1>4, <1>5, <1>6, <1>7 DEF Next

(* Without EVAPOTRANSPIRATION no run outlasts MaxDuration, but for the     *)
(* polling interval of the timer and the delay of the scheduler.           *)
THEOREM MaxDurationHolds ==
    NoForecastMode => (Spec => []RunWithinMaxDuration)
<1> SUFFICES ASSUME NoForecastMode
             PROVE  Spec => []RunWithinMaxDuration
  OBVIOUS
<1>1. Init => TaskPolls
  <2> SUFFICES ASSUME Init PROVE TaskPolls
    OBVIOUS
  <2>1. /\ ctl.mode \in BootModes /\ ctl.sleepHint = ActiveTick
        /\ ctl.pump = FALSE /\ delay = 0
    BY DEF Init
  <2> QED
    BY <2>1, ConstantsAssumption DEF TaskPolls, Wakeful, NoForecastMode
<1>2. IInv /\ IInv' /\ TaskPolls /\ [Next]_vars => TaskPolls'
  BY StepKeepsPolling
<1>3. IInv /\ TaskPolls => RunWithinMaxDuration
  <2> SUFFICES ASSUME IInv, TaskPolls
               PROVE  pumpRun <= MaxDuration + ActiveTick + Jitter
    BY DEF RunWithinMaxDuration
  <2>1. /\ delay \in -Jitter .. EvapoMaxSleep /\ pumpRun \in Nat
        /\ ~ctl.pump => pumpRun = 0
    BY RunBoundIsNat DEF IInv, TypeOK, SessionClock
  <2> QED
    BY <2>1, ConstantsAssumption DEF TaskPolls
<1> QED
  BY <1>1, <1>2, <1>3, Invariance, PTL DEF Spec
=============================================================================
