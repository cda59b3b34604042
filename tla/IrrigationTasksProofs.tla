------------------------- MODULE IrrigationTasksProofs -------------------------
(***************************************************************************)
(* Proofs about IrrigationTasks, for any set of modes that commands select.*)
(***************************************************************************)
EXTENDS IrrigationTasks, TLAPS

Opening == {"startTime", "startPump"}

Continuations == {"idle", "mode76", "timeoutCheck", "setModeStore"}

(***************************************************************************)
(* A session that is being opened is open.  Its flag is set first, nobody  *)
(* below the task that opens it can run, and of those above only the mqtt  *)
(* task ends a session: by an OFF, which torn remembers.                   *)
(***************************************************************************)
OpeningIsOpen == \A t \in {"mqtt", "sensor"} : pc[t] \in Opening => isWatering

IInv == TypeOK /\ (torn \/ (NoOrphanPump /\ OpeningIsOpen))

-----------------------------------------------------------------------------
LEMMA GotoMoves ==
    ASSUME NEW t \in Tasks, NEW label \in Labels, pc \in [Tasks -> Labels], Goto(t, label)
    PROVE  /\ pc' \in [Tasks -> Labels] /\ pc'[t] = label
           /\ \A u \in Tasks : u # t => pc'[u] = pc[u]
BY DEF Goto

LEMMA CallMoves ==
    ASSUME NEW t \in Tasks, NEW label \in Labels, NEW back \in Continuations,
           TypeOK, Call(t, label, back)
    PROVE  Goto(t, label) /\ ret' \in [Tasks -> Continuations]
BY DEF Call, TypeOK, Continuations

LEMMA ReturnMoves ==
    ASSUME NEW t \in Tasks, TypeOK, Return(t)
    PROVE  ret[t] \in Labels \ Opening /\ Goto(t, ret[t])
BY DEF Return, TypeOK, Labels, Opening

(***************************************************************************)
(* Most steps only move a task, neither to where it opens a session nor    *)
(* from where it closes one.                                               *)
(***************************************************************************)
Quietly(t) ==
    /\ pc[t] \notin {"stopTime", "stopPump"}
    /\ \E label \in Labels \ Opening : Goto(t, label)
    /\ ret' \in [Tasks -> Continuations]
    /\ mode' \in Modes /\ arg' \in Modes
    /\ expired' \in BOOLEAN /\ cooled' \in BOOLEAN
    /\ UNCHANGED <<isWatering, pump, torn>>

LEMMA QuietlyInv == ASSUME IInv, NEW t \in Tasks, Quietly(t) PROVE IInv'
<1>1. PICK label \in Labels \ Opening : Goto(t, label)
  BY DEF Quietly
<1>2. /\ pc' \in [Tasks -> Labels] /\ pc'[t] = label
      /\ \A u \in Tasks : u # t => pc'[u] = pc[u]
  BY <1>1, GotoMoves DEF IInv, TypeOK
<1>3. TypeOK'
  BY <1>2 DEF Quietly, IInv, TypeOK, Continuations
<1>4. NoOrphanPump => NoOrphanPump'
  BY <1>2 DEF Quietly, NoOrphanPump
<1>5. OpeningIsOpen => OpeningIsOpen'
  BY <1>2 DEF Quietly, OpeningIsOpen, Tasks
<1> QED BY <1>3, <1>4, <1>5 DEF Quietly, IInv

-----------------------------------------------------------------------------
(* startWatering, in the two tasks that call it *)
LEMMA StartWateringInv ==
    ASSUME IInv, NEW t \in {"mqtt", "sensor"}, StartWatering(t)
    PROVE  IInv'
<1>0. t \in Tasks /\ TypeOK
  BY DEF Tasks, IInv
<1>1. CASE StartCheck(t)
  <2>1. \E label \in Labels \ Opening : Goto(t, label)
    BY <1>0, <1>1, ReturnMoves DEF StartCheck, Labels, Opening
  <2> QED BY <1>0, <1>1, <2>1, QuietlyInv DEF StartCheck, Quietly, At, data, TypeOK,
      Continuations
<1>2. CASE StartCool(t)
  <2>1. \E label \in Labels \ Opening : Goto(t, label)
    BY <1>0, <1>2, ReturnMoves DEF StartCool, Labels, Opening
  <2> QED BY <1>0, <1>2, <2>1, QuietlyInv DEF StartCool, Quietly, At, data, TypeOK,
      Continuations
<1>3. CASE StartFlag(t)
  <2>1. pc' \in [Tasks -> Labels]
    BY <1>0, <1>3, GotoMoves DEF StartFlag, TypeOK, Labels
  <2>2. TypeOK'
    BY <1>0, <1>3, <2>1 DEF StartFlag, TypeOK
  <2>3. NoOrphanPump' /\ OpeningIsOpen'
    BY <1>3 DEF StartFlag, NoOrphanPump, OpeningIsOpen
  <2> QED BY <2>2, <2>3 DEF IInv
<1>4. CASE StartTime(t)
  <2>1. /\ pc' \in [Tasks -> Labels] /\ pc'[t] = "startPump"
        /\ \A u \in Tasks : u # t => pc'[u] = pc[u]
    BY <1>0, <1>4, GotoMoves DEF StartTime, TypeOK, Labels
  <2>2. TypeOK'
    BY <1>0, <1>4, <2>1 DEF StartTime, TypeOK
  <2>3. NoOrphanPump => NoOrphanPump'
    BY <1>0, <1>4, <2>1 DEF StartTime, NoOrphanPump, At
  <2>4. OpeningIsOpen => OpeningIsOpen'
    BY <1>4, <2>1 DEF StartTime, OpeningIsOpen, At, Opening, Tasks
  <2> QED BY <1>4, <2>2, <2>3, <2>4 DEF IInv, StartTime
<1>5. CASE StartPump(t)
  <2>1. ret[t] \in Labels \ Opening /\ Goto(t, ret[t])
    BY <1>0, <1>5, ReturnMoves DEF StartPump
  <2>2. /\ pc' \in [Tasks -> Labels] /\ pc'[t] \notin Opening
        /\ \A u \in Tasks : u # t => pc'[u] = pc[u]
    BY <1>0, <2>1, GotoMoves DEF TypeOK
  <2>3. TypeOK'
    BY <1>0, <1>5, <2>2 DEF StartPump, TypeOK
  <2>4. OpeningIsOpen => isWatering /\ OpeningIsOpen'
    BY <1>5, <2>2 DEF StartPump, OpeningIsOpen, At, Opening, Tasks
  <2>5. isWatering => NoOrphanPump'
    BY <1>5 DEF StartPump, NoOrphanPump
  <2> QED BY <1>5, <2>3, <2>4, <2>5 DEF IInv, StartPump
<1> QED BY <1>1, <1>2, <1>3, <1>4, <1>5 DEF StartWatering

(***************************************************************************)
(* stopWatering, in any task.  The step that ends the session is the one   *)
(* that could end it under a task that opens it.                           *)
(***************************************************************************)
LEMMA StopWateringInv ==
    ASSUME IInv, NEW t \in Tasks, StopWatering(t)
    PROVE  IInv'
<1>0. TypeOK
  BY DEF IInv
<1>1. CASE StopCheck(t)
  <2>1. \E label \in Labels \ Opening : Goto(t, label)
    BY <1>0, <1>1, ReturnMoves DEF StopCheck, Labels, Opening
  <2> QED BY <1>0, <1>1, <2>1, QuietlyInv DEF StopCheck, Quietly, At, data, TypeOK,
      Continuations
<1>2. CASE StopFlag(t)
  <2>1. /\ pc' \in [Tasks -> Labels] /\ pc'[t] = "stopTime"
        /\ \A u \in Tasks : u # t => pc'[u] = pc[u]
    BY <1>0, <1>2, GotoMoves DEF StopFlag, TypeOK, Labels
  <2>2. torn' = (torn \/ (t = "mqtt" /\ pc["sensor"] \in Opening)) /\ torn' \in BOOLEAN
    BY <1>2 DEF StopFlag, Opening
  <2>3. TypeOK'
    BY <1>0, <1>2, <2>1, <2>2 DEF StopFlag, TypeOK
  <2>4. NoOrphanPump'
    BY <2>1 DEF NoOrphanPump
  <2>5. torn' \/ OpeningIsOpen'
    <3>1. CASE t = "mqtt"
      BY <2>1, <2>2, <3>1 DEF OpeningIsOpen, Opening, Tasks
    <3>2. CASE t = "sensor"
      <4>1. pc["mqtt"] \in Waiting
        BY <1>2, <3>2 DEF StopFlag, At, CanRun, Priority, Tasks
      <4> QED BY <2>1, <3>2, <4>1 DEF OpeningIsOpen, Opening, Tasks, Waiting
    <3>3. CASE t = "irrigation"
      <4>1. pc["mqtt"] \in Waiting /\ pc["sensor"] \in Waiting
        BY <1>2, <3>3 DEF StopFlag, At, CanRun, Priority, Tasks
      <4> QED BY <2>1, <3>3, <4>1 DEF OpeningIsOpen, Opening, Tasks, Waiting
    <3> QED BY <3>1, <3>2, <3>3 DEF Tasks
  <2> QED BY <2>3, <2>4, <2>5 DEF IInv
<1>3. CASE StopTime(t)
  <2>1. /\ pc' \in [Tasks -> Labels] /\ pc'[t] = "stopPump"
        /\ \A u \in Tasks : u # t => pc'[u] = pc[u]
    BY <1>0, <1>3, GotoMoves DEF StopTime, TypeOK, Labels
  <2>2. TypeOK'
    BY <1>0, <1>3, <2>1 DEF StopTime, TypeOK
  <2>3. NoOrphanPump'
    BY <2>1 DEF NoOrphanPump
  <2>4. OpeningIsOpen => OpeningIsOpen'
    BY <1>3, <2>1 DEF StopTime, OpeningIsOpen, Opening, Tasks
  <2> QED BY <1>3, <2>2, <2>3, <2>4 DEF IInv, StopTime
<1>4. CASE StopPump(t)
  <2>1. ret[t] \in Labels \ Opening /\ Goto(t, ret[t])
    BY <1>0, <1>4, ReturnMoves DEF StopPump
  <2>2. /\ pc' \in [Tasks -> Labels] /\ pc'[t] \notin Opening
        /\ \A u \in Tasks : u # t => pc'[u] = pc[u]
    BY <1>0, <2>1, GotoMoves DEF TypeOK
  <2>3. TypeOK'
    BY <1>0, <1>4, <2>2 DEF StopPump, TypeOK
  <2>4. NoOrphanPump'
    BY <1>4 DEF StopPump, NoOrphanPump
  <2>5. OpeningIsOpen => OpeningIsOpen'
    BY <1>4, <2>2 DEF StopPump, OpeningIsOpen, Tasks
  <2> QED BY <1>4, <2>3, <2>4, <2>5 DEF IInv, StopPump
<1> QED BY <1>1, <1>2, <1>3, <1>4 DEF StopWatering

LEMMA CheckWateringTimeoutInv ==
    ASSUME IInv, NEW t \in Tasks, CheckWateringTimeout(t)
    PROVE  IInv'
<1>0. TypeOK
  BY DEF IInv
<1>1. CASE TimeoutCheck(t)
  <2>1. \E label \in Labels \ Opening : Goto(t, label)
    BY <1>1 DEF TimeoutCheck, Labels, Opening
  <2> QED BY <1>0, <1>1, <2>1, QuietlyInv DEF TimeoutCheck, Quietly, At, data, TypeOK,
      Continuations
<1>2. CASE TimeoutTime(t)
  <2>1. /\ \E label \in Labels \ Opening : Goto(t, label)
        /\ ret' \in [Tasks -> Continuations]
    BY <1>0, <1>2, CallMoves DEF TimeoutTime, Labels, Opening,
       Continuations, TypeOK
  <2> QED BY <1>0, <1>2, <2>1, QuietlyInv DEF TimeoutTime, Quietly, At, data, TypeOK
<1> QED BY <1>1, <1>2 DEF CheckWateringTimeout

-----------------------------------------------------------------------------
LEMMA SensorTaskInv ==
    ASSUME IInv, Update \/ SensorStep
    PROVE  IInv'
<1>0. TypeOK /\ "sensor" \in Tasks
  BY DEF IInv, Tasks
<1>1. CASE Update
  <2>1. \E label \in Labels \ Opening : Goto("sensor", label)
    BY <1>0, <1>1, ReturnMoves DEF Update, Labels, Opening
  <2> QED BY <1>0, <1>1, <2>1, QuietlyInv DEF Update, Quietly, At, data, TypeOK,
      Continuations
<1>2. CASE Mode71
  <2>1. /\ \E label \in Labels \ Opening : Goto("sensor", label)
        /\ ret' \in [Tasks -> Continuations]
    BY <1>0, <1>2, CallMoves, ReturnMoves DEF Mode71, Labels, Opening,
       Continuations, TypeOK
  <2> QED BY <1>0, <1>2, <2>1, QuietlyInv DEF Mode71, Quietly, At, data, TypeOK
<1>3. CASE Humidity
  <2>1. \E label \in Labels \ Opening : Goto("sensor", label)
    BY <1>0, <1>3, ReturnMoves DEF Humidity, Labels, Opening
  <2> QED BY <1>0, <1>3, <2>1, QuietlyInv DEF Humidity, Quietly, At, data, TypeOK,
      Continuations
<1>4. CASE Recheck
  <2>1. \E label \in Labels \ Opening : Goto("sensor", label)
    BY <1>0, <1>4, ReturnMoves DEF Recheck, Labels, Opening
  <2> QED BY <1>0, <1>4, <2>1, QuietlyInv DEF Recheck, Quietly, At, data, TypeOK,
      Continuations
<1>5. CASE CanStart
  <2>1. \E label \in Labels \ Opening : Goto("sensor", label)
    BY <1>0, <1>5, ReturnMoves DEF CanStart, Labels, Opening
  <2> QED BY <1>0, <1>5, <2>1, QuietlyInv DEF CanStart, Quietly, At, data, TypeOK,
      Continuations
<1>6. CASE Mode76
  <2>1. /\ \E label \in Labels \ Opening : Goto("sensor", label)
        /\ ret' \in [Tasks -> Continuations]
    BY <1>0, <1>6, CallMoves, ReturnMoves DEF Mode76, Labels, Opening,
       Continuations, TypeOK
  <2> QED BY <1>0, <1>6, <2>1, QuietlyInv DEF Mode76, Quietly, At, data, TypeOK
<1>7. CASE Evapo
  <2>1. \E label \in Labels \ Opening : Goto("sensor", label)
    BY <1>0, <1>7, ReturnMoves DEF Evapo, Labels, Opening
  <2> QED BY <1>0, <1>7, <2>1, QuietlyInv DEF Evapo, Quietly, At, data, TypeOK,
      Continuations
<1>8. CASE StartWatering("sensor")
  BY <1>8, StartWateringInv
<1>9. CASE StopWatering("sensor")
  BY <1>0, <1>9, StopWateringInv
<1>10. CASE CheckWateringTimeout("sensor")
  BY <1>0, <1>10, CheckWateringTimeoutInv
<1> QED BY <1>1, <1>2, <1>3, <1>4, <1>5, <1>6, <1>7, <1>8, <1>9, <1>10 DEF SensorStep

LEMMA MqttCallbackInv ==
    ASSUME IInv, (\E m \in CommandModes : ModeCommand(m)) \/ TriggerCommand \/ MqttStep
    PROVE  IInv'
<1>0. TypeOK /\ "mqtt" \in Tasks
  BY DEF IInv, Tasks
<1>1. ASSUME NEW m \in CommandModes, ModeCommand(m) PROVE IInv'
  <2>1. \E label \in Labels \ Opening : Goto("mqtt", label)
    BY <1>1 DEF ModeCommand, Labels, Opening
  <2> QED BY <1>0, <1>1, <2>1, QuietlyInv, CommandModesAssumption
         DEF ModeCommand, Quietly, At, data, TypeOK,
      Continuations
<1>2. CASE SetMode
  <2>1. \E label \in Labels \ Opening : Goto("mqtt", label)
    BY <1>0, <1>2, ReturnMoves DEF SetMode, Labels, Opening
  <2> QED BY <1>0, <1>2, <2>1, QuietlyInv DEF SetMode, Quietly, At, data, TypeOK,
      Continuations
<1>3. CASE SetModeStop
  <2>1. /\ \E label \in Labels \ Opening : Goto("mqtt", label)
        /\ ret' \in [Tasks -> Continuations]
    BY <1>0, <1>3, CallMoves, ReturnMoves DEF SetModeStop, Labels, Opening,
       Continuations, TypeOK
  <2> QED BY <1>0, <1>3, <2>1, QuietlyInv DEF SetModeStop, Quietly, At, data, TypeOK
<1>4. CASE SetModeStore
  <2>1. \E label \in Labels \ Opening : Goto("mqtt", label)
    BY <1>0, <1>4, ReturnMoves DEF SetModeStore, Labels, Opening
  <2> QED BY <1>0, <1>4, <2>1, QuietlyInv DEF SetModeStore, Quietly, At, data, TypeOK,
      Continuations
<1>5. CASE TriggerCommand
  <2>1. \E label \in Labels \ Opening : Goto("mqtt", label)
    BY <1>0, <1>5, ReturnMoves DEF TriggerCommand, Labels, Opening
  <2> QED BY <1>0, <1>5, <2>1, QuietlyInv DEF TriggerCommand, Quietly, At, data, TypeOK,
      Continuations
<1>6. CASE Trigger
  <2>1. \E label \in Labels \ Opening : Goto("mqtt", label)
    BY <1>0, <1>6, ReturnMoves DEF Trigger, Labels, Opening
  <2> QED BY <1>0, <1>6, <2>1, QuietlyInv DEF Trigger, Quietly, At, data, TypeOK,
      Continuations
<1>7. CASE Tank
  <2>1. /\ \E label \in Labels \ Opening : Goto("mqtt", label)
        /\ ret' \in [Tasks -> Continuations]
    BY <1>0, <1>7, CallMoves, ReturnMoves DEF Tank, Labels, Opening,
       Continuations, TypeOK
  <2> QED BY <1>0, <1>7, <2>1, QuietlyInv DEF Tank, Quietly, At, data, TypeOK
<1>8. CASE StartWatering("mqtt")
  BY <1>8, StartWateringInv
<1>9. CASE StopWatering("mqtt")
  BY <1>0, <1>9, StopWateringInv
<1> QED BY <1>1, <1>2, <1>3, <1>4, <1>5, <1>6, <1>7, <1>8, <1>9 DEF MqttStep

LEMMA IrrigationTaskInv ==
    ASSUME IInv, IrrigationStep
    PROVE  IInv'
<1>0. TypeOK /\ "irrigation" \in Tasks
  BY DEF IInv, Tasks
<1>1. CASE IrrigationRound
  <2>1. \E label \in Labels \ Opening : Goto("irrigation", label)
    BY <1>0, <1>1, ReturnMoves DEF IrrigationRound, Labels, Opening
  <2> QED BY <1>0, <1>1, <2>1, QuietlyInv DEF IrrigationRound, Quietly, At, data, TypeOK,
      Continuations
<1>2. CASE CheckWateringTimeout("irrigation")
  BY <1>0, <1>2, CheckWateringTimeoutInv
<1>3. CASE StopWatering("irrigation")
  BY <1>0, <1>3, StopWateringInv
<1> QED BY <1>1, <1>2, <1>3 DEF IrrigationStep

(* Time, and stuttering *)
LEMMA TimeInv ==
    ASSUME IInv, SessionElapses \/ CooldownElapses \/ UNCHANGED vars
    PROVE  IInv'
<1>1. TypeOK'
  BY DEF SessionElapses, CooldownElapses, vars, IInv, TypeOK
<1>2. UNCHANGED <<isWatering, pump, torn, pc>>
  BY DEF SessionElapses, CooldownElapses, vars
<1>3. (NoOrphanPump => NoOrphanPump') /\ (OpeningIsOpen => OpeningIsOpen')
  BY <1>2 DEF NoOrphanPump, OpeningIsOpen
<1> QED BY <1>1, <1>2, <1>3 DEF IInv

LEMMA InitInv == Init => IInv
<1> SUFFICES ASSUME Init PROVE IInv
  OBVIOUS
<1>1. TypeOK
  BY DEF Init, TypeOK, Labels, Modes
<1>2. NoOrphanPump /\ OpeningIsOpen
  BY DEF Init, NoOrphanPump, OpeningIsOpen, Opening, Tasks
<1> QED BY <1>1, <1>2 DEF IInv

(***************************************************************************)
(* A running pump without a session is about to be turned off, or else an  *)
(* OFF command has closed a session that was being opened.                 *)
(***************************************************************************)
THEOREM Invariance == Spec => []IInv
<1>1. IInv /\ [Next]_vars => IInv'
  <2> SUFFICES ASSUME IInv, [Next]_vars PROVE IInv'
    OBVIOUS
  <2>1. CASE Update \/ SensorStep
    BY <2>1, SensorTaskInv
  <2>2. CASE (\E m \in CommandModes : ModeCommand(m)) \/ TriggerCommand \/ MqttStep
    BY <2>2, MqttCallbackInv
  <2>3. CASE IrrigationStep
    BY <2>3, IrrigationTaskInv
  <2>4. CASE SessionElapses \/ CooldownElapses \/ UNCHANGED vars
    BY <2>4, TimeInv
  <2> QED BY <2>1, <2>2, <2>3, <2>4 DEF Next
<1> QED BY <1>1, InitInv, PTL DEF Spec

(* Types, and the continuation of a call is one its callers use. *)
THEOREM TypeCorrect == Spec => []TypeOK
<1>1. IInv => TypeOK
  BY DEF IInv
<1> QED BY <1>1, Invariance, PTL

(***************************************************************************)
(* No interleaving but an OFF in the middle of startWatering leaves the    *)
(* pump running without a session that could stop it.                      *)
(***************************************************************************)
THEOREM OnlyOffOrphans == Spec => []OrphanOnlyByOff
<1>1. IInv => OrphanOnlyByOff
  BY DEF IInv, OrphanOnlyByOff
<1> QED BY <1>1, Invariance, PTL

-----------------------------------------------------------------------------
(***************************************************************************)
(* Where no command says OFF, the mqtt task never stops a session, so that *)
(* nothing closes one under the task that opens it.                        *)
(***************************************************************************)
NoOffCommand == "OFF" \notin CommandModes

Stops == {"stopCheck", "stopFlag", "stopTime", "stopPump"}

MqttNeverStops ==
    /\ ~torn
    /\ pc["mqtt"] \notin Stops
    /\ pc["mqtt"] \in {"setMode", "setModeStop"} => arg # "OFF"

(* Steps of the tasks below it neither move the mqtt task nor tear. *)
LEMMA LowerStepsKeepMqtt ==
    ASSUME TypeOK, NEW t \in {"sensor", "irrigation"},
           \/ StartWatering(t) \/ StopWatering(t) \/ CheckWateringTimeout(t)
           \/ t = "sensor" /\ (Update \/ SensorStep)
           \/ t = "irrigation" /\ IrrigationStep
    PROVE  torn' = torn /\ pc'["mqtt"] = pc["mqtt"] /\ arg' = arg
<1>0. pc \in [Tasks -> Labels] /\ "mqtt" \in Tasks /\ t \in Tasks /\ torn \in BOOLEAN
  BY DEF TypeOK, Tasks
<1>2. ASSUME NEW u \in {"sensor", "irrigation"}, StartWatering(u)
      PROVE  torn' = torn /\ pc'["mqtt"] = pc["mqtt"] /\ arg' = arg
  BY <1>0, <1>2 DEF StartWatering, StartCheck, StartCool, StartFlag, StartTime,
     StartPump, Goto, Return
<1>3. ASSUME NEW u \in {"sensor", "irrigation"}, StopWatering(u)
      PROVE  torn' = torn /\ pc'["mqtt"] = pc["mqtt"] /\ arg' = arg
  <2>1. CASE StopFlag(u)
    <3>1. torn' = torn
      BY <1>0, <2>1 DEF StopFlag
    <3> QED BY <1>0, <2>1, <3>1 DEF StopFlag, Goto
  <2>2. CASE ~StopFlag(u)
    BY <1>0, <1>3, <2>2 DEF StopWatering, StopCheck, StopTime, StopPump, Goto, Return
  <2> QED BY <2>1, <2>2
<1>4. ASSUME NEW u \in {"sensor", "irrigation"}, CheckWateringTimeout(u)
      PROVE  torn' = torn /\ pc'["mqtt"] = pc["mqtt"] /\ arg' = arg
  BY <1>0, <1>4 DEF CheckWateringTimeout, TimeoutCheck, TimeoutTime, Goto, Call
<1>5. ASSUME Update \/ Mode71 \/ Humidity \/ Recheck \/ CanStart \/ Mode76 \/ Evapo
      PROVE  torn' = torn /\ pc'["mqtt"] = pc["mqtt"] /\ arg' = arg
  BY <1>0, <1>5 DEF Update, Mode71, Humidity, Recheck, CanStart, Mode76, Evapo,
     Goto, Return, Call
<1>6. ASSUME IrrigationRound
      PROVE  torn' = torn /\ pc'["mqtt"] = pc["mqtt"] /\ arg' = arg
  BY <1>0, <1>6 DEF IrrigationRound, Goto
<1> QED BY <1>2, <1>3, <1>4, <1>5, <1>6 DEF SensorStep, IrrigationStep

(* The mqtt task itself comes to a stop only by way of an OFF. *)
LEMMA MqttNeverStopsInv ==
    ASSUME NoOffCommand, TypeOK, MqttNeverStops,
           (\E m \in CommandModes : ModeCommand(m)) \/ TriggerCommand \/ MqttStep
    PROVE  MqttNeverStops'
<1>0. pc \in [Tasks -> Labels] /\ "mqtt" \in Tasks
  BY DEF TypeOK, Tasks
<1>1. ASSUME NEW m \in CommandModes, ModeCommand(m) PROVE MqttNeverStops'
  BY <1>0, <1>1 DEF ModeCommand, Goto, MqttNeverStops, NoOffCommand, Stops
<1>2. CASE SetMode \/ SetModeStop
  BY <1>0, <1>2 DEF SetMode, SetModeStop, At, Goto, Call, MqttNeverStops, Stops
<1>3. CASE SetModeStore \/ TriggerCommand \/ Trigger \/ Tank
  BY <1>0, <1>3 DEF SetModeStore, TriggerCommand, Trigger, Tank, Goto, Call,
     MqttNeverStops, Stops
<1>4. CASE StartWatering("mqtt")
  <2>1. ret["mqtt"] \in Continuations
    BY <1>0 DEF TypeOK, Continuations
  <2> QED BY <1>0, <1>4, <2>1 DEF StartWatering, StartCheck, StartCool, StartFlag,
      StartTime, StartPump, Goto, Return, MqttNeverStops, Stops, Continuations
<1>5. CASE StopWatering("mqtt")
  BY <1>5 DEF StopWatering, StopCheck, StopFlag, StopTime, StopPump, At,
     MqttNeverStops, Stops
<1> QED BY <1>1, <1>2, <1>3, <1>4, <1>5 DEF MqttStep

(***************************************************************************)
(* Without OFF commands the pump never runs without a session, or a task   *)
(* is about to turn it off: the OFF is necessary for the orphaned pump, as *)
(* the run tasks_orphan shows that it is enough.                           *)
(***************************************************************************)
THEOREM NoOrphanWithoutOff == NoOffCommand => (Spec => []NoOrphanPump)
<1> SUFFICES ASSUME NoOffCommand
             PROVE  Spec => []NoOrphanPump
  OBVIOUS
<1>1. Init => MqttNeverStops
  BY DEF Init, MqttNeverStops, Stops, Tasks
<1>2. IInv /\ MqttNeverStops /\ [Next]_vars => MqttNeverStops'
  <2> SUFFICES ASSUME IInv, MqttNeverStops, [Next]_vars PROVE MqttNeverStops'
    OBVIOUS
  <2>0. TypeOK
    BY DEF IInv
  <2>1. CASE Update \/ SensorStep
    <3>1. torn' = torn /\ pc'["mqtt"] = pc["mqtt"] /\ arg' = arg
      BY <2>0, <2>1, LowerStepsKeepMqtt
    <3> QED BY <3>1 DEF MqttNeverStops
  <2>2. CASE (\E m \in CommandModes : ModeCommand(m)) \/ TriggerCommand \/ MqttStep
    BY <2>0, <2>2, MqttNeverStopsInv
  <2>3. CASE IrrigationStep
    <3>1. torn' = torn /\ pc'["mqtt"] = pc["mqtt"] /\ arg' = arg
      BY <2>0, <2>3, LowerStepsKeepMqtt
    <3> QED BY <3>1 DEF MqttNeverStops
  <2>4. CASE SessionElapses \/ CooldownElapses \/ UNCHANGED vars
    BY <2>4 DEF SessionElapses, CooldownElapses, vars, MqttNeverStops
  <2> QED BY <2>1, <2>2, <2>3, <2>4 DEF Next
<1>3. IInv /\ MqttNeverStops => NoOrphanPump
  BY DEF IInv, MqttNeverStops
<1> QED BY <1>1, <1>2, <1>3, Invariance, PTL DEF Spec
=============================================================================
