-------------------------- MODULE ProvisioningProofs --------------------------
(***************************************************************************)
(* Proofs about Provisioning, for any capacity of the command queue and    *)
(* any configurations.                                                     *)
(***************************************************************************)
EXTENDS Provisioning, TLAPS

(* Between commands, and in one up to setWifiReady(false). *)
ReadyTruthful ==
    pc \in {"loop", "retry", "start", "clearCancel", "raise", "notReady"} =>
        wifiReady = connected

(* The flash changes only on the way to a reboot. *)
StartupCurrent == pc \notin {"reply", "lowerReboot", "rebooting"} => startup = flash

(* The link is known until a session opens; during one the station may be  *)
(* down already, and Reload finds out.                                     *)
StationCurrent ==
    /\ pc \in {"loop", "retry", "start", "clearCancel", "raise", "notReady", "open"} =>
         connected = (station # NoCredentials)
    /\ pc \in {"loop", "retry", "start", "clearCancel", "raise", "notReady", "open",
               "serve", "select", "client", "lower", "reload"} /\ station # NoCredentials =>
         connected /\ station = flash

(* Once a session has begun, apCancel is raised by the presses of its time. *)
CancelIsNew ==
    pc \in {"raise", "notReady", "open", "serve", "select", "client"} =>
        (apCancel <=> cancelled)

(* In a session, and before the first connection, the link is withdrawn. *)
Away == {"boot", "open", "serve", "select", "client", "reply", "aborted",
         "lower", "lowerReboot", "reload"}

AwayIsNotReady == pc \in Away => ~wifiReady

(* A device about to restart believes of the link what is so. *)
ReadyAtReset == pc \in {"blink", "rebooting"} /\ wifiReady => station # NoCredentials

IInv ==
    /\ TypeOK
    /\ ReadyTruthful /\ AwayIsNotReady /\ ReadyAtReset
    /\ StartupCurrent /\ StationCurrent
    /\ CancelIsNew

-----------------------------------------------------------------------------
LEMMA InitInv == Init => IInv
<1> SUFFICES ASSUME Init PROVE IInv
  OBVIOUS
<1>1. <<>> \in Seq(Commands) /\ Len(<<>>) <= QueueSize
  BY QueueSizeAssumption
<1> QED BY <1>1 DEF Init, IInv, TypeOK, Labels, ReadyTruthful, StartupCurrent,
           StationCurrent, CancelIsNew, Away, AwayIsNotReady, ReadyAtReset

(* A full queue stays as it is. *)
LEMMA SendKeepsBound ==
    ASSUME NEW cmd \in Commands, queue \in Seq(Commands), Len(queue) <= QueueSize,
           Send(cmd)
    PROVE  queue' \in Seq(Commands) /\ Len(queue') <= QueueSize
<1>1. CASE Len(queue) < QueueSize
  BY <1>1, QueueSizeAssumption DEF Send
<1>2. CASE ~(Len(queue) < QueueSize)
  BY <1>2 DEF Send
<1> QED BY <1>1, <1>2

LEMMA TailKeepsBound ==
    ASSUME queue \in Seq(Commands), Len(queue) <= QueueSize, queue # <<>>
    PROVE  Tail(queue) \in Seq(Commands) /\ Len(Tail(queue)) <= QueueSize
BY QueueSizeAssumption

-----------------------------------------------------------------------------
(* The button changes the queue and the flags, never the link. *)
LEMMA ButtonStepInv == IInv /\ ButtonStep => IInv'
<1> SUFFICES ASSUME IInv, ButtonStep PROVE IInv'
  OBVIOUS
<1> USE DEF link, stored, observers, session, timing, retry, IInv, ReadyTruthful, StartupCurrent,
            StationCurrent, CancelIsNew, Away, AwayIsNotReady, ReadyAtReset
<1>1. CASE Press
  BY <1>1 DEF Press, TypeOK
<1>2. CASE HoldOn
  BY <1>2 DEF HoldOn, TypeOK
<1>3. CASE HandleButtonHold
  <2>1. queue' \in Seq(Commands) /\ Len(queue') <= QueueSize
    BY <1>3, SendKeepsBound DEF HandleButtonHold, TypeOK, Commands
  <2> QED BY <1>3, <2>1 DEF HandleButtonHold, TypeOK
<1>4. CASE HandleButtonRelease
  <2>1. queue' \in Seq(Commands) /\ Len(queue') <= QueueSize
    BY <1>4, SendKeepsBound DEF HandleButtonRelease, TypeOK, Commands
  <2>2. CASE held = "ap" /\ ~rebootSent
    <3>1. apCancel' = (apCancel \/ apActive) /\ cancelled' = (cancelled \/ apActive)
      BY <1>4, <2>2 DEF HandleButtonRelease
    <3>2. apCancel' \in BOOLEAN /\ cancelled' \in BOOLEAN /\ CancelIsNew'
      <4>1. CASE apActive
        BY <1>4, <3>1, <4>1 DEF HandleButtonRelease, TypeOK
      <4>2. CASE ~apActive
        BY <1>4, <3>1, <4>2 DEF HandleButtonRelease, TypeOK
      <4> QED BY <4>1, <4>2
    <3> QED BY <1>4, <2>1, <2>2, <3>2, ZenonT(60) DEF HandleButtonRelease, TypeOK
  <2>3. CASE ~(held = "ap" /\ ~rebootSent)
    <3>1. UNCHANGED <<pc, apActive, apCancel, link, timing, stored, stopAsked, cancelled>>
      BY <1>4, <2>3 DEF HandleButtonRelease
    <3>2. held' = "up" /\ rebootSent' = FALSE
      BY <1>4 DEF HandleButtonRelease
    <3>3. TypeOK'
      BY <2>1, <3>1, <3>2 DEF TypeOK
    <3>4. CancelIsNew'
      BY <3>1
    <3> QED BY <3>1, <3>3, <3>4
  <2> QED BY <2>2, <2>3
<1> QED BY <1>1, <1>2, <1>3, <1>4 DEF ButtonStep

LEMMA StepInv == IInv /\ [Next]_vars => IInv'
<1> SUFFICES ASSUME IInv, [Next]_vars PROVE IInv'
  OBVIOUS
<1> USE DEF session, link, timing, retry, stored, button, observers, IInv, TypeOK, Labels,
            ReadyTruthful, StartupCurrent, StationCurrent, CancelIsNew, Away, AwayIsNotReady, ReadyAtReset
<1>1. CASE UNCHANGED vars
  BY <1>1 DEF vars
<1>2. CASE ButtonStep
  BY <1>2, ButtonStepInv
<1>3. CASE Boot
  <2>1. PICK up \in BOOLEAN :
          /\ ConnectSta(startup, up)
          /\ connected' = up /\ wifiReady' = up /\ wifiError' = ~up
    BY <1>3 DEF Boot
  <2>2. CASE up
    BY <1>3, <2>1, <2>2 DEF Boot, ConnectSta
  <2>3. CASE ~up
    BY <1>3, <2>1, <2>3 DEF Boot, ConnectSta
  <2> QED BY <2>2, <2>3
<1>4. CASE Receive
  <2>1. queue' \in Seq(Commands) /\ Len(queue') <= QueueSize
    BY <1>4, TailKeepsBound DEF Receive
  <2> QED BY <1>4, <2>1, ZenonT(90) DEF Receive
<1>5. CASE NoCommand
  BY <1>5 DEF NoCommand
<1>6. CASE RetryConnection
  <2>1. PICK up \in BOOLEAN :
          /\ ConnectSta(startup, up)
          /\ connected' = up
          /\ wifiReady' = (wifiReady \/ up)
          /\ wifiError' = ~up
    BY <1>6 DEF RetryConnection
  <2>2. ~connected /\ ~wifiReady
    BY <1>6 DEF RetryConnection, MayRetry
  <2>3. CASE up
    BY <1>6, <2>1, <2>2, <2>3 DEF RetryConnection, ConnectSta
  <2>4. CASE ~up
    BY <1>6, <2>1, <2>2, <2>4 DEF RetryConnection, ConnectSta
  <2> QED BY <2>3, <2>4
<1>7. CASE NoRetry
  BY <1>7 DEF NoRetry
<1>8. CASE StartOrStop
  BY <1>8 DEF StartOrStop
<1>9. CASE ClearCancel
  BY <1>9, ZenonT(60) DEF ClearCancel
<1>10. CASE RaiseActive
  BY <1>10 DEF RaiseActive
<1>11. CASE NotReady
  BY <1>11, ZenonT(60) DEF NotReady
<1>12. CASE OpenAp
  <2>1. /\ pc = "open" /\ pc' \in {"lower", "serve"}
        /\ station' \in {station, NoCredentials} /\ timedOut' \in BOOLEAN
        /\ UNCHANGED <<queue, session, wifiReady, connected, retry, stored, button,
                       observers>>
    BY <1>12 DEF OpenAp
  <2>2. ~wifiReady /\ startup = flash
    BY <2>1
  <2>3. station # NoCredentials => connected /\ station = flash
    BY <2>1
  <2>4. StationCurrent'
    <3>1. CASE station' = station
      BY <2>1, <2>3, <3>1
    <3>2. CASE station' = NoCredentials
      BY <2>1, <3>2
    <3> QED BY <2>1, <3>1, <3>2
  <2>5. TypeOK'
    BY <2>1
  <2>6. ReadyTruthful' /\ AwayIsNotReady' /\ ReadyAtReset' /\ StartupCurrent'
    BY <2>1, <2>2
  <2>7. CancelIsNew'
    BY <2>1
  <2> QED BY <2>4, <2>5, <2>6, <2>7
<1>13. CASE LookAround
  BY <1>13 DEF LookAround
<1>14. CASE Select
  BY <1>14 DEF Select
<1>15. CASE ClientStep
  <2>1. CASE ClientServed
    BY <2>1 DEF ClientServed
  <2>2. CASE PostConfig
    BY <2>2 DEF PostConfig
  <2>3. CASE PostMalformed
    BY <2>3 DEF PostMalformed
  <2> QED BY <1>15, <2>1, <2>2, <2>3 DEF ClientStep
<1>16. CASE LowerActive
  <2>1. CASE pc = "lower"
    <3>1. /\ pc' = "reload" /\ apActive' = FALSE
          /\ UNCHANGED <<queue, apCancel, link, timing, stored, button, observers>>
      BY <1>16, <2>1 DEF LowerActive
    <3>2. StartupCurrent' /\ StationCurrent'
      BY <2>1, <3>1
    <3>3. ~wifiReady
      BY <2>1
    <3>4. TypeOK'
      BY <3>1, ZenonT(60)
    <3>5. AwayIsNotReady' /\ ReadyTruthful' /\ ReadyAtReset' /\ CancelIsNew'
      BY <3>1, <3>3
    <3> QED BY <3>2, <3>4, <3>5
  <2>2. CASE pc = "lowerReboot"
    <3>1. /\ pc' = "rebooting" /\ apActive' = FALSE
          /\ UNCHANGED <<queue, apCancel, link, timing, stored, button, observers>>
      BY <1>16, <2>2 DEF LowerActive
    <3>2. ~wifiReady
      BY <2>2
    <3>3. TypeOK'
      BY <3>1, ZenonT(60)
    <3>4. AwayIsNotReady' /\ ReadyTruthful' /\ ReadyAtReset'
      BY <3>1, <3>2
    <3>5. StartupCurrent' /\ StationCurrent' /\ CancelIsNew'
      BY <3>1
    <3> QED BY <3>3, <3>4, <3>5
  <2> QED BY <1>16, <2>1, <2>2 DEF LowerActive
<1>17. CASE Reload
  <2>1. CASE flash # NoCredentials
    <3>1. PICK up \in BOOLEAN : ConnectSta(flash, up) /\ connected' = up
      BY <1>17, <2>1 DEF Reload
    <3>2. CASE up
      BY <1>17, <3>1, <3>2, ZenonT(60) DEF Reload, ConnectSta
    <3>3. CASE ~up
      BY <1>17, <3>1, <3>3 DEF Reload, ConnectSta
    <3> QED BY <3>2, <3>3
  <2>2. CASE flash = NoCredentials
    <3>1. station = NoCredentials
      BY <1>17, <2>2 DEF Reload
    <3>2. connected' = FALSE /\ station' = station
      BY <1>17, <2>2, <3>1 DEF Reload
    <3> QED BY <1>17, <3>1, <3>2 DEF Reload
  <2> QED BY <2>1, <2>2
<1>18. CASE Blink
  BY <1>18 DEF Blink
<1>19. CASE Restart
  <2>1. <<>> \in Seq(Commands) /\ Len(<<>>) <= QueueSize
    BY QueueSizeAssumption
  <2> QED BY <1>19, <2>1 DEF Restart
<1>20. CASE RetryElapses
  BY <1>20 DEF RetryElapses
<1>21. CASE SessionElapses
  BY <1>21 DEF SessionElapses
<1> QED
  BY <1>1, <1>2, <1>3, <1>4, <1>5, <1>6, <1>7, <1>8, <1>9, <1>10, <1>11, <1>12,
     <1>13, <1>14, <1>15, <1>16, <1>17, <1>18, <1>19, <1>20,
     <1>21
     DEF Next, WifiStep

(***************************************************************************)
(* The strengthened invariant of the Wi-Fi task and the button.            *)
(***************************************************************************)
THEOREM Invariance == Spec => []IInv
BY InitInv, StepInv, PTL DEF Spec

(* Types; the command queue never exceeds its capacity. *)
THEOREM TypeCorrect == Spec => []TypeOK
<1>1. IInv => TypeOK
  BY DEF IInv
<1> QED BY <1>1, Invariance, PTL

(***************************************************************************)
(* Between commands the MQTT client knows the link as the Wi-Fi task does, *)
(* and at no statement of a session, a retry or a restart does it believe  *)
(* in a link without a station.                                            *)
(***************************************************************************)
THEOREM ReadyIsTrue == Spec => []ReadyTracksLink
<1>1. IInv => ReadyTracksLink
  <2> SUFFICES ASSUME IInv PROVE ReadyTracksLink
    OBVIOUS
  <2>1. CASE pc \in {"loop", "retry", "start", "clearCancel", "raise", "notReady"}
    <3>1. wifiReady = connected
      BY <2>1 DEF IInv, ReadyTruthful
    <3>2. connected = (station # NoCredentials)
      BY <2>1 DEF IInv, StationCurrent
    <3>3. wifiReady => station # NoCredentials
      BY <3>1, <3>2
    <3> QED BY <3>1, <3>3 DEF ReadyTracksLink
  <2>2. CASE pc \in Away
    BY <2>2 DEF IInv, AwayIsNotReady, Away, ReadyTracksLink
  <2>3. CASE pc \in {"blink", "rebooting"}
    BY <2>3 DEF IInv, ReadyAtReset, ReadyTracksLink
  <2> QED
    BY <2>1, <2>2, <2>3 DEF IInv, TypeOK, Labels, Away
<1> QED BY <1>1, Invariance, PTL

(***************************************************************************)
(* Between commands neither the copy of the configuration that retries use *)
(* nor the one the station is connected with is stale.                     *)
(***************************************************************************)
THEOREM CopiesAreCurrent == Spec => []CopiesCurrent
<1>1. IInv => CopiesCurrent
  BY DEF IInv, StartupCurrent, StationCurrent, CopiesCurrent
<1> QED BY <1>1, Invariance, PTL

(* A session is cancelled by the presses made during it, and no others. *)
THEOREM CancelsAreOwn == Spec => []CancelIsOwn
<1>1. IInv => CancelIsOwn
  BY DEF IInv, CancelIsNew, CancelIsOwn
<1> QED BY <1>1, Invariance, PTL

-----------------------------------------------------------------------------
(***************************************************************************)
(* Provisioning implements Link: of all the statements of the Wi-Fi task,  *)
(* those that touch the MQTT client's view of the link are Link's steps.   *)
(***************************************************************************)
LEMMA StepIsLinkStep ==
    ASSUME IInv, [Next]_vars
    PROVE  [Told!Next]_Told!vars
<1> USE DEF link, IInv, TypeOK, ReadyTruthful, AwayIsNotReady, Away
<1>1. CASE ButtonStep \/ RetryElapses \/ SessionElapses \/ UNCHANGED vars
  <2>1. pc' = pc /\ wifiReady' = wifiReady
    BY <1>1 DEF ButtonStep, Press, HoldOn, HandleButtonHold, HandleButtonRelease,
       RetryElapses, SessionElapses, vars
  <2> QED BY <2>1 DEF Told!vars
<1>2. CASE Boot \/ Reload
  <2>1. ~wifiReady /\ wifiReady' \in BOOLEAN /\ pc \in {"boot", "reload"}
        /\ pc' \in {"loop", "retry"}
    BY <1>2 DEF Boot, Reload
  <2>2. Told!Return
    BY <2>1 DEF Told!Return
  <2> QED BY <2>2 DEF Told!Next
<1>3. CASE RetryConnection
  <2>1. ~wifiReady /\ pc = "retry" /\ pc' = "loop"
    BY <1>3 DEF RetryConnection, MayRetry
  <2>2. wifiReady' \in BOOLEAN
    BY <1>3 DEF RetryConnection
  <2>3. Told!Return
    BY <2>1, <2>2 DEF Told!Return
  <2> QED BY <2>3 DEF Told!Next
<1>4. CASE RaiseActive
  <2>1. Told!Close
    BY <1>4 DEF RaiseActive, Told!Close
  <2> QED BY <2>1 DEF Told!Next
<1>5. CASE NotReady
  <2>1. Told!Withdraw
    BY <1>5 DEF NotReady, Told!Withdraw
  <2> QED BY <2>1 DEF Told!Next
<1>6. CASE LowerActive
  <2>1. wifiReady' = wifiReady /\ ~wifiReady
    BY <1>6 DEF LowerActive
  <2>2. CASE pc = "lower"
    BY <1>6, <2>1, <2>2 DEF LowerActive, Told!vars
  <2>3. CASE pc = "lowerReboot"
    <3>1. Told!Return
      BY <1>6, <2>1, <2>3 DEF LowerActive, Told!Return
    <3> QED BY <3>1 DEF Told!Next
  <2> QED BY <1>6, <2>2, <2>3 DEF LowerActive
<1>7. CASE Restart
  <2>1. Told!Reset
    BY <1>7 DEF Restart, Told!Reset
  <2> QED BY <2>1 DEF Told!Next
<1>8. CASE Receive \/ NoCommand \/ NoRetry \/ StartOrStop \/ ClearCancel \/ Blink
  BY <1>8 DEF Receive, NoCommand, NoRetry, StartOrStop, ClearCancel, Blink, Told!vars
<1>9. CASE OpenAp \/ LookAround \/ Select
  BY <1>9 DEF OpenAp, LookAround, Select, Told!vars
<1>10. CASE ClientStep
  BY <1>10 DEF ClientStep, ClientServed, PostConfig, PostMalformed, Told!vars
<1> QED
  BY <1>1, <1>2, <1>3, <1>4, <1>5, <1>6, <1>7, <1>8, <1>9, <1>10
     DEF Next, WifiStep

THEOREM Refinement == Spec => ImplementsLink
<1>1. Init => Told!Init
  BY DEF Init, Told!Init
<1>2. IInv /\ [Next]_vars => [Told!Next]_Told!vars
  BY StepIsLinkStep
<1> QED
  BY <1>1, <1>2, Invariance, PTL DEF Spec, ImplementsLink, Told!Spec
=============================================================================
