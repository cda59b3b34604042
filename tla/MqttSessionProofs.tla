-------------------------- MODULE MqttSessionProofs --------------------------
(***************************************************************************)
(* Proofs about MqttSession.  Its state is finite and TLC has seen all of  *)
(* it; the proof says why no session loses its announcement.               *)
(***************************************************************************)
EXTENDS MqttSession, TLAPS

(***************************************************************************)
(* Only the network task dials, and while it publishes the discovery it    *)
(* does not: so what it publishes goes to the session it looked at, or is  *)
(* lost to a drop that nothing can follow before the task goes on.         *)
(***************************************************************************)
DiscoveryAlone == npc = "discover" => attempt = "none" /\ (connected => whole)

IInv == TypeOK /\ OneConnection /\ AnnouncedWhole /\ DiscoveryAlone

-----------------------------------------------------------------------------
LEMMA InitInv == Init => IInv
BY DEF Init, IInv, TypeOK, PlacesOK, FlagsOK, LedStates, OneConnection, AnnouncedWhole, DiscoveryAlone

(* The steps of the network task. *)
LEMMA NetworkStepInv == IInv /\ (NetworkStep \/ TakeMessage \/ QueueEmpty) => IInv'
<1> SUFFICES ASSUME IInv, NetworkStep \/ TakeMessage \/ QueueEmpty PROVE IInv'
  OBVIOUS
<1> USE DEF mqtt, dial, leds, lamp, seen, IInv, TypeOK, PlacesOK, FlagsOK,
            LedStates, OneConnection, AnnouncedWhole, DiscoveryAlone
<1>1. CASE EnsureMqtt
  <2>1. PlacesOK'
    BY <1>1 DEF EnsureMqtt
  <2>2. FlagsOK'
    BY <1>1, ZenonT(40) DEF EnsureMqtt
  <2>3. OneConnection' /\ AnnouncedWhole' /\ DiscoveryAlone'
    BY <1>1 DEF EnsureMqtt
  <2> QED BY <2>1, <2>2, <2>3
<1>2. CASE Connect
  <2>1. /\ needsDiscovery' \in BOOLEAN /\ needsInitialPublish' \in BOOLEAN
        /\ needsDiscovery => needsDiscovery'
    BY <1>2 DEF Connect, AskAnnouncement
  <2>2. attempt' \in {"none", "dns", "tcp"} /\ (connected => attempt' = "none")
    BY <1>2 DEF Connect
  <2> QED BY <1>2, <2>1, <2>2 DEF Connect
<1>3. CASE CheckSession
  <2>1. whole' = (connected /\ needsDiscovery) /\ whole' \in BOOLEAN
    BY <1>3 DEF CheckSession
  <2>2. PlacesOK'
    BY <1>3 DEF CheckSession
  <2>3. FlagsOK'
    BY <1>3, <2>1 DEF CheckSession
  <2>4. npc' = "discover" => connected /\ needsDiscovery
    BY <1>3 DEF CheckSession
  <2>5. DiscoveryAlone'
    BY <1>3, <2>1, <2>4 DEF CheckSession
  <2>6. OneConnection' /\ AnnouncedWhole'
    BY <1>3 DEF CheckSession
  <2> QED BY <2>2, <2>3, <2>5, <2>6
<1>4. CASE DiscoveryDone
  <2>1. announced' = (announced \/ whole) /\ announced' \in BOOLEAN
    BY <1>4 DEF DiscoveryDone
  <2>2. PlacesOK'
    BY <1>4 DEF DiscoveryDone
  <2>3. FlagsOK'
    BY <1>4, <2>1 DEF DiscoveryDone
  <2>4. connected => announced'
    BY <1>4, <2>1 DEF DiscoveryDone
  <2>5. OneConnection' /\ AnnouncedWhole' /\ DiscoveryAlone'
    BY <1>4, <2>4 DEF DiscoveryDone
  <2> QED BY <2>2, <2>3, <2>5
<1>5. CASE InitialPublish
  <2>1. PlacesOK'
    BY <1>5 DEF InitialPublish
  <2>2. FlagsOK'
    BY <1>5 DEF InitialPublish
  <2>3. OneConnection' /\ AnnouncedWhole' /\ DiscoveryAlone'
    BY <1>5 DEF InitialPublish
  <2> QED BY <2>1, <2>2, <2>3
<1>6. CASE UpdateNetworkLed
  BY <1>6 DEF UpdateNetworkLed
<1>7. CASE SetNetworkLed
  BY <1>7 DEF SetNetworkLed
<1>8. CASE Publish
  <2>1. PlacesOK'
    BY <1>8 DEF Publish
  <2>2. FlagsOK'
    BY <1>8, ZenonT(40) DEF Publish
  <2>3. OneConnection' /\ AnnouncedWhole' /\ DiscoveryAlone'
    BY <1>8 DEF Publish
  <2> QED BY <2>1, <2>2, <2>3
<1>9. CASE TakeMessage
  BY <1>9 DEF TakeMessage
<1>10. CASE QueueEmpty
  BY <1>10 DEF QueueEmpty
<1> QED BY <1>1, <1>2, <1>3, <1>4, <1>5, <1>6, <1>7, <1>8, <1>9, <1>10 DEF NetworkStep

(* The callbacks finish what the network task began, and drop it. *)
LEMMA CallbackInv == IInv /\ (DnsAnswer \/ Accepted \/ Subscribe \/ Refused \/ Drop) => IInv'
<1> SUFFICES ASSUME IInv, DnsAnswer \/ Accepted \/ Subscribe \/ Refused \/ Drop
             PROVE  IInv'
  OBVIOUS
<1> USE DEF mqtt, dial, leds, lamp, seen, IInv, TypeOK, PlacesOK, FlagsOK,
            LedStates, OneConnection, AnnouncedWhole, DiscoveryAlone
<1>1. CASE DnsAnswer
  BY <1>1 DEF DnsAnswer
<1>2. CASE Accepted
  BY <1>2 DEF Accepted
<1>3. CASE Subscribe
  BY <1>3 DEF Subscribe, AskAnnouncement
<1>4. CASE Refused
  <2>1. PlacesOK'
    BY <1>4 DEF Refused
  <2>2. FlagsOK'
    BY <1>4 DEF Refused
  <2>3. OneConnection' /\ AnnouncedWhole' /\ DiscoveryAlone'
    BY <1>4 DEF Refused
  <2> QED BY <2>1, <2>2, <2>3
<1>5. CASE Drop
  <2>1. PlacesOK'
    BY <1>5 DEF Drop
  <2>2. FlagsOK'
    BY <1>5 DEF Drop
  <2>3. OneConnection' /\ AnnouncedWhole' /\ DiscoveryAlone'
    BY <1>5 DEF Drop
  <2> QED BY <2>1, <2>2, <2>3
<1> QED BY <1>1, <1>2, <1>3, <1>4, <1>5

(* The Wi-Fi task, the LED task and time leave the session alone. *)
LEMMA StepInv == IInv /\ [Next]_vars => IInv'
<1> SUFFICES ASSUME IInv, [Next]_vars PROVE IInv'
  OBVIOUS
<1> USE DEF mqtt, dial, leds, lamp, seen, IInv, TypeOK, PlacesOK, FlagsOK,
            LedStates, OneConnection, AnnouncedWhole, DiscoveryAlone
<1>1. CASE UNCHANGED vars
  BY <1>1 DEF vars
<1>2. CASE NetworkStep \/ TakeMessage \/ QueueEmpty
  BY <1>2, NetworkStepInv
<1>3. CASE DnsAnswer \/ Accepted \/ Subscribe \/ Refused \/ Drop
  BY <1>3, CallbackInv
<1>4. CASE StartProvisioning
  BY <1>4 DEF StartProvisioning
<1>5. CASE NotReady
  <2>1. PlacesOK'
    BY <1>5 DEF NotReady
  <2>2. FlagsOK'
    BY <1>5 DEF NotReady
  <2>3. OneConnection' /\ AnnouncedWhole' /\ DiscoveryAlone'
    BY <1>5 DEF NotReady
  <2> QED BY <2>1, <2>2, <2>3
<1>6. CASE RetryConnection
  <2>1. PlacesOK'
    BY <1>6 DEF RetryConnection
  <2>2. FlagsOK'
    BY <1>6 DEF RetryConnection
  <2>3. OneConnection' /\ AnnouncedWhole' /\ DiscoveryAlone'
    BY <1>6 DEF RetryConnection
  <2> QED BY <2>1, <2>2, <2>3
<1>7. CASE ConnectSta
  <2>1. PlacesOK'
    BY <1>7 DEF ConnectSta
  <2>2. FlagsOK'
    BY <1>7, ZenonT(40) DEF ConnectSta
  <2>3. OneConnection' /\ AnnouncedWhole' /\ DiscoveryAlone'
    BY <1>7 DEF ConnectSta
  <2> QED BY <2>1, <2>2, <2>3
<1>8. CASE InitClient
  <2>1. PlacesOK'
    BY <1>8 DEF InitClient
  <2>2. FlagsOK'
    BY <1>8, ZenonT(40) DEF InitClient
  <2>3. OneConnection' /\ AnnouncedWhole' /\ DiscoveryAlone'
    BY <1>8 DEF InitClient
  <2> QED BY <2>1, <2>2, <2>3
<1>9. CASE ShowLink
  <2>1. PlacesOK'
    BY <1>9 DEF ShowLink
  <2>2. FlagsOK'
    BY <1>9 DEF ShowLink
  <2>3. OneConnection' /\ AnnouncedWhole' /\ DiscoveryAlone'
    BY <1>9 DEF ShowLink
  <2> QED BY <2>1, <2>2, <2>3
<1>10. CASE LedTask
  <2>1. PlacesOK'
    BY <1>10 DEF LedTask
  <2>2. FlagsOK'
    BY <1>10, ZenonT(40) DEF LedTask
  <2>3. OneConnection' /\ AnnouncedWhole' /\ DiscoveryAlone'
    BY <1>10 DEF LedTask
  <2> QED BY <2>1, <2>2, <2>3
<1>11. CASE BlinkElapses
  <2>1. PlacesOK'
    BY <1>11 DEF BlinkElapses
  <2>2. FlagsOK'
    BY <1>11 DEF BlinkElapses
  <2>3. OneConnection' /\ AnnouncedWhole' /\ DiscoveryAlone'
    BY <1>11 DEF BlinkElapses
  <2> QED BY <2>1, <2>2, <2>3
<1>12. CASE RetryElapses
  <2>1. PlacesOK'
    BY <1>12 DEF RetryElapses
  <2>2. FlagsOK'
    BY <1>12 DEF RetryElapses
  <2>3. OneConnection' /\ AnnouncedWhole' /\ DiscoveryAlone'
    BY <1>12 DEF RetryElapses
  <2> QED BY <2>1, <2>2, <2>3
<1> QED
  BY <1>1, <1>2, <1>3, <1>4, <1>5, <1>6, <1>7, <1>8, <1>9, <1>10, <1>11, <1>12 DEF Next

(* The strengthened invariant of the session. *)
THEOREM Invariance == Spec => []IInv
BY InitInv, StepInv, PTL DEF Spec

(* Types, and a message is held exactly while it is being published. *)
THEOREM TypeCorrect == Spec => []TypeOK
<1>1. IInv => TypeOK
  BY DEF IInv
<1> QED BY <1>1, Invariance, PTL

(* While there is a session, no other connection is under way. *)
THEOREM OneAtATime == Spec => []OneConnection
<1>1. IInv => OneConnection
  BY DEF IInv
<1> QED BY <1>1, Invariance, PTL

(* The late reset of needsDiscovery_ swallows no newer session's request. *)
THEOREM NoAnnouncementLost == Spec => []AnnouncedWhole
<1>1. IInv => AnnouncedWhole
  BY DEF IInv
<1> QED BY <1>1, Invariance, PTL

-----------------------------------------------------------------------------
(***************************************************************************)
(* The request for the known reading, inductively: it is withdrawn only by *)
(* the publication itself, and a drop ends what is owed.                   *)
(***************************************************************************)
LEMMA OwedStep == IInv /\ OwedIsAsked /\ [Next]_vars => OwedIsAsked'
<1> SUFFICES ASSUME IInv, OwedIsAsked, [Next]_vars PROVE OwedIsAsked'
  OBVIOUS
<1> USE DEF mqtt, dial, leds, lamp, seen, IInv, TypeOK, FlagsOK, OneConnection,
            OwedIsAsked
<1>1. CASE Connect
  <2>1. needsInitialPublish => needsInitialPublish'
    BY <1>1 DEF Connect, AskAnnouncement
  <2>2. UNCHANGED <<connected, hasData, cpc, owed>>
    BY <1>1 DEF Connect
  <2> QED BY <2>1, <2>2
<1>2. CASE InitialPublish
  <2>1. /\ owed' => owed /\ ~(needsInitialPublish /\ hasData /\ connected)
        /\ UNCHANGED <<connected, hasData, cpc>>
    BY <1>2 DEF InitialPublish
  <2> QED BY <2>1
<1>3. CASE Publish
  <2>1. owed' => owed
    BY <1>3 DEF Publish
  <2>2. hasData => hasData'
    BY <1>3 DEF Publish
  <2>3. UNCHANGED <<connected, needsInitialPublish, cpc>>
    BY <1>3 DEF Publish
  <2> QED BY <2>1, <2>2, <2>3
<1>4. CASE Accepted
  <2>1. owed' = hasData /\ hasData' = hasData /\ connected' = TRUE /\ cpc' = "subscribe"
    BY <1>4 DEF Accepted
  <2> QED BY <2>1
<1>5. CASE Subscribe
  <2>1. needsInitialPublish' = TRUE /\ UNCHANGED <<connected, hasData, owed>>
    BY <1>5 DEF Subscribe, AskAnnouncement
  <2> QED BY <2>1
<1>6. CASE Refused
  <2>1. ~owed /\ owed' = owed
    BY <1>6 DEF Refused
  <2> QED BY <2>1
<1>7. CASE Drop
  BY <1>7 DEF Drop
<1>8. CASE EnsureMqtt \/ CheckSession \/ DiscoveryDone \/ UpdateNetworkLed
           \/ SetNetworkLed \/ TakeMessage \/ QueueEmpty \/ DnsAnswer
  <2>1. UNCHANGED <<owed, connected, hasData, needsInitialPublish, cpc>>
    BY <1>8 DEF EnsureMqtt, CheckSession, DiscoveryDone, UpdateNetworkLed,
       SetNetworkLed, TakeMessage, QueueEmpty, DnsAnswer
  <2> QED BY <2>1
<1>9. CASE StartProvisioning \/ NotReady \/ RetryConnection \/ ConnectSta
           \/ InitClient \/ ShowLink \/ LedTask \/ BlinkElapses \/ RetryElapses
           \/ UNCHANGED vars
  <2>1. UNCHANGED <<owed, connected, hasData, needsInitialPublish, cpc>>
    BY <1>9 DEF StartProvisioning, NotReady, RetryConnection, ConnectSta,
       InitClient, ShowLink, LedTask, BlinkElapses, RetryElapses, vars
  <2> QED BY <2>1
<1> QED
  BY <1>1, <1>2, <1>3, <1>4, <1>5, <1>6, <1>7, <1>8, <1>9 DEF Next, NetworkStep

(***************************************************************************)
(* A session that is owed the known reading has asked for it or is about   *)
(* to: the safety half of ReadingShown.                                    *)
(***************************************************************************)
THEOREM OwedAsks == Spec => []OwedIsAsked
<1>1. Init => OwedIsAsked
  BY DEF Init, OwedIsAsked
<1> QED
  BY <1>1, OwedStep, Invariance, PTL DEF Spec

-----------------------------------------------------------------------------
(* While it dials, or is in a session, the Wi-Fi task has left the link    *)
(* withdrawn.                                                              *)
ConnectingIsNotReady == wpc = "connecting" => ~wifiReady

LEMMA LinkStep ==
    ASSUME IInv, ConnectingIsNotReady, [Next]_vars
    PROVE  ConnectingIsNotReady' /\ [Told!Next]_Told!vars
<1> USE DEF IInv, TypeOK, FlagsOK, ConnectingIsNotReady, mqtt, dial, leds, lamp, seen
<1>1. CASE StartProvisioning
  <2>1. Told!Close
    BY <1>1 DEF StartProvisioning, Told!Close
  <2> QED BY <1>1, <2>1 DEF StartProvisioning, Told!Next
<1>2. CASE NotReady
  <2>1. Told!Withdraw
    BY <1>2 DEF NotReady, Told!Withdraw
  <2> QED BY <1>2, <2>1 DEF NotReady, Told!Next
<1>3. CASE RetryConnection
  <2>1. Told!Dial
    BY <1>3 DEF RetryConnection, Told!Dial
  <2> QED BY <1>3, <2>1 DEF RetryConnection, Told!Next
<1>4. CASE ConnectSta
  <2>1. /\ ~wifiReady /\ wifiReady' \in BOOLEAN
        /\ wpc = "connecting" /\ wpc' \in {"init", "down"}
    BY <1>4 DEF ConnectSta
  <2>2. Told!Return
    BY <2>1 DEF Told!Return
  <2> QED BY <2>1, <2>2 DEF Told!Next
<1>5. CASE InitClient \/ ShowLink
  <2>1. /\ wifiReady' = wifiReady
        /\ wpc \in {"init", "up", "down"} /\ wpc' \in {"up", "idle"}
    BY <1>5 DEF InitClient, ShowLink
  <2> QED BY <2>1 DEF Told!vars
<1>6. CASE NetworkStep \/ TakeMessage \/ QueueEmpty
  <2>1. wpc' = wpc /\ wifiReady' = wifiReady
    BY <1>6 DEF NetworkStep, EnsureMqtt, Connect, CheckSession, DiscoveryDone,
       InitialPublish, UpdateNetworkLed, SetNetworkLed, Publish, TakeMessage, QueueEmpty
  <2> QED BY <2>1 DEF Told!vars
<1>7. CASE \/ DnsAnswer \/ Accepted \/ Subscribe \/ Refused \/ Drop
           \/ LedTask \/ BlinkElapses \/ RetryElapses \/ UNCHANGED vars
  <2>1. wpc' = wpc /\ wifiReady' = wifiReady
    BY <1>7 DEF DnsAnswer, Accepted, Subscribe, Refused, Drop, LedTask,
       BlinkElapses, RetryElapses, vars
  <2> QED BY <2>1 DEF Told!vars
<1> QED
  BY <1>1, <1>2, <1>3, <1>4, <1>5, <1>6, <1>7 DEF Next

(***************************************************************************)
(* What MqttSession takes the Wi-Fi task to do is within Link, as is what  *)
(* Provisioning shows it doing.                                            *)
(***************************************************************************)
THEOREM Refinement == Spec => ImplementsLink
<1>1. Init => ConnectingIsNotReady /\ Told!Init
  BY DEF Init, ConnectingIsNotReady, Told!Init
<1>2. IInv /\ ConnectingIsNotReady /\ [Next]_vars
        => ConnectingIsNotReady' /\ [Told!Next]_Told!vars
  BY LinkStep
<1> QED
  BY <1>1, <1>2, Invariance, PTL DEF Spec, ImplementsLink, Told!Spec
=============================================================================
