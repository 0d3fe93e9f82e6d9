------------------------- MODULE ConnectivityProofs -------------------------
(***************************************************************************)
(* Theorems about Connectivity, for any saved networks, any networks in    *)
(* reach and any number of drops.                                          *)
(***************************************************************************)
EXTENDS Connectivity, TLAPS

-----------------------------------------------------------------------------
(* Type correctness *)

LEMMA NextSlotIsSlot == \A s \in Slots : NextSlot(s) \in Slots
BY DEF Slots, NextSlot

LEMMA TypeNext == TypeOK /\ [Next]_vars => TypeOK'
<1> SUFFICES ASSUME TypeOK, [Next]_vars PROVE TypeOK'
  OBVIOUS
<1> USE ConnectivityAssumption
<1> USE DEF TypeOK, Goto, taskVars, linkVars, mqttVars, clockVars, boundVars
<1>1. CASE CheckWifi
  BY <1>1 DEF CheckWifi, Slots
<1>2. CASE Scan
  BY <1>2, NextSlotIsSlot DEF Scan
<1>3. CASE Begin
  BY <1>3 DEF Begin
<1>4. CASE Joined
  BY <1>4 DEF Joined
<1>5. CASE NotJoined
  BY <1>5, NextSlotIsSlot DEF NotJoined
<1>6. CASE Announce
  BY <1>6 DEF Announce
<1>7. CASE Inner
  BY <1>7 DEF Inner
<1>8. CASE MqttConnect
  BY <1>8 DEF MqttConnect
<1>9. CASE Subscribe
  BY <1>9 DEF Subscribe
<1>10. CASE Listen
  <2>1. session' \in BOOLEAN /\ subscribed' \in BOOLEAN
    BY <1>10 DEF Listen, EndSession
  <2> QED
    BY <1>10, <2>1 DEF Listen
<1>11. CASE Associate
  BY <1>11 DEF Associate
<1>12. CASE TimeArrives
  BY <1>12 DEF TimeArrives
<1>13. CASE WifiDrop
  <2>1. wifiDrops' \in 0..MaxWifiDrops
    BY <1>13 DEF WifiDrop
  <2> QED
    BY <1>13, <2>1 DEF WifiDrop
<1>14. CASE SessionDrop
  <2>1. sessionDrops' \in 0..MaxSessionDrops
    BY <1>14 DEF SessionDrop
  <2> QED
    BY <1>14, <2>1 DEF SessionDrop, EndSession
<1>15. CASE JwtExpires
  <2>1. sessionDrops' \in 0..MaxSessionDrops
    BY <1>15 DEF JwtExpires
  <2> QED
    BY <1>15, <2>1 DEF JwtExpires
<1>16. CASE KeepAliveFails
  BY <1>16 DEF KeepAliveFails, EndSession
<1>17. CASE PlayStarts
  <2>1. playsMade' \in 0..MaxPlays
    BY <1>17 DEF PlayStarts
  <2> QED
    BY <1>17, <2>1 DEF PlayStarts
<1>18. CASE PlayEnds
  BY <1>18 DEF PlayEnds
<1>19. CASE UNCHANGED vars
  BY <1>19 DEF vars
<1> QED
  BY <1>1, <1>2, <1>3, <1>4, <1>5, <1>6, <1>7, <1>8, <1>9, <1>10, <1>11,
     <1>12, <1>13, <1>14, <1>15, <1>16, <1>17, <1>18, <1>19 DEF Next,
     FireBaseTask

\* Every reachable state of Connectivity has its type; the walk through the
\* saved networks never leaves the list.
THEOREM TypeCorrect == Spec => []TypeOK
<1>1. Init => TypeOK
  <2> SUFFICES ASSUME Init PROVE TypeOK
    OBVIOUS
  <2>1. wifiDrops \in 0..MaxWifiDrops /\ sessionDrops \in 0..MaxSessionDrops
        /\ playsMade \in 0..MaxPlays
    BY ConnectivityAssumption DEF Init
  <2>2. slot \in Slots /\ joining \in Slots \cup {NoSlot}
    BY DEF Init, Slots, NoSlot
  <2> QED
    BY <2>1, <2>2 DEF Init, TypeOK
<1> QED
  BY <1>1, TypeNext, PTL DEF Spec

-----------------------------------------------------------------------------
(* Online means subscribed *)

\* mqttConnect runs, up to its subscriptions, only while firebase_status is
\* down: that is why a session without topics is never taken for a full one.
SubscribeInv ==
  /\ pc \in {"connect", "subscribe"} => ~firebase_status
  /\ OnlineIsSubscribed

LEMMA SubscribeNext == TypeOK /\ SubscribeInv /\ [Next]_vars => SubscribeInv'
<1> SUFFICES ASSUME TypeOK, SubscribeInv, [Next]_vars PROVE SubscribeInv'
  OBVIOUS
<1> USE DEF TypeOK, SubscribeInv, OnlineIsSubscribed, Goto, taskVars, linkVars,
            mqttVars, clockVars, boundVars
<1>1. CASE CheckWifi \/ Scan \/ Begin \/ Joined \/ NotJoined \/ Announce
  BY <1>1 DEF CheckWifi, Scan, Begin, Joined, NotJoined, Announce
<1>2. CASE Inner
  BY <1>2 DEF Inner
<1>3. CASE MqttConnect
  BY <1>3 DEF MqttConnect
<1>4. CASE Subscribe
  BY <1>4 DEF Subscribe
<1>5. CASE Listen
  BY <1>5 DEF Listen, EndSession
<1>6. CASE Associate \/ TimeArrives \/ WifiDrop \/ JwtExpires
  BY <1>6 DEF Associate, TimeArrives, WifiDrop, JwtExpires
<1>7. CASE SessionDrop \/ KeepAliveFails
  BY <1>7 DEF SessionDrop, KeepAliveFails, EndSession
<1>8. CASE PlayStarts \/ PlayEnds
  BY <1>8 DEF PlayStarts, PlayEnds
<1>9. CASE UNCHANGED vars
  BY <1>9 DEF vars
<1> QED
  BY <1>1, <1>2, <1>3, <1>4, <1>5, <1>6, <1>7, <1>8, <1>9 DEF Next, FireBaseTask

\* Whatever drops between connecting and subscribing, a toy that believes it is
\* online and has a session has the topics its commands arrive on.
THEOREM OnlineHasTopics == Spec => []OnlineIsSubscribed
<1>1. Init => SubscribeInv
  BY DEF Init, SubscribeInv, OnlineIsSubscribed
<1>2. SubscribeInv => OnlineIsSubscribed
  BY DEF SubscribeInv
<1> QED
  BY <1>1, <1>2, TypeCorrect, SubscribeNext, PTL DEF Spec
=============================================================================
