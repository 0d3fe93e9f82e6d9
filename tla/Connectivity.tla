---------------------------- MODULE Connectivity ----------------------------
(***************************************************************************)
(* Getting online and staying there: FireBaseTask, TryConnection,          *)
(* SetUpWifiFromList and mqttConnect against a WiFi network and a broker   *)
(* that come and go, with wifi_audio and imp_music, the two globals        *)
(* TryConnection waits for once the WiFi is up.                            *)
(*                                                                         *)
(* The access points in reach do not change.  The WiFi driver associates   *)
(* with the network of the last WiFi.begin by itself, also after a drop.   *)
(* A session outlives a drop until the client notices.  Every attempt of   *)
(* mqttConnect signs a new JWT, with the time SNTP has brought; without it *)
(* the broker refuses, and a session is to end with its JWT.  AudioTask    *)
(* raises imp_music for a pressed recording and lowers it at its end.      *)
(***************************************************************************)
EXTENDS Naturals, FiniteSets

CONSTANTS
  Saved,          \* slots of the list that hold an SSID and a password
  InReach,        \* saved slots whose network answers
  MaxWifiDrops, MaxPlays,  \* bounds on the environment
  MaxSessionDrops          \* sessions ended by the broker and JWTs expired

Slots   == 1..5
NoSlot  == 0

ASSUME ConnectivityAssumption ==
  /\ InReach \subseteq Saved /\ Saved \subseteq Slots
  /\ MaxWifiDrops \in Nat /\ MaxSessionDrops \in Nat /\ MaxPlays \in Nat

VARIABLES
  pc,               \* where FireBaseTask is
  slot,             \* the loop variable of SetUpWifiFromList
  joining,          \* the slot of the last WiFi.begin
  wifi,             \* WiFi.status() = WL_CONNECTED
  session,          \* mqttClient->connected()
  subscribed,       \* the session has the config and command topics
  expired,          \* millis() > device->getExpMillis()
  sntp,             \* configTime has been called
  clock,            \* time(nullptr) is today, not 1970
  firebase_status,
  wifi_audio,
  imp_music,
  wifiDrops, sessionDrops, playsMade   \* what the bounds count

taskVars  == <<pc, slot>>
mqttVars  == <<session, subscribed, expired>>
clockVars == <<sntp, clock>>
linkVars  == <<joining, wifi, mqttVars, clockVars>>
boundVars == <<wifiDrops, sessionDrops, playsMade>>
vars == <<taskVars, linkVars, firebase_status, wifi_audio, imp_music, boundVars>>

-----------------------------------------------------------------------------
Init ==
  /\ pc = "outer" /\ slot = 1
  /\ joining = NoSlot /\ wifi = FALSE
  /\ session = FALSE /\ subscribed = FALSE /\ expired = FALSE
  /\ sntp = FALSE /\ clock = FALSE
  /\ firebase_status = FALSE /\ wifi_audio = TRUE /\ imp_music = FALSE
  /\ wifiDrops = 0 /\ sessionDrops = 0 /\ playsMade = 0

Goto(label) == pc' = label

(* FireBaseTask, outer loop *)

CheckWifi ==
  /\ pc = "outer"
  /\ Goto(IF wifi THEN "inner" ELSE "scan")
  /\ slot' = 1
  /\ UNCHANGED <<linkVars, firebase_status, wifi_audio, imp_music, boundVars>>

(* TryConnection and SetUpWifiFromList *)

\* Mutant: the loop runs one slot too far.
NextSlotTooFar(s) == IF s <= 5 THEN s + 1 ELSE 1

\* After the last slot the caller starts over two seconds later.
NextSlot(s) == IF s < 5 THEN s + 1 ELSE 1

\* One turn of the loop over the slots, up to WiFi.begin.
Scan ==
  /\ pc = "scan"
  /\ IF wifi
     THEN Goto("announce") /\ slot' = slot
     ELSE IF slot \in Saved
     THEN Goto("begin") /\ slot' = slot
     ELSE Goto("scan") /\ slot' = NextSlot(slot)
  /\ UNCHANGED <<linkVars, firebase_status, wifi_audio, imp_music, boundVars>>

\* WiFi.begin gives up whatever association there is.
Begin ==
  /\ pc = "begin" /\ Goto("wait")
  /\ joining' = slot /\ wifi' = FALSE
  /\ UNCHANGED <<slot, mqttVars, clockVars, firebase_status, wifi_audio,
                 imp_music, boundVars>>

\* Fifteen looks at WiFi.status() in 4.5 seconds, in which the driver may or
\* may not get through; when it does so later, the next WiFi.begin undoes it, or
\* the next turn of the loop finds the WiFi connected - and leaves out
\* configTime.
Joined ==
  /\ pc = "wait" /\ wifi /\ Goto("announce")
  /\ sntp' = TRUE
  /\ UNCHANGED <<slot, joining, wifi, mqttVars, clock, firebase_status,
                 wifi_audio, imp_music, boundVars>>

NotJoined ==
  /\ pc = "wait" /\ ~wifi
  /\ Goto("scan") /\ slot' = NextSlot(slot)
  /\ UNCHANGED <<linkVars, firebase_status, wifi_audio, imp_music, boundVars>>

\* The loop that was to play the connect sound.
Announce ==
  /\ pc = "announce" /\ wifi_audio /\ ~imp_music
  /\ wifi_audio' = FALSE
  /\ Goto("outer")
  /\ UNCHANGED <<slot, linkVars, firebase_status, imp_music, boundVars>>

(* FireBaseTask, inner loop *)

Inner ==
  /\ pc = "inner"
  /\ \/ /\ ~firebase_status                    \* ConnectToTopics
        /\ Goto("connect") /\ UNCHANGED firebase_status
     \/ /\ firebase_status /\ ~session         \* break
        /\ firebase_status' = FALSE /\ Goto("outer")
     \/ /\ firebase_status /\ session
        /\ Goto("listen") /\ UNCHANGED firebase_status
  /\ UNCHANGED <<slot, linkVars, wifi_audio, imp_music, boundVars>>

\* Mutant: says it is online before it has subscribed.
MqttConnectSaysOnline ==
  /\ pc = "connect" /\ wifi /\ clock
  /\ session' = TRUE /\ subscribed' = FALSE /\ expired' = FALSE
  /\ firebase_status' = TRUE
  /\ Goto("subscribe")
  /\ UNCHANGED <<slot, joining, wifi, clockVars, wifi_audio, imp_music,
                 boundVars>>

\* The attempt of mqttConnect that succeeds.  The others change nothing but
\* the delay before the next, and there is no end to them.
MqttConnect ==
  /\ pc = "connect" /\ wifi /\ clock
  /\ session' = TRUE /\ subscribed' = FALSE /\ expired' = FALSE
  /\ Goto("subscribe")
  /\ UNCHANGED <<slot, joining, wifi, clockVars, firebase_status, wifi_audio,
                 imp_music, boundVars>>

\* The subscribe calls return false when the session is gone; nobody looks.
Subscribe ==
  /\ pc = "subscribe" /\ Goto("listen")
  /\ subscribed' = session
  /\ firebase_status' = TRUE
  /\ UNCHANGED <<slot, joining, wifi, session, expired, clockVars, wifi_audio,
                 imp_music, boundVars>>

EndSession == session' = FALSE /\ subscribed' = FALSE

\* Mutant: nobody looks at the age of the JWT.
ListenForever ==
  /\ pc = "listen" /\ Goto("inner")
  /\ UNCHANGED <<slot, linkVars, firebase_status, wifi_audio, imp_music,
                 boundVars>>

\* CloudIoTCoreMqtt::loop leaves a session whose JWT is too old.
Listen ==
  /\ pc = "listen" /\ Goto("inner")
  /\ IF expired THEN EndSession ELSE UNCHANGED <<session, subscribed>>
  /\ UNCHANGED <<slot, joining, wifi, expired, clockVars, firebase_status,
                 wifi_audio, imp_music, boundVars>>

FireBaseTask == CheckWifi \/ Scan \/ Begin \/ Joined \/ NotJoined \/ Announce
                \/ Inner \/ MqttConnect \/ Subscribe \/ Listen

(* the WiFi driver, SNTP, the broker, AudioTask *)

Associate ==
  /\ ~wifi /\ joining \in InReach
  /\ wifi' = TRUE
  /\ UNCHANGED <<taskVars, joining, mqttVars, clockVars, firebase_status,
                 wifi_audio, imp_music, boundVars>>

TimeArrives ==
  /\ sntp /\ wifi /\ ~clock
  /\ clock' = TRUE
  /\ UNCHANGED <<taskVars, joining, wifi, mqttVars, sntp, firebase_status,
                 wifi_audio, imp_music, boundVars>>

WifiDrop ==
  /\ wifi /\ wifiDrops < MaxWifiDrops
  /\ wifi' = FALSE
  /\ wifiDrops' = wifiDrops + 1
  /\ UNCHANGED <<taskVars, joining, mqttVars, clockVars, firebase_status,
                 wifi_audio, imp_music, sessionDrops, playsMade>>

\* The broker closes the session.
SessionDrop ==
  /\ session /\ sessionDrops < MaxSessionDrops
  /\ EndSession
  /\ sessionDrops' = sessionDrops + 1
  /\ UNCHANGED <<taskVars, joining, wifi, expired, clockVars, firebase_status,
                 wifi_audio, imp_music, wifiDrops, playsMade>>

\* Twenty minutes after the JWT was signed, or at once when millis() is about
\* to start over and exp_millis already has.
JwtExpires ==
  /\ session /\ ~expired /\ sessionDrops < MaxSessionDrops
  /\ expired' = TRUE
  /\ sessionDrops' = sessionDrops + 1
  /\ UNCHANGED <<taskVars, joining, wifi, session, subscribed, clockVars,
                 firebase_status, wifi_audio, imp_music, wifiDrops, playsMade>>

\* Without WiFi the keep-alive ends it.
KeepAliveFails ==
  /\ session /\ ~wifi
  /\ EndSession
  /\ UNCHANGED <<taskVars, joining, wifi, expired, clockVars, firebase_status,
                 wifi_audio, imp_music, boundVars>>

PlayStarts ==
  /\ playsMade < MaxPlays
  /\ playsMade' = playsMade + 1
  /\ imp_music' = TRUE
  /\ UNCHANGED <<taskVars, linkVars, firebase_status, wifi_audio, wifiDrops,
                 sessionDrops>>

PlayEnds ==
  /\ imp_music
  /\ imp_music' = FALSE
  /\ UNCHANGED <<taskVars, linkVars, firebase_status, wifi_audio, boundVars>>

Next == FireBaseTask \/ Associate \/ TimeArrives \/ WifiDrop \/ SessionDrop
        \/ JwtExpires \/ KeepAliveFails \/ PlayStarts \/ PlayEnds

Spec == Init /\ [][Next]_vars

(* FireBaseTask runs when it can, the driver gets through to a network in  *)
(* reach in the end, and in one attempt or other within the 4.5 seconds,   *)
(* SNTP answers, the client notices a dead link and a recording ends.      *)
Fairness == /\ WF_vars(FireBaseTask)
            /\ WF_vars(Associate) /\ SF_vars(pc = "wait" /\ Associate)
            /\ WF_vars(TimeArrives)
            /\ WF_vars(KeepAliveFails)
            /\ WF_vars(PlayEnds)

FairSpec == Spec /\ Fairness

-----------------------------------------------------------------------------
(* Properties *)

\* Every variable keeps its type, and the loop stays within the five slots.
TypeOK ==
  /\ pc \in {"outer", "scan", "begin", "wait", "announce", "inner", "connect",
             "subscribe", "listen"}
  /\ slot \in Slots /\ joining \in Slots \cup {NoSlot}
  /\ wifi \in BOOLEAN /\ session \in BOOLEAN /\ subscribed \in BOOLEAN
  /\ expired \in BOOLEAN /\ sntp \in BOOLEAN /\ clock \in BOOLEAN
  /\ firebase_status \in BOOLEAN /\ wifi_audio \in BOOLEAN
  /\ imp_music \in BOOLEAN
  /\ wifiDrops \in 0..MaxWifiDrops /\ sessionDrops \in 0..MaxSessionDrops
  /\ playsMade \in 0..MaxPlays

\* While FireBaseTask polls and believes it is connected, a live session has
\* its topics: no DOWNLOAD or OTA command can go to a toy that only looks
\* connected, whatever dropped between connecting and subscribing.
OnlineIsSubscribed == firebase_status /\ session => subscribed

\* While the WiFi stays, the toy gets online for good: it tries every saved
\* network, waits out the recordings being played, and rejoins the broker
\* after each lost session and with a new JWT for each that was too old.  It
\* takes that some join or other was quick enough for configTime.
StaysOnline ==
  [](wifiDrops = 0) /\ <>sntp =>
    <>[](firebase_status /\ session /\ subscribed /\ ~expired)

\* wifi_manager.cpp says of configTime: "necessary to connect to the librar".
\* So it has been called when mqttConnect signs its first JWT.
ClockIsAsked == pc = "connect" => sntp

\* psuedoCode.txt: "if (connected) { indicator of successful connection ...
\* go into normal operation mode }".  After joining a network TryConnection
\* returns and FireBaseTask serves the broker again.
NormalOperation == pc = "announce" ~> pc = "inner"
=============================================================================
