----------------------------- MODULE Telemetry -----------------------------
(***************************************************************************)
(* From a play to a report.                                                *)
(*                                                                         *)
(* AudioTask (core 0) increments a uint8_t play counter when it starts a   *)
(* recording and, at its end, puts a token in xQueueFireBase.  FireBaseTask*)
(* (core 1) takes the token and runs sendPlayCounts: counter by counter it *)
(* copies the value into a JSON object keyed by the sender of that         *)
(* button's recording and zeroes it, then it publishes the object.  A      *)
(* DOWNLOAD command gives a button another recording and sender and zeroes *)
(* its counter.  Nothing but the queue synchronises the two cores: an      *)
(* increment is a read and a store, a clear is a test, a read and a store, *)
(* each a step here.                                                       *)
(*                                                                         *)
(* AudioTask is reduced to what the counters see of it (Playback.tla has   *)
(* the rest); the WiFi link is up whenever FireBaseTask connects           *)
(* (Connectivity.tla has its losses).                                      *)
(***************************************************************************)
EXTENDS LinkieButtons, Naturals, Sequences, FiniteSets, FiniteSetsExt

CONSTANTS
  Pressed,        \* the colours a person presses and DOWNLOADs are for
  Senders,        \* the people who send recordings
  FirstUuid,      \* sender of each button's recording in the SPIFFS file
  CountMod,       \* the counters are uint8_t: 2^8
  MaxPlays, MaxDownloads, MaxDrops   \* bounds on the environment

NoSender == ""    \* a sender uuid of length 0

ASSUME TelemetryAssumption ==
  /\ Pressed \subseteq Colours
  /\ NoSender \notin Senders
  /\ FirstUuid \in [Colours -> Senders \cup {NoSender}]
  /\ CountMod \in Nat \ {0, 1}
  /\ MaxPlays \in Nat /\ MaxDownloads \in Nat /\ MaxDrops \in Nat

VARIABLES
  count, uuid, count_changed,   \* globals of firebase_mqtt.cpp
  fbTokens,          \* length of xQueueFireBase
  firebase_status,   \* FireBaseTask believes it is connected
  connected,         \* mqttClient->connected()
  imp_music,
  audio, cur, tmp,   \* AudioTask: where it is, counter and value in a register
  pc, caller, i, message,   \* FireBaseTask: where it is, who called
                            \* sendPlayCounts, position and JSON object in it
  plays, reported, lost,    \* history, by sender: plays counted, plays the
                            \* broker was told of, plays dropped: by a failed
                            \* publish, a DOWNLOAD or a counter that wrapped
  raced,             \* history: senders whose counter both cores changed at
                     \* once, whose entry in the message was overwritten, or
                     \* whose counter the red branch mixed up
  played, downloads, drops  \* what the bounds count

audioVars   == <<audio, cur, tmp, imp_music>>
senderVars  == <<pc, caller, i, message>>
linkVars    == <<firebase_status, connected>>
historyVars == <<plays, reported, lost, raced>>
boundVars   == <<played, downloads, drops>>
vars == <<count, uuid, count_changed, fbTokens, linkVars, audioVars,
          senderVars, historyVars, boundVars>>

-----------------------------------------------------------------------------
\* The order in which sendPlayCounts looks at the counters.
Order == <<"blue", "green", "orange", "purple", "red", "yellow">>
Empty == [s \in Senders \cup {NoSender} |-> 0]
QueueExists == pc # "boot"

Init ==
  /\ count = [c \in Colours |-> 0] /\ uuid = FirstUuid /\ count_changed = TRUE
  /\ fbTokens = 0
  /\ firebase_status = FALSE /\ connected = FALSE
  /\ audio = "idle" /\ cur = NoColour /\ tmp = 0 /\ imp_music = FALSE
  /\ pc = "boot" /\ caller = "connect" /\ i = 1 /\ message = Empty
  /\ plays = Empty /\ reported = Empty /\ lost = Empty /\ raced = {}
  /\ played = 0 /\ downloads = 0 /\ drops = 0

(* AudioTask: ExtractFileName and audio_eof_mp3.  A new event may cut a    *)
(* recording short, with or without its end of file.                       *)

CountRead(c) ==
  /\ audio \in {"idle", "playing"} /\ played < MaxPlays
  /\ audio' = "store" /\ cur' = c /\ tmp' = count[c]
  /\ played' = played + 1
  /\ UNCHANGED <<count, uuid, count_changed, fbTokens, linkVars, imp_music,
                 senderVars, historyVars, downloads, drops>>

\* Mutant: the counted recording does not raise imp_music.
CountStoreQuietly(opens) ==
  /\ audio = "store"
  /\ count' = [count EXCEPT ![cur] = (tmp + 1) % CountMod]
  /\ audio' = IF opens THEN "playing" ELSE "idle"
  /\ plays' = [plays EXCEPT ![uuid[cur]] = @ + 1]
  /\ cur' = NoColour /\ tmp' = 0
  /\ UNCHANGED <<uuid, count_changed, fbTokens, linkVars, imp_music, senderVars,
                 reported, lost, raced, boundVars>>

\* opens: does connecttoFS find the recording?
CountStore(opens) ==
  /\ audio = "store"
  /\ count' = [count EXCEPT ![cur] = (tmp + 1) % CountMod]
  /\ imp_music' = TRUE
  /\ audio' = IF opens THEN "playing" ELSE "idle"
  /\ plays' = [plays EXCEPT ![uuid[cur]] = @ + 1]
  /\ raced' = IF pc = "zero" /\ Order[i] = cur THEN raced \cup {uuid[cur]}
              ELSE raced
  /\ lost' = IF tmp + 1 = CountMod
             THEN [lost EXCEPT ![uuid[cur]] = @ + CountMod] ELSE lost
  /\ cur' = NoColour /\ tmp' = 0
  /\ UNCHANGED <<uuid, count_changed, fbTokens, linkVars, senderVars,
                 reported, boundVars>>

\* The call recording (important) and notices (not) have no counter; they too
\* may not open.
PlayUncounted(important) ==
  /\ audio \in {"idle", "playing"} /\ played < MaxPlays
  /\ audio' \in {"playing", "idle"}
  /\ imp_music' = (imp_music \/ important)
  /\ played' = played + 1
  /\ UNCHANGED <<count, uuid, count_changed, fbTokens, linkVars, cur, tmp,
                 senderVars, historyVars, downloads, drops>>

\* Mutant: a token for every important recording, however many wait.
EndOfFileUngated ==
  /\ audio = "playing" /\ audio' = "idle"
  /\ fbTokens' = IF QueueExists /\ imp_music THEN fbTokens + 1 ELSE fbTokens
  /\ imp_music' = FALSE
  /\ UNCHANGED <<count, uuid, count_changed, linkVars, cur, tmp, senderVars,
                 historyVars, boundVars>>

EndOfFile ==
  /\ audio = "playing" /\ audio' = "idle"
  /\ fbTokens' = IF QueueExists /\ imp_music /\ fbTokens = 0
                 THEN 1 ELSE fbTokens
  /\ imp_music' = FALSE
  /\ UNCHANGED <<count, uuid, count_changed, linkVars, cur, tmp, senderVars,
                 historyVars, boundVars>>

AudioTask == (\E opens \in BOOLEAN : CountStore(opens)) \/ EndOfFile

-----------------------------------------------------------------------------
(* FireBaseTask *)

FireBaseInit ==
  /\ pc = "boot" /\ pc' = "loop"
  /\ UNCHANGED <<count, uuid, count_changed, fbTokens, linkVars, audioVars,
                 caller, i, message, historyVars, boundVars>>

Call(from) == pc' = "sum" /\ caller' = from

\* One turn of the inner loop up to mqtt->loop().
Poll ==
  /\ pc = "loop"
  /\ \/ /\ ~firebase_status                     \* ConnectToTopics
        /\ Call("connect")
        /\ UNCHANGED <<fbTokens, firebase_status>>
     \/ /\ firebase_status /\ ~connected        \* break
        /\ firebase_status' = FALSE
        /\ UNCHANGED <<fbTokens, pc, caller>>
     \/ /\ firebase_status /\ connected /\ fbTokens > 0
        /\ fbTokens' = fbTokens - 1
        /\ Call("listen")
        /\ UNCHANGED firebase_status
     \/ /\ firebase_status /\ connected /\ fbTokens = 0
        /\ pc' = "listen"
        /\ UNCHANGED <<fbTokens, firebase_status, caller>>
  /\ UNCHANGED <<count, uuid, count_changed, connected, audioVars, i, message,
                 historyVars, boundVars>>

(* sendPlayCounts *)

\* Mutant: a sum of one is not worth a message.
SumCountsOffByOne ==
  /\ pc = "sum"
  /\ IF SumSet({count[c] : c \in Colours}) > 1
     THEN pc' = "visit" /\ i' = 1 /\ message' = Empty
     ELSE pc' = caller /\ UNCHANGED <<i, message>>
  /\ UNCHANGED <<count, uuid, count_changed, fbTokens, linkVars, audioVars,
                 caller, historyVars, boundVars>>

SumCounts ==
  /\ pc = "sum"
  /\ IF \E c \in Colours : count[c] > 0
     THEN pc' = "visit" /\ i' = 1 /\ message' = Empty
     ELSE pc' = caller /\ UNCHANGED <<i, message>>
  /\ UNCHANGED <<count, uuid, count_changed, fbTokens, linkVars, audioVars,
                 caller, historyVars, boundVars>>

Visit ==
  /\ pc = "visit" /\ i <= Len(Order)
  /\ IF count[Order[i]] > 0 /\ uuid[Order[i]] # NoSender
     THEN pc' = "write" /\ i' = i
     ELSE pc' = pc /\ i' = i + 1
  /\ UNCHANGED <<count, uuid, count_changed, fbTokens, linkVars, audioVars,
                 caller, message, historyVars, boundVars>>

\* What the red branch copies is the purple counter, under the purple sender.
Copied(c) == IF c = "red" THEN "purple" ELSE c

WriteCount ==
  /\ pc = "write" /\ pc' = "zero"
  /\ LET c == Copied(Order[i])
     IN  /\ message' = [message EXCEPT ![uuid[c]] = count[c]]
         /\ raced' = raced
              \cup (IF message[uuid[c]] > 0 THEN {uuid[c]} ELSE {})
              \cup (IF c # Order[i] THEN {uuid[c], uuid[Order[i]]} ELSE {})
  /\ UNCHANGED <<count, uuid, count_changed, fbTokens, linkVars, audioVars,
                 caller, i, plays, reported, lost, boundVars>>

MidIncrement(c) == audio = "store" /\ cur = c

\* Mutant: the counter that was copied is not cleared.
ZeroCountForgets ==
  /\ pc = "zero" /\ pc' = "visit"
  /\ i' = i + 1
  /\ UNCHANGED <<count, uuid, count_changed, fbTokens, linkVars, audioVars,
                 caller, message, historyVars, boundVars>>

ZeroCount ==
  /\ pc = "zero" /\ pc' = "visit"
  /\ LET c == Order[i]
     IN  /\ count' = [count EXCEPT ![c] = 0]
         /\ raced' = IF MidIncrement(c) THEN raced \cup {uuid[c]} ELSE raced
  /\ i' = i + 1
  /\ UNCHANGED <<uuid, count_changed, fbTokens, linkVars, audioVars, caller,
                 message, plays, reported, lost, boundVars>>

\* Mutant: the tokens that came in the meantime are thrown away as served.
PublishServesAll ==
  /\ pc = "visit" /\ i > Len(Order) /\ pc' = caller
  /\ LET add(total) == [s \in DOMAIN total |-> total[s] + message[s]]
     IN  IF connected THEN reported' = add(reported) /\ lost' = lost
                      ELSE lost' = add(lost) /\ reported' = reported
  /\ message' = Empty /\ i' = 1
  /\ count_changed' = FALSE /\ fbTokens' = 0
  /\ UNCHANGED <<count, uuid, linkVars, audioVars, caller, plays, raced,
                 boundVars>>

\* A publish on a client that is not connected fails; nobody looks.
Publish ==
  /\ pc = "visit" /\ i > Len(Order) /\ pc' = caller
  /\ LET add(total) == [s \in DOMAIN total |-> total[s] + message[s]]
     IN  IF connected THEN reported' = add(reported) /\ lost' = lost
                      ELSE lost' = add(lost) /\ reported' = reported
  /\ message' = Empty /\ i' = 1
  /\ count_changed' = FALSE
  /\ UNCHANGED <<count, uuid, fbTokens, linkVars, audioVars, caller, plays,
                 raced, boundVars>>

(* the rest of ConnectToTopics: mqttConnect returns once it is connected *)

MqttConnect ==
  /\ pc = "connect" /\ pc' = "listen"
  /\ connected' = TRUE /\ firebase_status' = TRUE
  /\ UNCHANGED <<count, uuid, count_changed, fbTokens, audioVars, caller, i,
                 message, historyVars, boundVars>>

(* mqtt->loop(): nothing, or messageReceived *)

NoMessage ==
  /\ pc = "listen" /\ pc' = "loop"
  /\ UNCHANGED <<count, uuid, count_changed, fbTokens, linkVars, audioVars,
                 caller, i, message, historyVars, boundVars>>

\* From another messageReceived, too: it calls mqtt->loop() before it looks at
\* count_changed, and goes on when the inner one is done.
MessageReceived ==
  /\ pc = "handle" \/ (pc = "listen" /\ connected)
  /\ downloads < MaxDownloads
  /\ downloads' = downloads + 1
  /\ IF count_changed THEN Call("handle") ELSE pc' = "handle" /\ caller' = caller
  /\ UNCHANGED <<count, uuid, count_changed, fbTokens, linkVars, audioVars, i,
                 message, historyVars, played, drops>>

\* One entry of a DOWNLOAD's buttonArray: a recording of another sender.
Download(c, s) ==
  /\ pc = "handle"
  /\ uuid' = [uuid EXCEPT ![c] = s]
  /\ count' = [count EXCEPT ![c] = 0]
  /\ lost' = [lost EXCEPT ![uuid[c]] = @ + count[c]]
  /\ raced' = IF MidIncrement(c) THEN raced \cup {uuid[c], s} ELSE raced
  /\ UNCHANGED <<count_changed, fbTokens, linkVars, audioVars, senderVars,
                 plays, reported, boundVars>>

\* Any other message, or the end of the array; then mqtt->loop() returns.
HandleDone ==
  /\ pc = "handle" /\ pc' = "loop"
  /\ UNCHANGED <<count, uuid, count_changed, fbTokens, linkVars, audioVars,
                 caller, i, message, historyVars, boundVars>>

FireBaseTask == FireBaseInit \/ Poll \/ SumCounts \/ Visit \/ WriteCount
                \/ ZeroCount \/ Publish \/ MqttConnect \/ NoMessage \/ HandleDone

(* the broker, the network or an expired JWT ends the session *)
Disconnect ==
  /\ connected /\ drops < MaxDrops
  /\ connected' = FALSE
  /\ drops' = drops + 1
  /\ UNCHANGED <<count, uuid, count_changed, fbTokens, firebase_status,
                 audioVars, senderVars, historyVars, played, downloads>>

Next ==
  \/ \E c \in Pressed : CountRead(c)
  \/ \E important \in BOOLEAN : PlayUncounted(important)
  \/ AudioTask
  \/ FireBaseTask
  \/ MessageReceived
  \/ \E c \in Pressed, s \in Senders : Download(c, s)
  \/ Disconnect

Spec == Init /\ [][Next]_vars

(* Both tasks run when they are ready, a recording ends, and the broker is *)
(* there again after a drop.  Presses, messages and drops need not come.   *)
Fairness == WF_vars(AudioTask) /\ WF_vars(FireBaseTask)

FairSpec == Spec /\ Fairness

-----------------------------------------------------------------------------
(* Properties *)

\* Every variable keeps its type; a counter stays a byte, the queue has room.
TypeOK ==
  /\ count \in [Colours -> 0..CountMod-1]
  /\ uuid \in [Colours -> Senders \cup {NoSender}]
  /\ count_changed \in BOOLEAN /\ imp_music \in BOOLEAN
  /\ fbTokens \in 0..1
  /\ firebase_status \in BOOLEAN /\ connected \in BOOLEAN
  /\ audio \in {"idle", "store", "playing"}
  /\ cur \in Colours \cup {NoColour} /\ (audio = "store" => cur \in Colours)
  /\ tmp \in 0..CountMod-1
  /\ pc \in {"boot", "loop", "sum", "visit", "write", "zero", "connect",
             "listen", "handle"}
  /\ caller \in {"connect", "listen", "handle"}
  /\ i \in 1..Len(Order)+1 /\ (pc \in {"write", "zero"} => i <= Len(Order))
  /\ message \in [Senders \cup {NoSender} -> 0..CountMod-1]
  /\ plays \in [Senders \cup {NoSender} -> Nat]
  /\ reported \in [Senders \cup {NoSender} -> Nat]
  /\ lost \in [Senders \cup {NoSender} -> Nat]
  /\ raced \subseteq Senders \cup {NoSender}
  /\ played \in 0..MaxPlays /\ downloads \in 0..MaxDownloads
  /\ drops \in 0..MaxDrops

\* FireBaseTask sends the counters only when it finds a token, and AudioTask
\* adds one only when the queue is empty.  No interleaving may leave a play
\* without a notice: when FireBaseTask polls and no recording is under way,
\* every counter it could report has a token behind it.  (A recording that
\* never opened leaves imp_music up, and its play waits for the next end of
\* file.)
NoLostNotice ==
  pc = "loop" /\ firebase_status /\ audio = "idle" /\ ~imp_music /\ fbTokens = 0
    => \A c \in Colours : count[c] > 0 => uuid[c] = NoSender

(* What AudioTask and FireBaseTask see of each other, see LinkieAudio. *)

AudioContract == INSTANCE LinkieAudio WITH
  Counters <- Colours,
  ready    <- QueueExists,
  tokens   <- fbTokens,
  pending  <- {c \in Colours : count[c] > 0},
  audio    <- IF audio = "playing" THEN "playing" ELSE "idle"

\* FireBaseTask does nothing to the counters, the tokens and imp_music that
\* Playback does not allow it to, and the AudioTask it faces here is the one
\* Playback has, though an increment takes two steps and a clear three.
KeepsAudioContract == AudioContract!Spec

\* What colour c's counter holds for sender s, unless it is already copied into
\* the message, and the sum over all counters.
Kept(s, c) == IF uuid[c] = s /\ ~(pc = "zero" /\ Order[i] = c)
              THEN count[c] ELSE 0

Counted(s) == Kept(s, "blue") + Kept(s, "green") + Kept(s, "orange")
              + Kept(s, "purple") + Kept(s, "red") + Kept(s, "yellow")

\* Bookkeeping: a play is in a counter, in the message being built, reported,
\* or dropped - by a failed publish, a DOWNLOAD, or CountMod at a time by a
\* byte that wrapped - and in one place only, unless both cores changed its
\* counter at once, the sender of two buttons had an entry overwritten, or the
\* red branch reported the purple counter and zeroed the red one.
\* Nothing is counted twice and nothing vanishes on the way through
\* sendPlayCounts.
Conservation ==
  \A s \in Senders \ raced :
    plays[s] = Counted(s) + message[s] + reported[s] + lost[s]

\* Every play of a button that has a sender is cleared in the end, by a
\* report, a failed one or a DOWNLOAD; only a recording that never opened
\* keeps one waiting.
CountsDrain ==
  <>[](imp_music \/ \A c \in Colours : count[c] > 0 => uuid[c] = NoSender)

\* psuedoCode.txt: "count number of times pressed and send in MQTT message".
\* A counter about to be zeroed is in the message.
ClearedIsReported == pc = "zero" => message[uuid[Order[i]]] > 0

=============================================================================
