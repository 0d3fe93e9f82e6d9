-------------------------- MODULE TelemetryProofs --------------------------
(***************************************************************************)
(* Theorems about Telemetry, for any buttons, senders and numbers of       *)
(* plays, messages and drops.                                              *)
(***************************************************************************)
EXTENDS Telemetry, TLAPS

-----------------------------------------------------------------------------
\* sendPlayCounts looks at every counter, and at nothing else.
LEMMA OrderCovers ==
  /\ Len(Order) = 6
  /\ \A j \in 1..6 : Order[j] \in Colours
  /\ \A c \in Colours : \E j \in 1..6 : Order[j] = c
<1>1. Len(Order) = 6
  BY DEF Order
<1>2. \A j \in 1..6 : Order[j] \in Colours
  BY DEF Order, Colours
<1>3. \A c \in Colours : \E j \in 1..6 : Order[j] = c
  <2>1. /\ Order[1] = "blue" /\ Order[2] = "green" /\ Order[3] = "orange"
        /\ Order[4] = "purple" /\ Order[5] = "red" /\ Order[6] = "yellow"
    BY DEF Order
  <2>2. 1 \in 1..6 /\ 2 \in 1..6 /\ 3 \in 1..6 /\ 4 \in 1..6 /\ 5 \in 1..6 /\ 6 \in 1..6
    OBVIOUS
  <2> QED
    BY <2>1, <2>2 DEF Colours
<1> QED
  BY <1>1, <1>2, <1>3

LEMMA NoColourIsNone == NoColour \notin Colours
BY DEF NoColour, Colours


-----------------------------------------------------------------------------
(* Type correctness *)

LEMMA TypeInit == Init => TypeOK
<1> SUFFICES ASSUME Init PROVE TypeOK
  OBVIOUS
<1> USE TelemetryAssumption DEF Init
<1>1. Empty \in [Senders \cup {NoSender} -> 0..CountMod-1]
      /\ Empty \in [Senders \cup {NoSender} -> Nat]
  BY DEF Empty
<1>2. i \in 1..Len(Order)+1
  BY OrderCovers
<1>3. count \in [Colours -> 0..CountMod-1] /\ tmp \in 0..CountMod-1
  OBVIOUS
<1>4. played \in 0..MaxPlays /\ downloads \in 0..MaxDownloads /\ drops \in 0..MaxDrops
  OBVIOUS
<1>5. /\ cur \in Colours \cup {NoColour} /\ (audio = "store" => cur \in Colours)
      /\ uuid \in [Colours -> Senders \cup {NoSender}]
      /\ raced \subseteq Senders \cup {NoSender}
  OBVIOUS
<1>6. /\ message \in [Senders \cup {NoSender} -> 0..CountMod-1]
      /\ plays \in [Senders \cup {NoSender} -> Nat]
      /\ reported \in [Senders \cup {NoSender} -> Nat]
      /\ lost \in [Senders \cup {NoSender} -> Nat]
  BY <1>1
<1>7. /\ count_changed \in BOOLEAN /\ imp_music \in BOOLEAN
      /\ firebase_status \in BOOLEAN /\ connected \in BOOLEAN
      /\ audio \in {"idle", "store", "playing"}
  OBVIOUS
<1>8. /\ fbTokens \in 0..1 /\ pc = "boot" /\ caller = "connect"
  OBVIOUS
<1> QED
  BY <1>2, <1>3, <1>4, <1>5, <1>6, <1>7, <1>8 DEF TypeOK

LEMMA TypeNext == TypeOK /\ [Next]_vars => TypeOK'
<1> SUFFICES ASSUME TypeOK, [Next]_vars PROVE TypeOK'
  OBVIOUS
<1> USE TelemetryAssumption, OrderCovers, NoColourIsNone
<1> USE DEF TypeOK, audioVars, senderVars, linkVars, historyVars, boundVars
<1>1. ASSUME NEW c \in Pressed, CountRead(c) PROVE TypeOK'
  BY <1>1 DEF CountRead
<1>2. ASSUME NEW important \in BOOLEAN, PlayUncounted(important) PROVE TypeOK'
  BY <1>2 DEF PlayUncounted
<1>3. ASSUME NEW opens \in BOOLEAN, CountStore(opens) PROVE TypeOK'
  <2>1. (tmp + 1) % CountMod \in 0..CountMod-1
    OBVIOUS
  <2>2. cur \in Colours
    BY <1>3 DEF CountStore
  <2>3. count' \in [Colours -> 0..CountMod-1]
    BY <1>3, <2>1, <2>2 DEF CountStore
  <2>4. plays' \in [Senders \cup {NoSender} -> Nat]
    BY <1>3, <2>2 DEF CountStore
  <2>5. raced' \subseteq Senders \cup {NoSender}
    BY <1>3, <2>2 DEF CountStore
  <2>6. /\ cur' = NoColour /\ tmp' = 0 /\ imp_music' = TRUE
        /\ audio' \in {"playing", "idle"}
        /\ UNCHANGED <<uuid, count_changed, fbTokens, linkVars, senderVars,
                       reported, boundVars>>
    BY <1>3 DEF CountStore
  <2> QED
    BY <1>3, <2>2, <2>3, <2>4, <2>5, <2>6 DEF CountStore
<1>4. CASE EndOfFile
  <2>1. fbTokens' \in 0..1
    BY <1>4 DEF EndOfFile
  <2> QED
    BY <1>4, <2>1 DEF EndOfFile
<1>5. CASE FireBaseInit
  BY <1>5 DEF FireBaseInit
<1>6. CASE Poll
  <2>1. fbTokens' \in 0..1
    BY <1>6 DEF Poll
  <2>2. firebase_status' \in BOOLEAN
    BY <1>6 DEF Poll
  <2>3. /\ pc' \in {"loop", "sum", "listen"}
        /\ caller' \in {"connect", "listen", "handle"}
    BY <1>6 DEF Poll, Call
  <2> QED
    BY <1>6, <2>1, <2>2, <2>3 DEF Poll
<1>7. CASE SumCounts
  <2>1. Empty \in [Senders \cup {NoSender} -> 0..CountMod-1]
    BY DEF Empty
  <2> QED
    BY <1>7, <2>1 DEF SumCounts
<1>8. CASE Visit
  BY <1>8 DEF Visit
<1>9. CASE WriteCount
  <2>1. Copied(Order[i]) \in Colours
    BY <1>9 DEF WriteCount, Copied, Colours
  <2>2. message' \in [Senders \cup {NoSender} -> 0..CountMod-1]
    BY <1>9, <2>1 DEF WriteCount
  <2>3. raced' \subseteq Senders \cup {NoSender}
    BY <1>9, <2>1 DEF WriteCount
  <2> QED
    BY <1>9, <2>2, <2>3 DEF WriteCount
<1>10. CASE ZeroCount
  <2>1. Order[i] \in Colours /\ i \in 1..6
    BY <1>10 DEF ZeroCount
  <2>2. count' \in [Colours -> 0..CountMod-1]
    BY <1>10, <2>1 DEF ZeroCount
  <2>3. raced' \subseteq Senders \cup {NoSender}
    BY <1>10, <2>1 DEF ZeroCount
  <2> QED
    BY <1>10, <2>1, <2>2, <2>3 DEF ZeroCount
<1>11. CASE Publish
  <2>1. Empty \in [Senders \cup {NoSender} -> 0..CountMod-1]
    BY DEF Empty
  <2>2. reported' \in [Senders \cup {NoSender} -> Nat]
        /\ lost' \in [Senders \cup {NoSender} -> Nat]
    BY <1>11 DEF Publish
  <2>3. i' \in 1..Len(Order)+1 /\ pc' \in {"connect", "listen", "handle"}
    BY <1>11 DEF Publish
  <2> QED
    BY <1>11, <2>1, <2>2, <2>3 DEF Publish
<1>12. CASE MqttConnect
  BY <1>12 DEF MqttConnect
<1>13. CASE NoMessage
  BY <1>13 DEF NoMessage
<1>14. CASE MessageReceived
  BY <1>14 DEF MessageReceived, Call
<1>15. ASSUME NEW c \in Pressed, NEW s \in Senders, Download(c, s) PROVE TypeOK'
  <2>1. c \in Colours
    OBVIOUS
  <2>2. lost' \in [Senders \cup {NoSender} -> Nat]
    BY <1>15, <2>1 DEF Download
  <2> QED
    BY <1>15, <2>1, <2>2 DEF Download
<1>16. CASE HandleDone
  BY <1>16 DEF HandleDone
<1>17. CASE Disconnect
  <2>1. drops' \in 0..MaxDrops
    BY <1>17 DEF Disconnect
  <2>2. connected' \in BOOLEAN
    BY <1>17 DEF Disconnect
  <2>3. UNCHANGED <<count, uuid, count_changed, fbTokens, firebase_status,
                    audioVars, senderVars, historyVars, played, downloads>>
    BY <1>17 DEF Disconnect
  <2> QED
    BY <2>1, <2>2, <2>3
<1>18. CASE UNCHANGED vars
  BY <1>18 DEF vars
<1> QED
  BY <1>1, <1>2, <1>3, <1>4, <1>5, <1>6, <1>7, <1>8, <1>9, <1>10, <1>11, <1>12,
     <1>13, <1>14, <1>15, <1>16, <1>17, <1>18
     DEF Next, AudioTask, FireBaseTask

\* Every reachable state of Telemetry has its type; a counter stays a byte.
THEOREM TypeCorrect == Spec => []TypeOK
BY TypeInit, TypeNext, PTL DEF Spec

-----------------------------------------------------------------------------
(* No play without a notice *)

\* A counter FireBaseTask could report.
Owed(c) == count[c] > 0 /\ uuid[c] # NoSender

\* FireBaseTask is on its way to that counter.
WillVisit(c) ==
  \/ pc \in {"boot", "sum"}
  \/ pc = "loop" /\ ~firebase_status
  \/ pc \in {"visit", "write", "zero"} /\ \E j \in i..6 : Order[j] = c

\* An owed counter has a token behind it, or will have at the end of the
\* recording, or is about to be looked at.  Taking the token before reading the
\* counters, and storing the count before the token, is what keeps this so.
NoticeInv ==
  /\ pc = "boot" => ~firebase_status
  /\ \A c \in Colours :
       Owed(c) => imp_music \/ audio = "store" \/ fbTokens > 0 \/ WillVisit(c)

LEMMA NoticeNext == TypeOK /\ NoticeInv /\ [Next]_vars => NoticeInv'
<1> SUFFICES ASSUME TypeOK, NoticeInv, [Next]_vars PROVE NoticeInv'
  OBVIOUS
<1> USE TelemetryAssumption, OrderCovers
<1> USE DEF NoticeInv, Owed, WillVisit, audioVars, senderVars, linkVars,
            historyVars, boundVars
<1>1. ASSUME NEW c \in Pressed, CountRead(c) PROVE NoticeInv'
  BY <1>1 DEF CountRead
<1>2. ASSUME NEW important \in BOOLEAN, PlayUncounted(important) PROVE NoticeInv'
  BY <1>2 DEF PlayUncounted
<1>3. ASSUME NEW opens \in BOOLEAN, CountStore(opens) PROVE NoticeInv'
  BY <1>3 DEF CountStore
<1>4. CASE EndOfFile
  <2>1. imp_music => fbTokens' > 0 \/ pc = "boot"
    BY <1>4 DEF EndOfFile, QueueExists, TypeOK
  <2>2. ~imp_music => fbTokens' = fbTokens
    BY <1>4 DEF EndOfFile
  <2> QED
    BY <1>4, <2>1, <2>2 DEF EndOfFile
<1>5. CASE FireBaseInit
  BY <1>5 DEF FireBaseInit
<1>6. CASE Poll
  BY <1>6 DEF Poll, Call, TypeOK
<1>7. CASE SumCounts
  <2>1. CASE \E c \in Colours : count[c] > 0
    BY <1>7, <2>1 DEF SumCounts
  <2>2. CASE ~ \E c \in Colours : count[c] > 0
    BY <1>7, <2>2 DEF SumCounts, TypeOK
  <2> QED
    BY <2>1, <2>2
<1>8. CASE Visit
  <2>1. CASE Owed(Order[i])
    BY <1>8, <2>1 DEF Visit
  <2>2. CASE ~Owed(Order[i])
    <3>1. pc' = "visit" /\ i' = i + 1 /\ i \in 1..6
      BY <1>8, <2>2 DEF Visit, TypeOK
    <3>2. \A c \in Colours : Owed(c) /\ WillVisit(c) => WillVisit(c)'
      BY <1>8, <2>2, <3>1 DEF Visit
    <3> QED
      BY <1>8, <3>1, <3>2 DEF Visit
  <2> QED
    BY <2>1, <2>2
<1>9. CASE WriteCount
  BY <1>9 DEF WriteCount
<1>10. CASE ZeroCount
  <2>1. i \in 1..6 /\ i' = i + 1 /\ pc' = "visit" /\ pc = "zero"
    BY <1>10 DEF ZeroCount, TypeOK
  <2>2. count'[Order[i]] = 0 /\ \A c \in Colours : c # Order[i] => count'[c] = count[c]
    BY <1>10, <2>1 DEF ZeroCount, TypeOK
  <2>3. \A c \in Colours : Owed(c)' => Owed(c) /\ c # Order[i]
    BY <1>10, <2>2 DEF ZeroCount
  <2>4. \A c \in Colours : c # Order[i] /\ WillVisit(c) => WillVisit(c)'
    BY <2>1
  <2> QED
    BY <1>10, <2>1, <2>3, <2>4 DEF ZeroCount
<1>11. CASE Publish
  BY <1>11 DEF Publish, TypeOK
<1>12. CASE MqttConnect
  BY <1>12 DEF MqttConnect
<1>13. CASE NoMessage
  BY <1>13 DEF NoMessage
<1>14. CASE MessageReceived
  BY <1>14 DEF MessageReceived, Call
<1>15. ASSUME NEW d \in Pressed, NEW s \in Senders, Download(d, s) PROVE NoticeInv'
  <2>1. \A c \in Colours : Owed(c)' => Owed(c)
    BY <1>15 DEF Download, TypeOK
  <2> QED
    BY <1>15, <2>1 DEF Download
<1>16. CASE HandleDone
  BY <1>16 DEF HandleDone
<1>17. CASE Disconnect
  BY <1>17 DEF Disconnect
<1>18. CASE UNCHANGED vars
  BY <1>18 DEF vars
<1> QED
  BY <1>1, <1>2, <1>3, <1>4, <1>5, <1>6, <1>7, <1>8, <1>9, <1>10, <1>11, <1>12,
     <1>13, <1>14, <1>15, <1>16, <1>17, <1>18
     DEF Next, AudioTask, FireBaseTask

\* However the two cores interleave, and however often the session drops, no
\* finished play is left in a counter without a token that makes FireBaseTask
\* look at it.
THEOREM NoNoticeIsLost == Spec => []NoLostNotice
<1>1. Init => NoticeInv
  BY DEF Init, NoticeInv, WillVisit
<1>2. TypeOK /\ NoticeInv => NoLostNotice
  BY DEF TypeOK, NoticeInv, NoLostNotice, Owed, WillVisit
<1> QED
  BY <1>1, <1>2, TypeCorrect, NoticeNext, PTL DEF Spec

-----------------------------------------------------------------------------
(* Every play is in one place *)

\* When one counter at most changes hands, the sum changes by that one.
LEMMA OneCounterMoves ==
  ASSUME TypeOK, TypeOK', NEW s, NEW c \in Colours,
         \A d \in Colours \ {c} : Kept(s, d)' = Kept(s, d)
  PROVE  /\ Counted(s) \in Nat /\ Counted(s)' \in Nat
         /\ Kept(s, c) \in Nat /\ Kept(s, c)' \in Nat
         /\ Counted(s)' + Kept(s, c) = Counted(s) + Kept(s, c)'
<1>1. \A d \in Colours : Kept(s, d) \in Nat /\ Kept(s, d)' \in Nat
  BY TelemetryAssumption DEF TypeOK, Kept
<1>2. Colours = {"blue", "green", "orange", "red", "purple", "yellow"}
  BY DEF Colours
<1>3. \A d \in Colours : d # c => Kept(s, d)' = Kept(s, d)
  OBVIOUS
<1> HIDE DEF Kept
<1>4. CASE c = "blue"
  BY <1>1, <1>2, <1>3, <1>4 DEF Counted
<1>5. CASE c = "green"
  BY <1>1, <1>2, <1>3, <1>5 DEF Counted
<1>6. CASE c = "orange"
  BY <1>1, <1>2, <1>3, <1>6 DEF Counted
<1>7. CASE c = "purple"
  BY <1>1, <1>2, <1>3, <1>7 DEF Counted
<1>8. CASE c = "red"
  BY <1>1, <1>2, <1>3, <1>8 DEF Counted
<1>9. CASE c = "yellow"
  BY <1>1, <1>2, <1>3, <1>9 DEF Counted
<1> QED
  BY <1>2, <1>4, <1>5, <1>6, <1>7, <1>8, <1>9

\* A step that changes no counter, no sender and no copied entry.
LEMMA NoCounterMoves ==
  ASSUME UNCHANGED <<count, uuid>>,
         UNCHANGED <<pc, i>> \/ (pc # "zero" /\ pc' # "zero")
  PROVE  \A s : Counted(s)' = Counted(s)
BY DEF Counted, Kept

\* The books are kept in natural numbers.
LEMMA BooksAreNumbers ==
  ASSUME TypeOK, NEW s \in Senders
  PROVE  plays[s] \in Nat /\ message[s] \in Nat /\ reported[s] \in Nat
         /\ lost[s] \in Nat /\ \A c \in Colours : count[c] \in Nat
BY TelemetryAssumption DEF TypeOK

\* What makes Conservation inductive: the value AudioTask holds in a register
\* is still that of the counter unless FireBaseTask raced with it, and the
\* message is empty except while sendPlayCounts fills it.
BookInv ==
  /\ Conservation
  /\ audio = "store" => tmp = count[cur] \/ uuid[cur] \in raced
  /\ pc \notin {"visit", "write", "zero"} => message = Empty

LEMMA BookInit == Init => BookInv
<1> SUFFICES ASSUME Init PROVE BookInv
  OBVIOUS
<1>1. \A s : Counted(s) = 0
  BY DEF Init, Counted, Kept, Colours
<1> QED
  BY <1>1 DEF Init, BookInv, Conservation, Empty

\* The increment: one more play, and a counter one higher or wrapped.
LEMMA BookStore ==
  ASSUME TypeOK, TypeOK', BookInv, NEW opens \in BOOLEAN, CountStore(opens)
  PROVE  BookInv'
<1> USE TelemetryAssumption
<1>0. PICK d \in Colours : d = cur
  BY DEF CountStore, TypeOK
<1>1. /\ uuid' = uuid /\ pc' = pc /\ i' = i
      /\ message' = message /\ reported' = reported /\ audio' # "store"
      /\ raced \subseteq raced'
      /\ tmp \in 0..CountMod-1 /\ count[d] \in 0..CountMod-1
      /\ count' = [count EXCEPT ![d] = (tmp + 1) % CountMod]
  BY <1>0 DEF CountStore, TypeOK, senderVars
<1>2. ASSUME NEW s \in Senders \ raced'
      PROVE  plays'[s] = Counted(s)' + message'[s] + reported'[s] + lost'[s]
  <2>0. plays[s] \in Nat /\ message[s] \in Nat /\ reported[s] \in Nat /\ lost[s] \in Nat
    BY BooksAreNumbers
  <2>1. plays[s] = Counted(s) + message[s] + reported[s] + lost[s]
    BY <1>1, <1>2 DEF BookInv, Conservation
  <2>2. \A c \in Colours \ {d} : Kept(s, c)' = Kept(s, c)
    BY <1>1 DEF Kept, TypeOK
  <2>3. /\ Counted(s) \in Nat /\ Counted(s)' \in Nat
        /\ Counted(s)' + Kept(s, d) = Counted(s) + Kept(s, d)'
    BY <2>2, OneCounterMoves
  <2>4. CASE uuid[d] # s
    <3>1. plays'[s] = plays[s] /\ lost'[s] = lost[s]
      BY <1>0, <2>4 DEF CountStore, TypeOK
    <3>2. Kept(s, d) = 0 /\ Kept(s, d)' = 0
      BY <1>1, <2>4 DEF Kept
    <3> QED
      BY <1>1, <2>1, <2>3, <3>1, <3>2
  <2>5. CASE uuid[d] = s
    <3>1. ~(pc = "zero" /\ Order[i] = d) /\ tmp = count[d]
      BY <1>0, <1>1, <2>5 DEF CountStore, BookInv
    <3>2. Kept(s, d) = tmp
      BY <1>1, <2>5, <3>1 DEF Kept
    <3>3. Kept(s, d)' = (tmp + 1) % CountMod
      BY <1>1, <2>5, <3>1 DEF Kept, TypeOK
    <3>4. plays'[s] = plays[s] + 1
      BY <1>0, <2>5 DEF CountStore, TypeOK
    <3>5. CASE tmp + 1 = CountMod
      <4>1. CountMod % CountMod = 0
        OBVIOUS
      <4>2. lost'[s] = lost[s] + CountMod
        BY <1>0, <2>5, <3>5 DEF CountStore, TypeOK
      <4> QED
        BY <1>1, <2>0, <2>1, <2>3, <3>2, <3>3, <3>4, <3>5, <4>1, <4>2
    <3>6. CASE tmp + 1 # CountMod
      <4>1. (tmp + 1) % CountMod = tmp + 1
        BY <1>1, <3>6
      <4>2. lost'[s] = lost[s]
        BY <3>6 DEF CountStore
      <4>3. Counted(s)' = Counted(s) + 1
        BY <1>1, <2>3, <3>2, <3>3, <4>1
      <4> QED
        BY <1>1, <2>0, <2>1, <2>3, <3>4, <4>2, <4>3
    <3> QED
      BY <3>5, <3>6
  <2> QED
    BY <2>4, <2>5
<1> QED
  BY <1>1, <1>2 DEF BookInv, Conservation

\* The copy: what the counter held is in the message, unless another entry
\* was there or the branch copied the wrong counter.
LEMMA BookWrite ==
  ASSUME TypeOK, TypeOK', BookInv, WriteCount
  PROVE  BookInv'
<1> DEFINE d == Order[i]
<1> USE TelemetryAssumption
<1>1. /\ i \in 1..6 /\ d \in Colours /\ Copied(d) \in Colours
      /\ pc = "write" /\ pc' = "zero" /\ raced \subseteq raced'
      /\ UNCHANGED <<count, uuid, i, plays, reported, lost, audio, tmp, cur>>
  <2>1. i \in 1..6
    <3>1. i \in 1..Len(Order)+1 /\ i <= Len(Order)
      BY DEF WriteCount, TypeOK
    <3> QED
      BY <3>1, OrderCovers
  <2>2. d \in Colours /\ Copied(d) \in Colours
    BY <2>1, OrderCovers DEF Copied, Colours
  <2>3. /\ pc = "write" /\ pc' = "zero" /\ raced \subseteq raced'
        /\ UNCHANGED <<count, uuid, i, plays, reported, lost, audio, tmp, cur>>
    BY DEF WriteCount, audioVars
  <2> QED
    BY <2>1, <2>2, <2>3
<1>2. ASSUME NEW s \in Senders \ raced'
      PROVE  plays'[s] = Counted(s)' + message'[s] + reported'[s] + lost'[s]
  <2>1. plays[s] = Counted(s) + message[s] + reported[s] + lost[s]
    BY <1>1, <1>2 DEF BookInv, Conservation
  <2>2. \A c \in Colours \ {d} : Kept(s, c)' = Kept(s, c)
    BY <1>1 DEF Kept
  <2>3. /\ Counted(s) \in Nat /\ Counted(s)' \in Nat
        /\ Counted(s)' + Kept(s, d) = Counted(s) + Kept(s, d)'
    BY <1>1, <2>2, OneCounterMoves
  <2>4. Kept(s, d)' = 0
    BY <1>1 DEF Kept
  <2>5. CASE uuid[d] # s
    <3>1. Kept(s, d) = 0
      BY <2>5 DEF Kept
    <3>2. message'[s] = message[s]
      <4>1. CASE Copied(d) = d
        BY <2>5, <4>1 DEF WriteCount, TypeOK
      <4>2. CASE Copied(d) # d
        <5>1. uuid[Copied(d)] \in raced'
          BY <4>2 DEF WriteCount
        <5> QED
          BY <5>1 DEF WriteCount, TypeOK
      <4> QED
        BY <4>1, <4>2
    <3> QED
      BY <1>1, <2>1, <2>3, <2>4, <3>1, <3>2 DEF TypeOK
  <2>6. CASE uuid[d] = s
    <3>1. Copied(d) = d
      BY <2>6 DEF WriteCount
    <3>2. message[s] = 0
      <4>1. ~(message[uuid[d]] > 0)
        BY <2>6, <3>1 DEF WriteCount
      <4>2. message[s] \in Nat
        BY DEF TypeOK
      <4> QED
        BY <2>6, <4>1, <4>2
    <3>3. message'[s] = count[d]
      <4>1. message'[uuid[Copied(d)]] = count[Copied(d)]
        <5>1. uuid[Copied(d)] \in DOMAIN message
          BY <1>1 DEF TypeOK
        <5>2. message' = [message EXCEPT ![uuid[Copied(d)]] = count[Copied(d)]]
          BY DEF WriteCount
        <5> QED
          BY <5>1, <5>2
      <4> QED
        BY <2>6, <3>1, <4>1
    <3>4. Kept(s, d) = count[d]
      BY <1>1, <2>6 DEF Kept
    <3> QED
      BY <1>1, <2>1, <2>3, <2>4, <3>2, <3>3, <3>4 DEF TypeOK
  <2> QED
    BY <2>5, <2>6
<1> QED
  BY <1>1, <1>2 DEF BookInv, Conservation

\* The clear: the counter is in the message already, so nothing moves.
LEMMA BookZero ==
  ASSUME TypeOK, TypeOK', BookInv, ZeroCount
  PROVE  BookInv'
<1>0. PICK d \in Colours : d = Order[i]
  BY OrderCovers DEF ZeroCount, TypeOK
<1>1. /\ pc = "zero" /\ pc' = "visit"
      /\ count' = [count EXCEPT ![d] = 0]
      /\ raced' = IF MidIncrement(d) THEN raced \cup {uuid[d]} ELSE raced
      /\ UNCHANGED <<uuid, plays, reported, lost, message, audio, tmp, cur>>
  BY <1>0 DEF ZeroCount, audioVars
<1>2. ASSUME NEW s \in Senders \ raced'
      PROVE  plays'[s] = Counted(s)' + message'[s] + reported'[s] + lost'[s]
  <2>1. plays[s] = Counted(s) + message[s] + reported[s] + lost[s]
    BY <1>1, <1>2 DEF BookInv, Conservation
  <2>2. \A c \in Colours \ {d} : Kept(s, c)' = Kept(s, c)
    BY <1>0, <1>1 DEF Kept, TypeOK
  <2>3. Kept(s, d) = 0 /\ Kept(s, d)' = 0
    BY <1>0, <1>1 DEF Kept, TypeOK
  <2>4. Counted(s)' = Counted(s)
    BY <1>1, <2>2, <2>3, OneCounterMoves
  <2> QED
    BY <1>1, <2>1, <2>4
<1>3. audio' = "store" => tmp' = count'[cur'] \/ uuid'[cur'] \in raced'
  BY <1>1 DEF BookInv, MidIncrement, TypeOK
<1> QED
  BY <1>1, <1>2, <1>3 DEF BookInv, Conservation

\* The publish: the message is reported or lost, entry by entry.
LEMMA BookPublish ==
  ASSUME TypeOK, TypeOK', BookInv, Publish
  PROVE  BookInv'
<1> USE TelemetryAssumption
<1>1. /\ pc = "visit" /\ pc' # "zero" /\ message' = Empty
      /\ UNCHANGED <<count, uuid, plays, raced, audio, tmp, cur>>
  BY DEF Publish, TypeOK, audioVars
<1>2. \A s : Counted(s)' = Counted(s)
  BY <1>1, NoCounterMoves
<1>3. ASSUME NEW s \in Senders \ raced
      PROVE  plays'[s] = Counted(s)' + message'[s] + reported'[s] + lost'[s]
  <2>0. plays[s] \in Nat /\ message[s] \in Nat /\ reported[s] \in Nat /\ lost[s] \in Nat
    BY BooksAreNumbers
  <2>1. plays[s] = Counted(s) + message[s] + reported[s] + lost[s]
    BY DEF BookInv, Conservation
  <2>2. message'[s] = 0
    BY <1>1 DEF Empty
  <2>3. \/ reported'[s] = reported[s] + message[s] /\ lost'[s] = lost[s]
        \/ reported'[s] = reported[s] /\ lost'[s] = lost[s] + message[s]
    BY DEF Publish, TypeOK
  <2>4. \A c \in Colours : Kept(s, c) \in Nat
    BY DEF Kept, TypeOK
  <2>5. Counted(s) \in Nat
    BY <2>4 DEF Counted, Colours
  <2> QED
    BY <1>1, <1>2, <2>1, <2>2, <2>3, <2>5, <2>0
<1> QED
  BY <1>1, <1>3 DEF BookInv, Conservation

\* The DOWNLOAD: what the button's counter held is lost.
LEMMA BookDownload ==
  ASSUME TypeOK, TypeOK', BookInv, NEW c \in Colours, NEW t \in Senders,
         Download(c, t)
  PROVE  BookInv'
<1> USE TelemetryAssumption
<1>1. /\ pc = "handle" /\ UNCHANGED <<pc, i, plays, reported, message, audio, tmp, cur>>
      /\ uuid' = [uuid EXCEPT ![c] = t] /\ count' = [count EXCEPT ![c] = 0]
      /\ lost' = [lost EXCEPT ![uuid[c]] = @ + count[c]]
      /\ raced' = IF MidIncrement(c) THEN raced \cup {uuid[c], t} ELSE raced
  BY DEF Download, senderVars, audioVars
<1>2. ASSUME NEW s \in Senders \ raced'
      PROVE  plays'[s] = Counted(s)' + message'[s] + reported'[s] + lost'[s]
  <2>0. plays[s] \in Nat /\ message[s] \in Nat /\ reported[s] \in Nat
        /\ lost[s] \in Nat /\ count[c] \in Nat /\ uuid[c] \in Senders \cup {NoSender}
    BY BooksAreNumbers DEF TypeOK
  <2>1. plays[s] = Counted(s) + message[s] + reported[s] + lost[s]
    BY <1>1, <1>2 DEF BookInv, Conservation
  <2>2. \A d \in Colours \ {c} : Kept(s, d)' = Kept(s, d)
    BY <1>1 DEF Kept, TypeOK
  <2>3. /\ Counted(s) \in Nat /\ Counted(s)' \in Nat /\ Kept(s, c) \in Nat
        /\ Counted(s)' + Kept(s, c) = Counted(s) + Kept(s, c)'
    BY <2>2, OneCounterMoves
  <2>4. Kept(s, c)' = 0
    BY <1>1 DEF Kept, TypeOK
  <2>5. lost'[s] = lost[s] + Kept(s, c)
    <3>1. CASE uuid[c] = s
      BY <1>1, <3>1 DEF Kept, TypeOK
    <3>2. CASE uuid[c] # s
      BY <1>1, <2>0, <3>2 DEF Kept, TypeOK
    <3> QED
      BY <3>1, <3>2
  <2> QED
    BY <1>1, <2>1, <2>3, <2>4, <2>5, <2>0
<1>3. audio' = "store" => tmp' = count'[cur'] \/ uuid'[cur'] \in raced'
  BY <1>1 DEF BookInv, MidIncrement, TypeOK
<1> QED
  BY <1>1, <1>2, <1>3 DEF BookInv, Conservation

LEMMA BookNext == TypeOK /\ TypeOK' /\ BookInv /\ [Next]_vars => BookInv'
<1> SUFFICES ASSUME TypeOK, TypeOK', BookInv, [Next]_vars PROVE BookInv'
  OBVIOUS
<1> USE DEF audioVars, senderVars, linkVars, historyVars, boundVars
<1>1. ASSUME NEW c \in Pressed, CountRead(c) PROVE BookInv'
  BY <1>1, NoCounterMoves DEF CountRead, BookInv, Conservation
<1>2. ASSUME NEW opens \in BOOLEAN, CountStore(opens) PROVE BookInv'
  BY <1>2, BookStore
<1>3. CASE \/ \E important \in BOOLEAN : PlayUncounted(important)
           \/ EndOfFile \/ Disconnect \/ UNCHANGED vars
  <2>1. /\ UNCHANGED <<count, uuid, pc, i, message, historyVars, tmp, cur>>
        /\ audio' = "store" => audio = "store"
    BY <1>3 DEF PlayUncounted, EndOfFile, Disconnect, vars
  <2> QED
    BY <2>1, NoCounterMoves DEF BookInv, Conservation
<1>4. CASE \/ FireBaseInit \/ Poll \/ SumCounts \/ Visit \/ MqttConnect
           \/ NoMessage \/ HandleDone \/ MessageReceived
  <2>1. UNCHANGED <<count, uuid, historyVars, audio, tmp, cur>>
    BY <1>4 DEF FireBaseInit, Poll, SumCounts, Visit, MqttConnect, NoMessage,
                HandleDone, MessageReceived
  <2>2. pc # "zero" /\ pc' # "zero"
    BY <1>4 DEF FireBaseInit, Poll, SumCounts, Visit, MqttConnect, NoMessage,
                HandleDone, MessageReceived, Call, TypeOK
  <2>3. /\ message' = message
        /\ pc' \notin {"visit", "write", "zero"} => message' = Empty
    BY <1>4 DEF FireBaseInit, Poll, SumCounts, Visit, MqttConnect, NoMessage,
                HandleDone, MessageReceived, Call, TypeOK, BookInv
  <2> QED
    BY <2>1, <2>2, <2>3, NoCounterMoves DEF BookInv, Conservation
<1>5. CASE WriteCount
  BY <1>5, BookWrite
<1>6. CASE ZeroCount
  BY <1>6, BookZero
<1>7. CASE Publish
  BY <1>7, BookPublish
<1>8. ASSUME NEW c \in Pressed, NEW s \in Senders, Download(c, s) PROVE BookInv'
  BY <1>8, BookDownload, TelemetryAssumption
<1> QED
  BY <1>1, <1>2, <1>3, <1>4, <1>5, <1>6, <1>7, <1>8
     DEF Next, AudioTask, FireBaseTask

\* For any buttons, senders, counter width and number of plays, DOWNLOADs and
\* drops: every play of a sender is in one place, unless both cores changed
\* its counter at once, an entry was overwritten or the red branch mixed it up.
THEOREM PlaysAreConserved == Spec => []Conservation
<1>1. BookInv => Conservation
  BY DEF BookInv
<1> QED
  BY <1>1, BookInit, TypeCorrect, BookNext, PTL DEF Spec

-----------------------------------------------------------------------------
(* FireBaseTask keeps its contract with AudioTask *)

\* What the contract's pending and audio stand for.
Pending == {c \in Colours : count[c] > 0}
Audio   == IF audio = "playing" THEN "playing" ELSE "idle"

LEMMA ContractStutters ==
  ASSUME UNCHANGED <<QueueExists, fbTokens, Pending, Audio, imp_music>>
  PROVE  UNCHANGED AudioContract!vars
BY DEF AudioContract!vars, Pending, Audio

LEMMA ContractInit == Init => AudioContract!Init
<1> SUFFICES ASSUME Init PROVE AudioContract!Init
  OBVIOUS
<1>1. {c \in Colours : count[c] > 0} = {}
  BY DEF Init
<1> QED
  BY <1>1 DEF Init, AudioContract!Init, QueueExists

\* Zeroing one counter is the contract's Clear.
LEMMA ZeroIsClear ==
  ASSUME TypeOK, NEW c \in Colours, count' = [count EXCEPT ![c] = 0],
         QueueExists, QueueExists', UNCHANGED <<fbTokens, audio, imp_music>>
  PROVE  AudioContract!Next
<1>1. Pending' = Pending \ {c}
  BY DEF Pending, TypeOK
<1>2. AudioContract!Clear(c)
  BY <1>1 DEF AudioContract!Clear, Pending, QueueExists
<1> QED
  BY <1>2 DEF AudioContract!Next

LEMMA ContractNext ==
  TypeOK /\ [Next]_vars => [AudioContract!Next]_AudioContract!vars
<1> SUFFICES ASSUME TypeOK, [Next]_vars
             PROVE  [AudioContract!Next]_AudioContract!vars
  OBVIOUS
<1> USE OrderCovers
<1> USE DEF audioVars, senderVars, linkVars, boundVars
<1>1. ASSUME NEW c \in Pressed, CountRead(c)
      PROVE  [AudioContract!Next]_AudioContract!vars
  <2>1. /\ UNCHANGED <<QueueExists, fbTokens, Pending, imp_music>>
        /\ audio \in {"idle", "playing"} /\ audio' = "store"
    BY <1>1 DEF CountRead, QueueExists, Pending
  <2>2. CASE audio = "idle"
    BY <2>1, <2>2, ContractStutters DEF Audio
  <2>3. CASE audio = "playing"
    <3>1. AudioContract!CutShort
      BY <2>1, <2>3 DEF AudioContract!CutShort, Pending, QueueExists
    <3> QED
      BY <3>1 DEF AudioContract!Next
  <2> QED
    BY <2>1, <2>2, <2>3
<1>2. ASSUME NEW important \in BOOLEAN, PlayUncounted(important)
      PROVE  [AudioContract!Next]_AudioContract!vars
  <2>1. AudioContract!PlayUncounted(important)
    BY <1>2 DEF PlayUncounted, AudioContract!PlayUncounted, QueueExists
  <2> QED
    BY <2>1 DEF AudioContract!Next
<1>3. ASSUME NEW opens \in BOOLEAN, CountStore(opens)
      PROVE  [AudioContract!Next]_AudioContract!vars
  <2>1. /\ imp_music' = TRUE /\ audio' \in {"idle", "playing"}
        /\ UNCHANGED <<QueueExists, fbTokens>>
        /\ count' = [count EXCEPT ![cur] = (tmp + 1) % CountMod]
    BY <1>3 DEF CountStore, QueueExists
  <2>2. PICK d \in Colours : d = cur
    BY <1>3 DEF CountStore, TypeOK
  <2>3. \A e \in Colours \ {d} : count'[e] = count[e]
    BY <2>1, <2>2 DEF TypeOK
  <2>4. Pending' \in {Pending \cup {d}, Pending \ {d}}
    BY <2>3 DEF Pending
  <2>5. AudioContract!Count(d)
    BY <2>1, <2>4 DEF AudioContract!Count, Pending, QueueExists
  <2> QED
    BY <2>5 DEF AudioContract!Next
<1>4. CASE EndOfFile
  <2>1. AudioContract!EndOfFile
    BY <1>4 DEF EndOfFile, AudioContract!EndOfFile, QueueExists
  <2> QED
    BY <2>1 DEF AudioContract!Next
<1>5. CASE FireBaseInit
  <2>1. AudioContract!CreateQueue
    BY <1>5 DEF FireBaseInit, AudioContract!CreateQueue, QueueExists
  <2> QED
    BY <2>1 DEF AudioContract!Next
<1>6. CASE Poll
  <2>1. /\ UNCHANGED <<QueueExists, Pending, Audio, imp_music>>
        /\ \/ UNCHANGED fbTokens
           \/ fbTokens > 0 /\ fbTokens' = fbTokens - 1
    BY <1>6 DEF Poll, Call, QueueExists, Pending, Audio
  <2>2. CASE UNCHANGED fbTokens
    BY <2>1, <2>2, ContractStutters
  <2>3. CASE fbTokens > 0 /\ fbTokens' = fbTokens - 1
    <3>1. AudioContract!TakeToken
      BY <2>1, <2>3 DEF AudioContract!TakeToken, Pending, Audio
    <3> QED
      BY <3>1 DEF AudioContract!Next
  <2> QED
    BY <2>1, <2>2, <2>3
<1>7. CASE \/ SumCounts \/ Visit \/ WriteCount \/ Publish \/ MqttConnect
           \/ NoMessage \/ HandleDone \/ MessageReceived
  <2>1. UNCHANGED <<fbTokens, count, audio, imp_music>>
    BY <1>7 DEF SumCounts, Visit, WriteCount, Publish, MqttConnect, NoMessage,
                HandleDone, MessageReceived
  <2>2. pc # "boot" /\ pc' # "boot"
    BY <1>7 DEF SumCounts, Visit, WriteCount, Publish, MqttConnect, NoMessage,
                HandleDone, MessageReceived, Call, TypeOK
  <2> QED
    BY <2>1, <2>2, ContractStutters DEF QueueExists, Pending, Audio
<1>8. CASE ZeroCount
  <2>1. Order[i] \in Colours
    BY <1>8 DEF ZeroCount, TypeOK
  <2>2. PICK d \in Colours : d = Order[i]
    BY <2>1
  <2> QED
    BY <1>8, <2>2, ZeroIsClear DEF ZeroCount, QueueExists
<1>9. ASSUME NEW c \in Pressed, NEW s \in Senders, Download(c, s)
      PROVE  [AudioContract!Next]_AudioContract!vars
  <2>1. c \in Colours
    BY TelemetryAssumption
  <2> QED
    BY <1>9, <2>1, ZeroIsClear DEF Download, QueueExists
<1>10. CASE Disconnect \/ UNCHANGED vars
  <2>1. UNCHANGED <<pc, fbTokens, count, audio, imp_music>>
    BY <1>10 DEF Disconnect, vars
  <2> QED
    BY <2>1, ContractStutters DEF QueueExists, Pending, Audio
<1> QED
  BY <1>1, <1>2, <1>3, <1>4, <1>5, <1>6, <1>7, <1>8, <1>9, <1>10
     DEF Next, AudioTask, FireBaseTask

\* What AudioTask sees of Telemetry, too, is a behaviour of LinkieAudio, for
\* any number of plays, messages and drops: the two tasks fit together.
THEOREM ImplementsContract == Spec => KeepsAudioContract
<1>1. TypeOK /\ [Next]_vars => [AudioContract!Next]_AudioContract!vars
  BY ContractNext
<1> QED
  BY TypeCorrect, ContractInit, <1>1, PTL
     DEF Spec, AudioContract!Spec, KeepsAudioContract
=============================================================================
