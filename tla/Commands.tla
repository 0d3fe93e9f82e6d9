------------------------------ MODULE Commands ------------------------------
(***************************************************************************)
(* The commands the toy receives over MQTT: messageReceived in             *)
(* FireBaseTask.                                                           *)
(*                                                                         *)
(* A DOWNLOAD names buttons and the sender of each one's new recording;    *)
(* the toy notes the sender, fetches the recording into a file, writes all *)
(* the senders to /senderIDs.json and, after the last button, tells the    *)
(* server which downloads failed.  An OTA installs a firmware and notes    *)
(* its version in /firmwareVersion.json.                                   *)
(*                                                                         *)
(* mqtt->loop() calls messageReceived, and messageReceived calls           *)
(* mqtt->loop(): a command that is there already is handled inside the     *)
(* handler of the one before it.  Running handlers are a stack, calls.     *)
(* A file opened for writing is empty until it has been written, and the   *)
(* power may fail between any two steps.  The play counters have           *)
(* Telemetry.tla to themselves.                                            *)
(***************************************************************************)
EXTENDS Integers, Sequences, FiniteSets, SequencesExt

CONSTANTS
  Buttons,       \* the colours that commands name
  Senders,
  Orders,        \* the commands the server may send
  MaxSent, MaxFailures, MaxDrops, MaxPowerLosses   \* bounds

NoSender == ""      \* what the senders are before the first DOWNLOAD
Null     == "null"  \* what as<String>() makes of a key that is not there
Torn     == "torn"  \* a recording opened for writing and not finished
NoFile   == "nofile"
All(x)   == [c \in Buttons |-> x]

Versions  == 1..65535
Downloads == [type : {"DOWNLOAD"}, parts : Seq(Buttons \X Senders)]
Otas      == [type : {"OTA"}, version : Versions]

ASSUME CommandsAssumption ==
  /\ Senders \cap {NoSender, Null, Torn, NoFile} = {}
  /\ Orders \subseteq Otas \cup Downloads
  /\ \A m \in Orders : m.type = "DOWNLOAD" =>
       /\ m.parts # <<>>
       /\ \A j, k \in DOMAIN m.parts :    \* senderArray: one sender a colour
            m.parts[j][1] = m.parts[k][1] => m.parts[j][2] = m.parts[k][2]
  /\ MaxSent \in Nat /\ MaxFailures \in Nat
  /\ MaxDrops \in Nat /\ MaxPowerLosses \in Nat

VARIABLES
  pc,         \* FireBaseTask: "read" and "first" are in readSenderIDs
  calls,      \* the running calls of messageReceived, innermost last
  uuid,       \* the senders in memory
  idFile,     \* what /senderIDs.json reads as
  recording,  \* the sender whose voice is in each recording file
  version,    \* /firmwareVersion.json; a file that is not whole reads as 0
  installed,  \* versions in an OTA partition
  inbox,      \* commands on their way, oldest first
  server,     \* the sender of the newest recording in the storage bucket
  told,       \* what the server was told of the last download of each button:
              \* "ok", "failed" or "none"
  mishaps,    \* history: "nested", "dropped" and "cut" commands
  failed,     \* history: buttons of which a transfer did not complete
  sent, failures, drops, losses    \* what the bounds count

flashVars   == <<idFile, recording, version, installed>>
serverVars  == <<inbox, server, told>>
historyVars == <<mishaps, failed>>
boundVars   == <<sent, failures, drops, losses>>
vars == <<pc, calls, uuid, flashVars, serverVars, historyVars, boundVars>>

-----------------------------------------------------------------------------
Init ==
  /\ pc = "read" /\ calls = <<>>
  /\ uuid = All(NoSender) /\ idFile = All(NoFile)
  /\ recording = All(NoSender) /\ version = 0 /\ installed = {}
  /\ inbox = <<>> /\ server = All(NoSender) /\ told = All("none")
  /\ mishaps = {} /\ failed = {}
  /\ sent = 0 /\ failures = 0 /\ drops = 0 /\ losses = 0

(* readSenderIDs, and the writeSenderIDs it calls on the first start *)

\* A file that is not whole does not parse, and every key is missing.
TornIds == All(Null)

ReadSenderIDs ==
  /\ pc = "read"
  /\ IF idFile = All(NoFile)
     THEN pc' = "first" /\ idFile' = TornIds /\ uuid' = uuid
     ELSE pc' = "listen" /\ uuid' = idFile /\ idFile' = idFile
  /\ UNCHANGED <<calls, recording, version, installed, serverVars,
                 historyVars, boundVars>>

WriteFirstIDs ==
  /\ pc = "first" /\ pc' = "listen"
  /\ idFile' = uuid
  /\ UNCHANGED <<calls, uuid, recording, version, installed, serverVars,
                 historyVars, boundVars>>

-----------------------------------------------------------------------------
(* messageReceived *)

Call(m) == [msg |-> m, at |-> "loop", k |-> 1, try |-> 1, failed |-> {}]
Top     == Last(calls)
At(label) == calls # <<>> /\ Top.at = label

\* The innermost call goes on as f; or it returns.
Becomes(f) == calls' = Append(Front(calls), f)
Goto(label) == Becomes([Top EXCEPT !.at = label])
Return == calls' = Front(calls)

\* Mutant: always the first button.
FirstPart == Top.msg.parts[1]

Part == Top.msg.parts[Top.k]

\* mqtt->loop(), in FireBaseTask or in messageReceived itself.
Receive ==
  /\ pc = "listen" /\ inbox # <<>>
  /\ calls = <<>> \/ At("loop")
  /\ calls' = Append(calls, Call(Head(inbox)))
  /\ inbox' = Tail(inbox)
  /\ mishaps' = IF calls = <<>> THEN mishaps ELSE mishaps \cup {"nested"}
  /\ UNCHANGED <<pc, uuid, flashVars, server, told, failed, boundVars>>

\* mqtt->loop() returns; the type decides.  An OTA for the version the file
\* names is done.  (A payload that does not parse or is of neither type returns
\* too, and changes nothing: it is no member of Orders.)
Dispatch ==
  /\ At("loop")
  /\ IF Top.msg.type = "DOWNLOAD" THEN Goto("ready")
     ELSE IF Top.msg.version = version THEN Return
     ELSE Goto("ota")
  /\ UNCHANGED <<pc, uuid, flashVars, serverVars, historyVars, boundVars>>

\* Firebase.ready(), in the end.
Ready ==
  /\ At("ready") /\ Goto("button")
  /\ UNCHANGED <<pc, uuid, flashVars, serverVars, historyVars, boundVars>>

\* Mutant: a button keeps the first sender it was given.
SetSenderOnce ==
  /\ At("button") /\ Goto("download")
  /\ uuid' = IF uuid[Part[1]] # NoSender THEN uuid
             ELSE [uuid EXCEPT ![Part[1]] = Part[2]]
  /\ UNCHANGED <<pc, flashVars, serverVars, historyVars, boundVars>>

\* The switch on the first letter of the colour.
SetSender ==
  /\ At("button") /\ Goto("download")
  /\ uuid' = [uuid EXCEPT ![Part[1]] = Part[2]]
  /\ UNCHANGED <<pc, flashVars, serverVars, historyVars, boundVars>>

(* Firebase.Storage.download, tried once more when it returns false *)

\* Mutant: a download that failed twice skips writeSenderIDs.
SkipAfterFailure(check) ==
  IF check THEN Goto("ids")
  ELSE IF Top.try = 1 THEN Becomes([Top EXCEPT !.at = "download", !.try = 2])
  ELSE Becomes([Top EXCEPT !.at = "status", !.failed = @ \cup {Part[1]}])

\* Mutant: the tries are not counted.
RetryForever(check) ==
  IF check THEN Becomes([Top EXCEPT !.at = "ids", !.failed = @ \ {Part[1]}])
  ELSE Goto("download")

AfterDownload(check) ==
  IF check THEN Becomes([Top EXCEPT !.at = "ids", !.failed = @ \ {Part[1]}])
  ELSE IF Top.try = 1 THEN Becomes([Top EXCEPT !.at = "download", !.try = 2])
  ELSE Becomes([Top EXCEPT !.at = "ids", !.failed = @ \cup {Part[1]}])

Fails ==
  /\ failures < MaxFailures
  /\ failures' = failures + 1
  /\ failed' = failed \cup {Part[1]}

\* The request is not sent and the file not touched; a request that could not
\* be sent to its end counts as done.
NotSent(check) ==
  /\ At("download") /\ Fails
  /\ AfterDownload(check)
  /\ UNCHANGED <<pc, uuid, flashVars, serverVars, mishaps, sent, drops, losses>>

\* The answer begins to arrive, and the file is opened for writing.
OpenRecording ==
  /\ At("download") /\ Goto("body")
  /\ recording' = [recording EXCEPT ![Part[1]] = Torn]
  /\ UNCHANGED <<pc, uuid, idFile, version, installed, serverVars, historyVars,
                 boundVars>>

\* The answer was an error; or it was the recording, and the connection or the
\* server's patience ended before it was all there, which nobody notices.
BodyFails(check) ==
  /\ At("body") /\ Fails
  /\ AfterDownload(check)
  /\ UNCHANGED <<pc, uuid, flashVars, serverVars, mishaps, sent, drops, losses>>

BodyComplete ==
  /\ At("body") /\ AfterDownload(TRUE)
  /\ recording' = [recording EXCEPT ![Part[1]] = server[Part[1]]]
  /\ UNCHANGED <<pc, uuid, idFile, version, installed, serverVars, historyVars,
                 boundVars>>

(* writeSenderIDs *)

OpenIDs ==
  /\ At("ids") /\ Goto("write")
  /\ idFile' = TornIds
  /\ UNCHANGED <<pc, uuid, recording, version, installed, serverVars,
                 historyVars, boundVars>>

\* Mutant: one button too many.
WriteIDsTooFar ==
  /\ At("write")
  /\ idFile' = uuid
  /\ IF Top.k <= Len(Top.msg.parts)
     THEN Becomes([Top EXCEPT !.at = "button", !.k = @ + 1, !.try = 1])
     ELSE Goto("status")
  /\ UNCHANGED <<pc, uuid, recording, version, installed, serverVars,
                 historyVars, boundVars>>

WriteIDs ==
  /\ At("write")
  /\ idFile' = uuid
  /\ IF Top.k < Len(Top.msg.parts)
     THEN Becomes([Top EXCEPT !.at = "button", !.k = @ + 1, !.try = 1])
     ELSE Goto("status")
  /\ UNCHANGED <<pc, uuid, recording, version, installed, serverVars,
                 historyVars, boundVars>>

Named(m) == {m.parts[j][1] : j \in DOMAIN m.parts}

\* What the server then knows of the buttons of the command.
Status(arrives) ==
  [c \in Buttons |-> IF c \notin Named(Top.msg) THEN told[c]
                     ELSE IF ~arrives THEN "none"
                     ELSE IF c \in Top.failed THEN "failed" ELSE "ok"]

\* Mutant: the loop around Firebase.ready() is not left.
SendStatusAgain ==
  /\ At("status") /\ Becomes([Top EXCEPT !.at = "ready", !.k = 1])
  /\ \E arrives \in BOOLEAN : told' = Status(arrives)
  /\ UNCHANGED <<pc, uuid, flashVars, inbox, server, historyVars, boundVars>>

\* publishTelemetry(statusMessage), which nobody asks whether it was sent.
SendStatus ==
  /\ At("status") /\ Return
  /\ \E arrives \in BOOLEAN : told' = Status(arrives)
  /\ UNCHANGED <<pc, uuid, flashVars, inbox, server, historyVars, boundVars>>

(* updateFirmwareVersion: the loop around downloadOTA has no end; only the *)
(* restart in the callback leaves it.                                      *)

\* Mutant: the callback takes an error for the end.
OtaFailsAnyway ==
  /\ At("ota") /\ failures < MaxFailures /\ failures' = failures + 1
  /\ Goto("openVersion")
  /\ UNCHANGED <<pc, uuid, flashVars, serverVars, historyVars, sent, drops, losses>>

\* An answer without an error and without a firmware, for which the callback
\* would run as well, is not one the bucket gives for a file.
OtaFails ==
  /\ At("ota") /\ failures < MaxFailures /\ failures' = failures + 1
  /\ Goto("forever")
  /\ UNCHANGED <<pc, uuid, flashVars, serverVars, historyVars, sent, drops, losses>>

OtaInstalls ==
  /\ At("ota") /\ Goto("openVersion")
  /\ installed' = installed \cup {Top.msg.version}
  /\ UNCHANGED <<pc, uuid, idFile, recording, version, serverVars, historyVars,
                 boundVars>>

OpenVersion ==
  /\ At("openVersion") /\ Goto("writeVersion")
  /\ version' = 0
  /\ UNCHANGED <<pc, uuid, idFile, recording, installed, serverVars,
                 historyVars, boundVars>>

WriteVersion ==
  /\ At("writeVersion") /\ Goto("restart")
  /\ version' = Top.msg.version
  /\ UNCHANGED <<pc, uuid, idFile, recording, installed, serverVars,
                 historyVars, boundVars>>

-----------------------------------------------------------------------------
(* A restart forgets what is in memory, and the session with what was on its *)
(* way.                                                                      *)

\* An OTA restarts the toy also inside the handler of another command.
CutsOff == pc = "first" \/ Len(calls) > 1 \/ (calls # <<>> /\ ~At("restart"))

LoseInbox == /\ inbox' = <<>>
             /\ mishaps' = mishaps \cup (IF inbox = <<>> THEN {} ELSE {"dropped"})
                                   \cup (IF CutsOff THEN {"cut"} ELSE {})

Reboot == pc' = "read" /\ calls' = <<>> /\ uuid' = All(NoSender) /\ LoseInbox

EspRestart ==
  /\ At("restart") /\ Reboot
  /\ UNCHANGED <<flashVars, server, told, failed, boundVars>>

PowerLoss ==
  /\ losses < MaxPowerLosses /\ losses' = losses + 1
  /\ Reboot
  /\ UNCHANGED <<flashVars, server, told, failed, sent, failures, drops>>

(* the network and the server: the storage bucket has one recording a button *)

SessionDrop ==
  /\ drops < MaxDrops /\ drops' = drops + 1
  /\ inbox # <<>> /\ inbox' = <<>>
  /\ mishaps' = mishaps \cup {"dropped"}
  /\ UNCHANGED <<pc, calls, uuid, flashVars, server, told, failed, sent,
                 failures, losses>>

Sender(m, c, old) ==
  LET mine == {j \in DOMAIN m.parts : m.parts[j][1] = c}
  IN  IF mine = {} THEN old ELSE m.parts[CHOOSE j \in mine : TRUE][2]

SendOrder(m) ==
  /\ sent < MaxSent /\ sent' = sent + 1
  /\ server' = IF m.type = "OTA" THEN server
               ELSE [c \in Buttons |-> Sender(m, c, server[c])]
  /\ IF pc = "listen" THEN inbox' = Append(inbox, m) /\ mishaps' = mishaps
     ELSE inbox' = inbox /\ mishaps' = mishaps \cup {"dropped"}
  /\ UNCHANGED <<pc, calls, uuid, flashVars, told, failed, failures, drops, losses>>

Download == \/ SetSender \/ OpenRecording \/ BodyComplete \/ OpenIDs
            \/ WriteIDs \/ SendStatus
            \/ \E check \in BOOLEAN : NotSent(check) \/ BodyFails(check)

Ota == OtaFails \/ OtaInstalls \/ OpenVersion \/ WriteVersion \/ EspRestart

FireBaseTask == ReadSenderIDs \/ WriteFirstIDs \/ Receive \/ Dispatch \/ Ready
                \/ Download \/ Ota

Next == \/ FireBaseTask \/ PowerLoss \/ SessionDrop
        \/ \E m \in Orders : SendOrder(m)

Spec == Init /\ [][Next]_vars

\* FireBaseTask runs, a request is answered or times out, and Firebase gets
\* its token.
FairSpec == Spec /\ WF_vars(FireBaseTask)

-----------------------------------------------------------------------------
(* Properties *)

Labels == {"loop", "ready", "button", "download", "body", "ids", "write",
           "status", "ota", "forever", "openVersion", "writeVersion", "restart"}
Ids == [Buttons -> Senders \cup {NoSender, Null}]

\* Every variable keeps its type; a handler never runs past its last button.
TypeOK ==
  /\ pc \in {"read", "first", "listen"}
  /\ \A j \in DOMAIN calls :
       /\ calls[j].msg \in Orders /\ calls[j].at \in Labels
       /\ calls[j].msg.type = "DOWNLOAD" => calls[j].k \in DOMAIN calls[j].msg.parts
       /\ calls[j].try \in 1..2
       /\ calls[j].failed \subseteq Buttons
  /\ Len(calls) <= MaxSent
  /\ uuid \in Ids /\ idFile \in Ids \cup {All(NoFile)}
  /\ recording \in [Buttons -> Senders \cup {NoSender, Torn}]
  /\ version \in Versions \cup {0} /\ installed \subseteq Versions
  /\ \A j \in DOMAIN inbox : inbox[j] \in Orders
  /\ server \in [Buttons -> Senders \cup {NoSender}]
  /\ told \in [Buttons -> {"none", "ok", "failed"}]
  /\ mishaps \subseteq {"nested", "dropped", "cut"} /\ failed \subseteq Buttons
  /\ sent \in 0..MaxSent /\ failures \in 0..MaxFailures
  /\ drops \in 0..MaxDrops /\ losses \in 0..MaxPowerLosses

AtRest == pc = "listen" /\ calls = <<>> /\ inbox = <<>>

\* A button credited to one person plays that person's recording, once every
\* command has been handled - unless a transfer of it failed, a command was
\* lost or cut off by the power, or one was handled inside another.  The
\* server's newest recording and the command's sender come by separate ways.
RightCredit ==
  AtRest /\ mishaps = {} => \A c \in Buttons \ failed : uuid[c] = recording[c]

\* Also when commands are handled inside one another, the recordings the toy
\* ends up with are the newest ones.
NewestRecording ==
  AtRest /\ mishaps \subseteq {"nested"} =>
    \A c \in Buttons \ failed : recording[c] = server[c]

\* Whatever happened, between commands the file holds what memory holds, so
\* the next start changes no sender; only a file torn before stays torn.
IdsOnFile == pc = "listen" /\ calls = <<>> /\ idFile # TornIds => idFile = uuid

\* The version file never names a firmware that has not been installed, so no
\* crash can make the toy refuse an OTA it needs.
VersionIsInstalled == version = 0 \/ version \in installed

\* A handler comes further, counted in buttons, tries and places.
Place == [loop |-> 0, ready |-> 1, button |-> 2, download |-> 3, body |-> 4,
          ids |-> 5, write |-> 6, status |-> 7, ota |-> 1, forever |-> 2,
          openVersion |-> 2, writeVersion |-> 3, restart |-> 4]

Later(f, g) == /\ g.msg = f.msg
               /\ \/ g.k > f.k
                  \/ g.k = f.k /\ g.try > f.try
                  \/ g.k = f.k /\ g.try = f.try /\ Place[g.at] > Place[f.at]

Onwards ==
  \/ Len(inbox') < Len(inbox)
  \/ inbox' = inbox /\ Len(calls') < Len(calls)
  \/ /\ inbox' = inbox /\ calls # <<>> /\ Len(calls') = Len(calls)
     /\ \A j \in 1..Len(calls)-1 : calls'[j] = calls[j]
     /\ Later(Top, Top')
  \/ /\ inbox' = inbox /\ calls' = calls
     /\ \/ pc = "read" /\ pc' \in {"first", "listen"}
        \/ pc = "first" /\ pc' = "listen"

\* Whatever fails and however handlers nest, FireBaseTask takes no step that
\* leads it back: it takes a command from those that wait, it returns from a
\* handler, or the innermost handler comes further.  So no retry and no loop
\* goes on for ever, and only commands that keep coming keep the toy busy.
OnlyOnwards == [][FireBaseTask => Onwards]_vars

\* Every command is handled in the end, nested or not and whatever transfers
\* fail, and a toy that was restarted listens again.  Only an OTA that fails
\* keeps the toy.
HandlesAll == <>[](AtRest \/ At("forever"))

\* psuedoCode.txt: "download recordings, send success message".  Success means
\* that the recording is there.
SuccessIsTrue == AtRest /\ "cut" \notin mishaps =>
                   \A c \in Buttons : told[c] = "ok" => recording[c] # Torn

\* wifi_manager.cpp says of writeSenderIDs: "will allow us to keep current
\* senderIds, even after toy turned off".
IdsSurvive == pc = "listen" => \A c \in Buttons : uuid[c] # Null
=============================================================================
