---------------------------- MODULE Provisioning ----------------------------
(***************************************************************************)
(* BLE mode, in which a phone gives the toy the SSID and password of a     *)
(* WiFi network, and the list of saved networks: BleTask with its BLE      *)
(* callbacks, wifi_check, BLE_wifi_status_report, setWifiConfiguration,    *)
(* getWifiIndex and readWifiFromFile.                                      *)
(*                                                                         *)
(* BleTask runs between vTaskSuspend and vTaskResume in BleTask1; the      *)
(* module starts there and leaves open which task they stop.  The phone    *)
(* connects, writes and leaves whenever it likes; the callbacks run in the *)
(* task of the BLE host.  The power may fail at every step: the RAM starts *)
(* afresh, /wifi.json and the index in the flash stay as they are.  The    *)
(* flash has room.                                                         *)
(***************************************************************************)
EXTENDS Naturals, Sequences

CONSTANTS
  Networks,         \* SSIDs with the password the phone sends
  Works,            \* those the toy can join
  ListLen,          \* slots of the list; five in the code
  Incomplete,       \* a value of fewer than eight characters
  NoDelim,          \* a longer one without "__"
  Empty,            \* a slot whose strings are empty
  Null,             \* a slot read back as "null"
  Torn,             \* one with its SSID there and its password read as "null"
  None,
  MaxRequests, MaxScanFails, MaxPowerLosses  \* bounds on the environment

ASSUME ProvisioningAssumption ==
  /\ Works \subseteq Networks
  /\ ListLen \in Nat \ {0}
  /\ {Incomplete, NoDelim, Empty, Null, Torn, None} \cap Networks = {}
  /\ None \notin {Empty, Null, Torn, Incomplete, NoDelim}
  /\ NoDelim # Incomplete
  /\ None \notin Nat /\ None \notin Seq(Networks \cup {Empty, Null, Torn})
  /\ MaxRequests \in Nat /\ MaxScanFails \in Nat /\ MaxPowerLosses \in Nat

Slots == 1..ListLen

VARIABLES
  pc,                \* where BleTask, or setup before it, is
  up,                \* the BLE server runs
  deviceConnected, pass_acquired, ble_status,
  offer,             \* what characteristic 5 holds
  taken,             \* passwordAndNetwork
  input,             \* ssid_input and password_input
  WifiStatus,
  list,              \* SSID_1, password_1, ...
  wifi_entry_index,
  nvs,               \* wifi_entry_index in the flash
  file,              \* /wifi.json: the slots written, the last perhaps by half;
                     \* None if absent
  source,            \* history: what the last parsed value of this BLE mode was
  joined,            \* history: networks the toy has joined
  told,              \* history: by slot, the last one a phone was told of
  lost,              \* history: slots whose network a power loss has taken since
  requests, scanFails, powerLosses     \* what the bounds count

bleVars   == <<up, deviceConnected, pass_acquired, ble_status>>
inputVars == <<offer, taken, input>>
listVars  == <<list, wifi_entry_index>>
flashVars == <<nvs, file>>
histVars  == <<source, joined, told, lost>>
boundVars == <<requests, scanFails, powerLosses>>
vars == <<pc, bleVars, inputVars, WifiStatus, listVars, flashVars, histVars,
          boundVars>>

Goto(label) == pc' = label

AllSlots(network) == [s \in Slots |-> network]

\* The slot that the next network takes.
OldestSlot == IF nvs = None THEN 1 ELSE nvs

-----------------------------------------------------------------------------
Init ==
  /\ pc = "boot" /\ up = FALSE
  /\ deviceConnected = FALSE /\ pass_acquired = FALSE /\ ble_status = "kIdle"
  /\ offer = Incomplete /\ taken = Incomplete /\ input = None
  /\ WifiStatus = FALSE
  /\ list = AllSlots(Empty) /\ wifi_entry_index = 1
  /\ nvs = None /\ file = None
  /\ source = None /\ joined = {} /\ told = AllSlots(None) /\ lost = {}
  /\ requests = 0 /\ scanFails = 0 /\ powerLosses = 0

(* the file: opened for writing it is empty, and then grows *)

\* A slot that is not in the file is read as the string "null".
AsRead(f) == [s \in Slots |-> IF s <= Len(f) THEN f[s] ELSE Null]

\* readWifiFromFile
Boot ==
  /\ pc = "boot"
  /\ IF file = None
     THEN Goto("format") /\ file' = <<>> /\ UNCHANGED list
     ELSE Goto("waiting") /\ list' = AsRead(file) /\ UNCHANGED file
  /\ UNCHANGED <<bleVars, inputVars, WifiStatus, wifi_entry_index, nvs,
                 histVars, boundVars>>

AfterWriting == [format |-> "waiting", write |-> "deinit"]

\* Its SSID and its password are two members of the JSON object.
Half(network) == IF network = Null THEN Null ELSE Torn

\* serializeJson and close, which power may interrupt between any two members.
WriteSlot ==
  /\ pc \in {"format", "write"}
  /\ LET written == Len(file)
         whole == written > 0 => file[written] = list[written]
     IN  \/ /\ ~whole
            /\ file' = [file EXCEPT ![written] = list[written]]
            /\ UNCHANGED pc
         \/ /\ whole /\ written < ListLen
            /\ file' = Append(file, Half(list[written + 1]))
            /\ UNCHANGED pc
         \/ /\ whole /\ written = ListLen
            /\ Goto(AfterWriting[pc])
            /\ UNCHANGED file
  /\ UNCHANGED <<bleVars, inputVars, WifiStatus, listVars, nvs, histVars,
                 boundVars>>

(* BleTask *)

\* BleTask1 takes a request: from here on a phone can connect.
Request ==
  /\ pc = "waiting" /\ requests < MaxRequests
  /\ requests' = requests + 1
  /\ Goto("wait")
  /\ up' = TRUE /\ ble_status' = "kIdle"
  /\ UNCHANGED <<deviceConnected, pass_acquired, inputVars, WifiStatus, listVars,
                 flashVars, histVars, scanFails, powerLosses>>

SeePhone ==
  /\ pc = "wait" /\ deviceConnected
  /\ Goto("scan")
  /\ UNCHANGED <<bleVars, inputVars, WifiStatus, listVars, flashVars, histVars,
                 boundVars>>

\* 90 seconds, which no phone starts again.
TimeOut ==
  /\ pc = "wait" /\ ~deviceConnected
  /\ ble_status' = "kTimeOut"
  /\ Goto("deinit")
  /\ UNCHANGED <<up, deviceConnected, pass_acquired, inputVars, WifiStatus,
                 listVars, flashVars, histVars, boundVars>>

\* Nothing found in four scans, whoever is still connected.
ScanFails ==
  /\ pc = "scan" /\ scanFails < MaxScanFails
  /\ scanFails' = scanFails + 1
  /\ ble_status' = "kScanFailed"
  /\ UNCHANGED <<pc, up, deviceConnected, pass_acquired, inputVars, WifiStatus,
                 listVars, flashVars, histVars, requests, powerLosses>>

\* Sets characteristic 5 to pass, which is always empty.
ScanSucceeds ==
  /\ pc = "scan"
  /\ offer' = Incomplete
  /\ Goto("dialog")
  /\ UNCHANGED <<bleVars, taken, input, WifiStatus, listVars, flashVars,
                 histVars, boundVars>>

\* A turn of the loop reads the value and looks at it half a second later.
ReadValue ==
  /\ pc = "dialog" /\ deviceConnected /\ ~pass_acquired
  /\ taken' = offer
  /\ Goto("parse")
  /\ UNCHANGED <<bleVars, offer, input, WifiStatus, listVars, flashVars,
                 histVars, boundVars>>

\* Without "__" the input stays what it was.
Parse ==
  /\ pc = "parse"
  /\ Goto("dialog")
  /\ taken' = Incomplete                  \* a local variable
  /\ IF taken = Incomplete
     THEN UNCHANGED <<pass_acquired, ble_status, input, source>>
     ELSE /\ pass_acquired' = TRUE /\ ble_status' = "kGotdata"
          /\ input' = IF taken = NoDelim THEN input ELSE taken
          /\ source' = taken
  /\ UNCHANGED <<up, deviceConnected, offer, WifiStatus, listVars, flashVars,
                 joined, told, lost, boundVars>>

\* Mutant: a phone that has gone does not end the scanning.
DialogEndsDeaf ==
  /\ pc = "dialog"
  /\ Goto(IF ble_status = "kGotdata" THEN "join" ELSE "scan")
  /\ ble_status' = IF ble_status = "kGotdata" THEN "kSuccess" ELSE ble_status
  /\ UNCHANGED <<up, deviceConnected, pass_acquired, inputVars, WifiStatus,
                 listVars, flashVars, histVars, boundVars>>

\* Mutant: looks at pass_acquired, which may be older than this BLE mode.
DialogEndsByFlag ==
  /\ pc = "dialog"
  /\ Goto(IF ~deviceConnected THEN "wait"
          ELSE IF pass_acquired THEN "join" ELSE "scan")
  /\ ble_status' = IF deviceConnected /\ pass_acquired THEN "kSuccess"
                   ELSE ble_status
  /\ UNCHANGED <<up, deviceConnected, pass_acquired, inputVars, WifiStatus,
                 listVars, flashVars, histVars, boundVars>>

\* The loop ends with pass_acquired, without a phone, or as scan_refresh runs
\* out, half a minute after the last write.
DialogEnds ==
  /\ pc = "dialog"
  /\ \/ ~deviceConnected /\ Goto("wait") /\ UNCHANGED ble_status
     \/ /\ deviceConnected /\ ble_status = "kGotdata"
        /\ ble_status' = "kSuccess"
        /\ Goto("join")
     \/ /\ deviceConnected /\ ble_status # "kGotdata"
        /\ Goto("scan") /\ UNCHANGED ble_status
  /\ UNCHANGED <<up, deviceConnected, pass_acquired, inputVars, WifiStatus,
                 listVars, flashVars, histVars, boundVars>>

(* wifi_check *)

\* Nine seconds for the network to answer.
Join ==
  /\ pc = "join"
  /\ WifiStatus' \in IF input \in Works THEN BOOLEAN ELSE {FALSE}
  /\ joined' = IF WifiStatus' THEN joined \cup {input} ELSE joined
  /\ Goto("report")
  /\ UNCHANGED <<bleVars, inputVars, listVars, flashVars, source, told, lost,
                 boundVars>>

\* Waits for a phone for as long as it takes.
Report ==
  /\ pc = "report" /\ deviceConnected
  /\ IF WifiStatus
     THEN /\ told' = [told EXCEPT ![OldestSlot] = input]
          /\ lost' = lost \ {OldestSlot}
     ELSE UNCHANGED <<told, lost>>
  /\ Goto("notify")
  /\ UNCHANGED <<bleVars, inputVars, WifiStatus, listVars, flashVars, source,
                 joined, boundVars>>

NotifyEnds ==
  /\ pc = "notify" /\ ~deviceConnected
  /\ Goto("reported")
  /\ UNCHANGED <<bleVars, inputVars, WifiStatus, listVars, flashVars, histVars,
                 boundVars>>

\* Unless a phone has come back already.
Reported ==
  /\ pc = "reported"
  /\ up' = deviceConnected
  /\ Goto("index")
  /\ UNCHANGED <<deviceConnected, pass_acquired, ble_status, inputVars,
                 WifiStatus, listVars, flashVars, histVars, boundVars>>

(* setWifiConfiguration *)

\* Mutant: takes the index in RAM, which is 1 after each start.
IndexInRam ==
  /\ pc = "index"
  /\ nvs' = wifi_entry_index
  /\ Goto(IF WifiStatus THEN "store" ELSE "deinit")
  /\ UNCHANGED <<bleVars, inputVars, WifiStatus, listVars, file, histVars,
                 boundVars>>

\* Mutant: the list is written whatever became of the network.
IndexOnly ==
  /\ pc = "index"
  /\ nvs' = IF nvs = None THEN wifi_entry_index ELSE nvs
  /\ wifi_entry_index' = nvs'
  /\ Goto("store")
  /\ UNCHANGED <<bleVars, inputVars, WifiStatus, list, file, histVars,
                 boundVars>>

\* getWifiIndex(true)
Index ==
  /\ pc = "index"
  /\ nvs' = IF nvs = None THEN wifi_entry_index ELSE nvs
  /\ wifi_entry_index' = nvs'
  /\ Goto(IF WifiStatus THEN "store" ELSE "deinit")
  /\ UNCHANGED <<bleVars, inputVars, WifiStatus, list, file, histVars,
                 boundVars>>

\* Mutant: the last slot is the one after the last.
NextIndexTooFar(i) == IF i > ListLen THEN 1 ELSE i + 1

NextIndex(i) == IF i = ListLen THEN 1 ELSE i + 1

\* The slot and the next index, in RAM and then in the flash.
Store ==
  /\ pc = "store"
  /\ list' = [list EXCEPT ![wifi_entry_index] = input]
  /\ wifi_entry_index' = NextIndex(wifi_entry_index)
  /\ nvs' = wifi_entry_index'
  /\ Goto("truncate")
  /\ UNCHANGED <<bleVars, inputVars, WifiStatus, file, histVars, boundVars>>

\* Mutant: appends to the file instead of starting over.
TruncateNot ==
  /\ pc = "truncate"
  /\ Goto("write")
  /\ UNCHANGED <<bleVars, inputVars, WifiStatus, listVars, flashVars, histVars,
                 boundVars>>

Truncate ==
  /\ pc = "truncate"
  /\ file' = <<>>
  /\ Goto("write")
  /\ UNCHANGED <<bleVars, inputVars, WifiStatus, listVars, nvs, histVars,
                 boundVars>>

\* Ends a connection like its phone would, and the service with its values.
\* BleTask1 waits again.
Deinit ==
  /\ pc = "deinit"
  /\ up' = FALSE /\ deviceConnected' = FALSE
  /\ pass_acquired' = (pass_acquired /\ ~deviceConnected)
  /\ offer' = Incomplete /\ source' = None
  /\ WifiStatus' = FALSE
  /\ Goto("waiting")
  /\ UNCHANGED <<ble_status, taken, input, listVars, flashVars, joined, told,
                 lost, boundVars>>

BleTask == SeePhone \/ TimeOut \/ ScanFails \/ ScanSucceeds \/ ReadValue
           \/ Parse \/ DialogEnds \/ Join \/ Report \/ NotifyEnds \/ Reported
           \/ Index \/ Store \/ Truncate \/ WriteSlot \/ Deinit

(* the phone, by the callbacks *)

Connect ==
  /\ up /\ ~deviceConnected
  /\ deviceConnected' = TRUE
  /\ UNCHANGED <<pc, up, pass_acquired, ble_status, inputVars, WifiStatus,
                 listVars, flashVars, histVars, boundVars>>

Disconnect ==
  /\ up /\ deviceConnected
  /\ deviceConnected' = FALSE /\ pass_acquired' = FALSE
  /\ UNCHANGED <<pc, up, ble_status, inputVars, WifiStatus, listVars, flashVars,
                 histVars, boundVars>>

Write(value) ==
  /\ up /\ deviceConnected
  /\ offer' = value
  /\ UNCHANGED <<pc, bleVars, taken, input, WifiStatus, listVars, flashVars,
                 histVars, boundVars>>

(* the power *)

Previous(i) == IF i = 1 THEN ListLen ELSE i - 1

\* A phone has been told of the network, which is nowhere but in the RAM.
Unstored == {"notify", "reported", "index", "store"}

\* The slots whose networks the RAM has and the file has not.
Unsaved ==
  CASE pc \in Unstored -> IF WifiStatus THEN {OldestSlot} ELSE {}
    [] pc = "truncate" -> {Previous(nvs)}
    [] pc = "write"    -> {s \in Slots : s > Len(file) \/ file[s] # list[s]}
    [] OTHER           -> {}

\* Between truncation and the end of the write, networks saved long ago are
\* Unsaved too.
PowerLoss ==
  /\ powerLosses < MaxPowerLosses
  /\ powerLosses' = powerLosses + 1
  /\ Goto("boot") /\ up' = FALSE
  /\ deviceConnected' = FALSE /\ pass_acquired' = FALSE
  /\ ble_status' = "kIdle"
  /\ offer' = Incomplete /\ taken' = Incomplete /\ input' = None
  /\ WifiStatus' = FALSE
  /\ list' = AllSlots(Empty) /\ wifi_entry_index' = 1
  /\ lost' = lost \cup Unsaved
  /\ source' = None
  /\ UNCHANGED <<flashVars, joined, told, requests, scanFails>>

Next == Boot \/ Request \/ BleTask
        \/ Connect \/ Disconnect
        \/ (\E value \in Networks \cup {Incomplete, NoDelim} : Write(value))
        \/ PowerLoss

Spec == Init /\ [][Next]_vars

(* The task runs when it can; a scan finds something in the end.           *)
FairSpec == Spec /\ WF_vars(Boot \/ BleTask)

-----------------------------------------------------------------------------
(* Properties *)

Values == Networks \cup {Empty, Null, Torn}

\* Every variable keeps its type; the index stays within the list.
TypeOK ==
  /\ pc \in {"boot", "format", "waiting", "wait", "scan", "dialog", "parse",
             "join", "report", "notify", "reported", "index", "store",
             "truncate", "write", "deinit"}
  /\ up \in BOOLEAN /\ deviceConnected \in BOOLEAN /\ pass_acquired \in BOOLEAN
  /\ ble_status \in {"kIdle", "kTimeOut", "kSuccess", "kScanFailed", "kGotdata"}
  /\ offer \in Networks \cup {Incomplete, NoDelim}
  /\ taken \in Networks \cup {Incomplete, NoDelim}
  /\ input \in Networks \cup {None}
  /\ WifiStatus \in BOOLEAN
  /\ list \in [Slots -> Values] /\ wifi_entry_index \in Slots
  /\ nvs \in Slots \cup {None}
  /\ \/ file = None
     \/ file \in Seq(Values) /\ Len(file) <= ListLen
  /\ source \in Networks \cup {NoDelim, None}
  /\ joined \subseteq Works
  /\ told \in [Slots -> Networks \cup {None}] /\ lost \subseteq Slots
  /\ requests \in 0..MaxRequests /\ scanFails \in 0..MaxScanFails
  /\ powerLosses \in 0..MaxPowerLosses

\* custom_ble.cpp saves "the correct password": a slot, in RAM or on file,
\* holds a network the toy has joined, or one nobody can join - after each
\* order of phones, failed joins, later BLE modes and power losses.
RememberedWasJoined ==
  /\ \A s \in Slots : list[s] \in joined \cup {Empty, Null, Torn}
  /\ file # None =>
       \A i \in 1..Len(file) : file[i] \in joined \cup {Empty, Null, Torn}

\* The toy tries what a phone wrote in this BLE mode, not what an earlier one
\* left in ssid_input, unless a phone wrote something without a delimiter:
\* however phones come and go while the toy scans, reads and looks.
InputIsFresh == pc = "join" => source = NoDelim \/ source = input

\* Every network a phone was told to work stays in its slot, on the list and
\* on file, until ListLen later ones have been saved - through BLE modes that
\* fail and power losses, but for the slots that one found in RAM alone.
ToldIsKept ==
  pc = "waiting" =>
    \A s \in Slots : told[s] # None /\ s \notin lost =>
      list[s] = told[s] /\ file # None /\ AsRead(file) = list

\* The list as it would be if the power failed once the file is safe.
Kept == IF pc \in {"truncate", "write", "format"} \/ file = None THEN list
        ELSE AsRead(file)

SlotAt(i) == IF OldestSlot + i - 1 <= ListLen THEN OldestSlot + i - 1
             ELSE OldestSlot + i - 1 - ListLen

Rotated(slots) == [i \in Slots |-> slots[SlotAt(i)]]

\* What the file still has in the slot last stored, until it is truncated.
Dropped == IF pc = "truncate" THEN AsRead(file)[Previous(nvs)] ELSE None

Ring == INSTANCE NetworkRing WITH
          Length <- ListLen, Spoilt <- {Null, Torn}, Nothing <- None,
          ring <- Rotated(Kept),
          dropped <- Dropped

\* The list, the index in the flash and the file are the ring of NetworkRing:
\* no power loss, wherever it comes, moves an entry or makes one up.
KeepsRing == Ring!Spec

\* BLE mode ends when no phone comes any more - or one always does that waits
\* for the result of a join, for which the toy has no time limit.
BleModeEnds ==
  (<>[]~deviceConnected /\ []<>(pc # "report")) => []<>(pc = "waiting")
=============================================================================
