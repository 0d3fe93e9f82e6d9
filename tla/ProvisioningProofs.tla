------------------------- MODULE ProvisioningProofs -------------------------
(***************************************************************************)
(* Theorems about Provisioning, for any networks, any length of the list   *)
(* and any number of requests, failed scans and power losses.              *)
(***************************************************************************)
EXTENDS Provisioning, SequenceTheorems, TLAPS

-----------------------------------------------------------------------------
(* The parts of the inductive invariant *)

AfterJoin == {"report", "notify", "reported", "index", "store", "truncate",
              "write", "deinit"}

\* What wifi_check found is about the input, and only a network that was
\* joined is stored.
StatusInv ==
  /\ WifiStatus => input \in joined /\ pc \in AfterJoin
  /\ pc \in {"store", "truncate", "write"} => WifiStatus

\* kGotdata never outlives a BLE mode, and the input it is about is the one
\* parsed last.
FreshInv ==
  /\ ble_status = "kGotdata" => pc \in {"wait", "scan", "dialog", "parse"}
  /\ ble_status = "kGotdata" \/ pc = "join" =>
       source = NoDelim \/ source = input

Settled == {"waiting", "wait", "scan", "dialog", "parse", "join", "report",
            "notify", "reported", "index", "store", "deinit"}

\* How list, file and the two indices agree.
FileInv ==
  /\ pc # "boot" => file # None
  /\ file = None => list = AllSlots(Empty)
  /\ nvs = None => wifi_entry_index = 1
  /\ pc \in {"store", "truncate"} => nvs # None
  /\ pc = "store" => nvs = wifi_entry_index
  /\ pc \in Settled => list = AsRead(file)
  /\ pc = "truncate" =>
       \A s \in Slots \ {Previous(nvs)} : AsRead(file)[s] = list[s]
  /\ pc \in {"format", "write"} =>
       \A i \in 1..Len(file) :
         file[i] = list[i] \/ (i = Len(file) /\ file[i] = Half(list[i]))

\* A phone has been told that the input works, and the slot is yet to be stored.
BeingTold(s) == pc \in Unstored /\ WifiStatus /\ s = OldestSlot

\* Where each network a phone was told of is: the input, then the list in RAM,
\* then the file.
ToldInv ==
  \A s \in Slots : told[s] # None /\ s \notin lost =>
    /\ file # None /\ pc # "format"
    /\ pc \in {"truncate", "write"} => list[s] = told[s]
    /\ BeingTold(s) => told[s] = input
    /\ pc \notin {"truncate", "write"} /\ ~BeingTold(s) =>
         AsRead(file)[s] = told[s]

TypeInv ==
  /\ TypeOK /\ StatusInv
  /\ pc # "boot" => file # None
  /\ pc \in {"store", "truncate"} => nvs # None

-----------------------------------------------------------------------------
(* The list, the file and the ring *)

LEMMA NextIndexIsSlot == \A i \in Slots : /\ NextIndex(i) \in Slots
                                          /\ Previous(NextIndex(i)) = i
BY ProvisioningAssumption DEF Slots, NextIndex, Previous

LEMMA PreviousIsSlot == \A i \in Slots : Previous(i) \in Slots
BY ProvisioningAssumption DEF Slots, Previous

LEMMA EmptyFile == <<>> \in Seq(Values) /\ Len(<<>>) = 0 /\ <<>> # None
<1>1. <<>> \in Seq(Values)
  OBVIOUS
<1> QED
  BY <1>1, ProvisioningAssumption DEF Values

LEMMA AsReadType ==
  ASSUME NEW f \in Seq(Values) PROVE AsRead(f) \in [Slots -> Values]
BY ProvisioningAssumption DEF AsRead, Slots, Values

LEMMA OldestIsSlot == nvs \in Slots \cup {None} => OldestSlot \in Slots
BY ProvisioningAssumption DEF OldestSlot, Slots

\* The three steps of WriteSlot, as changes of the file.
LastIsWhole == Len(file) > 0 => file[Len(file)] = list[Len(file)]

MakesWhole ==
  /\ UNCHANGED pc
  /\ Len(file') = Len(file) /\ Len(file) > 0
  /\ file'[Len(file)] = list[Len(file)]
  /\ \A i \in 1..Len(file) : i # Len(file) => file'[i] = file[i]

BeginsNext ==
  /\ UNCHANGED pc /\ LastIsWhole
  /\ Len(file') = Len(file) + 1
  /\ file'[Len(file) + 1] = Half(list[Len(file) + 1])
  /\ \A i \in 1..Len(file) : file'[i] = file[i]

Completes ==
  /\ pc' = AfterWriting[pc] /\ UNCHANGED file
  /\ Len(file) = ListLen /\ LastIsWhole

LEMMA WriteSlotFile ==
  ASSUME TypeInv, WriteSlot
  PROVE  /\ pc \in {"format", "write"}
         /\ UNCHANGED <<listVars, nvs, WifiStatus, input, told, lost>>
         /\ file' \in Seq(Values) /\ Len(file') \in 0..ListLen /\ file' # None
         /\ MakesWhole \/ BeginsNext \/ Completes
<1> USE ProvisioningAssumption
<1>1. /\ pc \in {"format", "write"}
      /\ UNCHANGED <<listVars, nvs, WifiStatus, input, told, lost>>
  BY DEF WriteSlot, inputVars, histVars
<1>2. /\ file \in Seq(Values) /\ Len(file) \in 0..ListLen /\ file # None
      /\ list \in [Slots -> Values]
  BY <1>1 DEF TypeInv, TypeOK
<1>3. \A f \in Seq(Values) : f # None
  BY DEF Values
<1>4. CASE /\ Len(file) > 0 /\ UNCHANGED pc
           /\ file' = [file EXCEPT ![Len(file)] = list[Len(file)]]
  <2>1. list[Len(file)] \in Values /\ Len(file) \in 1..Len(file)
    BY <1>2, <1>4 DEF Slots
  <2>2. /\ file' \in Seq(Values) /\ Len(file') = Len(file)
        /\ \A j \in 1..Len(file) :
             file'[j] = IF j = Len(file) THEN list[Len(file)] ELSE file[j]
    BY <1>2, <1>4, <2>1, ExceptSeq
  <2>3. MakesWhole
    BY <1>4, <2>1, <2>2 DEF MakesWhole
  <2>4. Len(file') \in 0..ListLen /\ file' # None
    BY <1>2, <1>3, <2>2
  <2> QED
    BY <1>1, <2>2, <2>3, <2>4
<1>5. CASE /\ LastIsWhole
           /\ Len(file) < ListLen /\ UNCHANGED pc
           /\ file' = Append(file, Half(list[Len(file) + 1]))
  <2>1. Half(list[Len(file) + 1]) \in Values
    BY DEF Half, Values
  <2>2. /\ file' \in Seq(Values) /\ Len(file') = Len(file) + 1
        /\ file'[Len(file) + 1] = Half(list[Len(file) + 1])
        /\ \A i \in 1..Len(file) : file'[i] = file[i]
    BY <1>2, <1>5, <2>1, AppendProperties
  <2>3. BeginsNext
    BY <1>5, <2>2 DEF BeginsNext
  <2>4. Len(file') \in 0..ListLen /\ file' # None
    BY <1>2, <1>3, <1>5, <2>2
  <2> QED
    BY <1>1, <2>2, <2>3, <2>4
<1>6. CASE /\ LastIsWhole
           /\ Len(file) = ListLen /\ pc' = AfterWriting[pc] /\ UNCHANGED file
  BY <1>1, <1>2, <1>6 DEF Completes
<1> QED
  BY <1>2, <1>4, <1>5, <1>6 DEF WriteSlot, LastIsWhole, Goto

-----------------------------------------------------------------------------
(* Type correctness *)

LEMMA TypeInit == Init => TypeInv
<1> SUFFICES ASSUME Init PROVE TypeInv
  OBVIOUS
<1> USE ProvisioningAssumption
<1>1. list \in [Slots -> Values]
  BY DEF Init, AllSlots, Values
<1>2. wifi_entry_index \in Slots
  BY DEF Init, Slots
<1>3. /\ requests \in 0..MaxRequests /\ scanFails \in 0..MaxScanFails
      /\ powerLosses \in 0..MaxPowerLosses
  BY DEF Init
<1>4. TypeOK
  BY <1>1, <1>2, <1>3 DEF Init, AllSlots, TypeOK
<1> QED
  BY <1>4 DEF Init, TypeInv, StatusInv

LEMMA TypeNext == TypeInv /\ [Next]_vars => TypeInv'
<1> SUFFICES ASSUME TypeInv, [Next]_vars PROVE TypeInv'
  OBVIOUS
<1> USE ProvisioningAssumption
<1> USE DEF TypeInv, TypeOK, StatusInv, AfterJoin, Goto, bleVars,
            inputVars, listVars, flashVars, histVars, boundVars
<1>1. CASE Boot
  <2>1. CASE file = None
    <3>1. file' \in Seq(Values) /\ Len(file') = 0 /\ file' # None
      BY <1>1, <2>1, EmptyFile DEF Boot
    <3> QED
      BY <1>1, <2>1, <3>1 DEF Boot
  <2>2. CASE file # None
    <3>1. list' \in [Slots -> Values]
      BY <1>1, <2>2, AsReadType DEF Boot
    <3> QED
      BY <1>1, <2>2, <3>1 DEF Boot
  <2> QED
    BY <2>1, <2>2
<1>2. CASE Request
  <2>1. requests' \in 0..MaxRequests
    BY <1>2 DEF Request
  <2> QED
    BY <1>2, <2>1 DEF Request
<1>3. CASE SeePhone
  BY <1>3 DEF SeePhone
<1>4. CASE TimeOut
  BY <1>4 DEF TimeOut
<1>5. CASE ScanFails
  <2>1. scanFails' \in 0..MaxScanFails
    BY <1>5 DEF ScanFails
  <2> QED
    BY <1>5, <2>1 DEF ScanFails
<1>6. CASE ScanSucceeds
  BY <1>6 DEF ScanSucceeds
<1>7. CASE ReadValue
  BY <1>7 DEF ReadValue
<1>8. CASE Parse
  <2>1. /\ pc' = "dialog" /\ taken' = Incomplete
        /\ pass_acquired' \in BOOLEAN
        /\ ble_status' \in {ble_status, "kGotdata"}
        /\ input' \in Networks \cup {None}
        /\ source' \in Networks \cup {NoDelim, None}
    BY <1>8 DEF Parse
  <2>2. ~WifiStatus
    BY <1>8 DEF Parse
  <2> QED
    BY <1>8, <2>1, <2>2 DEF Parse
<1>9. CASE DialogEnds
  BY <1>9 DEF DialogEnds
<1>10. CASE Join
  <2>1. /\ WifiStatus' \in BOOLEAN
        /\ WifiStatus' => input \in Works /\ input \in joined'
        /\ joined' \subseteq Works
    BY <1>10 DEF Join
  <2> QED
    BY <1>10, <2>1 DEF Join
<1>11. CASE Report
  <2>1. /\ told' \in [Slots -> Networks \cup {None}] /\ lost' \subseteq Slots
        /\ UNCHANGED WifiStatus
    BY <1>11, OldestIsSlot DEF Report
  <2> QED
    BY <1>11, <2>1 DEF Report
<1>12. CASE NotifyEnds
  BY <1>12 DEF NotifyEnds
<1>13. CASE Reported
  BY <1>13 DEF Reported
<1>14. CASE Index
  BY <1>14 DEF Index
<1>15. CASE Store
  <2>1. input \in Values
    BY <1>15 DEF Store, Values
  <2>2. list' \in [Slots -> Values]
    BY <1>15, <2>1 DEF Store
  <2>3. wifi_entry_index' \in Slots
    BY <1>15, NextIndexIsSlot DEF Store
  <2> QED
    BY <1>15, <2>2, <2>3 DEF Store
<1>16. CASE Truncate
  <2>1. file' \in Seq(Values) /\ Len(file') = 0 /\ file' # None
    BY <1>16, EmptyFile DEF Truncate
  <2> QED
    BY <1>16, <2>1 DEF Truncate
<1>17. CASE WriteSlot
  <2>1. \/ UNCHANGED pc
        \/ pc = "format" /\ pc' = "waiting" /\ ~WifiStatus
        \/ pc = "write" /\ pc' = "deinit"
    BY <1>17, WriteSlotFile DEF AfterWriting, MakesWhole, BeginsNext, Completes
  <2>2. /\ file' \in Seq(Values) /\ Len(file') <= ListLen /\ file' # None
        /\ UNCHANGED <<listVars, nvs, WifiStatus, input, told, lost>>
    BY <1>17, WriteSlotFile
  <2> QED
    BY <1>17, <2>1, <2>2 DEF WriteSlot
<1>18. CASE Deinit
  BY <1>18 DEF Deinit
<1>19. CASE Connect
  BY <1>19 DEF Connect
<1>20. CASE Disconnect
  <2>1. deviceConnected' \in BOOLEAN /\ pass_acquired' \in BOOLEAN
    BY <1>20 DEF Disconnect
  <2> QED
    BY <1>20, <2>1 DEF Disconnect
<1>21. CASE \E value \in Networks \cup {Incomplete, NoDelim} : Write(value)
  BY <1>21 DEF Write
<1>22. CASE PowerLoss
  <2>1. list' \in [Slots -> Values] /\ wifi_entry_index' \in Slots
    BY <1>22 DEF PowerLoss, AllSlots, Values, Slots
  <2>2. powerLosses' \in 0..MaxPowerLosses
    BY <1>22 DEF PowerLoss
  <2>3. lost' \subseteq Slots
    <3>1. pc = "truncate" => Previous(nvs) \in Slots
      BY PreviousIsSlot
    <3> QED
      BY <1>22, <3>1, OldestIsSlot DEF PowerLoss, Unsaved
  <2> QED
    BY <1>22, <2>1, <2>2, <2>3 DEF PowerLoss
<1>23. CASE UNCHANGED vars
  BY <1>23 DEF vars
<1> QED
  BY <1>1, <1>2, <1>3, <1>4, <1>5, <1>6, <1>7, <1>8, <1>9, <1>10, <1>11, <1>12,
     <1>13, <1>14, <1>15, <1>16, <1>17, <1>18, <1>19, <1>20, <1>21, <1>22,
     <1>23 DEF Next, BleTask

\* The index stays within the list, the file within its length, and everything
\* else within its type, through any number of BLE modes and power losses.
THEOREM TypeCorrect == Spec => []TypeOK
<1>1. TypeInv => TypeOK
  BY DEF TypeInv
<1> QED
  BY TypeInit, TypeNext, <1>1, PTL DEF Spec

-----------------------------------------------------------------------------
(* What is tried is what a phone wrote *)

LEMMA FreshNext == TypeInv /\ FreshInv /\ [Next]_vars => FreshInv'
<1> SUFFICES ASSUME TypeInv, FreshInv, [Next]_vars PROVE FreshInv'
  OBVIOUS
<1> USE DEF FreshInv, Goto, inputVars, histVars
<1>1. CASE Boot
  BY <1>1 DEF Boot, bleVars
<1>2. CASE Request
  BY <1>2 DEF Request
<1>3. CASE SeePhone \/ TimeOut
  BY <1>3 DEF SeePhone, TimeOut, bleVars
<1>4. CASE ScanFails \/ ScanSucceeds
  BY <1>4 DEF ScanFails, ScanSucceeds, bleVars
<1>5. CASE ReadValue
  BY <1>5 DEF ReadValue, bleVars
<1>6. CASE Parse
  BY <1>6 DEF Parse
<1>7. CASE DialogEnds
  BY <1>7 DEF DialogEnds
<1>8. CASE Join \/ Report \/ NotifyEnds
  BY <1>8 DEF Join, Report, NotifyEnds, bleVars
<1>9. CASE Reported \/ Index \/ Store \/ Truncate
  BY <1>9 DEF Reported, Index, Store, Truncate, bleVars
<1>10. CASE WriteSlot
  <2>1. pc \in {"format", "write"} /\ pc' \in {pc, "waiting", "deinit"}
    BY <1>10 DEF WriteSlot, AfterWriting
  <2> QED
    BY <1>10, <2>1 DEF WriteSlot, bleVars
<1>11. CASE Deinit
  BY <1>11 DEF Deinit
<1>12. CASE Connect \/ Disconnect
  BY <1>12 DEF Connect, Disconnect
<1>13. CASE \E value \in Networks \cup {Incomplete, NoDelim} : Write(value)
  BY <1>13 DEF Write, bleVars
<1>14. CASE PowerLoss
  BY <1>14 DEF PowerLoss
<1>15. CASE UNCHANGED vars
  BY <1>15 DEF vars, bleVars
<1> QED
  BY <1>1, <1>2, <1>3, <1>4, <1>5, <1>6, <1>7, <1>8, <1>9, <1>10, <1>11, <1>12,
     <1>13, <1>14, <1>15 DEF Next, BleTask

\* Whatever phones do while the toy scans, reads and looks, it never tries
\* what an earlier BLE mode left in ssid_input.
THEOREM InputStaysFresh == Spec => []InputIsFresh
<1>1. Init => FreshInv
  BY DEF Init, FreshInv
<1>2. FreshInv => InputIsFresh
  BY DEF FreshInv, InputIsFresh
<1> QED
  BY TypeInit, TypeNext, FreshNext, <1>1, <1>2, PTL DEF Spec

-----------------------------------------------------------------------------
(* What is saved was joined *)

RememberedInv == TypeInv /\ RememberedWasJoined

LEMMA RememberedNext == RememberedInv /\ [Next]_vars => RememberedWasJoined'
<1> SUFFICES ASSUME RememberedInv, [Next]_vars PROVE RememberedWasJoined'
  OBVIOUS
<1> DEFINE Good == joined \cup {Empty, Null, Torn}
<1> USE DEF RememberedInv, RememberedWasJoined, listVars, flashVars, histVars
<1>1. CASE Boot
  <2>1. file # None => \A s \in Slots : AsRead(file)[s] \in Good
    BY ProvisioningAssumption DEF AsRead, Slots, TypeInv, TypeOK
  <2>2. file = None => file' = <<>> /\ Len(file') = 0
    BY <1>1, EmptyFile DEF Boot
  <2> QED
    BY <1>1, <2>1, <2>2 DEF Boot
<1>2. CASE Join
  <2>1. joined \subseteq joined'
    BY <1>2 DEF Join
  <2> QED
    BY <1>2, <2>1 DEF Join
<1>3. CASE Store
  <2>1. input \in joined
    BY <1>3 DEF Store, TypeInv, StatusInv
  <2>2. list \in [Slots -> Values]
    BY DEF TypeInv, TypeOK
  <2> QED
    BY <1>3, <2>1, <2>2 DEF Store
<1>4. CASE Truncate
  BY <1>4, EmptyFile DEF Truncate
<1>5. CASE WriteSlot
  <2>1. /\ file # None /\ Len(file) \in 0..ListLen /\ UNCHANGED <<list, joined>>
        /\ Len(file') \in 0..ListLen
    BY <1>5, WriteSlotFile DEF WriteSlot, TypeInv, TypeOK
  <2>2. \A n : Half(n) \in Good
    BY DEF Half
  <2>3. \A i \in Slots : list[i] \in Good
    OBVIOUS
  <2>4. \A i \in 1..Len(file') : file'[i] \in Good
    BY <1>5, <2>1, <2>2, <2>3, WriteSlotFile
       DEF Slots, MakesWhole, BeginsNext, Completes
  <2> QED
    BY <2>1, <2>4
<1>6. CASE PowerLoss
  BY <1>6 DEF PowerLoss, AllSlots
<1>7. CASE \/ Request \/ SeePhone \/ TimeOut \/ ScanFails \/ ScanSucceeds
           \/ ReadValue \/ Parse \/ DialogEnds \/ Report \/ NotifyEnds
           \/ Reported \/ Index \/ Deinit \/ Connect \/ Disconnect
           \/ \E value \in Networks \cup {Incomplete, NoDelim} : Write(value)
  <2>1. UNCHANGED <<list, file, joined>>
    BY <1>7 DEF Request, SeePhone, TimeOut, ScanFails, ScanSucceeds, ReadValue,
                Parse, DialogEnds, Report, NotifyEnds, Reported, Index, Deinit,
                Connect, Disconnect, Write
  <2> QED
    BY <2>1
<1>8. CASE UNCHANGED vars
  BY <1>8 DEF vars
<1> QED
  BY <1>1, <1>2, <1>3, <1>4, <1>5, <1>6, <1>7, <1>8 DEF Next, BleTask

\* The list and the file only ever hold networks the toy has joined, whatever
\* phones wrote, which joins failed and when the power did.
THEOREM OnlyJoinedAreRemembered == Spec => []RememberedWasJoined
<1>1. Init => RememberedWasJoined
  BY DEF Init, RememberedWasJoined, AllSlots
<1>2. RememberedInv /\ [Next]_vars => RememberedInv'
  BY TypeNext, RememberedNext DEF RememberedInv
<1>3. Init => RememberedInv
  BY TypeInit, <1>1 DEF RememberedInv
<1>4. RememberedInv => RememberedWasJoined
  BY DEF RememberedInv
<1> QED
  BY <1>2, <1>3, <1>4, PTL DEF Spec

-----------------------------------------------------------------------------
(* How the list, the file and the indices agree *)

\* The steps that leave the list, the file and the index in the flash alone.
Quiet ==
  \/ Request \/ SeePhone \/ TimeOut \/ ScanFails \/ ScanSucceeds
  \/ ReadValue \/ Parse \/ DialogEnds \/ Join \/ Report \/ NotifyEnds
  \/ Reported \/ Deinit \/ Connect \/ Disconnect
  \/ \E value \in Networks \cup {Incomplete, NoDelim} : Write(value)
  \/ UNCHANGED vars

LEMMA QuietStep ==
  ASSUME Quiet
  PROVE  /\ UNCHANGED <<listVars, flashVars>>
         /\ \/ pc' = pc
            \/ pc \in Settled /\ pc' \in Settled \ {"store"}
<1> USE DEF Goto, Settled
<1>1. CASE \/ Request \/ SeePhone \/ TimeOut \/ ScanFails \/ ScanSucceeds
           \/ ReadValue \/ Parse
  BY <1>1 DEF Request, SeePhone, TimeOut, ScanFails, ScanSucceeds, ReadValue,
              Parse
<1>2. CASE \/ DialogEnds \/ Join \/ Report \/ NotifyEnds \/ Reported \/ Deinit
  BY <1>2 DEF DialogEnds, Join, Report, NotifyEnds, Reported, Deinit
<1>3. CASE Connect \/ Disconnect
  BY <1>3 DEF Connect, Disconnect
<1>4. CASE \E value \in Networks \cup {Incomplete, NoDelim} : Write(value)
  BY <1>4 DEF Write
<1>5. CASE UNCHANGED vars
  BY <1>5 DEF vars
<1> QED
  BY <1>1, <1>2, <1>3, <1>4, <1>5 DEF Quiet

LEMMA LoudOrQuiet ==
  ASSUME [Next]_vars
  PROVE  Quiet \/ Boot \/ Index \/ Store \/ Truncate \/ WriteSlot \/ PowerLoss
BY DEF Next, BleTask, Quiet

\* The file follows the list, the last slot on it perhaps by half, or it is
\* complete.
LEMMA WriteSlotStep ==
  ASSUME TypeInv, FileInv, WriteSlot
  PROVE  /\ UNCHANGED <<listVars, nvs, WifiStatus, input, told, lost>>
         /\ file' # None /\ pc \in {"format", "write"}
         /\ \/ /\ UNCHANGED pc
               /\ \A i \in 1..Len(file') :
                    \/ file'[i] = list[i]
                    \/ i = Len(file') /\ file'[i] = Half(list[i])
            \/ /\ \/ pc = "format" /\ pc' = "waiting"
                  \/ pc = "write" /\ pc' = "deinit"
               /\ UNCHANGED file
               /\ AsRead(file) = list
<1> USE ProvisioningAssumption
<1>1. /\ Len(file) \in 0..ListLen /\ list \in [Slots -> Values]
      /\ pc \in {"format", "write"}
      /\ \A i \in 1..Len(file) :
           file[i] = list[i] \/ (i = Len(file) /\ file[i] = Half(list[i]))
  BY WriteSlotFile DEF WriteSlot, TypeInv, TypeOK, FileInv
<1>2. /\ UNCHANGED <<listVars, nvs, WifiStatus, input, told, lost>>
      /\ file' # None
  BY WriteSlotFile
<1>3. CASE UNCHANGED pc
  <2>1. \A i \in 1..Len(file') :
          \/ file'[i] = list[i]
          \/ i = Len(file') /\ file'[i] = Half(list[i])
    BY <1>1, <1>3, WriteSlotFile
       DEF AfterWriting, LastIsWhole, MakesWhole, BeginsNext, Completes
  <2> QED
    BY <1>1, <1>2, <1>3, <2>1
<1>4. CASE Completes
  <2>1. \A s \in Slots : AsRead(file)[s] = list[s]
    BY <1>1, <1>4 DEF Completes, LastIsWhole, AsRead, Slots
  <2>2. AsRead(file) = list
    BY <1>1, <2>1 DEF AsRead
  <2>3. \/ pc = "format" /\ pc' = "waiting"
        \/ pc = "write" /\ pc' = "deinit"
    BY <1>1, <1>4 DEF Completes, AfterWriting
  <2> QED
    BY <1>1, <1>2, <1>4, <2>2, <2>3 DEF Completes
<1> QED
  BY <1>3, <1>4, WriteSlotFile DEF MakesWhole, BeginsNext

LEMMA FileNext == TypeInv /\ FileInv /\ [Next]_vars => FileInv'
<1> SUFFICES ASSUME TypeInv, FileInv, [Next]_vars PROVE FileInv'
  OBVIOUS
<1>t. /\ wifi_entry_index \in Slots /\ nvs \in Slots \cup {None}
      /\ list \in [Slots -> Values] /\ None \notin Slots
  BY ProvisioningAssumption DEF TypeInv, TypeOK, Slots
<1>1. CASE Quiet
  <2>1. /\ UNCHANGED <<list, wifi_entry_index, nvs, file>>
        /\ \/ pc' = pc
           \/ pc \in Settled /\ pc' \in Settled \ {"store"}
    BY <1>1, QuietStep DEF listVars, flashVars
  <2>2. pc \in Settled => pc \notin {"boot", "truncate", "format", "write"}
    BY DEF Settled
  <2>3. pc' \in Settled => pc' \notin {"boot", "truncate", "format", "write"}
    BY DEF Settled
  <2> QED
    BY <2>1, <2>2, <2>3 DEF FileInv, AsRead, AllSlots, Previous
<1>2. CASE Boot
  <2>1. CASE file = None
    <3>1. /\ pc' = "format" /\ file' = <<>> /\ file' # None /\ Len(file') = 0
          /\ UNCHANGED <<list, wifi_entry_index, nvs>>
      BY <1>2, <2>1, EmptyFile DEF Boot, Goto
    <3> QED
      BY <3>1 DEF FileInv, Settled
  <2>2. CASE file # None
    <3>1. /\ pc' = "waiting" /\ list' = AsRead(file)
          /\ UNCHANGED <<wifi_entry_index, nvs, file>>
      BY <1>2, <2>2 DEF Boot, Goto
    <3> QED
      BY <2>2, <3>1 DEF FileInv, Settled, AsRead
  <2> QED
    BY <2>1, <2>2
<1>3. CASE Index
  <2>1. /\ pc = "index" /\ pc' \in {"store", "deinit"}
        /\ nvs' = wifi_entry_index' /\ nvs' \in Slots
        /\ UNCHANGED <<list, file>>
    BY <1>3, <1>t DEF Index, Goto
  <2> QED
    BY <1>t, <2>1 DEF FileInv, Settled, AsRead
<1>4. CASE Store
  <2>1. /\ pc = "store" /\ pc' = "truncate" /\ UNCHANGED file
        /\ list' = [list EXCEPT ![wifi_entry_index] = input]
        /\ nvs' = NextIndex(wifi_entry_index)
    BY <1>4 DEF Store, Goto
  <2>2. nvs' \in Slots /\ Previous(nvs') = wifi_entry_index
    BY <1>t, <2>1, NextIndexIsSlot
  <2>3. list = AsRead(file) /\ file # None
    BY <2>1 DEF FileInv, Settled
  <2>4. \A s \in Slots \ {Previous(nvs')} : AsRead(file)[s] = list'[s]
    BY <1>t, <2>1, <2>2, <2>3
  <2> QED
    BY <1>t, <2>1, <2>2, <2>3, <2>4 DEF FileInv, Settled, AsRead, Previous
<1>5. CASE Truncate
  <2>1. /\ pc' = "write" /\ file' = <<>> /\ file' # None /\ Len(file') = 0
        /\ UNCHANGED <<list, wifi_entry_index, nvs>>
    BY <1>5, EmptyFile DEF Truncate, Goto, listVars
  <2> QED
    BY <2>1 DEF FileInv, Settled
<1>6. CASE WriteSlot
  <2>1. UNCHANGED <<list, wifi_entry_index, nvs>> /\ file' # None
    BY <1>6, WriteSlotStep DEF listVars
  <2>2. CASE /\ UNCHANGED pc
             /\ \A i \in 1..Len(file') :
                  \/ file'[i] = list[i]
                  \/ i = Len(file') /\ file'[i] = Half(list[i])
    <3>1. pc \in {"format", "write"}
      BY <1>6 DEF WriteSlot
    <3> QED
      BY <2>1, <2>2, <3>1 DEF FileInv, Settled
  <2>3. CASE pc' \in {"waiting", "deinit"} /\ UNCHANGED file /\ AsRead(file) = list
    <3>1. AsRead(file)' = AsRead(file)
      BY <2>3 DEF AsRead
    <3>2. list = AsRead(file) /\ pc' \in Settled \ {"store"}
      BY <2>3 DEF Settled
    <3> QED
      BY <2>1, <2>3, <3>1, <3>2 DEF FileInv
  <2> QED
    BY <1>6, <2>2, <2>3, WriteSlotStep
<1>7. CASE PowerLoss
  BY <1>7 DEF PowerLoss, Goto, FileInv, flashVars, Settled, AllSlots
<1> QED
  BY <1>1, <1>2, <1>3, <1>4, <1>5, <1>6, <1>7, LoudOrQuiet

-----------------------------------------------------------------------------
(* What a phone is told is kept *)

KeptInv == TypeInv /\ FileInv /\ ToldInv

LEMMA ToldNext == KeptInv /\ [Next]_vars => ToldInv'
<1> SUFFICES ASSUME TypeInv, FileInv, ToldInv, [Next]_vars,
                    NEW s \in Slots, told'[s] # None, s \notin lost'
             PROVE  /\ file' # None /\ pc' # "format"
                    /\ pc' \in {"truncate", "write"} => list'[s] = told'[s]
                    /\ BeingTold(s)' => told'[s] = input'
                    /\ pc' \notin {"truncate", "write"} /\ ~BeingTold(s)' =>
                         AsRead(file)'[s] = told'[s]
  BY DEF KeptInv, ToldInv
<1> USE DEF Goto, BeingTold, Unstored, OldestSlot
<1>t. /\ wifi_entry_index \in Slots /\ nvs \in Slots \cup {None}
      /\ list \in [Slots -> Values] /\ None \notin Slots
      /\ told \in [Slots -> Networks \cup {None}]
  BY ProvisioningAssumption DEF TypeInv, TypeOK, Slots
<1>s. ASSUME told[s] # None, s \notin lost
      PROVE  /\ file # None /\ pc # "format"
             /\ pc \in {"truncate", "write"} => list[s] = told[s]
             /\ BeingTold(s) => told[s] = input
             /\ pc \notin {"truncate", "write"} /\ ~BeingTold(s) =>
                  AsRead(file)[s] = told[s]
  BY <1>s DEF ToldInv
<1>r. file' = file => AsRead(file)' = AsRead(file)
  BY DEF AsRead
<1>1. CASE Boot
  BY <1>1, <1>r, <1>s DEF Boot, histVars
<1>2. CASE Request \/ SeePhone \/ TimeOut \/ ScanFails \/ ScanSucceeds
  BY <1>2, <1>r, <1>s DEF Request, SeePhone, TimeOut, ScanFails, ScanSucceeds,
                          histVars, flashVars
<1>3. CASE ReadValue \/ Parse \/ DialogEnds
  BY <1>3, <1>r, <1>s DEF ReadValue, Parse, DialogEnds, histVars, flashVars
<1>4. CASE Join
  BY <1>4, <1>r, <1>s DEF Join, flashVars
<1>5. CASE Report
  <2>1. /\ pc = "report" /\ pc' = "notify" /\ file # None
        /\ UNCHANGED <<file, nvs, input, WifiStatus>>
    BY <1>5 DEF Report, FileInv, flashVars, inputVars
  <2>2. CASE WifiStatus /\ s = OldestSlot
    <3>1. told'[s] = input'
      BY <1>5, <1>t, <2>1, <2>2 DEF Report
    <3> QED
      BY <2>1, <2>2, <3>1
  <2>3. CASE ~(WifiStatus /\ s = OldestSlot)
    <3>1. told'[s] = told[s] /\ s \notin lost
      BY <1>5, <1>t, <2>3 DEF Report
    <3> QED
      BY <1>r, <1>s, <2>1, <2>3, <3>1
  <2> QED
    BY <2>2, <2>3
<1>6. CASE NotifyEnds \/ Reported
  BY <1>6, <1>r, <1>s DEF NotifyEnds, Reported, histVars, flashVars, inputVars
<1>7. CASE Index
  <2>1. /\ pc = "index" /\ pc' = IF WifiStatus THEN "store" ELSE "deinit"
        /\ nvs' = IF nvs = None THEN wifi_entry_index ELSE nvs
        /\ UNCHANGED <<file, told, lost, input, WifiStatus>>
    BY <1>7 DEF Index, histVars, inputVars
  <2>2. OldestSlot' = OldestSlot
    BY <1>t, <2>1 DEF FileInv
  <2> QED
    BY <1>r, <1>s, <2>1, <2>2
<1>8. CASE Store
  <2>1. /\ pc = "store" /\ pc' = "truncate"
        /\ UNCHANGED <<file, told, lost, input>>
        /\ list' = [list EXCEPT ![wifi_entry_index] = input]
    BY <1>8 DEF Store, histVars, inputVars
  <2>2. /\ WifiStatus /\ OldestSlot = wifi_entry_index
        /\ list = AsRead(file)
    BY <1>t, <2>1 DEF TypeInv, StatusInv, FileInv, Settled
  <2> QED
    BY <1>s, <1>t, <2>1, <2>2
<1>9. CASE Truncate
  <2>1. /\ pc = "truncate" /\ pc' = "write" /\ file' # None
        /\ UNCHANGED <<list, told, lost>>
    BY <1>9, EmptyFile DEF Truncate, listVars, histVars
  <2> QED
    BY <1>s, <2>1
<1>10. CASE WriteSlot
  <2>1. UNCHANGED <<list, told, lost>> /\ file' # None
    BY <1>10, WriteSlotStep DEF listVars
  <2>2. pc = "write"
    BY <1>10, <1>s, <2>1, WriteSlotStep
  <2>3. CASE UNCHANGED pc
    BY <1>s, <2>1, <2>2, <2>3
  <2>4. CASE pc' = "deinit" /\ UNCHANGED file /\ AsRead(file) = list
    BY <1>r, <1>s, <2>1, <2>2, <2>4
  <2> QED
    BY <1>10, <2>2, <2>3, <2>4, WriteSlotStep
<1>11. CASE Deinit
  BY <1>11, <1>r, <1>s DEF Deinit, flashVars
<1>12. CASE Connect \/ Disconnect
  BY <1>12, <1>r, <1>s DEF Connect, Disconnect, histVars, flashVars, listVars,
                           inputVars
<1>13. CASE \E value \in Networks \cup {Incomplete, NoDelim} : Write(value)
  BY <1>13, <1>r, <1>s DEF Write, histVars, flashVars, listVars
<1>14. CASE PowerLoss
  <2>1. /\ pc' = "boot" /\ UNCHANGED <<file, nvs, told>>
        /\ s \notin lost /\ s \notin Unsaved
    BY <1>14 DEF PowerLoss, flashVars
  <2>2. CASE pc = "truncate"
    BY <1>r, <1>s, <2>1, <2>2 DEF FileInv, Unsaved
  <2>3. CASE pc = "write"
    <3>1. s <= Len(file) /\ file[s] = list[s]
      BY <2>1, <2>3 DEF Unsaved, Slots, TypeInv, TypeOK
    <3> QED
      BY <1>r, <1>s, <2>1, <2>3, <3>1 DEF AsRead
  <2>4. CASE pc \notin {"truncate", "write"}
    <3>1. ~BeingTold(s)
      BY <2>1, <2>4 DEF Unsaved
    <3> QED
      BY <1>r, <1>s, <2>1, <2>4, <3>1
  <2> QED
    BY <2>2, <2>3, <2>4
<1>15. CASE UNCHANGED vars
  BY <1>15, <1>r, <1>s DEF vars, histVars, flashVars, listVars, inputVars
<1> QED
  BY <1>1, <1>2, <1>3, <1>4, <1>5, <1>6, <1>7, <1>8, <1>9, <1>10, <1>11, <1>12,
     <1>13, <1>14, <1>15 DEF Next, BleTask

LEMMA KeptInductive == Spec => []KeptInv
<1>1. Init => FileInv /\ ToldInv
  BY DEF Init, FileInv, ToldInv, Settled, AllSlots
<1>2. Init => KeptInv
  BY TypeInit, <1>1 DEF KeptInv
<1>3. KeptInv /\ [Next]_vars => KeptInv'
  BY TypeNext, FileNext, ToldNext DEF KeptInv
<1> QED
  BY <1>2, <1>3, PTL DEF Spec

\* Every network a phone was told to work stays in its slot, in RAM and on file,
\* until as many later ones as the list is long are saved, through BLE modes
\* that fail and power losses - all but what a power loss finds in RAM alone.
THEOREM WhatWasToldIsKept == Spec => []ToldIsKept
<1>1. KeptInv => ToldIsKept
  BY DEF KeptInv, ToldInv, FileInv, ToldIsKept, Settled, BeingTold, Unstored
<1> QED
  BY KeptInductive, <1>1, PTL

-----------------------------------------------------------------------------
(* The list, the index in the flash and the file implement NetworkRing *)

LEMMA AppendTail ==
  ASSUME NEW S, NEW N \in Nat \ {0},
         NEW r \in [1..N -> S], NEW q \in [1..N -> S],
         \A i \in 1..(N - 1) : q[i] = r[i + 1]
  PROVE  q = Append(Tail(r), q[N]) /\ Head(r) = r[1]
<1>1. r \in Seq(S) /\ Len(r) = N /\ q \in Seq(S) /\ Len(q) = N
  OBVIOUS
<1>2. r # <<>>
  BY <1>1
<1>3. Tail(r) \in Seq(S) /\ Len(Tail(r)) = N - 1
  BY <1>1, <1>2
<1>4. \A i \in 1..(N - 1) : Tail(r)[i] = r[i + 1]
  BY <1>1, <1>2
<1>5. q[N] \in S
  OBVIOUS
<1> DEFINE t == Append(Tail(r), q[N])
<1>6. t \in Seq(S) /\ Len(t) = N
  BY <1>3, <1>5
<1>7. \A i \in 1..N : t[i] = q[i]
  BY <1>3, <1>4, <1>5
<1>8. q = t
  BY <1>1, <1>6, <1>7, SeqEqual
<1> QED
  BY <1>1, <1>2, <1>8

LEMMA SlotAtIsSlot ==
  ASSUME nvs \in Slots \cup {None}
  PROVE  /\ \A i \in Slots : SlotAt(i) \in Slots
         /\ nvs # None => SlotAt(ListLen) = Previous(nvs)
<1>1. OldestSlot \in 1..ListLen /\ ListLen \in Nat \ {0}
  BY ProvisioningAssumption DEF OldestSlot, Slots
<1>2. \A i \in Slots : SlotAt(i) \in Slots
  BY <1>1 DEF SlotAt, Slots
<1>3. nvs # None => SlotAt(ListLen) = Previous(nvs)
  BY <1>1 DEF SlotAt, OldestSlot, Previous
<1> QED
  BY <1>2, <1>3

LEMMA KeptIsList ==
  ASSUME TypeInv, FileInv, pc # "boot"
  PROVE  Kept = list
BY DEF Kept, FileInv, TypeInv, TypeOK, Settled

LEMMA RingStutters ==
  ASSUME UNCHANGED <<Kept, OldestSlot, Dropped>>
  PROVE  UNCHANGED Ring!vars
BY DEF Ring!vars, Rotated, SlotAt

LEMMA RingInit == Init => Ring!Init
<1> SUFFICES ASSUME Init PROVE Ring!Init
  OBVIOUS
<1>1. OldestSlot = 1 /\ Kept = AllSlots(Empty) /\ pc # "truncate"
  BY DEF Init, OldestSlot, Kept
<1>2. \A i \in 1..ListLen : SlotAt(i) = i
  BY <1>1, ProvisioningAssumption DEF SlotAt
<1>3. Rotated(Kept) = [i \in 1..ListLen |-> Empty]
  BY <1>1, <1>2 DEF Rotated, AllSlots, Slots
<1> QED
  BY <1>1, <1>3 DEF Ring!Init, Dropped

\* Storing a network drops the oldest and appends the new one.
LEMMA StoreSaves ==
  ASSUME TypeInv, FileInv, Store
  PROVE  Ring!Save(input)
<1> USE ProvisioningAssumption
<1>1. /\ wifi_entry_index \in Slots /\ nvs = wifi_entry_index
      /\ pc = "store" /\ pc' = "truncate"
      /\ list' = [list EXCEPT ![wifi_entry_index] = input]
      /\ nvs' = NextIndex(nvs) /\ UNCHANGED file
      /\ list \in [Slots -> Values] /\ list = AsRead(file)
  BY DEF Store, Goto, TypeInv, TypeOK, FileInv, Settled
<1>2. /\ input \in Values /\ None \notin Slots
      /\ nvs' \in Slots /\ nvs \in Slots /\ Previous(nvs') = nvs
  <2>1. input \in Values
    BY <1>1 DEF TypeInv, TypeOK, StatusInv, Values
  <2>2. None \notin Slots
    BY DEF Slots
  <2> QED
    BY <1>1, <2>1, <2>2, NextIndexIsSlot
<1>3. Kept = list /\ Kept' = list'
  BY <1>1, KeptIsList DEF Kept
<1>4. OldestSlot = nvs /\ OldestSlot' = NextIndex(nvs)
  BY <1>1, <1>2 DEF OldestSlot
<1> DEFINE r == Rotated(Kept)
           q == Rotated(Kept)'
<1>5. SlotAt(1) = nvs /\ SlotAt(ListLen)' = nvs
  BY <1>1, <1>4 DEF SlotAt, NextIndex, Slots
<1>6. \A i \in 1..(ListLen - 1) : /\ SlotAt(i)' = SlotAt(i + 1)
                                  /\ SlotAt(i + 1) \in Slots \ {nvs}
  BY <1>1, <1>4 DEF SlotAt, NextIndex, Slots
<1>7. r \in [1..ListLen -> Values] /\ q \in [1..ListLen -> Values]
  <2>1. list' \in [Slots -> Values]
    BY <1>1, <1>2
  <2>2. \A i \in Slots : SlotAt(i) \in Slots /\ SlotAt(i)' \in Slots
    BY <1>1, <1>4 DEF SlotAt, NextIndex, Slots
  <2>3. r = [i \in Slots |-> list[SlotAt(i)]]
    BY <1>3 DEF Rotated
  <2>4. q = [i \in Slots |-> list'[SlotAt(i)']]
    BY <1>3 DEF Rotated, SlotAt
  <2> QED
    BY <1>1, <2>1, <2>2, <2>3, <2>4 DEF Slots
<1>8. r[1] = list[nvs] /\ q[ListLen] = input
  BY <1>1, <1>2, <1>3, <1>5 DEF Rotated, Slots, SlotAt
<1>9. \A i \in 1..(ListLen - 1) : q[i] = r[i + 1]
  BY <1>1, <1>3, <1>6 DEF Rotated, Slots, SlotAt
<1>10. q = Append(Tail(r), input) /\ Head(r) = list[nvs]
  <2>1. q = Append(Tail(r), q[ListLen]) /\ Head(r) = r[1]
    BY <1>7, <1>9, AppendTail
  <2> QED
    BY <1>8, <2>1
<1>11. Dropped' = list[nvs]
  BY <1>1, <1>2 DEF Dropped, AsRead, Previous
<1> QED
  BY <1>10, <1>11 DEF Ring!Save

\* A power loss brings back what the file still has, or spoils entries.
LEMMA PowerLossOnRing ==
  ASSUME TypeInv, FileInv, PowerLoss
  PROVE  Ring!Revert \/ Ring!Spoil \/ UNCHANGED Ring!vars
<1> USE ProvisioningAssumption
<1>1. /\ pc' = "boot" /\ UNCHANGED <<nvs, file>>
      /\ list' = AllSlots(Empty)
      /\ list \in [Slots -> Values] /\ nvs \in Slots \cup {None}
  BY DEF PowerLoss, Goto, flashVars, TypeInv, TypeOK
<1>2. OldestSlot' = OldestSlot /\ Dropped' = None /\ AsRead(file)' = AsRead(file)
  BY <1>1 DEF OldestSlot, Dropped, AsRead
<1>3. file # None => Kept' = AsRead(file)
  BY <1>1, <1>2 DEF Kept
<1>4. CASE file = None
  <2>1. pc = "boot" /\ list' = list
    BY <1>1, <1>4 DEF FileInv
  <2>2. Kept' = Kept /\ Dropped = None
    BY <1>1, <1>4, <2>1 DEF Kept, Dropped
  <2> QED
    BY <1>2, <2>2, RingStutters
<1>5. CASE file # None /\ pc \notin {"truncate", "write", "format"}
  <2>1. Kept' = Kept /\ Dropped = None
    BY <1>3, <1>5 DEF Kept, Dropped
  <2> QED
    BY <1>2, <2>1, RingStutters
<1>6. CASE file # None /\ pc = "truncate"
  <2>1. /\ Kept = list /\ nvs # None /\ Dropped = AsRead(file)[Previous(nvs)]
        /\ \A s \in Slots \ {Previous(nvs)} : AsRead(file)[s] = list[s]
    BY <1>6 DEF FileInv, Kept, Dropped
  <2>2. Dropped # None
    <3>1. AsRead(file) \in [Slots -> Values]
      BY <1>6, AsReadType DEF TypeInv, TypeOK
    <3>2. Previous(nvs) \in Slots
      BY <1>1, <2>1, PreviousIsSlot
    <3>3. None \notin Values
      BY DEF Values
    <3> QED
      BY <2>1, <3>1, <3>2, <3>3
  <2>3. \A i \in Slots : SlotAt(i) \in Slots /\ SlotAt(i)' = SlotAt(i)
    BY <1>1, <1>2, SlotAtIsSlot DEF SlotAt
  <2>4. SlotAt(ListLen) = Previous(nvs)
    BY <1>1, <2>1, SlotAtIsSlot
  <2>5. \A i \in Slots \ {ListLen} : SlotAt(i) # Previous(nvs)
    BY <1>1, <2>1 DEF SlotAt, OldestSlot, Previous, Slots
  <2>6. Rotated(Kept)' = [i \in Slots |-> AsRead(file)[SlotAt(i)]]
    BY <1>3, <1>6, <2>3 DEF Rotated
  <2>7. Rotated(Kept) = [i \in Slots |-> list[SlotAt(i)]]
    BY <2>1 DEF Rotated
  <2>8. Rotated(Kept)' = [Rotated(Kept) EXCEPT ![ListLen] = Dropped]
    BY <2>1, <2>3, <2>4, <2>5, <2>6, <2>7
  <2> QED
    BY <1>2, <2>2, <2>8 DEF Ring!Revert
<1>7. CASE file # None /\ pc \in {"write", "format"}
  <2>1. /\ Kept = list /\ Dropped = None
        /\ \A i \in 1..Len(file) : file[i] \in {list[i], Half(list[i])}
        /\ file \in Seq(Values)
    BY <1>7 DEF FileInv, Kept, Dropped, TypeInv, TypeOK
  <2>2. \A s \in Slots : AsRead(file)[s] \in {list[s]} \cup {Null, Torn}
    BY <2>1 DEF AsRead, Slots, Half
  <2>3. \A i \in Slots : SlotAt(i) \in Slots /\ SlotAt(i)' = SlotAt(i)
    BY <1>1, <1>2, SlotAtIsSlot DEF SlotAt
  <2>4. Rotated(Kept)' = [i \in Slots |-> AsRead(file)[SlotAt(i)]]
    BY <1>3, <1>7, <2>3 DEF Rotated
  <2>5. Rotated(Kept) = [i \in Slots |-> list[SlotAt(i)]]
    BY <2>1 DEF Rotated
  <2>6. /\ DOMAIN Rotated(Kept)' = 1..ListLen
        /\ \A i \in 1..ListLen :
             Rotated(Kept)'[i] \in {Rotated(Kept)[i]} \cup {Null, Torn}
    BY <2>2, <2>3, <2>4, <2>5 DEF Slots
  <2> QED
    BY <1>2, <2>1, <2>6 DEF Ring!Spoil
<1> QED
  BY <1>4, <1>5, <1>6, <1>7

LEMMA RingNext == KeptInv /\ [Next]_vars => [Ring!Next]_Ring!vars
<1> SUFFICES ASSUME TypeInv, FileInv, [Next]_vars
             PROVE  [Ring!Next]_Ring!vars
  BY DEF KeptInv
<1>n. FileInv'
  BY FileNext
<1>1. CASE Quiet
  <2>1. /\ UNCHANGED <<list, nvs, file>>
        /\ \/ pc' = pc
           \/ pc \in Settled /\ pc' \in Settled
    BY <1>1, QuietStep DEF listVars, flashVars
  <2>2. AsRead(file)' = AsRead(file) /\ Previous(nvs)' = Previous(nvs)
    BY <2>1 DEF AsRead, Previous
  <2>3. pc \in Settled => list = AsRead(file) /\ pc # "truncate"
    BY DEF FileInv, Settled
  <2>4. pc' \in Settled => pc' # "truncate"
    BY DEF Settled
  <2>5. UNCHANGED <<Kept, OldestSlot, Dropped>>
    BY <2>1, <2>2, <2>3, <2>4 DEF Kept, OldestSlot, Dropped
  <2> QED
    BY <2>5, RingStutters
<1>2. CASE Boot
  <2>1. pc = "boot" /\ pc' \in {"format", "waiting"} /\ UNCHANGED nvs
    BY <1>2 DEF Boot, Goto
  <2>2. CASE file = None
    <3>1. pc' = "format" /\ UNCHANGED list
      BY <1>2, <2>2 DEF Boot, Goto
    <3>2. Kept' = Kept
      BY <2>2, <3>1 DEF Kept
    <3> QED
      BY <2>1, <3>2, RingStutters DEF OldestSlot, Dropped
  <2>3. CASE file # None
    <3>1. pc' = "waiting" /\ list' = AsRead(file) /\ UNCHANGED file
      BY <1>2, <2>3 DEF Boot, Goto
    <3>2. Kept' = Kept
      BY <2>1, <2>3, <3>1 DEF Kept, AsRead
    <3> QED
      BY <2>1, <3>2, RingStutters DEF OldestSlot, Dropped
  <2> QED
    BY <2>2, <2>3
<1>3. CASE Index
  <2>1. /\ pc = "index" /\ pc' \in {"store", "deinit"}
        /\ nvs' = IF nvs = None THEN wifi_entry_index ELSE nvs
        /\ UNCHANGED <<list, file>>
    BY <1>3 DEF Index, Goto
  <2>2. OldestSlot' = OldestSlot
    <3>1. wifi_entry_index # None
      BY ProvisioningAssumption DEF TypeInv, TypeOK, Slots
    <3> QED
      BY <2>1, <3>1 DEF OldestSlot, FileInv
  <2>3. Kept' = Kept
    BY <2>1 DEF Kept, AsRead
  <2> QED
    BY <2>1, <2>2, <2>3, RingStutters DEF Dropped
<1>4. CASE Store
  <2>1. input \in Networks
    BY <1>4, ProvisioningAssumption DEF Store, TypeInv, TypeOK, StatusInv
  <2>2. Ring!Save(input)
    BY <1>4, StoreSaves
  <2> QED
    BY <2>1, <2>2 DEF Ring!Next
<1>5. CASE Truncate
  <2>1. pc = "truncate" /\ pc' = "write" /\ UNCHANGED <<list, nvs>>
    BY <1>5 DEF Truncate, Goto, listVars
  <2>2. UNCHANGED <<Kept, OldestSlot>> /\ Dropped' = None
    BY <2>1 DEF Kept, OldestSlot, Dropped
  <2>3. Rotated(Kept)' = Rotated(Kept)
    BY <2>2 DEF Rotated, SlotAt
  <2> QED
    BY <2>2, <2>3 DEF Ring!Next, Ring!Overwrite
<1>6. CASE WriteSlot
  <2>1. pc \in {"format", "write"} /\ UNCHANGED <<list, nvs>>
    BY <1>6, WriteSlotStep DEF WriteSlot, listVars
  <2>2. pc' \in {"format", "write", "waiting", "deinit"}
    BY <1>6, <2>1, WriteSlotStep
  <2>3. Kept = list
    BY <2>1 DEF Kept
  <2>4. Kept' = list
    BY <1>n, <2>1, <2>2 DEF Kept, FileInv, Settled
  <2> QED
    BY <2>1, <2>2, <2>3, <2>4, RingStutters DEF OldestSlot, Dropped
<1>7. CASE PowerLoss
  BY <1>7, PowerLossOnRing DEF Ring!Next
<1> QED
  BY <1>1, <1>2, <1>3, <1>4, <1>5, <1>6, <1>7, LoudOrQuiet

\* The saved networks are a ring in which each new one drops the oldest, for
\* a list of any length, and a power loss at any step only takes back the
\* newest or spoils entries.
THEOREM ImplementsRing == Spec => KeepsRing
<1>1. KeptInv /\ [Next]_vars => [Ring!Next]_Ring!vars
  BY RingNext
<1> QED
  BY KeptInductive, RingInit, <1>1, PTL DEF Spec, Ring!Spec, KeepsRing
=============================================================================
