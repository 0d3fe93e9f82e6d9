--------------------------- MODULE TouchPollProofs ---------------------------
(***************************************************************************)
(* Theorems about TouchPoll, for any touch times, queue length and number  *)
(* of power losses.                                                        *)
(***************************************************************************)
EXTENDS TouchPoll, TLAPS

-----------------------------------------------------------------------------
(* The range of the volume *)

\* VolumnInRange leaves out the moment between the step and the turn.  There
\* the volume is at most one step outside, on the side the sweep moves to, so
\* that the turn brings it back and the byte never wraps.
SweepInv ==
  /\ pc = "turn" => IF volumn_stroble THEN volumn \in 8..25 ELSE volumn \in 0..17
  /\ VolumnInRange

\* Each count reaches zero only on its way through the notification that sets
\* it back.
CountInv ==
  /\ pc \in {"start", "poll"} => touch_count > 0 /\ volumn_count > 0
  /\ pc \in {"adjust", "turn", "send", "persist"} => touch_count > 0
  /\ pc = "start" => audioLen = 0 /\ bleLen = 0

LEMMA TypeNext ==
  TypeOK /\ SweepInv /\ CountInv /\ [Next]_vars
    => TypeOK' /\ SweepInv' /\ CountInv'
<1> SUFFICES ASSUME TypeOK, SweepInv, CountInv, [Next]_vars
             PROVE  TypeOK' /\ SweepInv' /\ CountInv'
  OBVIOUS
<1> USE TouchPollAssumption
<1> USE DEF TypeOK, SweepInv, CountInv, VolumnInRange, NotFound, Unset,
            BleQueueLen, DefaultVolumn, PostAudio, touchVars, audioVars, bleVars
<1>1. CASE PowerLoss
  BY <1>1 DEF PowerLoss
<1>2. CASE ReadVolumn
  BY <1>2 DEF ReadVolumn
<1>3. ASSUME NEW t4 \in BOOLEAN, NEW t9 \in BOOLEAN, Poll(t4, t9)
      PROVE  TypeOK' /\ SweepInv' /\ CountInv'
  BY <1>3 DEF Poll
<1>4. CASE NotifyBle
  BY <1>4 DEF NotifyBle
<1>5. CASE Adjust
  BY <1>5 DEF Adjust, Byte
<1>6. CASE Turn
  <2>1. volumn' \in 4..21
    <3>1. CASE volumn_stroble
      <4>1. volumn \in 8..25
        BY <1>6, <3>1 DEF Turn
      <4>2. volumn' = IF volumn > 19 THEN 21 ELSE volumn
        BY <1>6, <3>1 DEF Turn
      <4> QED
        BY <4>1, <4>2
    <3>2. CASE ~volumn_stroble
      BY <1>6, <3>2 DEF Turn
    <3> QED
      BY <3>1, <3>2
  <2>2. volumn_stroble' \in BOOLEAN
    BY <1>6 DEF Turn
  <2>3. pc' = "send" /\ UNCHANGED <<touch_count, volumn_count, flash,
                                   audioVars, bleVars, losses>>
    BY <1>6 DEF Turn
  <2> QED
    BY <1>6, <2>1, <2>2, <2>3 DEF Turn
<1>7. CASE SendVolumn
  BY <1>7 DEF SendVolumn
<1>8. CASE Persist
  BY <1>8 DEF Persist
<1>9. CASE GotTouch
  BY <1>9 DEF GotTouch, Running
<1>10. CASE AudioReceive
  BY <1>10 DEF AudioReceive
<1>11. CASE BleTask1
  <2>1. bleLen' \in 0..BleQueueLen
    BY <1>11 DEF BleTask1
  <2>2. audioLen' \in 0..AudioQueueLen /\ pc # "start"
    BY <1>11 DEF BleTask1
  <2>3. ble' \in {"waiting", "suspended", "provisioning"}
    BY <1>11 DEF BleTask1
  <2> QED
    BY <1>11, <2>1, <2>2, <2>3 DEF BleTask1
<1>12. CASE UNCHANGED vars
  BY <1>12 DEF vars
<1> QED
  BY <1>1, <1>2, <1>3, <1>4, <1>5, <1>6, <1>7, <1>8, <1>9, <1>10, <1>11, <1>12
     DEF Next, TouchPoll

\* At boot, and in every state.
LEMMA SweepCorrect == Spec => [](TypeOK /\ SweepInv /\ CountInv)
<1>1. Init => TypeOK /\ SweepInv /\ CountInv
  BY TouchPollAssumption
     DEF Init, TypeOK, SweepInv, CountInv, VolumnInRange, NotFound, Unset,
         BleQueueLen, DefaultVolumn
<1> QED
  BY <1>1, TypeNext, PTL DEF Spec

\* Every reachable state of TouchPoll has its type; no count passes zero and
\* the volume stays a byte.
THEOREM TypeCorrect == Spec => []TypeOK
BY SweepCorrect, PTL

\* However long the pad is touched and wherever the power fails, the volume
\* TouchPoll leaves behind, in memory and in the flash, is one the library has.
THEOREM VolumnStaysInRange == Spec => []VolumnInRange
<1>1. SweepInv => VolumnInRange
  BY DEF SweepInv
<1> QED
  BY <1>1, SweepCorrect, PTL

-----------------------------------------------------------------------------
(* Memory, flash and library agree *)

\* Outside DecideVolumnStrobe the flash has the volume; and when no event
\* waits, the library has it too, except between the step and the event.
AgreeInv ==
  /\ pc \in {"poll", "notify", "adjust"} => flash = volumn
  /\ pc = "start" => applied = Unset
  /\ pc \notin {"turn", "send"} /\ audioLen = 0 => applied \in {Unset, volumn}

LEMMA AgreeNext ==
  TypeOK /\ CountInv /\ AgreeInv /\ [Next]_vars => AgreeInv'
<1> SUFFICES ASSUME TypeOK, CountInv, AgreeInv, [Next]_vars PROVE AgreeInv'
  OBVIOUS
<1> USE TouchPollAssumption
<1> USE DEF TypeOK, CountInv, AgreeInv, NotFound, Unset, PostAudio, touchVars,
            audioVars, bleVars
<1>1. CASE PowerLoss
  BY <1>1 DEF PowerLoss
<1>2. CASE ReadVolumn
  BY <1>2 DEF ReadVolumn
<1>3. ASSUME NEW t4 \in BOOLEAN, NEW t9 \in BOOLEAN, Poll(t4, t9) PROVE AgreeInv'
  BY <1>3 DEF Poll
<1>4. CASE NotifyBle
  BY <1>4 DEF NotifyBle
<1>5. CASE Adjust
  BY <1>5 DEF Adjust
<1>6. CASE Turn
  BY <1>6 DEF Turn
<1>7. CASE SendVolumn
  BY <1>7 DEF SendVolumn
<1>8. CASE Persist
  BY <1>8 DEF Persist
<1>9. CASE GotTouch
  BY <1>9 DEF GotTouch, Running
<1>10. CASE AudioReceive
  BY <1>10 DEF AudioReceive
<1>11. CASE BleTask1
  BY <1>11 DEF BleTask1
<1>12. CASE UNCHANGED vars
  BY <1>12 DEF vars
<1> QED
  BY <1>1, <1>2, <1>3, <1>4, <1>5, <1>6, <1>7, <1>8, <1>9, <1>10, <1>11, <1>12
     DEF Next, TouchPoll

\* At boot, and in every state.
LEMMA AgreeCorrect == Spec => []AgreeInv
<1>1. Init => AgreeInv
  BY DEF Init, AgreeInv
<1> QED
  BY <1>1, SweepCorrect, AgreeNext, PTL DEF Spec

\* Between two changes a power loss costs no change of volume.
THEOREM VolumnIsPersisted == Spec => []VolumnPersisted
<1>1. AgreeInv => VolumnPersisted
  BY DEF AgreeInv, VolumnPersisted
<1> QED
  BY <1>1, AgreeCorrect, PTL

\* No event overtakes the store it announces, and a dropped event loses no
\* change: whatever filled the queue makes AudioTask read the volume as well.
THEOREM VolumnIsApplied == Spec => []VolumnApplied
<1>1. AgreeInv => VolumnApplied
  BY DEF AgreeInv, VolumnApplied
<1> QED
  BY <1>1, AgreeCorrect, PTL
=============================================================================
