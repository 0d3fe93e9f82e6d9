----------------------------- MODULE TouchPoll -----------------------------
(***************************************************************************)
(* The two pads that are polled, not interrupt driven: T9 changes the      *)
(* volume and T4 asks for BLE mode.                                        *)
(*                                                                         *)
(* TouchPoll (core 1) counts, once a second, how long each pad was         *)
(* touched, then sweeps the volume up and down, tells AudioTask with a     *)
(* kvolumn event and writes the volume to the flash (NVS), or posts a      *)
(* request to BleTask1.  AudioTask (core 0) reads the global volumn        *)
(* whenever it takes an event, also between two stores of TouchPoll.       *)
(* BleTask1 serves a request by suspending xTaskFireBase.  The power may   *)
(* fail between any two steps.                                             *)
(***************************************************************************)
EXTENDS Integers

CONSTANTS
  TouchTimeBle, TouchTimeVolumn,  \* TOUCH_TIME_TO_ENABLE_... / 1000
  AudioQueueLen,
  MaxPowerLosses                  \* bound

ASSUME TouchPollAssumption ==
  /\ TouchTimeBle \in 1..255 /\ TouchTimeVolumn \in 1..255
  /\ AudioQueueLen \in Nat \ {0}
  /\ MaxPowerLosses \in Nat

BleQueueLen   == 2
DefaultVolumn == 15
NotFound      == 0      \* the key is not in the flash
Unset         == 0      \* setVolume has not been called since the boot
Byte(n)       == n % 256

VARIABLES
  pc,              \* where TouchPoll is
  volumn, volumn_stroble, touch_count, volumn_count,
  flash,           \* the value under the key "volumn"
  audioLen,        \* length of xQueueAudioPlay
  applied,         \* the volume the audio library was set to
  bleLen,          \* length of xQueueBleOperation
  ble,             \* what BleTask1 does
  losses           \* number of power losses

touchVars  == <<pc, volumn, volumn_stroble, touch_count, volumn_count>>
audioVars  == <<audioLen, applied>>
bleVars    == <<bleLen, ble>>
vars == <<touchVars, flash, audioVars, bleVars, losses>>

-----------------------------------------------------------------------------
Init ==
  /\ pc = "start"
  /\ volumn = DefaultVolumn /\ volumn_stroble = TRUE
  /\ touch_count = TouchTimeBle /\ volumn_count = TouchTimeVolumn
  /\ audioLen = 0 /\ applied = Unset
  /\ bleLen = 0 /\ ble = "waiting"
  /\ flash = NotFound /\ losses = 0

\* The power is lost and comes back: everything but the flash starts over.
PowerLoss ==
  /\ losses < MaxPowerLosses
  /\ losses' = losses + 1
  /\ pc' = "start"
  /\ volumn' = DefaultVolumn /\ volumn_stroble' = TRUE
  /\ touch_count' = TouchTimeBle /\ volumn_count' = TouchTimeVolumn
  /\ audioLen' = 0 /\ applied' = Unset
  /\ bleLen' = 0 /\ ble' = "waiting"
  /\ UNCHANGED flash

(* TouchPoll *)

\* GetVolumn(true).  TouchPoll outranks the setup task on its core, so it has
\* read the flash before AudioInit lets AudioTask take an event.
ReadVolumn ==
  /\ pc = "start" /\ pc' = "poll"
  /\ \/ flash = NotFound /\ flash' = volumn /\ volumn' = volumn
     \/ flash # NotFound /\ volumn' = flash /\ flash' = flash
  /\ UNCHANGED <<volumn_stroble, touch_count, volumn_count, audioVars,
                 bleVars, losses>>

\* touchRead(T4), touchRead(T9), a second after the last time.  A pad that is
\* let go keeps its count.
Poll(t4, t9) ==
  /\ pc = "poll"
  /\ touch_count' = IF t4 THEN touch_count - 1 ELSE touch_count
  /\ volumn_count' = IF t9 THEN volumn_count - 1 ELSE volumn_count
  /\ pc' = IF t4 \/ t9 THEN "notify" ELSE "poll"
  /\ UNCHANGED <<volumn, volumn_stroble, flash, audioVars, bleVars, losses>>

\* Mutant: touch_count is not set back after a request.
NotifyBleForgets ==
  /\ pc = "notify"
  /\ pc' = IF volumn_count = 0 THEN "adjust" ELSE "poll"
  /\ bleLen' = IF touch_count = 0 /\ bleLen < BleQueueLen THEN bleLen + 1
               ELSE bleLen
  /\ UNCHANGED <<volumn, volumn_stroble, touch_count, volumn_count,
                 flash, audioVars, ble, losses>>

\* SendNotification, the BLE half.
NotifyBle ==
  /\ pc = "notify"
  /\ pc' = IF volumn_count = 0 THEN "adjust" ELSE "poll"
  /\ IF touch_count = 0
     THEN /\ bleLen' = IF bleLen < BleQueueLen THEN bleLen + 1 ELSE bleLen
          /\ touch_count' = TouchTimeBle
     ELSE UNCHANGED <<bleLen, touch_count>>
  /\ UNCHANGED <<volumn, volumn_stroble, volumn_count, flash,
                 audioVars, ble, losses>>

\* DecideVolumnStrobe: the step, then the turn at the end of the range.
Adjust ==
  /\ pc = "adjust" /\ pc' = "turn"
  /\ volumn' = Byte(IF volumn_stroble THEN volumn + 4 ELSE volumn - 4)
  /\ UNCHANGED <<volumn_stroble, touch_count, volumn_count, flash,
                 audioVars, bleVars, losses>>

\* Mutant: the direction turns, the volume keeps the last step.
TurnWithoutClamp ==
  /\ pc = "turn" /\ pc' = "send"
  /\ volumn_stroble' = IF volumn_stroble THEN volumn <= 19 ELSE volumn < 4
  /\ UNCHANGED <<volumn, touch_count, volumn_count, flash, audioVars,
                 bleVars, losses>>

\* Mutant: the volume is cut off at the ends, the direction does not turn.
ClampWithoutTurn ==
  /\ pc = "turn" /\ pc' = "send"
  /\ volumn' = IF volumn > 19 THEN 21 ELSE IF volumn < 4 THEN 5 ELSE volumn
  /\ UNCHANGED <<volumn_stroble, touch_count, volumn_count, flash,
                 audioVars, bleVars, losses>>

Turn ==
  /\ pc = "turn" /\ pc' = "send"
  /\ IF volumn_stroble /\ volumn > 19
     THEN volumn' = 21 /\ volumn_stroble' = FALSE
     ELSE IF ~volumn_stroble /\ volumn < 4
     THEN volumn' = 5 /\ volumn_stroble' = TRUE
     ELSE UNCHANGED <<volumn, volumn_stroble>>
  /\ UNCHANGED <<touch_count, volumn_count, flash, audioVars, bleVars,
                 losses>>

PostAudio == audioLen' = IF audioLen < AudioQueueLen THEN audioLen + 1 ELSE audioLen

\* Mutant: only a louder volume is announced.
SendVolumnUp ==
  /\ pc = "send" /\ pc' = "persist"
  /\ IF volumn_stroble THEN PostAudio ELSE audioLen' = audioLen
  /\ UNCHANGED <<volumn, volumn_stroble, touch_count, volumn_count,
                 flash, applied, bleVars, losses>>

SendVolumn ==
  /\ pc = "send" /\ pc' = "persist"
  /\ PostAudio
  /\ UNCHANGED <<volumn, volumn_stroble, touch_count, volumn_count,
                 flash, applied, bleVars, losses>>

\* Mutant: the flash is not written.
PersistForgets ==
  /\ pc = "persist" /\ pc' = "poll"
  /\ volumn_count' = TouchTimeVolumn
  /\ UNCHANGED <<volumn, volumn_stroble, touch_count, flash,
                 audioVars, bleVars, losses>>

\* GetVolumn(false), whose commit is atomic, and the reset of the count.
Persist ==
  /\ pc = "persist" /\ pc' = "poll"
  /\ flash' = volumn
  /\ volumn_count' = TouchTimeVolumn
  /\ UNCHANGED <<volumn, volumn_stroble, touch_count, audioVars,
                 bleVars, losses>>

TouchPoll == \/ ReadVolumn \/ NotifyBle \/ Adjust \/ Turn \/ SendVolumn \/ Persist
             \/ \E t4, t9 \in BOOLEAN : Poll(t4, t9)

(* AudioTask, and the touches that share its queue *)

Running == pc # "start"

GotTouch ==
  /\ Running /\ audioLen < AudioQueueLen
  /\ PostAudio
  /\ UNCHANGED <<touchVars, flash, applied, bleVars, losses>>

AudioReceive ==
  /\ audioLen > 0
  /\ audioLen' = audioLen - 1
  /\ applied' = volumn
  /\ UNCHANGED <<touchVars, flash, bleVars, losses>>

(* BleTask1.  FireBaseTask runs in the setup task; the call that would have *)
(* set xTaskFireBase is commented out.  Suspending NULL suspends the caller. *)

xTaskFireBase == "NULL"

BleTask1 ==
  /\ ble = "waiting" /\ bleLen > 0
  /\ bleLen' = bleLen - 1
  /\ PostAudio
  /\ ble' = IF xTaskFireBase = "NULL" THEN "suspended" ELSE "provisioning"
  /\ UNCHANGED <<touchVars, flash, applied, losses>>

Next == PowerLoss \/ TouchPoll \/ GotTouch \/ AudioReceive \/ BleTask1

Spec == Init /\ [][Next]_vars

\* Every task runs when it is ready.
Fairness == WF_vars(TouchPoll) /\ WF_vars(AudioReceive) /\ WF_vars(BleTask1)

FairSpec == Spec /\ Fairness

-----------------------------------------------------------------------------
(* Properties *)

\* Every variable keeps its type; the counts never pass zero.
TypeOK ==
  /\ pc \in {"start", "poll", "notify", "adjust", "turn", "send", "persist"}
  /\ volumn \in 0..255 /\ volumn_stroble \in BOOLEAN
  /\ touch_count \in 0..TouchTimeBle /\ volumn_count \in 0..TouchTimeVolumn
  /\ flash \in 0..255
  /\ audioLen \in 0..AudioQueueLen /\ applied \in 0..255
  /\ bleLen \in 0..BleQueueLen
  /\ ble \in {"waiting", "suspended", "provisioning"}
  /\ losses \in 0..MaxPowerLosses

\* However long a pad is touched, and wherever the power fails, the sweep of
\* DecideVolumnStrobe stays within the library's 21 steps and never reaches
\* silence or wraps the byte; only AudioTask can catch the step in between.
VolumnInRange ==
  /\ pc # "turn" => volumn \in 4..21
  /\ flash \in {NotFound} \cup 4..21

\* When TouchPoll waits, a power loss costs no change of volume.
VolumnPersisted == pc = "poll" => flash = volumn

\* When every event has been taken the library plays at the volume the toy
\* shows and stores: no event may overtake the store it announces, also when
\* the queue was full and kvolumn was dropped.
VolumnApplied == pc = "poll" /\ audioLen = 0 => applied \in {Unset, volumn}

\* A person who keeps touching the pad hears the whole range: the sweep turns
\* at both ends and is never stuck at one of them.
VolumnSweeps == []<><<Persist>>_vars => []<>(volumn = 5) /\ []<>(volumn = 21)

\* psuedoCode.txt: "Some specific input will allow it to go into BLE setup
\* mode again".
BleRequestServed == bleLen > 0 ~> ble = "provisioning"
=============================================================================
