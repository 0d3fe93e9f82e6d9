--------------------------- MODULE PlaybackProofs ---------------------------
(***************************************************************************)
(* Theorems about Playback, for any pads, recordings and queue lengths.    *)
(***************************************************************************)
EXTENDS Playback, SequenceTheorems, TLAPS

-----------------------------------------------------------------------------
(* Queues *)

\* A send keeps a queue within its length.
LEMMA SendKeepsQueue ==
  ASSUME NEW S, NEW cap \in Nat, NEW q \in QueueOf(S, cap), NEW x \in S
  PROVE  SendToBack(q, x, cap) \in QueueOf(S, cap)
BY DEF SendToBack, IsFull, QueueOf

\* A queue that was sent to is not empty, also when the send was dropped.
LEMMA SentToIsNotEmpty ==
  ASSUME NEW S, NEW cap \in Nat \ {0}, NEW q \in QueueOf(S, cap), NEW x \in S
  PROVE  SendToBack(q, x, cap) # <<>>
BY DEF SendToBack, IsFull, QueueOf

\* A receive takes an item of the queue's type and keeps the queue in bounds.
LEMMA ReceiveKeepsQueue ==
  ASSUME NEW S, NEW cap \in Nat, NEW q \in QueueOf(S, cap), q # <<>>
  PROVE  Head(q) \in S /\ Tail(q) \in QueueOf(S, cap)
BY DEF QueueOf

LEMMA EmptyIsQueue ==
  ASSUME NEW S, NEW cap \in Nat
  PROVE  <<>> \in QueueOf(S, cap)
BY DEF QueueOf

-----------------------------------------------------------------------------
(* The tables *)

\* The events the toy can meet, the colours they may light and their counters.
LEMMA Tables ==
  /\ Attached \subseteq ButtonPress_t /\ Notices \subseteq ButtonPress_t
  /\ Touches \subseteq ButtonPress_t /\ Idle \in ButtonPress_t
  /\ \A e \in ButtonPress_t : e # Silence
  /\ \A b \in Attached : b # Idle /\ b # NoSend
  /\ \A e \in ButtonPress_t : SetStripColor[e] \in Touches \cup {Off}
BY DEF Attached, Notices, Touches, Idle, ButtonPress_t, Silence, NoSend,
       SetStripColor, Off

LEMMA CounterOfEvent ==
  ASSUME NEW e \in ButtonPress_t, ColourOf(e) # NoColour
  PROVE  ColourOf(e) \in Colours
<1>1. e \in DOMAIN Counter /\ ColourOf(e) = Counter[e]
  BY DEF ColourOf
<1>2. DOMAIN Counter = {"kTouch1", "kTouch2", "kTouch3", "kTouch5", "kTouch6",
                        "kTouch7", "kTouch8"}
  BY DEF Counter
<1>3. \A d \in DOMAIN Counter : Counter[d] \in Colours
  BY <1>2 DEF Counter, Colours
<1> QED
  BY <1>1, <1>3

-----------------------------------------------------------------------------
(* Type correctness *)

LEMMA TypeInit == Init => TypeOK
<1> SUFFICES ASSUME Init PROVE TypeOK
  OBVIOUS
<1> USE PlaybackAssumption, Tables DEF Init
<1>1. audioQ \in QueueOf(ButtonPress_t, AudioQueueLen)
      /\ ledQ \in QueueOf(ButtonPress_t, LedQueueLen)
  BY EmptyIsQueue
<1>2. count \in [Colours -> 0..CountMod-1] /\ posts \in 0..MaxPosts
      /\ fbTokens \in 0..FireBaseQueueLen
  BY DEF FireBaseQueueLen
<1> QED
  BY <1>1, <1>2 DEF TypeOK

LEMMA TypeNext == TypeOK /\ [Next]_vars => TypeOK'
<1> SUFFICES ASSUME TypeOK, [Next]_vars PROVE TypeOK'
  OBVIOUS
<1> USE PlaybackAssumption, Tables
<1> USE DEF TypeOK, touchVars, flagVars, ledVars, Goto
<1>1. CASE Setup
  BY <1>1 DEF Setup, AudioInit, StripInit, FireBaseInit, Advance
<1>2. ASSUME NEW b \in Pads, GotTouch(b) PROVE TypeOK'
  BY <1>2 DEF GotTouch, AudioReady
<1>3. CASE GotTouchSend
  BY <1>3, SendKeepsQueue DEF GotTouchSend
<1>4. ASSUME NEW e \in Notified, Notice(e) PROVE TypeOK'
  BY <1>4, SendKeepsQueue DEF Notice
<1>5. CASE AudioTask
  <2>1. CASE TaskReset
    BY <2>1, EmptyIsQueue DEF TaskReset
  <2>2. CASE TaskWake
    BY <2>2, SendKeepsQueue DEF TaskWake
  <2>3. CASE Receive
    <3>1. rec_button_i2s' \in ButtonPress_t
          /\ audioQ' \in QueueOf(ButtonPress_t, AudioQueueLen)
      BY <2>3, ReceiveKeepsQueue DEF Receive
    <3>2. pc' \in {"start", "eof"} /\ eofReturn' \in {"loop", "start"}
          /\ music_override' \in BOOLEAN
      BY <2>3 DEF Receive
    <3> QED
      BY <2>3, <3>1, <3>2 DEF Receive
  <2>4. CASE Start
    <3> DEFINE c == ColourOf(rec_button_i2s)
    <3>1. count' \in [Colours -> 0..CountMod-1]
      <4>1. CASE c = NoColour
        BY <2>4, <4>1 DEF Start, RaisesImpMusic
      <4>2. CASE c # NoColour
        <5>1. c \in Colours
          BY <4>2, CounterOfEvent
        <5>2. (count[c] + 1) % CountMod \in 0..CountMod-1
          BY <5>1
        <5>3. count' = [count EXCEPT ![c] = (count[c] + 1) % CountMod]
          BY <2>4, <4>2 DEF Start, RaisesImpMusic
        <5> QED
          BY <5>1, <5>2, <5>3
      <4> QED
        BY <4>1, <4>2
    <3>2. /\ playing' \in ButtonPress_t \cup {Silence}
          /\ unplayed' \in BOOLEAN
          /\ imp_music' \in BOOLEAN
          /\ end_of_audio' \in BOOLEAN
          /\ pc' \in {"loop", "colour"}
      BY <2>4 DEF Start, RaisesImpMusic
    <3> QED
      BY <2>4, <3>1, <3>2 DEF Start, RaisesImpMusic
  <2>5. CASE Colour
    BY <2>5, SendKeepsQueue DEF Colour, PostColour
  <2>6. CASE EofRelease
    BY <2>6 DEF EofRelease
  <2>7. CASE EofColour
    <3>1. PostColour(prev_button) \/ UNCHANGED ledVars
      BY <2>7 DEF EofColour
    <3>2. prev_button \in ButtonPress_t
      OBVIOUS
    <3>3. SendToBack(ledQ, prev_button, LedQueueLen)
            \in QueueOf(ButtonPress_t, LedQueueLen)
      BY <3>2, SendKeepsQueue
    <3>4. ledQ' \in QueueOf(ButtonPress_t, LedQueueLen) /\ ledLost' \in BOOLEAN
      BY <3>1, <3>3 DEF PostColour, StripReady, IsFull
    <3> QED
      BY <2>7, <3>4 DEF EofColour
  <2>8. CASE EofToken
    <3>1. fbTokens' \in 0..FireBaseQueueLen
      BY <2>8 DEF EofToken, CloudReady, FireBaseQueueLen
    <3> QED
      BY <2>8, <3>1 DEF EofToken
  <2> QED
    BY <1>5, <2>1, <2>2, <2>3, <2>4, <2>5, <2>6, <2>7, <2>8 DEF AudioTask
<1>6. CASE LoopEndOfFile
  BY <1>6 DEF LoopEndOfFile
<1>7. CASE LedStripTask
  BY <1>7, ReceiveKeepsQueue DEF LedStripTask
<1>8. CASE FireBaseReceive
  BY <1>8 DEF FireBaseReceive, FireBaseQueueLen
<1>9. ASSUME NEW c \in Colours, FireBaseClears(c) PROVE TypeOK'
  BY <1>9 DEF FireBaseClears
<1>10. CASE UNCHANGED vars
  BY <1>10 DEF vars
<1> QED
  BY <1>1, <1>2, <1>3, <1>4, <1>5, <1>6, <1>7, <1>8, <1>9, <1>10 DEF Next

\* Every reachable state of Playback has its type; no queue outgrows its
\* length and no counter its byte.
THEOREM TypeCorrect == Spec => []TypeOK
BY TypeInit, TypeNext, PTL DEF Spec

-----------------------------------------------------------------------------
(* No button stays claimed *)

\* An event is on its way to a recording, or a recording to its end.
Underway == isr # NoSend \/ audioQ # <<>> \/ playing # Silence
            \/ pc \in {"start", "eof"}

\* ButtonsRecover speaks of a toy at rest only.  Before that, a claimed button
\* always has something under way whose end of file will release it.
ClaimInv ==
  /\ pc = "reset" => ~unplayed
  /\ prev_button # Idle => unplayed \/ Underway

LEMMA ClaimNext == TypeOK /\ ClaimInv /\ [Next]_vars => ClaimInv'
<1> SUFFICES ASSUME TypeOK, ClaimInv, [Next]_vars PROVE ClaimInv'
  OBVIOUS
<1> USE PlaybackAssumption, Tables
<1> USE DEF ClaimInv, Underway, touchVars, flagVars, ledVars, Goto
<1>1. CASE Setup
  BY <1>1 DEF Setup, AudioInit, StripInit, FireBaseInit, Advance
<1>2. ASSUME NEW b \in Pads, GotTouch(b) PROVE ClaimInv'
  BY <1>2 DEF GotTouch
<1>3. CASE GotTouchSend
  <2>1. isr \in ButtonPress_t /\ audioQ \in QueueOf(ButtonPress_t, AudioQueueLen)
    BY <1>3 DEF GotTouchSend, TypeOK
  <2>2. audioQ' # <<>>
    BY <1>3, <2>1, SentToIsNotEmpty DEF GotTouchSend
  <2> QED
    BY <1>3, <2>2 DEF GotTouchSend
<1>4. ASSUME NEW e \in Notified, Notice(e) PROVE ClaimInv'
  <2>1. audioQ' # <<>>
    BY <1>4, SentToIsNotEmpty DEF Notice, TypeOK
  <2> QED
    BY <1>4, <2>1 DEF Notice
<1>5. CASE AudioTask
  <2>1. CASE TaskReset
    BY <2>1 DEF TaskReset
  <2>2. CASE TaskWake
    <3>1. audioQ' # <<>> \/ audioQ' = audioQ
      BY <2>2, SentToIsNotEmpty DEF TaskWake, TypeOK
    <3> QED
      BY <2>2, <3>1 DEF TaskWake
  <2>3. CASE Receive
    <3>1. pc' \in {"start", "eof"}
      BY <2>3 DEF Receive
    <3> QED
      BY <3>1
  <2>4. CASE Start
    <3>1. unplayed' \/ playing' = rec_button_i2s
      BY <2>4 DEF Start, RaisesImpMusic
    <3>2. rec_button_i2s # Silence /\ pc' \in {"loop", "colour"}
      BY <2>4 DEF Start, RaisesImpMusic, TypeOK
    <3> QED
      BY <3>1, <3>2
  <2>5. CASE Colour
    BY <2>5 DEF Colour
  <2>6. CASE EofRelease
    BY <2>6 DEF EofRelease
  <2>7. CASE EofColour
    BY <2>7 DEF EofColour
  <2>8. CASE EofToken
    BY <2>8 DEF EofToken, TypeOK
  <2> QED
    BY <1>5, <2>1, <2>2, <2>3, <2>4, <2>5, <2>6, <2>7, <2>8 DEF AudioTask
<1>6. CASE LoopEndOfFile
  BY <1>6 DEF LoopEndOfFile
<1>7. CASE LedStripTask
  BY <1>7 DEF LedStripTask
<1>8. CASE FireBaseReceive
  BY <1>8 DEF FireBaseReceive
<1>9. ASSUME NEW c \in Colours, FireBaseClears(c) PROVE ClaimInv'
  BY <1>9 DEF FireBaseClears
<1>10. CASE UNCHANGED vars
  BY <1>10 DEF vars
<1> QED
  BY <1>1, <1>2, <1>3, <1>4, <1>5, <1>6, <1>7, <1>8, <1>9, <1>10 DEF Next

\* Whatever touches, overrides, notices and full queues went before, a toy at
\* rest has no pad claimed, unless its last event started no recording.
THEOREM NoButtonStaysClaimed == Spec => []ButtonsRecover
<1>1. Init => ClaimInv
  BY DEF Init, ClaimInv
<1>2. ClaimInv => ButtonsRecover
  BY DEF ClaimInv, Underway, ButtonsRecover, AtRest
<1> QED
  BY <1>1, <1>2, TypeCorrect, ClaimNext, PTL DEF Spec

-----------------------------------------------------------------------------
(* The flags of a recording *)

InEof == pc \in {"eof", "eofColour", "eofToken"}

\* A raised flag belongs to a recording that runs, starts or is being ended,
\* or to one that could not be opened; and a pressed recording has its flag.
\* When stopping runs the callback and every recording is there, imp_music
\* names exactly the pressed recordings.
FlagInv ==
  /\ pc = "reset" => ~unplayed /\ ~music_override /\ ~imp_music
  /\ pc \in {"reset", "wake", "start"} \/ InEof => playing = Silence
  /\ music_override \/ imp_music
       => unplayed \/ playing # Silence \/ pc = "start" \/ InEof
  /\ playing \in Important => imp_music
  /\ toy.stopCallsEof /\ toy.missing = {} /\ imp_music
       => playing \in Important \/ InEof

LEMMA ImportantHasFile ==
  \A e \in Important : ExtractFileName(e) # NoFile /\ ExtractFileName(e) \in Files
<1>1. \A e \in DOMAIN Recording : Recording[e] # NoFile
  BY DEF Recording, NoFile
<1> QED
  BY <1>1 DEF Important, ExtractFileName, Files

LEMMA FlagNext == TypeOK /\ FlagInv /\ [Next]_vars => FlagInv'
<1> SUFFICES ASSUME TypeOK, FlagInv, [Next]_vars PROVE FlagInv'
  OBVIOUS
<1> USE PlaybackAssumption, Tables
<1> USE DEF FlagInv, InEof, touchVars, flagVars, ledVars, Goto
<1>1. CASE Setup
  BY <1>1 DEF Setup, AudioInit, StripInit, FireBaseInit, Advance
<1>2. ASSUME NEW b \in Pads, GotTouch(b) PROVE FlagInv'
  BY <1>2 DEF GotTouch
<1>3. CASE GotTouchSend
  BY <1>3 DEF GotTouchSend
<1>4. ASSUME NEW e \in Notified, Notice(e) PROVE FlagInv'
  BY <1>4 DEF Notice
<1>5. CASE AudioTask
  <2>0. Silence \notin Important
    BY DEF Important
  <2>1. CASE TaskReset
    BY <2>1 DEF TaskReset
  <2>2. CASE TaskWake
    BY <2>2 DEF TaskWake
  <2>3. CASE Receive
    BY <2>0, <2>3 DEF Receive
  <2>4. CASE Start
    <3> DEFINE e == rec_button_i2s
    <3>1. pc' \in {"loop", "colour"} /\ imp_music' = (imp_music \/ e \in Important)
          /\ UNCHANGED <<toy, music_override>>
      BY <2>4 DEF Start, RaisesImpMusic
    <3>2. \/ unplayed' /\ playing' = Silence
          \/ ~unplayed' /\ playing' = e /\ e # Silence
      BY <2>4 DEF Start, RaisesImpMusic, TypeOK
    <3>3. toy.missing = {} /\ e \in Important => ~unplayed'
      BY <2>4, ImportantHasFile DEF Start, RaisesImpMusic
    <3>4. pc = "start" /\ playing = Silence
      BY <2>4 DEF Start, RaisesImpMusic
    <3> QED
      BY <2>0, <3>1, <3>2, <3>3, <3>4
  <2>5. CASE Colour
    BY <2>5 DEF Colour
  <2>6. CASE EofRelease
    BY <2>6 DEF EofRelease
  <2>7. CASE EofColour
    BY <2>7 DEF EofColour
  <2>8. CASE EofToken
    BY <2>0, <2>8 DEF EofToken, TypeOK
  <2> QED
    BY <1>5, <2>1, <2>2, <2>3, <2>4, <2>5, <2>6, <2>7, <2>8 DEF AudioTask
<1>6. CASE LoopEndOfFile
  BY <1>6, Tables DEF LoopEndOfFile, Important
<1>7. CASE LedStripTask
  BY <1>7 DEF LedStripTask
<1>8. CASE FireBaseReceive
  BY <1>8 DEF FireBaseReceive
<1>9. ASSUME NEW c \in Colours, FireBaseClears(c) PROVE FlagInv'
  BY <1>9 DEF FireBaseClears
<1>10. CASE UNCHANGED vars
  BY <1>10 DEF vars
<1> QED
  BY <1>1, <1>2, <1>3, <1>4, <1>5, <1>6, <1>7, <1>8, <1>9, <1>10 DEF Next

LEMMA FlagCorrect == Spec => []FlagInv
<1>1. Init => FlagInv
  BY Tables DEF Init, FlagInv, InEof, Important
<1> QED
  BY <1>1, TypeCorrect, FlagNext, PTL DEF Spec

\* No flag of a recording outlives it: at rest music_override and imp_music are
\* down, unless the last event started no recording.
THEOREM NoFlagStaysUp == Spec => []FlagsRecover
<1>1. FlagInv => FlagsRecover
  BY DEF FlagInv, InEof, FlagsRecover, AtRest
<1> QED
  BY <1>1, FlagCorrect, PTL

\* A pressed recording runs with imp_music up, so TryConnection never takes its
\* time for that of the connect sound.
THEOREM PressedIsFlagged == Spec => []ImportantIsFlagged
<1>1. FlagInv => ImportantIsFlagged
  BY DEF FlagInv, InEof, ImportantIsFlagged
<1> QED
  BY <1>1, FlagCorrect, PTL

-----------------------------------------------------------------------------
(* AudioTask keeps its contract with FireBaseTask *)

\* The four expressions the contract's variables stand for.
Pending == {c \in Colours : count[c] > 0}
Audio == IF playing # Silence \/ pc \in {"eof", "eofColour", "eofToken"}
         THEN "playing" ELSE "idle"

LEMMA CountedIsImportant ==
  ASSUME NEW e \in ButtonPress_t, ColourOf(e) # NoColour
  PROVE  e \in Important
<1>1. e \in DOMAIN Counter
  BY DEF ColourOf
<1>2. e \in {"kTouch1", "kTouch2", "kTouch3", "kTouch5", "kTouch6", "kTouch7",
            "kTouch8"}
  BY <1>1 DEF Counter
<1>3. e \in Touches
  BY <1>2 DEF Touches
<1>4. e \in DOMAIN Recording
  BY <1>2 DEF Recording
<1> QED
  BY <1>3, <1>4 DEF Important

LEMMA ContractStutters ==
  ASSUME UNCHANGED <<CloudReady, fbTokens, Pending, Audio, imp_music>>
  PROVE  UNCHANGED AudioContract!vars
BY DEF AudioContract!vars, Pending, Audio

LEMMA ContractInit == Init => AudioContract!Init
<1> SUFFICES ASSUME Init PROVE AudioContract!Init
  OBVIOUS
<1>1. {c \in Colours : count[c] > 0} = {}
  BY DEF Init
<1> QED
  BY <1>1 DEF Init, AudioContract!Init, CloudReady

LEMMA ContractStart ==
  ASSUME TypeOK, FlagInv, Start
  PROVE  AudioContract!Next
<1> DEFINE e == rec_button_i2s
           c == ColourOf(e)
<1>1. e \in ButtonPress_t /\ count \in [Colours -> 0..CountMod-1]
  BY DEF TypeOK
<1>2. UNCHANGED <<CloudReady, fbTokens>> /\ Audio' \in {"idle", "playing"}
  BY DEF Start, CloudReady, Audio
<1>3. CASE c = NoColour
  <2>1. Pending' = Pending
    BY <1>3 DEF Start, Pending
  <2>2. imp_music' = (imp_music \/ e \in Important) /\ (e \in Important) \in BOOLEAN
    BY DEF Start, RaisesImpMusic
  <2>3. AudioContract!PlayUncounted(e \in Important)
    BY <1>2, <2>1, <2>2 DEF AudioContract!PlayUncounted, Pending, Audio
  <2> QED
    BY <2>2, <2>3 DEF AudioContract!Next
<1>4. CASE c # NoColour
  <2>1. c \in Colours /\ e \in Important
    BY <1>1, <1>4, CounterOfEvent, CountedIsImportant
  <2>2. imp_music' = TRUE
    BY <2>1 DEF Start, RaisesImpMusic
  <2>3. count' = [count EXCEPT ![c] = (count[c] + 1) % CountMod]
    BY <1>4 DEF Start
  <2>4. \A d \in Colours \ {c} : count'[d] = count[d]
    BY <1>1, <2>3
  <2>5. Pending' \in {Pending \cup {c}, Pending \ {c}}
    BY <2>1, <2>4 DEF Pending
  <2>6. PICK d \in Colours : d = c
    BY <2>1
  <2>7. Pending' \in {Pending \cup {d}, Pending \ {d}}
    BY <2>5, <2>6
  <2>8. AudioContract!Count(d)
    BY <1>2, <2>2, <2>7 DEF AudioContract!Count, Pending, Audio
  <2> QED
    BY <2>8 DEF AudioContract!Next
<1> QED
  BY <1>3, <1>4

LEMMA ContractNext ==
  TypeOK /\ FlagInv /\ [Next]_vars => [AudioContract!Next]_AudioContract!vars
<1> SUFFICES ASSUME TypeOK, FlagInv, [Next]_vars
             PROVE  [AudioContract!Next]_AudioContract!vars
  OBVIOUS
<1> USE DEF Goto, touchVars, flagVars, ledVars
<1>1. CASE Setup
  <2>1. UNCHANGED <<fbTokens, Pending, Audio, imp_music>>
    BY <1>1 DEF Setup, AudioInit, StripInit, FireBaseInit, Advance, Pending, Audio
  <2>2. ~CloudReady /\ (CloudReady' \/ ~CloudReady')
    BY <1>1 DEF Setup, AudioInit, StripInit, FireBaseInit, Advance, CloudReady
  <2>3. CASE CloudReady'
    <3>1. AudioContract!CreateQueue
      BY <2>1, <2>2, <2>3 DEF AudioContract!CreateQueue, Pending, Audio, CloudReady
    <3> QED
      BY <3>1 DEF AudioContract!Next
  <2>4. CASE ~CloudReady'
    <3>1. UNCHANGED CloudReady
      BY <2>2, <2>4 DEF CloudReady
    <3> QED
      BY <2>1, <3>1, ContractStutters
  <2> QED
    BY <2>3, <2>4
<1>2. CASE \/ \E b \in Pads : GotTouch(b)
           \/ GotTouchSend
           \/ \E e \in Notified : Notice(e)
           \/ LedStripTask \/ UNCHANGED vars
  <2>1. UNCHANGED <<boot, fbTokens, count, playing, pc, imp_music>>
    BY <1>2 DEF GotTouch, GotTouchSend, Notice, LedStripTask, vars
  <2> QED
    BY <2>1, ContractStutters DEF CloudReady, Pending, Audio
<1>3. CASE TaskReset \/ TaskWake \/ Colour \/ EofRelease \/ EofColour
  <2>1. UNCHANGED <<boot, fbTokens, count, playing, imp_music>>
    BY <1>3 DEF TaskReset, TaskWake, Colour, EofRelease, EofColour
  <2>2. UNCHANGED Audio
    BY <1>3, <2>1 DEF TaskReset, TaskWake, Colour, EofRelease, EofColour, Audio
  <2> QED
    BY <2>1, <2>2, ContractStutters DEF CloudReady, Pending
<1>4. CASE Receive
  <2>1. /\ UNCHANGED <<boot, fbTokens, count, imp_music>>
        /\ playing' = Silence /\ pc = "loop" /\ pc' \in {"start", "eof"}
    BY <1>4 DEF Receive
  <2>2. UNCHANGED <<CloudReady, Pending>>
    BY <2>1 DEF CloudReady, Pending
  <2>3. CASE playing = Silence \/ pc' = "eof"
    <3>1. pc' = "eof" => playing # Silence
      BY <1>4 DEF Receive
    <3>2. UNCHANGED Audio
      BY <2>1, <2>3, <3>1 DEF Audio
    <3> QED
      BY <2>1, <2>2, <3>2, ContractStutters
  <2>4. CASE playing # Silence /\ pc' = "start"
    <3>1. AudioContract!CutShort
      BY <2>1, <2>2, <2>4 DEF AudioContract!CutShort, Pending, CloudReady
    <3> QED
      BY <3>1 DEF AudioContract!Next
  <2> QED
    BY <2>1, <2>3, <2>4
<1>5. CASE Start
  BY <1>5, ContractStart
<1>6. CASE EofToken
  <2>1. /\ pc = "eofToken" /\ pc' \in {"loop", "start"} /\ playing = Silence
        /\ UNCHANGED <<boot, count, playing>>
        /\ imp_music' = FALSE
        /\ fbTokens' = IF CloudReady /\ imp_music /\ fbTokens = 0
                       THEN 1 ELSE fbTokens
    BY <1>6 DEF EofToken, TypeOK, FlagInv, InEof
  <2>2. AudioContract!EndOfFile
    BY <2>1 DEF AudioContract!EndOfFile, CloudReady
  <2> QED
    BY <2>2 DEF AudioContract!Next
<1>7. CASE LoopEndOfFile
  <2>1. /\ UNCHANGED <<boot, fbTokens, count, imp_music>>
        /\ playing # Silence /\ pc' = "eof"
    BY <1>7 DEF LoopEndOfFile
  <2> QED
    BY <2>1, ContractStutters DEF CloudReady, Pending, Audio
<1>8. CASE FireBaseReceive
  <2>1. AudioContract!TakeToken
    BY <1>8 DEF FireBaseReceive, AudioContract!TakeToken, CloudReady
  <2> QED
    BY <2>1 DEF AudioContract!Next
<1>9. ASSUME NEW c \in Colours, FireBaseClears(c)
      PROVE  [AudioContract!Next]_AudioContract!vars
  <2>1. count' = [count EXCEPT ![c] = 0] /\ count \in [Colours -> 0..CountMod-1]
    BY <1>9 DEF FireBaseClears, TypeOK
  <2>2. Pending' = Pending \ {c}
    BY <2>1 DEF Pending
  <2>3. AudioContract!Clear(c)
    BY <1>9, <2>2 DEF FireBaseClears, AudioContract!Clear, CloudReady, Pending
  <2> QED
    BY <2>3 DEF AudioContract!Next
<1> QED
  BY <1>1, <1>2, <1>3, <1>4, <1>5, <1>6, <1>7, <1>8, <1>9 DEF Next, AudioTask

\* For every toy, every number of touches and all queue lengths, what
\* FireBaseTask sees of Playback is a behaviour of LinkieAudio.
THEOREM ImplementsContract == Spec => KeepsAudioContract
<1>1. TypeOK /\ FlagInv /\ [Next]_vars
        => [AudioContract!Next]_AudioContract!vars
  BY ContractNext
<1> QED
  BY TypeCorrect, FlagCorrect, ContractInit, <1>1, PTL
     DEF Spec, AudioContract!Spec, KeepsAudioContract

-----------------------------------------------------------------------------
(* The strip *)

\* The colour the strip has when LedStripTask has shown all that was posted.
Final == IF ledQ = <<>> THEN strip ELSE SetStripColor[ledQ[Len(ledQ)]]

\* Showing a colour does not change the one it all ends with.
LEMMA ShowKeepsFinal == TypeOK /\ LedStripTask => Final' = Final
<1> SUFFICES ASSUME TypeOK, LedStripTask PROVE Final' = Final
  OBVIOUS
<1>1. /\ ledQ \in Seq(ButtonPress_t) /\ ledQ # <<>>
      /\ ledQ' = Tail(ledQ) /\ strip' = SetStripColor[Head(ledQ)]
  BY DEF TypeOK, QueueOf, LedStripTask
<1>2. CASE Len(ledQ) = 1
  <2>1. ledQ' = <<>> /\ Head(ledQ) = ledQ[Len(ledQ)]
    BY <1>1, <1>2
  <2> QED
    BY <1>1, <2>1 DEF Final
<1>3. CASE Len(ledQ) # 1
  <2>0. Len(ledQ) \in Nat /\ Len(ledQ) # 0
    BY <1>1, EmptySeq
  <2>1. Len(ledQ) > 1
    BY <1>3, <2>0, \A n \in Nat : n # 0 /\ n # 1 => n > 1
  <2>4. Len(ledQ') = Len(ledQ) - 1
    BY <1>1, HeadTailProperties
  <2>2. Tail(ledQ)[Len(ledQ) - 1] = ledQ[Len(ledQ)]
    BY <1>1, <2>0, <2>1, <2>4, HeadTailProperties
  <2>3. ledQ' # <<>> /\ ledQ'[Len(ledQ')] = ledQ[Len(ledQ)]
    BY <1>1, <2>0, <2>1, <2>2, <2>4
  <2> QED
    BY <1>1, <2>3 DEF Final
<1> QED
  BY <1>2, <1>3

\* A colour that is not dropped is the one it all ends with.
LEMMA PostIsFinal ==
  ASSUME TypeOK, NEW e \in ButtonPress_t, PostColour(e)
  PROVE  ledLost' \/ Final' = SetStripColor[e]
<1>1. CASE ledLost'
  BY <1>1
<1>2. CASE ~ledLost'
  <2>1. ledQ' = Append(ledQ, e) /\ ledQ \in Seq(ButtonPress_t)
    BY <1>2 DEF PostColour, SendToBack, TypeOK, QueueOf
  <2>2. ledQ' # <<>> /\ ledQ'[Len(ledQ')] = e
    BY <2>1
  <2> QED
    BY <2>2 DEF Final
<1> QED
  BY <1>1, <1>2

LEMMA FinalStays == UNCHANGED <<ledQ, strip>> => Final' = Final
BY DEF Final

\* Between Start and Colour the recording that runs is the one of the event
\* taken, and from then on its colour is the last one posted.
ShowInv ==
  /\ pc = "colour" /\ playing # Silence => playing = rec_button_i2s
  /\ pc = "loop" /\ playing # Silence /\ ~ledLost
       => Final = SetStripColor[playing]

LEMMA ShowNext == TypeOK /\ FlagInv /\ ShowInv /\ [Next]_vars => ShowInv'
<1> SUFFICES ASSUME TypeOK, FlagInv, ShowInv, [Next]_vars PROVE ShowInv'
  OBVIOUS
<1> USE DEF ShowInv, touchVars, flagVars, ledVars, Goto
<1>1. CASE Setup
  BY <1>1, FinalStays DEF Setup, AudioInit, StripInit, FireBaseInit, Advance
<1>2. ASSUME NEW b \in Pads, GotTouch(b) PROVE ShowInv'
  BY <1>2, FinalStays DEF GotTouch
<1>3. CASE GotTouchSend
  BY <1>3, FinalStays DEF GotTouchSend
<1>4. ASSUME NEW e \in Notified, Notice(e) PROVE ShowInv'
  BY <1>4, FinalStays DEF Notice
<1>5. CASE AudioTask
  <2>1. CASE TaskReset
    BY <2>1 DEF TaskReset
  <2>2. CASE TaskWake
    BY <2>2 DEF TaskWake, FlagInv
  <2>3. CASE Receive
    BY <2>3 DEF Receive
  <2>4. CASE Start
    BY <2>4 DEF Start
  <2>5. CASE Colour
    <3>1. ledLost' \/ Final' = SetStripColor[rec_button_i2s]
      BY <2>5, PostIsFinal DEF Colour, TypeOK
    <3> QED
      BY <2>5, <3>1 DEF Colour
  <2>6. CASE EofRelease
    BY <2>6 DEF EofRelease
  <2>7. CASE EofColour
    BY <2>7 DEF EofColour
  <2>8. CASE EofToken
    BY <2>8 DEF EofToken, FlagInv, InEof, TypeOK
  <2> QED
    BY <1>5, <2>1, <2>2, <2>3, <2>4, <2>5, <2>6, <2>7, <2>8 DEF AudioTask
<1>6. CASE LoopEndOfFile
  BY <1>6 DEF LoopEndOfFile
<1>7. CASE LedStripTask
  BY <1>7, ShowKeepsFinal DEF LedStripTask
<1>8. CASE FireBaseReceive
  BY <1>8, FinalStays DEF FireBaseReceive
<1>9. ASSUME NEW c \in Colours, FireBaseClears(c) PROVE ShowInv'
  BY <1>9, FinalStays DEF FireBaseClears
<1>10. CASE UNCHANGED vars
  BY <1>10, FinalStays DEF vars
<1> QED
  BY <1>1, <1>2, <1>3, <1>4, <1>5, <1>6, <1>7, <1>8, <1>9, <1>10 DEF Next

\* When all posted colours are shown, a running recording has its own colour on
\* the strip, whichever it cut short, unless that colour itself was dropped.
THEOREM StripFollowsPlaying == Spec => []StripShowsPlaying
<1>1. Init => ShowInv
  BY DEF Init, ShowInv
<1>2. ShowInv => StripShowsPlaying
  BY DEF ShowInv, StripShowsPlaying, Final
<1> QED
  BY <1>1, <1>2, TypeCorrect, FlagCorrect, ShowNext, PTL DEF Spec

\* No touch is on its way to AudioTask.
Quiet == audioQ = <<>> /\ isr = NoSend

\* music_override is up only while the recording that was cut short is being
\* ended.  So the end of file that leads back to the loop posts prev_button,
\* which is Idle unless a touch has claimed it since and is on its way.
DarkInv == toy.stopCallsEof =>
  /\ music_override => InEof /\ eofReturn = "start"
  /\ pc \in {"reset", "wake"} => Final = Off
  /\ pc = "eofColour" /\ Quiet => prev_button = Idle
  /\ pc = "colour" => playing # Silence \/ unplayed
  /\ \/ pc = "eofToken" /\ eofReturn = "loop"
     \/ pc = "loop" /\ playing = Silence /\ ~unplayed
     => ~Quiet \/ ledLost \/ Final = Off

LEMMA DarkNext == TypeOK /\ DarkInv /\ [Next]_vars => DarkInv'
<1> SUFFICES ASSUME TypeOK, DarkInv, [Next]_vars PROVE DarkInv'
  OBVIOUS
<1> USE PlaybackAssumption, Tables
<1> USE DEF DarkInv, InEof, Quiet, touchVars, flagVars, ledVars, Goto
<1>1. CASE Setup
  BY <1>1, FinalStays DEF Setup, AudioInit, StripInit, FireBaseInit, Advance
<1>2. ASSUME NEW b \in Pads, GotTouch(b) PROVE DarkInv'
  BY <1>2, FinalStays DEF GotTouch
<1>3. CASE GotTouchSend
  <2>1. audioQ' # <<>>
    BY <1>3, SentToIsNotEmpty DEF GotTouchSend, TypeOK
  <2> QED
    BY <1>3, <2>1, FinalStays DEF GotTouchSend
<1>4. ASSUME NEW e \in Notified, Notice(e) PROVE DarkInv'
  <2>1. audioQ' # <<>>
    BY <1>4, SentToIsNotEmpty DEF Notice, TypeOK
  <2> QED
    BY <1>4, <2>1, FinalStays DEF Notice
<1>5. CASE AudioTask
  <2>1. CASE TaskReset
    BY <2>1, FinalStays DEF TaskReset
  <2>2. CASE TaskWake
    BY <2>2, FinalStays DEF TaskWake
  <2>3. CASE Receive
    BY <2>3 DEF Receive
  <2>4. CASE Start
    <3>1. /\ pc' \in {"loop", "colour"} /\ toy' = toy
          /\ toy.stopCallsEof => ~music_override'
          /\ pc' = "loop" => unplayed'
      BY <2>4 DEF Start
    <3>2. unplayed' \/ playing' # Silence
      BY <2>4 DEF Start, RaisesImpMusic, TypeOK
    <3> QED
      BY <3>1, <3>2
  <2>5. CASE Colour
    BY <2>5 DEF Colour
  <2>6. CASE EofRelease
    BY <2>6 DEF EofRelease
  <2>7. CASE EofColour
    <3>1. CASE eofReturn = "loop" /\ Quiet /\ toy.stopCallsEof
      <4>1. PostColour(Idle)
        BY <2>7, <3>1 DEF EofColour
      <4>2. ledLost' \/ Final' = SetStripColor[Idle]
        BY <4>1, PostIsFinal
      <4>3. SetStripColor[Idle] = Off
        BY DEF SetStripColor, Idle, ButtonPress_t, Touches
      <4> QED
        BY <2>7, <3>1, <4>2, <4>3 DEF EofColour
    <3>2. CASE ~(eofReturn = "loop" /\ Quiet /\ toy.stopCallsEof)
      BY <2>7, <3>2 DEF EofColour
    <3> QED
      BY <3>1, <3>2
  <2>8. CASE EofToken
    BY <2>8, FinalStays DEF EofToken, TypeOK
  <2> QED
    BY <1>5, <2>1, <2>2, <2>3, <2>4, <2>5, <2>6, <2>7, <2>8 DEF AudioTask
<1>6. CASE LoopEndOfFile
  BY <1>6 DEF LoopEndOfFile
<1>7. CASE LedStripTask
  BY <1>7, ShowKeepsFinal DEF LedStripTask
<1>8. CASE FireBaseReceive
  BY <1>8, FinalStays DEF FireBaseReceive
<1>9. ASSUME NEW c \in Colours, FireBaseClears(c) PROVE DarkInv'
  BY <1>9, FinalStays DEF FireBaseClears
<1>10. CASE UNCHANGED vars
  BY <1>10, FinalStays DEF vars
<1> QED
  BY <1>1, <1>2, <1>3, <1>4, <1>5, <1>6, <1>7, <1>8, <1>9, <1>10 DEF Next

\* A toy at rest is dark, though its end of file posts a prev_button that a
\* touch may have claimed again.
THEOREM StripGoesDark == Spec => []StripRests
<1>1. Init => DarkInv
  BY DEF Init, DarkInv, InEof, Final
<1>2. DarkInv => StripRests
  BY DEF DarkInv, Quiet, Final, StripRests, AtRest
<1> QED
  BY <1>1, <1>2, TypeCorrect, DarkNext, PTL DEF Spec

-----------------------------------------------------------------------------
(* The toy comes to rest *)

LEMMA SendAddsOne ==
  ASSUME NEW S, NEW cap \in Nat, NEW q \in QueueOf(S, cap), NEW x \in S
  PROVE  /\ Len(q) \in Nat
         /\ Len(SendToBack(q, x, cap)) \in {Len(q), Len(q) + 1}
BY AppendProperties, LenProperties DEF SendToBack, QueueOf

LEMMA ReceiveTakesOne ==
  ASSUME NEW S, NEW cap \in Nat, NEW q \in QueueOf(S, cap), q # <<>>
  PROVE  Len(q) \in Nat /\ Len(Tail(q)) = Len(q) - 1
BY HeadTailProperties, LenProperties DEF QueueOf

IsrLeft == IF isr = NoSend THEN 0 ELSE 13

\* What waits for AudioTask and the strip, and what is left of the others.
AudioWork == 24 * Len(audioQ) + 2 * AudioLeft + Len(ledQ)
OtherWork == 2 * IsrLeft + BootLeft[boot]

LEMMA Regroup ==
  \A a, i, u, l, b \in Nat :
    /\ 24 * a + 2 * u + l \in Nat /\ 2 * i + b \in Nat
    /\ 2 * (12 * a + i + u) + l + b = (24 * a + 2 * u + l) + (2 * i + b)
OBVIOUS

LEMMA SumShrinks ==
  \A a, b, c, d \in Nat :
    \/ c < a /\ d = b
    \/ c = a /\ d < b
    \/ (c = a \/ c = a + 24) /\ b = d + 26
    => c + d < a + b
OBVIOUS

\* What StepsLeft adds up, before and after a step.
Sizes ==
  /\ Len(audioQ) \in Nat /\ AudioLeft \in Nat /\ Len(ledQ) \in Nat
  /\ AudioWork \in Nat /\ OtherWork \in Nat
  /\ StepsLeft = AudioWork + OtherWork

LEMMA StepsLeftIsSum == TypeOK => Sizes
<1> SUFFICES ASSUME TypeOK PROVE Sizes
  OBVIOUS
<1>1. Len(audioQ) \in Nat /\ Len(ledQ) \in Nat
  BY LenProperties DEF TypeOK, QueueOf
<1>2. IsrLeft \in Nat /\ AudioLeft \in Nat
  BY DEF IsrLeft, AudioLeft, TypeOK
<1>3. BootLeft[boot] \in Nat
  BY DEF BootLeft, TypeOK
<1>4. StepsLeft = 2 * (12 * Len(audioQ) + IsrLeft + AudioLeft) + Len(ledQ)
                  + BootLeft[boot]
  BY DEF StepsLeft, IsrLeft
<1> QED
  BY <1>1, <1>2, <1>3, <1>4, Regroup DEF Sizes, AudioWork, OtherWork

LEMMA PostAddsOne ==
  ASSUME TypeOK, NEW e \in ButtonPress_t, PostColour(e)
  PROVE  Len(ledQ) \in Nat /\ Len(ledQ') \in {Len(ledQ), Len(ledQ) + 1}
<1>1. ledQ \in QueueOf(ButtonPress_t, LedQueueLen) /\ LedQueueLen \in Nat
  BY PlaybackAssumption DEF TypeOK
<1> QED
  BY <1>1, SendAddsOne DEF PostColour

LEMMA AudioShrinks ==
  \A a, u, l, x, v, k \in Nat :
    /\ \/ v < u /\ x = a /\ k = l
       \/ v < u /\ x = a /\ k = l + 1
       \/ v + 12 < u /\ x = a + 1 /\ k = l
       \/ v < u + 12 /\ x = a - 1 /\ k = l
       \/ v < u /\ x = 0 /\ k = l
    => 24 * x + 2 * v + k < 24 * a + 2 * u + l
OBVIOUS

\* A step of AudioTask pays for the events it adds to its queue and, with half
\* a step of its own, for the colour it posts.
AudioTaskPays ==
  \/ AudioLeft' < AudioLeft /\ Len(audioQ') = Len(audioQ)
     /\ Len(ledQ') \in {Len(ledQ), Len(ledQ) + 1}
  \/ AudioLeft' + 12 < AudioLeft /\ Len(audioQ') = Len(audioQ) + 1
     /\ Len(ledQ') = Len(ledQ)
  \/ AudioLeft' < AudioLeft + 12 /\ Len(audioQ') = Len(audioQ) - 1
     /\ Len(ledQ') = Len(ledQ)
  \/ AudioLeft' < AudioLeft /\ Len(audioQ') = 0 /\ Len(ledQ') = Len(ledQ)

LEMMA AudioTaskDoesPay ==
  ASSUME TypeOK, FlagInv, AudioTask \/ LoopEndOfFile
  PROVE  AudioTaskPays
<1> USE DEF touchVars, ledVars, Goto
<1>0. /\ audioQ \in QueueOf(ButtonPress_t, AudioQueueLen)
      /\ Len(audioQ) \in Nat
      /\ rec_button_i2s \in ButtonPress_t /\ prev_button \in ButtonPress_t
      /\ eofReturn \in {"loop", "start"}
      /\ pc \in {"reset", "wake"} \/ InEof => playing = Silence
  BY Tables, LenProperties DEF TypeOK, FlagInv, QueueOf
<1>1. CASE TaskReset
  <2>1. AudioLeft = 14 /\ AudioLeft' = 13
    BY <1>1 DEF TaskReset, AudioLeft
  <2>2. Len(audioQ') = 0 /\ ledQ' = ledQ
    BY <1>1, EmptySeq DEF TaskReset
  <2> QED
    BY <2>1, <2>2 DEF AudioTaskPays
<1>2. CASE TaskWake
  <2>1. AudioLeft = 13 /\ AudioLeft' = 0
    BY <1>0, <1>2 DEF TaskWake, AudioLeft
  <2>2. Len(audioQ') \in {Len(audioQ), Len(audioQ) + 1} /\ ledQ' = ledQ
    BY <1>0, <1>2, SendAddsOne, PlaybackAssumption, Tables DEF TaskWake, TypeOK
  <2> QED
    BY <2>1, <2>2 DEF AudioTaskPays
<1>3. CASE Receive
  <2>0. AudioLeft \in {0, 4} /\ AudioLeft' \in {6, 9}
    BY <1>3 DEF Receive, AudioLeft
  <2>1. AudioLeft' < AudioLeft + 12
    BY <2>0
  <2>2. Len(audioQ') = Len(audioQ) - 1 /\ ledQ' = ledQ
    BY <1>0, <1>3, ReceiveTakesOne, PlaybackAssumption DEF Receive
  <2> QED
    BY <2>1, <2>2 DEF AudioTaskPays
<1>4. CASE Start
  <2>1. /\ pc = "start" /\ audioQ' = audioQ /\ ledQ' = ledQ
        /\ pc' \in {"loop", "colour"} /\ (pc' = "loop" => playing' = Silence)
    BY <1>4 DEF Start
  <2>2. AudioLeft = 6 /\ AudioLeft' \in {0, 5}
    BY <2>1 DEF AudioLeft
  <2>3. AudioLeft' < AudioLeft
    BY <2>2
  <2> QED
    BY <2>1, <2>3 DEF AudioTaskPays
<1>5. CASE Colour
  <2>0. AudioLeft = 5 /\ AudioLeft' \in {0, 4} /\ audioQ' = audioQ
    BY <1>5 DEF Colour, AudioLeft
  <2>1. AudioLeft' < AudioLeft /\ audioQ' = audioQ
    BY <2>0
  <2>2. Len(ledQ') \in {Len(ledQ), Len(ledQ) + 1}
    BY <1>0, <1>5, PostAddsOne DEF Colour
  <2> QED
    BY <2>1, <2>2 DEF AudioTaskPays
<1>6. CASE EofRelease \/ EofColour
  <2>1. /\ \/ pc = "eof" /\ pc' = "eofColour"
           \/ pc = "eofColour" /\ pc' = "eofToken"
        /\ eofReturn' = eofReturn /\ audioQ' = audioQ
    BY <1>6 DEF EofRelease, EofColour
  <2>2. eofReturn = "start"
          => <<AudioLeft, AudioLeft'>> \in {<<9, 8>>, <<8, 7>>}
    BY <2>1 DEF AudioLeft
  <2>3. eofReturn # "start"
          => <<AudioLeft, AudioLeft'>> \in {<<3, 2>>, <<2, 1>>}
    BY <2>1 DEF AudioLeft
  <2>4. AudioLeft' < AudioLeft
    BY <2>2, <2>3
  <2>5. Len(ledQ') \in {Len(ledQ), Len(ledQ) + 1}
    BY <1>0, <1>6, PostAddsOne DEF EofRelease, EofColour
  <2> QED
    BY <2>1, <2>4, <2>5 DEF AudioTaskPays
<1>7. CASE EofToken
  <2>1. /\ pc = "eofToken" /\ pc' = eofReturn /\ playing' = Silence
        /\ audioQ' = audioQ /\ ledQ' = ledQ
    BY <1>0, <1>7 DEF EofToken, InEof
  <2>2. eofReturn = "start" => AudioLeft = 7 /\ AudioLeft' = 6
    BY <2>1 DEF AudioLeft
  <2>3. eofReturn = "loop" => AudioLeft = 1 /\ AudioLeft' = 0
    BY <2>1 DEF AudioLeft
  <2>4. AudioLeft' < AudioLeft
    BY <1>0, <2>2, <2>3
  <2> QED
    BY <2>1, <2>4 DEF AudioTaskPays
<1>8. CASE LoopEndOfFile
  <2>1. /\ pc = "loop" /\ playing # Silence /\ pc' = "eof" /\ eofReturn' = "loop"
        /\ audioQ' = audioQ /\ ledQ' = ledQ
    BY <1>8 DEF LoopEndOfFile
  <2>2. AudioLeft = 4 /\ AudioLeft' = 3
    BY <2>1 DEF AudioLeft
  <2> QED
    BY <2>1, <2>2 DEF AudioTaskPays
<1> QED
  BY <1>1, <1>2, <1>3, <1>4, <1>5, <1>6, <1>7, <1>8 DEF AudioTask

LEMMA ToyStepShrinks ==
  ASSUME TypeOK, FlagInv, Sizes, Sizes', ToyStep
  PROVE  StepsLeft' < StepsLeft
<1>0. /\ audioQ \in QueueOf(ButtonPress_t, AudioQueueLen)
      /\ ledQ \in QueueOf(ButtonPress_t, LedQueueLen)
  BY DEF TypeOK
<1>1. /\ AudioWork \in Nat /\ OtherWork \in Nat /\ AudioWork' \in Nat
      /\ OtherWork' \in Nat
      /\ StepsLeft = AudioWork + OtherWork /\ StepsLeft' = AudioWork' + OtherWork'
  BY DEF Sizes
<1>2. /\ Len(audioQ) \in Nat /\ AudioLeft \in Nat /\ Len(ledQ) \in Nat
      /\ Len(audioQ') \in Nat /\ AudioLeft' \in Nat /\ Len(ledQ') \in Nat
  BY DEF Sizes
<1>3. CASE Setup
  <2>1. UNCHANGED <<audioQ, ledQ, isr, pc, eofReturn, playing>>
    BY <1>3 DEF Setup, AudioInit, StripInit, FireBaseInit, Advance, touchVars
  <2>2. AudioWork' = AudioWork
    BY <2>1 DEF AudioWork, AudioLeft
  <2>3. OtherWork' < OtherWork
    BY <1>3, <2>1 DEF OtherWork, IsrLeft, BootLeft, Setup, AudioInit, StripInit,
                      FireBaseInit, Advance
  <2> QED
    BY <1>1, <2>2, <2>3, SumShrinks
<1>4. CASE GotTouchSend
  <2>1. boot' = boot /\ ledQ' = ledQ /\ IsrLeft = 13 /\ IsrLeft' = 0
        /\ AudioLeft' = AudioLeft
    BY <1>4 DEF GotTouchSend, IsrLeft, AudioLeft
  <2>2. Len(audioQ') = Len(audioQ) \/ Len(audioQ') = Len(audioQ) + 1
    BY <1>0, <1>4, SendAddsOne, PlaybackAssumption, Tables
       DEF GotTouchSend, TypeOK
  <2>3. AudioWork' = AudioWork \/ AudioWork' = AudioWork + 24
    BY <1>2, <2>1, <2>2 DEF AudioWork
  <2>4. BootLeft[boot] \in Nat
    BY DEF BootLeft, TypeOK
  <2>5. OtherWork = OtherWork' + 26
    BY <2>1, <2>4 DEF OtherWork
  <2> QED
    BY <1>1, <2>3, <2>5, SumShrinks
<1>5. CASE LedStripTask
  <2>1. audioQ' = audioQ /\ AudioLeft' = AudioLeft /\ OtherWork' = OtherWork
    BY <1>5 DEF LedStripTask, touchVars, AudioLeft, OtherWork, IsrLeft
  <2>2. Len(ledQ') = Len(ledQ) - 1
    BY <1>0, <1>5, ReceiveTakesOne, PlaybackAssumption DEF LedStripTask
  <2>3. AudioWork' < AudioWork
    BY <1>2, <2>1, <2>2 DEF AudioWork
  <2> QED
    BY <1>1, <2>1, <2>3, SumShrinks
<1>6. CASE AudioTask \/ LoopEndOfFile
  <2>1. boot' = boot /\ isr' = isr
    BY <1>6 DEF AudioTask, TaskReset, TaskWake, Receive, Start, Colour,
                EofRelease, EofColour, EofToken, LoopEndOfFile, touchVars
  <2>2. OtherWork' = OtherWork
    BY <2>1 DEF OtherWork, IsrLeft
  <2>3. AudioTaskPays
    BY <1>6, AudioTaskDoesPay
  <2>4. AudioWork' < AudioWork
    BY <1>2, <2>3, AudioShrinks DEF AudioTaskPays, AudioWork
  <2> QED
    BY <1>1, <2>2, <2>4, SumShrinks
<1> QED
  BY <1>3, <1>4, <1>5, <1>6 DEF ToyStep

\* Whatever cut which recording short, and with queues empty or full, every
\* step the toy takes leaves it fewer to take: it stops unless it is touched.
THEOREM ToyRunsDown == Spec => WorkShrinks
<1>1. TypeOK /\ FlagInv /\ Sizes /\ Sizes'
        => [ToyStep => StepsLeft' < StepsLeft]_vars
  BY ToyStepShrinks
<1> QED
  BY <1>1, TypeCorrect, FlagCorrect, StepsLeftIsSum, PTL DEF WorkShrinks
=============================================================================
