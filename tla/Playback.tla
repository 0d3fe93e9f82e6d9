------------------------------ MODULE Playback ------------------------------
(***************************************************************************)
(* From a touch to a sound and a light.                                    *)
(*                                                                         *)
(* Four actors share this state.  The touch interrupt (core 1) claims      *)
(* prev_button and posts the event to the audio queue.  AudioTask (core 0) *)
(* takes events, starts recordings and runs the end-of-file callback       *)
(* audio_eof_mp3, which releases prev_button.  LedStripTask (core 1) shows *)
(* the colours AudioTask posts.  The setup task (core 1) creates the       *)
(* queues one after the other while the other three already run.  Other    *)
(* tasks only post notices (volume, BLE mode, WiFi state) to the audio     *)
(* queue, and FireBaseTask takes the tokens and clears the play counters;  *)
(* it is the environment here and has Telemetry.tla to itself.             *)
(*                                                                         *)
(* A step is what one core does between two accesses to state the other    *)
(* core can change.                                                        *)
(***************************************************************************)
EXTENDS LinkieButtons, FreeRtosQueue, FiniteSets

CONSTANTS
  Pads,           \* the pads a person touches
  Notified,       \* the notices other tasks post
  Toys,           \* what may differ from boot to boot and toy to toy, see toy
  AudioQueueLen, LedQueueLen,
  CountMod,       \* the play counters are uint8_t: 2^8
  MaxPosts        \* bound: touches and notices in a behaviour

ASSUME PlaybackAssumption ==
  /\ Pads \subseteq Attached
  /\ Notified \subseteq Notices
  /\ Toys \subseteq [sleep_wake_press : Touches \cup {Idle},
                    stopCallsEof : BOOLEAN,    \* of stop_music_running
                    missing : SUBSET Files]    \* connecttoFS fails
  /\ AudioQueueLen \in Nat \ {0}
  /\ LedQueueLen \in Nat \ {0}
  /\ CountMod \in Nat \ {0}
  /\ MaxPosts \in Nat

Silence == "silence"
NoSend  == "nosend"
FireBaseQueueLen == 2

VARIABLES
  toy,             \* the press that woke it, its audio library, its files
  boot,            \* how far setup has come: the queues that exist
  audioQ, ledQ, fbTokens,   \* the three queues; fbTokens is a length
  prev_button,     \* written by the interrupt and by the callback
  isr,             \* the event the running interrupt has still to send
  pc,              \* where AudioTask is
  eofReturn,       \* where audio_eof_mp3 returns to
  rec_button_i2s,  \* the event AudioTask took last
  playing,         \* event of the running recording (audio->isRunning())
  end_of_audio, music_override, imp_music,
  strip,           \* the colour shown
  count,           \* the play counters
  posts,           \* number of touches and notices so far
  unplayed,        \* history: the last event taken or wiped started nothing
  ledLost          \* history: the last colour AudioTask posted was dropped

touchVars == <<prev_button, isr>>
flagVars  == <<end_of_audio, music_override, imp_music>>
ledVars   == <<ledQ, ledLost>>
vars == <<toy, boot, audioQ, ledQ, fbTokens, prev_button, isr,
          pc, eofReturn, rec_button_i2s, playing, end_of_audio,
          music_override, imp_music, strip, count, posts, unplayed, ledLost>>

-----------------------------------------------------------------------------
AudioReady == boot \in {"audio", "strip", "cloud"}   \* xQueueAudioPlay # NULL
StripReady == boot \in {"strip", "cloud"}            \* xQueueLedStrip # NULL
CloudReady == boot = "cloud"                         \* xQueueFireBase # NULL

Init ==
  /\ toy \in Toys /\ boot = "touch"
  /\ audioQ = <<>> /\ ledQ = <<>> /\ fbTokens = 0
  /\ prev_button = Idle /\ isr = NoSend
  /\ pc = "reset" /\ eofReturn = "loop" /\ rec_button_i2s = Idle
  /\ playing = Silence
  /\ end_of_audio = FALSE /\ music_override = FALSE /\ imp_music = FALSE
  /\ strip = Off
  /\ count = [c \in Colours |-> 0]
  /\ posts = 0 /\ unplayed = FALSE /\ ledLost = FALSE

(* setup(), after InitTouchPad has attached the interrupts *)

Advance(from, to) ==
  /\ boot = from /\ boot' = to
  /\ UNCHANGED <<toy, audioQ, ledQ, fbTokens, touchVars, pc,
                 eofReturn, rec_button_i2s, playing, flagVars, strip, count,
                 posts, unplayed, ledLost>>

AudioInit    == Advance("touch", "audio")
StripInit    == Advance("audio", "strip")
FireBaseInit == Advance("strip", "cloud")
Setup == AudioInit \/ StripInit \/ FireBaseInit

(* the touch interrupt: GotTouch0 ... GotTouch9, one at a time *)

GotTouch(b) ==
  /\ isr = NoSend /\ posts < MaxPosts
  /\ prev_button # b /\ AudioReady
  /\ prev_button' = b
  /\ isr' = b
  /\ posts' = posts + 1
  /\ UNCHANGED <<toy, boot, audioQ, ledQ, fbTokens, pc, eofReturn,
                 rec_button_i2s, playing, flagVars, strip, count, unplayed,
                 ledLost>>

\* Mutant: the send does not fail on a full queue.
GotTouchSendUnbounded ==
  /\ isr # NoSend
  /\ audioQ' = Append(audioQ, isr)
  /\ isr' = NoSend
  /\ UNCHANGED <<toy, boot, ledQ, fbTokens, prev_button, pc,
                 eofReturn, rec_button_i2s, playing, flagVars, strip, count,
                 posts, unplayed, ledLost>>

GotTouchSend ==
  /\ isr # NoSend
  /\ audioQ' = SendToBack(audioQ, isr, AudioQueueLen)
  /\ isr' = NoSend
  /\ UNCHANGED <<toy, boot, ledQ, fbTokens, prev_button, pc,
                 eofReturn, rec_button_i2s, playing, flagVars, strip, count,
                 posts, unplayed, ledLost>>

(* a notice from TouchPoll or BleTask1, after a pad was touched for some *)
(* seconds: setup is over by then                                        *)

Notice(e) ==
  /\ CloudReady /\ posts < MaxPosts
  /\ audioQ' = SendToBack(audioQ, e, AudioQueueLen)
  /\ posts' = posts + 1
  /\ UNCHANGED <<toy, boot, ledQ, fbTokens, touchVars, pc,
                 eofReturn, rec_button_i2s, playing, flagVars, strip, count,
                 unplayed, ledLost>>

-----------------------------------------------------------------------------
(* AudioTask *)

Goto(label) == pc' = label

\* xQueueReset wipes what was posted since AudioInit created the queue.
TaskReset ==
  /\ pc = "reset" /\ AudioReady
  /\ audioQ' = <<>>
  /\ unplayed' = (audioQ # <<>>)
  /\ Goto("wake")
  /\ UNCHANGED <<toy, boot, ledQ, fbTokens, touchVars, eofReturn,
                 rec_button_i2s, playing, flagVars, strip, count, posts,
                 ledLost>>

\* The press that woke the toy does not go through prev_button.
TaskWake ==
  /\ pc = "wake"
  /\ audioQ' = IF toy.sleep_wake_press # Idle
               THEN SendToBack(audioQ, toy.sleep_wake_press, AudioQueueLen)
               ELSE audioQ
  /\ Goto("loop")
  /\ UNCHANGED <<toy, boot, ledQ, fbTokens, touchVars, eofReturn,
                 rec_button_i2s, playing, flagVars, strip, count, posts,
                 unplayed, ledLost>>

\* A running recording is stopped first, and stop_music_running may run the
\* end-of-file callback.
Receive ==
  /\ pc = "loop" /\ audioQ # <<>>
  /\ rec_button_i2s' = Head(audioQ)
  /\ audioQ' = Tail(audioQ)
  /\ playing' = Silence
  /\ \/ /\ playing = Silence
        /\ Goto("start")
        /\ UNCHANGED <<music_override, eofReturn>>
     \/ /\ playing # Silence
        /\ music_override' = TRUE
        /\ eofReturn' = "start"
        /\ Goto(IF toy.stopCallsEof THEN "eof" ELSE "start")
  /\ UNCHANGED <<toy, boot, ledQ, fbTokens, touchVars,
                 end_of_audio, imp_music, strip, count, posts, unplayed,
                 ledLost>>

\* Mutant: one of the two purple branches forgets to.
RaisesButForPurple(e) == e \in Important \ {"kTouch8"}

\* The branches of ExtractFileName that set imp_music.
RaisesImpMusic(e) == e \in Important

\* ExtractFileName with its side effects, then connecttoFS, whose result
\* nobody looks at.
Start ==
  /\ pc = "start"
  /\ LET e == rec_button_i2s
         f == ExtractFileName(e)
         c == ColourOf(e)
     IN  /\ count' = IF c = NoColour THEN count
                     ELSE [count EXCEPT ![c] = (@ + 1) % CountMod]
         /\ imp_music' = (imp_music \/ RaisesImpMusic(e))
         /\ end_of_audio' = (end_of_audio /\ f = NoFile)
         /\ unplayed' = (f \in toy.missing \cup {NoFile})
         /\ playing' = IF unplayed' THEN Silence ELSE e
         /\ Goto(IF f = NoFile THEN "loop" ELSE "colour")
  /\ UNCHANGED <<toy, boot, audioQ, ledQ, fbTokens, touchVars,
                 eofReturn, rec_button_i2s, music_override, strip, posts,
                 ledLost>>

PostColour(e) ==
  /\ ledQ' = IF StripReady THEN SendToBack(ledQ, e, LedQueueLen) ELSE ledQ
  /\ ledLost' = (~StripReady \/ IsFull(ledQ, LedQueueLen))

\* Mutant: posts the button claimed instead of the event taken.
ColourOfClaim ==
  /\ pc = "colour"
  /\ PostColour(prev_button)
  /\ Goto("loop")
  /\ UNCHANGED <<toy, boot, audioQ, fbTokens, touchVars, eofReturn,
                 rec_button_i2s, playing, flagVars, strip, count, posts,
                 unplayed>>

Colour ==
  /\ pc = "colour"
  /\ PostColour(rec_button_i2s)
  /\ Goto("loop")
  /\ UNCHANGED <<toy, boot, audioQ, fbTokens, touchVars, eofReturn,
                 rec_button_i2s, playing, flagVars, strip, count, posts,
                 unplayed>>

\* Mutant: the library starts the recording over.
LoopEndOfFileRepeats ==
  /\ pc = "loop" /\ playing # Silence /\ ~end_of_audio
  /\ eofReturn' = "loop"
  /\ Goto("eof")
  /\ UNCHANGED <<toy, boot, audioQ, ledQ, fbTokens, touchVars,
                 rec_button_i2s, playing, flagVars, strip, count, posts,
                 unplayed, ledLost>>

\* audio->loop() reaches the end of the file and calls the callback.
LoopEndOfFile ==
  /\ pc = "loop" /\ playing # Silence /\ ~end_of_audio
  /\ playing' = Silence
  /\ eofReturn' = "loop"
  /\ Goto("eof")
  /\ UNCHANGED <<toy, boot, audioQ, ledQ, fbTokens, touchVars,
                 rec_button_i2s, flagVars, strip, count, posts, unplayed,
                 ledLost>>

(* audio_eof_mp3 *)

\* Mutant: the claim is not taken back.
EofKeepsClaim ==
  /\ pc = "eof"
  /\ end_of_audio' = TRUE
  /\ Goto("eofColour")
  /\ UNCHANGED <<toy, boot, audioQ, ledQ, fbTokens, touchVars,
                 eofReturn, rec_button_i2s, playing, music_override, imp_music,
                 strip, count, posts, unplayed, ledLost>>

EofRelease ==
  /\ pc = "eof"
  /\ end_of_audio' = TRUE
  /\ prev_button' = Idle
  /\ Goto("eofColour")
  /\ UNCHANGED <<toy, boot, audioQ, ledQ, fbTokens, isr, eofReturn,
                 rec_button_i2s, playing, music_override, imp_music, strip,
                 count, posts, unplayed, ledLost>>

\* Mutant: posts the event of the recording that ended.
EofColourOfLast ==
  /\ pc = "eofColour"
  /\ IF music_override THEN UNCHANGED ledVars ELSE PostColour(rec_button_i2s)
  /\ Goto("eofToken")
  /\ UNCHANGED <<toy, boot, audioQ, fbTokens, touchVars, eofReturn,
                 rec_button_i2s, playing, flagVars, strip, count, posts,
                 unplayed>>

\* Posts prev_button itself, which a touch may have claimed again.
EofColour ==
  /\ pc = "eofColour"
  /\ IF music_override THEN UNCHANGED ledVars ELSE PostColour(prev_button)
  /\ Goto("eofToken")
  /\ UNCHANGED <<toy, boot, audioQ, fbTokens, touchVars, eofReturn,
                 rec_button_i2s, playing, flagVars, strip, count, posts,
                 unplayed>>

\* Mutant: no token when another recording is about to start.
EofTokenUnlessOverridden ==
  /\ pc = "eofToken"
  /\ fbTokens' = IF CloudReady /\ imp_music /\ fbTokens = 0 /\ ~music_override
                 THEN 1 ELSE fbTokens
  /\ music_override' = FALSE
  /\ imp_music' = FALSE
  /\ Goto(eofReturn)
  /\ UNCHANGED <<toy, boot, audioQ, ledQ, touchVars, eofReturn,
                 rec_button_i2s, playing, end_of_audio, strip, count, posts,
                 unplayed, ledLost>>

\* Mutant: music_override is not reset.
EofKeepsOverride ==
  /\ pc = "eofToken"
  /\ fbTokens' = IF CloudReady /\ imp_music /\ fbTokens = 0
                 THEN 1 ELSE fbTokens
  /\ imp_music' = FALSE
  /\ Goto(eofReturn)
  /\ UNCHANGED <<toy, boot, audioQ, ledQ, touchVars, eofReturn,
                 rec_button_i2s, playing, end_of_audio, music_override, strip,
                 count, posts, unplayed, ledLost>>

EofToken ==
  /\ pc = "eofToken"
  /\ fbTokens' = IF CloudReady /\ imp_music /\ fbTokens = 0
                 THEN 1 ELSE fbTokens
  /\ music_override' = FALSE
  /\ imp_music' = FALSE
  /\ Goto(eofReturn)
  /\ UNCHANGED <<toy, boot, audioQ, ledQ, touchVars, eofReturn,
                 rec_button_i2s, playing, end_of_audio, strip, count, posts,
                 unplayed, ledLost>>

AudioTask == TaskReset \/ TaskWake \/ Receive \/ Start \/ Colour
             \/ EofRelease \/ EofColour \/ EofToken

(* LedStripTask *)

\* Mutant: peeks at the queue instead of receiving.
LedStripPeek ==
  /\ ledQ # <<>>
  /\ strip' = SetStripColor[Head(ledQ)]
  /\ UNCHANGED <<toy, boot, audioQ, ledVars, fbTokens, touchVars,
                 pc, eofReturn, rec_button_i2s, playing, flagVars, count, posts,
                 unplayed>>

LedStripTask ==
  /\ ledQ # <<>>
  /\ strip' = SetStripColor[Head(ledQ)]
  /\ ledQ' = Tail(ledQ)
  /\ UNCHANGED <<toy, boot, audioQ, fbTokens, touchVars, pc,
                 eofReturn, rec_button_i2s, playing, flagVars, count, posts,
                 unplayed, ledLost>>

(* FireBaseTask, as seen from here *)

FireBaseReceive ==
  /\ CloudReady /\ fbTokens > 0
  /\ fbTokens' = fbTokens - 1
  /\ UNCHANGED <<toy, boot, audioQ, ledQ, touchVars, pc, eofReturn,
                 rec_button_i2s, playing, flagVars, strip, count, posts,
                 unplayed, ledLost>>

FireBaseClears(c) ==
  /\ CloudReady /\ count[c] > 0
  /\ count' = [count EXCEPT ![c] = 0]
  /\ UNCHANGED <<toy, boot, audioQ, ledQ, fbTokens, touchVars, pc,
                 eofReturn, rec_button_i2s, playing, flagVars, strip, posts,
                 unplayed, ledLost>>

Next ==
  \/ Setup
  \/ \E b \in Pads : GotTouch(b)
  \/ GotTouchSend
  \/ \E e \in Notified : Notice(e)
  \/ AudioTask
  \/ LoopEndOfFile
  \/ LedStripTask
  \/ FireBaseReceive
  \/ \E c \in Colours : FireBaseClears(c)

Spec == Init /\ [][Next]_vars

(* The scheduler runs every ready task, an interrupt always returns, and a *)
(* recording that is left alone ends.  Nobody has to touch the toy.        *)
Fairness ==
  /\ WF_vars(Setup)
  /\ WF_vars(GotTouchSend)
  /\ WF_vars(AudioTask)
  /\ WF_vars(LoopEndOfFile)
  /\ WF_vars(LedStripTask)

FairSpec == Spec /\ Fairness

-----------------------------------------------------------------------------
(* Properties *)

\* Every variable keeps its type; in particular no queue outgrows its length.
TypeOK ==
  /\ toy \in Toys
  /\ boot \in {"touch", "audio", "strip", "cloud"}
  /\ audioQ \in QueueOf(ButtonPress_t, AudioQueueLen)
  /\ ledQ \in QueueOf(ButtonPress_t, LedQueueLen)
  /\ fbTokens \in 0..FireBaseQueueLen
  /\ prev_button \in Attached \cup {Idle}
  /\ isr \in Attached \cup {NoSend}
  /\ pc \in {"reset", "wake", "loop", "start", "colour",
             "eof", "eofColour", "eofToken"}
  /\ eofReturn \in {"loop", "start"}
  /\ rec_button_i2s \in ButtonPress_t
  /\ playing \in ButtonPress_t \cup {Silence}
  /\ end_of_audio \in BOOLEAN
  /\ music_override \in BOOLEAN /\ imp_music \in BOOLEAN
  /\ strip \in Touches \cup {Off}
  /\ count \in [Colours -> 0..CountMod-1]
  /\ posts \in 0..MaxPosts
  /\ unplayed \in BOOLEAN /\ ledLost \in BOOLEAN

\* The audio side has nothing left to do until somebody touches the toy.
AtRest == pc = "loop" /\ playing = Silence /\ audioQ = <<>> /\ isr = NoSend

\* A touch claims prev_button, and while it holds the claim another touch of
\* the same pad is ignored (GotTouchN).  Only audio_eof_mp3 takes the claim
\* back.  So once the toy is at rest no pad may still be claimed, whatever
\* touches, overrides and full queues went before; the one excuse is that the
\* last event started no recording and so had no end of file.
ButtonsRecover == AtRest /\ prev_button # Idle => unplayed

\* The flags of a recording do not outlive it: at rest music_override and
\* imp_music (TryConnection waits for the latter) are down again.
FlagsRecover == AtRest /\ (music_override \/ imp_music) => unplayed

\* TryConnection holds the connect sound back while imp_music is up.  So it is
\* up whenever a pressed recording runs, however that came to run; and, when
\* stopping a recording runs the callback and no recording is missing, only
\* then, so that the connect sound never waits for an unimportant one.
ImportantIsFlagged ==
  pc = "loop" /\ playing # Silence =>
    /\ playing \in Important => imp_music
    /\ toy.stopCallsEof /\ toy.missing = {} /\ imp_music
         => playing \in Important

\* When every colour posted has been shown, a running recording has its own
\* colour on the strip, also when it cut another one short.
StripShowsPlaying ==
  pc = "loop" /\ playing # Silence /\ ledQ = <<>> /\ ~ledLost
    => strip = SetStripColor[playing]

\* At rest the strip is dark, though the callback posts prev_button after a
\* touch may have claimed it again.  (When stopping a recording does not run
\* the callback, music_override outlives the stop and the next end of file
\* leaves the strip alone.)
StripRests ==
  toy.stopCallsEof /\ AtRest /\ ledQ = <<>> /\ ~ledLost /\ ~unplayed
    => strip = Off

(* What FireBaseTask sees of all this, see LinkieAudio. *)

AudioContract == INSTANCE LinkieAudio WITH
  Counters <- Colours,
  ready    <- CloudReady,
  tokens   <- fbTokens,
  pending  <- {c \in Colours : count[c] > 0},
  audio    <- IF playing # Silence \/ pc \in {"eof", "eofColour", "eofToken"}
              THEN "playing" ELSE "idle"

\* AudioTask keeps its contract with FireBaseTask whatever touches, overrides
\* and failed recordings come: it counts only with imp_music raised, and lowers
\* it only at an end of file, which leaves a token.
KeepsAudioContract == AudioContract!Spec

(* How many steps the toy has left, if nobody touches it *)

\* AudioTask, before it can take the next event.
AudioLeft ==
  CASE pc = "reset"     -> 14
    [] pc = "wake"      -> 13
    [] pc = "start"     -> 6
    [] pc = "colour"    -> 5
    [] pc = "loop"      -> IF playing = Silence THEN 0 ELSE 4
    [] pc = "eof"       -> IF eofReturn = "start" THEN 9 ELSE 3
    [] pc = "eofColour" -> IF eofReturn = "start" THEN 8 ELSE 2
    [] pc = "eofToken"  -> IF eofReturn = "start" THEN 7 ELSE 1

BootLeft == [touch |-> 3, audio |-> 2, strip |-> 1, cloud |-> 0]

\* An event is good for twelve steps of AudioTask, and each of them for one of
\* LedStripTask.
StepsLeft ==
  2 * (12 * Len(audioQ) + (IF isr = NoSend THEN 0 ELSE 13) + AudioLeft)
    + Len(ledQ) + BootLeft[boot]

ToyStep == Setup \/ GotTouchSend \/ AudioTask \/ LoopEndOfFile \/ LedStripTask

\* No step of the toy makes work: whatever cut which recording short, and with
\* queues empty or full, the steps it has left become fewer with each it takes.
\* So no recording starts over and no two tasks keep one another busy.
WorkShrinks == [][ToyStep => StepsLeft' < StepsLeft]_vars

\* When people leave the toy alone it comes to rest: no task waits for ever
\* for another, and every queue drains.
Settles == <>[](AtRest /\ ledQ = <<>>)

=============================================================================
