----------------------------- MODULE MCPlayback -----------------------------
(* Playback on a small toy. *)
EXTENDS Playback

TwoPads == {"kTouch3", "kTouch8"}
Volume  == {"kvolumn"}
ToyWith(wake, calls, gone) ==
  [sleep_wake_press |-> wake, stopCallsEof |-> calls, missing |-> gone]
\* kTouch8 may have lost its recording; the toy may have been woken by a pad
\* that has one, or by one that has not.
AllToys == {ToyWith(Idle, FALSE, {"purple"}), ToyWith("kTouch9", TRUE, {}),
            ToyWith("kTouch3", TRUE, {"purple"})}
=============================================================================
