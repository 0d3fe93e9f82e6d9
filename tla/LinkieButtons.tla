--------------------------- MODULE LinkieButtons ---------------------------
(***************************************************************************)
(* The events of the toy (enum ButtonPress_t) and the pure tables the      *)
(* tasks look them up in: the recording an event plays, the play counter   *)
(* it belongs to and the colour the strip shows.                           *)
(***************************************************************************)

Touches == {"kTouch0", "kTouch1", "kTouch2", "kTouch3", "kTouch4",
            "kTouch5", "kTouch6", "kTouch7", "kTouch8", "kTouch9"}
Notices == {"kble", "kvolumn", "kconnect", "kdisconnect"}
Idle    == "kTouchIdle"

ButtonPress_t == Touches \cup Notices \cup {Idle}

\* Pads with an interrupt handler attached; the other attach calls are
\* commented out in InitTouchPad.
Attached == {"kTouch0", "kTouch3", "kTouch5", "kTouch6", "kTouch7", "kTouch8"}

\* The play counters, and the one ExtractFileName increments for an event.
Colours  == {"blue", "green", "orange", "red", "purple", "yellow"}
NoColour == "none"

Counter == [kTouch1 |-> "blue",   kTouch2 |-> "green",  kTouch3 |-> "orange",
            kTouch5 |-> "red",    kTouch6 |-> "purple", kTouch7 |-> "yellow",
            kTouch8 |-> "purple"]

ColourOf(e) == IF e \in DOMAIN Counter THEN Counter[e] ELSE NoColour

\* The recordings, and the one ExtractFileName returns; NoFile is its NULL.
\* kTouch7 counts as yellow but plays the goodbye recording.
NoFile == "NULL"

Recording == [kTouch0 |-> "call",   kTouch1 |-> "blue",    kTouch2 |-> "green",
              kTouch3 |-> "orange", kTouch5 |-> "red",     kTouch6 |-> "purple",
              kTouch7 |-> "goodbye", kTouch8 |-> "purple",
              kble |-> "ble",       kvolumn |-> "volumn",
              kconnect |-> "wificon", kdisconnect |-> "wifidis"]

ExtractFileName(e) == IF e \in DOMAIN Recording THEN Recording[e] ELSE NoFile

Files == {Recording[e] : e \in DOMAIN Recording}

\* Events whose recording raises imp_music: a person pressed for it.
Important == Touches \cap DOMAIN Recording

\* A lit colour is named by the pad that chose it: the RGB triples differ.
Off == "off"

SetStripColor ==
  [e \in ButtonPress_t |-> IF e \in Touches \ {"kTouch8"} THEN e ELSE Off]
=============================================================================
