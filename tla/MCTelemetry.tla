---------------------------- MODULE MCTelemetry ----------------------------
(* Telemetry on a small toy: who is pressed and who sent the recordings. *)
EXTENDS Telemetry

Pair         == {"ann", "bob"}
OrangePurple == {"orange", "purple"}
PurpleRed    == {"purple", "red"}
SentBy(owner) == [c \in Colours |-> IF c \in DOMAIN owner THEN owner[c] ELSE NoSender]
\* orange has a recording of ann, purple has not been set up yet
Ann          == SentBy([orange |-> "ann"])
RedBob       == SentBy([purple |-> "ann", red |-> "bob"])
=============================================================================
