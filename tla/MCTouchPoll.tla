---------------------------- MODULE MCTouchPoll ----------------------------
(* TouchPoll with short touch times. *)
EXTENDS TouchPoll
=============================================================================
