---------------------------- MODULE LinkieAudio ----------------------------
(***************************************************************************)
(* The contract between AudioTask and FireBaseTask, which share the play   *)
(* counters, imp_music and xQueueFireBase and nothing else.                *)
(*                                                                         *)
(* AudioTask plays recordings: a counted one raises imp_music, and so may  *)
(* another; what a running recording raised is lowered at an end of file,  *)
(* which leaves a token if there is none.  A recording may not open, and   *)
(* one may be cut short without its end of file.  FireBaseTask takes       *)
(* tokens and clears counters, once it has created the queue.              *)
(*                                                                         *)
(* Playback has this AudioTask in detail, Telemetry this FireBaseTask, and *)
(* each implements the contract.                                           *)
(***************************************************************************)
EXTENDS Naturals

CONSTANT Counters     \* the play counters

VARIABLES
  ready,       \* xQueueFireBase exists
  tokens,      \* its length
  pending,     \* the counters that are not zero
  audio,       \* a recording runs, or its end is being handled
  imp_music

vars == <<ready, tokens, pending, audio, imp_music>>

-----------------------------------------------------------------------------
Init ==
  /\ ready = FALSE /\ tokens = 0 /\ pending = {}
  /\ audio = "idle" /\ imp_music = FALSE

(* AudioTask *)

\* The counter is a byte: the play that makes it wrap leaves it zero.
Count(c) ==
  /\ pending' \in {pending \cup {c}, pending \ {c}}
  /\ imp_music' = TRUE
  /\ audio' \in {"idle", "playing"}
  /\ UNCHANGED <<ready, tokens>>

PlayUncounted(important) ==
  /\ imp_music' = (imp_music \/ important)
  /\ audio' \in {"idle", "playing"}
  /\ UNCHANGED <<ready, tokens, pending>>

CutShort ==
  /\ audio = "playing" /\ audio' = "idle"
  /\ UNCHANGED <<ready, tokens, pending, imp_music>>

EndOfFile ==
  /\ audio = "playing" /\ audio' = "idle"
  /\ tokens' = IF ready /\ imp_music /\ tokens = 0 THEN 1 ELSE tokens
  /\ imp_music' = FALSE
  /\ UNCHANGED <<ready, pending>>

(* FireBaseTask *)

CreateQueue ==
  /\ ~ready /\ ready' = TRUE
  /\ UNCHANGED <<tokens, pending, audio, imp_music>>

TakeToken ==
  /\ tokens > 0 /\ tokens' = tokens - 1
  /\ UNCHANGED <<ready, pending, audio, imp_music>>

Clear(c) ==
  /\ ready
  /\ pending' = pending \ {c}
  /\ UNCHANGED <<ready, tokens, audio, imp_music>>

Next ==
  \/ \E c \in Counters : Count(c) \/ Clear(c)
  \/ \E important \in BOOLEAN : PlayUncounted(important)
  \/ CutShort \/ EndOfFile \/ CreateQueue \/ TakeToken

Spec == Init /\ [][Next]_vars
=============================================================================
