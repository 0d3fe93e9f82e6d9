---------------------------- MODULE NetworkRing ----------------------------
(***************************************************************************)
(* What the saved networks promise, wherever they are kept: a ring, oldest *)
(* first, of fixed length.  A new network drops the oldest.  Losing the    *)
(* power may bring the dropped one back in the place of the new one, as    *)
(* long as the new ring is not safe, and may spoil entries; it never moves *)
(* an entry or makes one up.                                               *)
(***************************************************************************)
EXTENDS Naturals, Sequences

CONSTANTS
  Networks,     \* what can be saved
  Length,
  Empty,        \* an entry never used
  Spoilt,       \* what an entry that was lost may be
  Nothing       \* no entry to bring back

VARIABLES
  ring,         \* the saved networks, oldest first
  dropped       \* what losing the power now would bring back

vars == <<ring, dropped>>

Init ==
  /\ ring = [i \in 1..Length |-> Empty]
  /\ dropped = Nothing

Save(n) ==
  /\ ring' = Append(Tail(ring), n)
  /\ dropped' = Head(ring)

\* The entry that was dropped is gone for good.
Overwrite ==
  /\ dropped' = Nothing
  /\ UNCHANGED ring

Revert ==
  /\ dropped # Nothing
  /\ ring' = [ring EXCEPT ![Length] = dropped]
  /\ dropped' = Nothing

Spoil ==
  /\ dropped = Nothing
  /\ DOMAIN ring' = 1..Length
  /\ \A i \in 1..Length : ring'[i] \in {ring[i]} \cup Spoilt
  /\ UNCHANGED dropped

Next == (\E n \in Networks : Save(n)) \/ Overwrite \/ Revert \/ Spoil

Spec == Init /\ [][Next]_vars
=============================================================================
