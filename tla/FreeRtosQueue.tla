--------------------------- MODULE FreeRtosQueue ---------------------------
(***************************************************************************)
(* The FreeRTOS queue as the firmware uses it.  A queue is a sequence of   *)
(* at most cap items, created once with xQueueCreate.  A send either       *)
(* appends at the back or, when the queue is still full at the end of its  *)
(* timeout (10 ticks from a task, none from an ISR), fails and changes     *)
(* nothing; every caller ignores the result.  Waiting for room inside the  *)
(* timeout is the sender not having taken its step yet.                    *)
(***************************************************************************)
EXTENDS Naturals, Sequences

IsFull(q, cap) == Len(q) >= cap

SendToBack(q, x, cap) == IF IsFull(q, cap) THEN q ELSE Append(q, x)

QueueOf(S, cap) == {q \in Seq(S) : Len(q) <= cap}
=============================================================================
