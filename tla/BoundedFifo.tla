----------------------------- MODULE BoundedFifo -----------------------------
(***************************************************************************)
(* What FixedRingQueue promises its caller: first in, first out, a push    *)
(* into a full queue is refused and overwrites nothing, and a reference to *)
(* the entry at a logical index reaches that entry and no other.  A queue  *)
(* without usable storage behaves as one of capacity zero.                 *)
(***************************************************************************)
EXTENDS Integers, Sequences

CONSTANTS Values, LogicalIndex

VARIABLES capacity, queue, answer

vars == <<capacity, queue, answer>>

Init ==
  /\ capacity \in Nat
  /\ queue = <<>>
  /\ answer = "ok"

Refused == answer' = "refused" /\ UNCHANGED queue

TryPush(value) ==
  \/ /\ Len(queue) < capacity
     /\ queue' = Append(queue, value)
     /\ answer' = "ok"
  \/ Len(queue) = capacity /\ Refused

TryPop ==
  \/ queue # <<>> /\ queue' = Tail(queue) /\ answer' = Head(queue)
  \/ queue = <<>> /\ Refused

PopFront ==
  \/ queue # <<>> /\ queue' = Tail(queue) /\ answer' = "ok"
  \/ queue = <<>> /\ Refused

At(index) ==
  \/ index < Len(queue) /\ answer' = queue[index + 1] /\ UNCHANGED queue
  \/ index >= Len(queue) /\ Refused

(* The caller writes through the reference. *)
Update(index, value) ==
  /\ index < Len(queue)
  /\ queue' = [queue EXCEPT ![index + 1] = value]
  /\ answer' = "ok"

Clear == queue' = <<>> /\ answer' = "ok"

Next ==
  /\ \/ \E value \in Values : TryPush(value)
     \/ TryPop
     \/ PopFront
     \/ \E index \in LogicalIndex : At(index)
     \/ \E index \in LogicalIndex, value \in Values : Update(index, value)
     \/ Clear
  /\ UNCHANGED capacity

Spec == Init /\ [][Next]_vars
=============================================================================
