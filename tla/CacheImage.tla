----------------------------- MODULE CacheImage -----------------------------
(***************************************************************************)
(* include/modbus_rtu_bridge/CacheImage.h: the range helpers of a cached   *)
(* register image, and the completion transition that moves its applied    *)
(* half.  An image is a function from the addresses 0..size-1; a range     *)
(* helper answers whether it acted and the image it leaves.  memcpy writes *)
(* where it is told to, also past the end of an image.                     *)
(*                                                                         *)
(* The bool and the uint16_t image behave alike; the views are over real   *)
(* memory, as validShape() demands, so no pointer is null.                 *)
(***************************************************************************)
EXTENDS CompletionTransition, Sequences

CONSTANT AddressModulus   \* 2^16: addresses and counts are below it

-----------------------------------------------------------------------------
Size(image) == CHOOSE n \in 0..AddressModulus : DOMAIN image = 0..(n - 1)

Span(start, count) == start..(start + count - 1)

Contains(image, start, count) ==
  count # 0 /\ start + count <= Size(image)

CopyFrom(image, start, source) ==
  IF ~Contains(image, start, Len(source)) THEN [ok |-> FALSE, image |-> image]
  ELSE [ok |-> TRUE,
        image |-> [a \in DOMAIN image \cup Span(start, Len(source)) |->
                     IF a \in Span(start, Len(source))
                     THEN source[a - start + 1] ELSE image[a]]]

CopyTo(image, start, count) ==
  IF ~Contains(image, start, count) THEN [ok |-> FALSE, values |-> <<>>]
  ELSE [ok |-> TRUE, values |-> [i \in 1..count |-> image[start + i - 1]]]

-----------------------------------------------------------------------------
(* DesiredAppliedCache: the visible (desired) image and the applied one.   *)

ValidShape(cache) == DOMAIN cache.visible = DOMAIN cache.applied

CaptureDesired(cache, start, snapshot) ==
  LET copy == CopyFrom(cache.visible, start, snapshot)
  IN  [ok |-> copy.ok, cache |-> [cache EXCEPT !.visible = copy.image]]

MarkApplied(cache, start, snapshot) ==
  LET copy == CopyFrom(cache.applied, start, snapshot)
  IN  [ok |-> copy.ok, cache |-> [cache EXCEPT !.applied = copy.image]]

Restore(cache, start, count) ==
  LET good == CopyTo(cache.applied, start, count)
      copy == CopyFrom(cache.visible, start, good.values)
  IN  [ok |-> good.ok /\ copy.ok,
       cache |-> IF good.ok THEN [cache EXCEPT !.visible = copy.image]
                 ELSE cache]

(* A slip: a failed result moves the applied image too. *)
AppliedTransitionAlways(cache, status, outcome, start, snapshot) ==
  IF status # "Current" THEN [ok |-> FALSE, cache |-> cache]
  ELSE MarkApplied(cache, start, snapshot)

(* applyAppliedImageTransition() on a request and its own decision. *)
AppliedTransition(cache, status, outcome, start, snapshot) ==
  IF status # "Current" THEN [ok |-> FALSE, cache |-> cache]
  ELSE IF ~MarksApplied(status, outcome) THEN [ok |-> TRUE, cache |-> cache]
  ELSE MarkApplied(cache, start, snapshot)
=============================================================================
