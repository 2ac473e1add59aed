---------------------------- MODULE FixedRingQueue ----------------------------
(***************************************************************************)
(* FixedRingQueue<T> of include/modbus_rtu_bridge/FixedStorage.h: a head   *)
(* and a size over an array the caller owns, indices as wide as uint16_t,  *)
(* the sum of two of them computed in 32 bits.                             *)
(***************************************************************************)
EXTENDS Integers, Sequences

CONSTANTS
  IndexSpace,     \* indices are 0 .. IndexSpace - 1; 0x10000 in the code
  Capacities,     \* the capacities the caller may construct a queue with
  Values          \* the records it may store

LogicalIndex == 0 .. IndexSpace - 1

ASSUME RingAssumption ==
  /\ IndexSpace \in Nat \ {0}
  /\ Capacities \subseteq LogicalIndex

VARIABLES
  hasStorage, storage, capacity, head, size,
  answer          \* what the last call returned

ring == <<storage, head, size>>
ringVars == <<hasStorage, capacity, ring, answer>>

RingTypeOK ==
  /\ hasStorage \in BOOLEAN
  /\ capacity \in Capacities
  /\ hasStorage => storage \in [0 .. capacity - 1 -> Values]
  /\ head \in 0 .. capacity
  /\ capacity > 0 => head < capacity
  /\ size \in 0 .. capacity
  /\ ~hasStorage => size = 0
  /\ size = 0 => head = 0

(* The array holds already-constructed records when the queue is made. *)
RingInit ==
  /\ hasStorage \in BOOLEAN
  /\ capacity \in Capacities
  /\ storage \in IF hasStorage THEN [0 .. capacity - 1 -> Values] ELSE {<<>>}
  /\ head = 0
  /\ size = 0
  /\ answer = "ok"

-----------------------------------------------------------------------------
ValidStorage == capacity = 0 \/ hasStorage

Increment(index) ==
  LET next == (index + 1) % IndexSpace
  IN  IF next = capacity THEN 0 ELSE next

(* A slip: the sum is as narrow as its operands. *)
PhysicalIndexNarrow(logicalIndex) ==
  LET sum == (head + logicalIndex) % IndexSpace
  IN  IF sum >= capacity THEN sum - capacity ELSE sum

PhysicalIndex(logicalIndex) ==
  LET sum == head + logicalIndex
  IN  IF sum >= capacity THEN sum - capacity ELSE sum

Refused == answer' = "refused" /\ UNCHANGED ring

TryPush(value) ==
  \/ (~ValidStorage \/ size = capacity) /\ Refused
  \/ /\ ValidStorage /\ size # capacity
     /\ storage' = [storage EXCEPT ![PhysicalIndex(size)] = value]
     /\ size' = size + 1
     /\ answer' = "ok"
     /\ UNCHANGED head

DropFront ==
  /\ size' = size - 1
  /\ head' = IF size - 1 = 0 THEN 0 ELSE Increment(head)
  /\ UNCHANGED storage

Popable == size # 0 /\ ValidStorage

TryPop ==
  \/ ~Popable /\ Refused
  \/ Popable /\ answer' = storage[head] /\ DropFront

PopFront ==
  \/ ~Popable /\ Refused
  \/ Popable /\ answer' = "ok" /\ DropFront

Reachable(index) == index < size /\ ValidStorage

At(index) ==
  \/ ~Reachable(index) /\ Refused
  \/ /\ Reachable(index)
     /\ answer' = storage[PhysicalIndex(index)]
     /\ UNCHANGED ring

(* The caller writes through the pointer that at() or front() returned. *)
Update(index, value) ==
  /\ Reachable(index)
  /\ storage' = [storage EXCEPT ![PhysicalIndex(index)] = value]
  /\ answer' = "ok"
  /\ UNCHANGED <<head, size>>

Clear ==
  /\ head' = 0
  /\ size' = 0
  /\ answer' = "ok"
  /\ UNCHANGED storage

RingNext ==
  /\ \/ \E value \in Values : TryPush(value)
     \/ TryPop
     \/ PopFront
     \/ \E index \in LogicalIndex : At(index)
     \/ \E index \in LogicalIndex, value \in Values : Update(index, value)
     \/ Clear
  /\ UNCHANGED <<hasStorage, capacity>>

RingSpec == RingInit /\ [][RingNext]_ringVars

-----------------------------------------------------------------------------
(* The entries in logical order. *)
RingEntries == [i \in 1 .. size |-> storage[PhysicalIndex(i - 1)]]

Fifo == INSTANCE BoundedFifo
          WITH capacity <- IF hasStorage THEN capacity ELSE 0,
               queue <- RingEntries

(* Wherever the head stands, the ring is a bounded FIFO: nothing is        *)
(* overwritten, lost or reordered by wrapping, by clearing, or by writing  *)
(* through a reference, and the sum of two indices never loses a carry.    *)
RingIsFifo == Fifo!Spec
=============================================================================
