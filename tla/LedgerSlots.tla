------------------------------ MODULE LedgerSlots ------------------------------
(***************************************************************************)
(* The array CompletionLedger is kept in: caller-owned slots, searched     *)
(* from index 0 by find() and firstFree(), and the occupancy counter       *)
(* size_ that every reserve and release maintains by hand.                 *)
(*                                                                         *)
(* Every call is possible at any time with any argument; a call that       *)
(* answers with an error leaves the array alone and is a stuttering step.  *)
(***************************************************************************)
EXTENDS CompletionLedger

CONSTANTS Works, Deliveries, Requests, Sessions    \* as in LedgerCalls

ASSUME SlotsAssumption ==
  /\ Works \subseteq WorkIdentity
  /\ Deliveries \subseteq IngressDelivery
  /\ Requests \subseteq PlannedWriteRequest
  /\ Sessions \subseteq SessionStateView

VARIABLES
  storage,   \* whether the caller supplied an array: slots_ != nullptr
  slots,
  size

vars == <<storage, slots, size>>

-----------------------------------------------------------------------------
EmptySlot == [occupied |-> FALSE, state |-> NewSlot(NoWork, "Rejected")]

OccupiedSlot(state) == [occupied |-> TRUE, state |-> state]

Indices == IF storage THEN 0..LedgerCapacity - 1 ELSE {}

First(indices) == CHOOSE i \in indices : \A j \in indices : i <= j

Occupied == {i \in Indices : slots[i].occupied}

WorkAt(i) == slots[i].state.aggregate.work

(* A slip: generations are not compared. *)
PositionsByToken(work) ==
  {i \in Occupied : ValidWork(work) /\ WorkAt(i).sourceToken = work.sourceToken}

(* find() answers the first of these, or nothing. *)
Positions(work) ==
  {i \in Occupied : ValidWork(work) /\ WorkAt(i) = work}

(* The ledger as a call for one work finds it. *)
Seen(work) ==
  [w \in {work} \cap {WorkAt(i) : i \in Positions(work)} |->
     slots[First(Positions(work))].state]

Observed(request, outcome) == [identity |-> request, outcome |-> outcome]

-----------------------------------------------------------------------------
Init ==
  /\ storage \in BOOLEAN
  /\ slots = [i \in Indices |-> EmptySlot]
  /\ size = 0

SlotReserveStatus(work, delivery) ==
  IF ~storage /\ LedgerCapacity # 0 THEN "InvalidStorage"
  ELSE IF ~ValidWork(work) \/ ~IsAccepted(delivery) THEN "InvalidWork"
  ELSE IF Positions(work) # {} THEN "DuplicateWork"
  ELSE IF Indices \ Occupied = {} THEN "Full"
  ELSE "Reserved"

ReserveWork(work, delivery) ==
  /\ SlotReserveStatus(work, delivery) = "Reserved"
  /\ slots' = [slots EXCEPT ![First(Indices \ Occupied)] =
                 OccupiedSlot(NewSlot(work, delivery))]
  /\ size' = size + 1
  /\ UNCHANGED storage

(* A slip: the search for a slot ignores the identity. *)
UpdateFirst(work, state) ==
  /\ slots' = [slots EXCEPT ![First(Occupied)].state = state]
  /\ UNCHANGED <<storage, size>>

Update(work, state) ==
  /\ slots' = [slots EXCEPT ![First(Positions(work))].state = state]
  /\ UNCHANGED <<storage, size>>

RecordIssue(request) ==
  /\ IssueStatus(Seen(request.work), request) = "Recorded"
  /\ Update(request.work, IssuedSlot(Seen(request.work)[request.work], request))

ResolveRequest(request, outcome, session) ==
  /\ ResolveStatus(Seen(request.work), request, Observed(request, outcome),
                   session) = "Resolved"
  /\ Update(request.work,
            ResolvedSlot(Seen(request.work)[request.work], outcome))

ClosePlanning(work) ==
  /\ Positions(work) # {}
  /\ Failed(Seen(work)[work])
  /\ Update(work, [Seen(work)[work] EXCEPT !.planningClosed = TRUE])

(* A slip: the counter is decremented once, whatever was released. *)
ReleaseSlotsCountOne(indices) ==
  /\ slots' = [i \in Indices |-> IF i \in indices THEN EmptySlot ELSE slots[i]]
  /\ size' = IF indices = {} THEN size ELSE size - 1
  /\ UNCHANGED storage

(* releaseSlot() for each of these. *)
ReleaseSlots(indices) ==
  /\ slots' = [i \in Indices |-> IF i \in indices THEN EmptySlot ELSE slots[i]]
  /\ size' = size - Cardinality(indices)
  /\ UNCHANGED storage

ReleaseWork(work) ==
  /\ Positions(work) # {}
  /\ Drained(Seen(work)[work])
  /\ ReleaseSlots({First(Positions(work))})

AbandonWork(work) ==
  /\ Positions(work) # {}
  /\ ReleaseSlots({First(Positions(work))})

AbandonOneGeneration(generation) ==
  /\ generation # 0
  /\ ReleaseSlots({i \in Occupied : WorkAt(i).sessionGeneration = generation})

AbandonStale(session) ==
  ReleaseSlots({i \in Occupied : ~WorkCurrent(WorkAt(i), session)})

Clear ==
  /\ slots' = [i \in Indices |-> EmptySlot]
  /\ size' = 0
  /\ UNCHANGED storage

Next ==
  \/ \E work \in Works :
       \/ \E delivery \in Deliveries : ReserveWork(work, delivery)
       \/ ClosePlanning(work)
       \/ ReleaseWork(work)
       \/ AbandonWork(work)
       \/ AbandonOneGeneration(work.sessionGeneration)
  \/ \E request \in Requests :
       \/ RecordIssue(request)
       \/ \E outcome \in DownstreamOutcome, session \in Sessions :
            ResolveRequest(request, outcome, session)
  \/ \E session \in Sessions : AbandonStale(session)
  \/ Clear

Spec == Init /\ [][Next]_vars

-----------------------------------------------------------------------------
(* The ledger the array represents. *)

Ledger ==
  [w \in {WorkAt(i) : i \in Occupied} |-> slots[First(Positions(w))].state]

Calls == INSTANCE LedgerCalls WITH ledger <- Ledger

-----------------------------------------------------------------------------
(* Properties. *)

(* Slots hold completion states; free slots hold nothing. *)
TypeOK ==
  /\ storage \in BOOLEAN
  /\ slots \in [Indices -> [occupied : BOOLEAN, state : LedgerSlot]]
  /\ \A i \in Indices \ Occupied : slots[i] = EmptySlot
  /\ size \in 0..LedgerCapacity

(* size_, behind size(), empty() and full(): maintained call by call, it   *)
(* always counts the occupied slots, and no identity occupies two of them, *)
(* whatever holes releases and teardowns leave in the array.               *)
SizeCountsWorks ==
  /\ size = Cardinality(Occupied)
  /\ \A i, j \in Occupied : WorkAt(i) = WorkAt(j) => i = j

(* find() and firstFree(): with usable storage each call answers from the  *)
(* array what it would answer from the represented ledger, refusals        *)
(* included; without it every reservation fails.                           *)
AnswersFromArray ==
  /\ \A work \in Works, delivery \in Deliveries :
       SlotReserveStatus(work, delivery) =
         IF ~storage /\ LedgerCapacity # 0 THEN "InvalidStorage"
         ELSE ReserveStatus(Ledger, work, delivery)
  /\ \A request \in Requests :
       /\ IssueStatus(Seen(request.work), request) = IssueStatus(Ledger, request)
       /\ \A outcome \in DownstreamOutcome, session \in Sessions :
            ResolveStatus(Seen(request.work), request,
                          Observed(request, outcome), session) =
            ResolveStatus(Ledger, request, Observed(request, outcome), session)

(* Every step of the array is a step of the represented ledger: the facade *)
(* and the runner, modelled over that ledger, lose nothing by it.          *)
ImplementsLedger == Calls!Spec
=============================================================================
