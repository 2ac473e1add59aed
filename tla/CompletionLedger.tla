-------------------------- MODULE CompletionLedger --------------------------
(***************************************************************************)
(* include/modbus_rtu_bridge/CompletionLedger.h: the completion debt of    *)
(* every admitted work.                                                    *)
(*                                                                         *)
(* A ledger is a function from the identities of the occupied slots to     *)
(* the slots.  The array positions the code keeps them in are not          *)
(* observable: find() selects by identity and reserve() never admits the   *)
(* same identity twice.  size_ is the cardinality of the domain.           *)
(***************************************************************************)
EXTENDS CompletionTransition, FiniteSets

CONSTANT LedgerCapacity     \* number of slots the caller supplied

ASSUME LedgerCapacityAssumption == LedgerCapacity \in Nat

-----------------------------------------------------------------------------
(* Outcomes of whole works. *)

WorkCompletionOutcome ==
  {"Pending", "Applied", "DefinitelyNotSent", "UncertainSend",
   "TerminalFailure"}

WorkOutcomeFor(outcome) ==
  CASE outcome = "Applied"           -> "Applied"
    [] outcome = "DefinitelyNotSent" -> "DefinitelyNotSent"
    [] outcome = "SendUncertain"     -> "UncertainSend"
    [] OTHER                         -> "TerminalFailure"

(* A slip: the latest outcome replaces the earlier ones. *)
LatestWorkOutcome(current, observed) == WorkOutcomeFor(observed)

CombineWorkOutcomes(current, observed) ==
  LET next == WorkOutcomeFor(observed)
  IN  IF current \in {"Pending", "Applied"} THEN next
      ELSE IF "TerminalFailure" \in {current, next} THEN "TerminalFailure"
      ELSE IF "UncertainSend" \in {current, next} THEN "UncertainSend"
      ELSE "DefinitelyNotSent"

-----------------------------------------------------------------------------
(* Slots. *)

LedgerSlot ==
  [aggregate : CompletionAggregate, issuedRequest : PlannedWriteRequest,
   observedOutcome : WorkCompletionOutcome, nextIssuedFragment : Nat,
   outstandingRequests : {0, 1}, planningClosed : BOOLEAN]

NewSlot(work, delivery) ==
  [aggregate |-> NewAggregate(work, delivery), issuedRequest |-> NoWrite,
   observedOutcome |-> "Pending", nextIssuedFragment |-> 0,
   outstandingRequests |-> 0, planningClosed |-> FALSE]

Failed(slot) == slot.observedOutcome \notin {"Pending", "Applied"}

Drained(slot) == slot.planningClosed /\ slot.outstandingRequests = 0

-----------------------------------------------------------------------------
(* Operations: a status, and the ledger after the successful case.  Every  *)
(* other status leaves the ledger as it was.                               *)

ReserveStatus(ledger, work, delivery) ==
  IF ~ValidWork(work) \/ ~IsAccepted(delivery) THEN "InvalidWork"
  ELSE IF work \in DOMAIN ledger THEN "DuplicateWork"
  ELSE IF Cardinality(DOMAIN ledger) >= LedgerCapacity THEN "Full"
  ELSE "Reserved"

Reserve(ledger, work, delivery) ==
  [w \in DOMAIN ledger \cup {work} |->
     IF w = work THEN NewSlot(work, delivery) ELSE ledger[w]]

IssueStatus(ledger, request) ==
  IF ~ValidRequest(request) \/ ~IsAccepted(request.delivery)
    THEN "InvalidRequest"
  ELSE IF request.work \notin DOMAIN ledger THEN "WorkNotFound"
  ELSE LET slot == ledger[request.work]
       IN  IF slot.planningClosed THEN "PlanningClosed"
           ELSE IF slot.outstandingRequests # 0 THEN "OutstandingRequestExists"
           ELSE IF \/ request.delivery # slot.aggregate.delivery
                   \/ request.fragmentIndex # slot.nextIssuedFragment
             THEN "OutOfOrder"
           ELSE IF /\ slot.nextIssuedFragment = MaxFragmentIndex
                   /\ ~request.finalFragment
             THEN "FragmentIndexOverflow"
           ELSE "Recorded"

(* A slip: the issue index stays. *)
IssuedSlotSameIndex(slot, request) ==
  [slot EXCEPT
     !.issuedRequest = request,
     !.outstandingRequests = 1,
     !.planningClosed = @ \/ request.finalFragment]

IssuedSlot(slot, request) ==
  [slot EXCEPT
     !.issuedRequest = request,
     !.outstandingRequests = 1,
     !.planningClosed = @ \/ request.finalFragment,
     !.nextIssuedFragment = IF request.finalFragment THEN @ ELSE @ + 1]

RecordIssued(ledger, request) ==
  [ledger EXCEPT ![request.work] = IssuedSlot(@, request)]

ClosePlanningAfterFailure(ledger, work) ==
  IF work \in DOMAIN ledger /\ Failed(ledger[work])
    THEN [ledger EXCEPT ![work].planningClosed = TRUE]
    ELSE ledger

(* A slip: the presented request is trusted, not the recorded one. *)
ResolveStatusAsPresented(ledger, expected, observed, session) ==
  IF expected.work \notin DOMAIN ledger THEN "WorkNotFound"
  ELSE LET slot == ledger[expected.work]
       IN  IF slot.outstandingRequests = 0 THEN "NoOutstandingRequest"
           ELSE IF ResolutionStatus(expected, observed, session,
                                    slot.aggregate) # "Current"
             THEN "CompletionRejected"
           ELSE "Resolved"

ResolveStatus(ledger, expected, observed, session) ==
  IF expected.work \notin DOMAIN ledger THEN "WorkNotFound"
  ELSE IF observed.outcome \notin DownstreamOutcome THEN "InvalidOutcome"
  ELSE LET slot == ledger[expected.work]
       IN  IF slot.outstandingRequests = 0 THEN "NoOutstandingRequest"
           ELSE IF slot.issuedRequest # expected THEN "RequestMismatch"
           ELSE IF ResolutionStatus(slot.issuedRequest, observed, session,
                                    slot.aggregate) # "Current"
             THEN "CompletionRejected"
           ELSE "Resolved"

ResolvedSlot(slot, outcome) ==
  [slot EXCEPT
     !.aggregate = ResolvedAggregate(slot.issuedRequest, outcome, @),
     !.observedOutcome = CombineWorkOutcomes(@, outcome),
     !.outstandingRequests = 0,
     !.issuedRequest = NoWrite]

Resolve(ledger, expected, outcome) ==
  [ledger EXCEPT ![expected.work] = ResolvedSlot(@, outcome)]

(* releaseSlot() for each of the given works; unknown works are ignored.   *)
(* It is the common effect of release(), abandon(), abandonGeneration(),   *)
(* abandonNotCurrent() and clear().                                        *)
WithoutWorks(ledger, works) ==
  [w \in DOMAIN ledger \ works |-> ledger[w]]

(* A slip: the entry is not released. *)
AbandonNothing(ledger, work) == ledger

Abandon(ledger, work) == WithoutWorks(ledger, {work})

(* A slip: a failed work is released before its request is answered. *)
ReleaseSettled(ledger, work) ==
  IF work \in DOMAIN ledger /\ (Drained(ledger[work]) \/ Failed(ledger[work]))
    THEN WithoutWorks(ledger, {work})
    ELSE ledger

Release(ledger, work) ==
  IF work \in DOMAIN ledger /\ Drained(ledger[work])
    THEN WithoutWorks(ledger, {work})
    ELSE ledger

(* Lifecycle teardown: the works of one generation, or all that the        *)
(* session no longer lets take effect.                                     *)
AbandonGeneration(ledger, generation) ==
  WithoutWorks(ledger,
    {w \in DOMAIN ledger :
       generation # 0 /\ w.sessionGeneration = generation})

AbandonNotCurrent(ledger, session) ==
  WithoutWorks(ledger, {w \in DOMAIN ledger : ~WorkCurrent(w, session)})

(* What summary() and resolve() report of a slot. *)
WorkCompletionSummary ==
  [work : WorkIdentity, outcome : WorkCompletionOutcome,
   outstandingRequests : {0, 1}, settled : BOOLEAN, drained : BOOLEAN]

Settled(slot) == Failed(slot) \/ Drained(slot)

Summarize(slot) ==
  [work |-> slot.aggregate.work,
   outcome |-> IF Settled(slot) THEN slot.observedOutcome ELSE "Pending",
   outstandingRequests |-> slot.outstandingRequests,
   settled |-> Settled(slot),
   drained |-> Drained(slot)]
=============================================================================
