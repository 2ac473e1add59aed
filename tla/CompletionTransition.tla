------------------------ MODULE CompletionTransition ------------------------
(***************************************************************************)
(* include/modbus_rtu_bridge/CompletionTransition.h: one terminal result   *)
(* of one downstream request, resolved into the completion state of the    *)
(* logical work it belongs to.                                             *)
(*                                                                         *)
(* A planned write keeps the fields completion depends on; addresses and   *)
(* payload pointers never influence a decision and are left out.           *)
(***************************************************************************)
EXTENDS IngressWork

CONSTANT MaxFragmentIndex   \* 0xFFFF: the last value of a fragment index

ASSUME FragmentIndexAssumption == MaxFragmentIndex \in Nat \ {0}

-----------------------------------------------------------------------------
(* Requests and outcomes. *)

PlannedWriteRequest ==
  [work : WorkIdentity, requestSequence : Nat, fragmentIndex : Nat,
   delivery : IngressDelivery, finalFragment : BOOLEAN]

NoWrite ==
  [work |-> NoWork, requestSequence |-> 0, fragmentIndex |-> 0,
   delivery |-> "Rejected", finalFragment |-> FALSE]

ValidRequest(request) ==
  ValidWork(request.work) /\ request.requestSequence # 0

SameRequestIdentity(a, b) ==
  /\ a.work = b.work
  /\ a.requestSequence = b.requestSequence
  /\ a.fragmentIndex = b.fragmentIndex

DownstreamOutcome ==
  {"Applied", "DefinitelyNotSent", "SendUncertain", "FailedAfterSend"}

-----------------------------------------------------------------------------
(* The per-work aggregate and the decision a resolution returns. *)

CompletionNotice == {"None", "WorkSucceeded", "WorkFailed"}

CompletionAggregate ==
  [work : WorkIdentity, delivery : IngressDelivery, nextFragmentIndex : Nat,
   failed : BOOLEAN, complete : BOOLEAN, noticeEmitted : BOOLEAN]

NewAggregate(work, delivery) ==
  [work |-> work, delivery |-> delivery, nextFragmentIndex |-> 0,
   failed |-> FALSE, complete |-> FALSE, noticeEmitted |-> FALSE]

ValidAggregate(aggregate) ==
  ValidWork(aggregate.work) /\ IsAccepted(aggregate.delivery)

(* A slip: the session is not looked at. *)
ResolutionStatusAnySession(expected, observed, session, aggregate) ==
  IF expected.fragmentIndex # aggregate.nextFragmentIndex THEN "OutOfOrder"
  ELSE "Current"

(* The checks of resolveCompletion() in the order the code makes them. *)
ResolutionStatus(expected, observed, session, aggregate) ==
  IF \/ ~ValidAggregate(aggregate)
     \/ ~ValidRequest(expected)
     \/ expected.work # aggregate.work
     \/ expected.delivery # aggregate.delivery
    THEN "AggregateMismatch"
  ELSE IF aggregate.complete THEN "AlreadyTerminal"
  ELSE IF observed.outcome \notin DownstreamOutcome THEN "InvalidOutcome"
  ELSE IF ~SameRequestIdentity(expected, observed.identity)
    THEN "IdentityMismatch"
  ELSE IF ~WorkCurrent(expected.work, session) THEN "StaleSession"
  ELSE IF expected.fragmentIndex # aggregate.nextFragmentIndex THEN "OutOfOrder"
  ELSE IF ~expected.finalFragment
          /\ aggregate.nextFragmentIndex = MaxFragmentIndex
    THEN "AggregateMismatch"
  ELSE "Current"

(* A slip: the final flag is not looked at. *)
NoticeOnAnyFragment(expected, outcome, aggregate) ==
  IF ~TracksPublicCompletion(expected.delivery) \/ aggregate.noticeEmitted
    THEN "None"
  ELSE IF outcome # "Applied" THEN "WorkFailed"
  ELSE "WorkSucceeded"

(* The public notice a current resolution emits. *)
ResolutionNotice(expected, outcome, aggregate) ==
  IF ~TracksPublicCompletion(expected.delivery) \/ aggregate.noticeEmitted
    THEN "None"
  ELSE IF outcome # "Applied" THEN "WorkFailed"
  ELSE IF expected.finalFragment /\ ~aggregate.failed THEN "WorkSucceeded"
  ELSE "None"

(* A slip: a failed fragment does not advance the aggregate. *)
ResolvedAggregateStuckOnFailure(expected, outcome, aggregate) ==
  [aggregate EXCEPT
     !.failed = @ \/ outcome # "Applied",
     !.complete = expected.finalFragment,
     !.nextFragmentIndex =
       IF expected.finalFragment \/ outcome # "Applied" THEN @ ELSE @ + 1,
     !.noticeEmitted =
       @ \/ ResolutionNotice(expected, outcome, aggregate) # "None"]

(* The aggregate after a current resolution. *)
ResolvedAggregate(expected, outcome, aggregate) ==
  [aggregate EXCEPT
     !.failed = @ \/ outcome # "Applied",
     !.complete = expected.finalFragment,
     !.nextFragmentIndex = IF expected.finalFragment THEN @ ELSE @ + 1,
     !.noticeEmitted =
       @ \/ ResolutionNotice(expected, outcome, aggregate) # "None"]

(* Only an applied outcome lets the caller advance its applied image. *)
MarksApplied(status, outcome) == status = "Current" /\ outcome = "Applied"
=============================================================================
