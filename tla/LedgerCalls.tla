------------------------------ MODULE LedgerCalls ------------------------------
(***************************************************************************)
(* What CompletionLedger promises to whoever calls it, in any order and    *)
(* with any arguments: a partial function from identities to completion    *)
(* state.  No array, no positions, no counter.                             *)
(***************************************************************************)
EXTENDS CompletionLedger

CONSTANTS
  Works,        \* identities a caller may name
  Deliveries,
  Requests,     \* planned requests a caller may present
  Sessions      \* lifecycle views a caller may pass

VARIABLE ledger

Observed(request, outcome) == [identity |-> request, outcome |-> outcome]

Init == ledger = [w \in {} |-> NewSlot(NoWork, "Rejected")]

ReserveWork(work, delivery) ==
  /\ ReserveStatus(ledger, work, delivery) = "Reserved"
  /\ ledger' = Reserve(ledger, work, delivery)

RecordIssue(request) ==
  /\ IssueStatus(ledger, request) = "Recorded"
  /\ ledger' = RecordIssued(ledger, request)

ResolveRequest(request, outcome, session) ==
  /\ ResolveStatus(ledger, request, Observed(request, outcome), session)
       = "Resolved"
  /\ ledger' = Resolve(ledger, request, outcome)

Next ==
  \/ \E work \in Works :
       \/ \E delivery \in Deliveries : ReserveWork(work, delivery)
       \/ ledger' = ClosePlanningAfterFailure(ledger, work)
       \/ ledger' = Release(ledger, work)
       \/ ledger' = Abandon(ledger, work)
       \/ ledger' = AbandonGeneration(ledger, work.sessionGeneration)
  \/ \E request \in Requests :
       \/ RecordIssue(request)
       \/ \E outcome \in DownstreamOutcome, session \in Sessions :
            ResolveRequest(request, outcome, session)
  \/ \E session \in Sessions : ledger' = AbandonNotCurrent(ledger, session)
  \/ ledger' = WithoutWorks(ledger, DOMAIN ledger)

Spec == Init /\ [][Next]_ledger
=============================================================================
