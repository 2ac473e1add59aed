------------------------- MODULE LedgerRunnerProofs -------------------------
(***************************************************************************)
(* Direct use of the ledger, for every set of works, extents and sessions, *)
(* every capacity and every counter width: a result counts exactly once,   *)
(* an open request always has its slot, and no work is ever wedged.        *)
(***************************************************************************)
EXTENDS LedgerRunner, TLAPS

-----------------------------------------------------------------------------
(* What the operations of the ledger make of one slot. *)

LEMMA SequenceRange ==
  ASSUME NEW value \in 0 .. SequenceModulus - 1
  PROVE  NextNonZero(value, SequenceModulus) \in 1 .. SequenceModulus - 1
BY RunnerAssumption DEF NextNonZero

LEMMA NoWriteTyped == NoWrite \in PlannedWriteRequest /\ NoWork \in WorkIdentity
BY DEF NoWrite, PlannedWriteRequest, NoWork, WorkIdentity, IngressDelivery

LEMMA FreshSlot ==
  ASSUME NEW work \in WorkIdentity, NEW delivery \in IngressDelivery
  PROVE  LET slot == NewSlot(work, delivery)
         IN  /\ slot \in LedgerSlot
             /\ slot.aggregate.work = work
             /\ slot.aggregate.delivery = delivery
             /\ slot.aggregate.nextFragmentIndex = 0
             /\ ~slot.aggregate.complete
             /\ ~slot.aggregate.failed
             /\ ~slot.aggregate.noticeEmitted
             /\ slot.observedOutcome = "Pending"
             /\ slot.nextIssuedFragment = 0
             /\ slot.outstandingRequests = 0
             /\ ~slot.planningClosed
BY NoWriteTyped
DEF NewSlot, NewAggregate, LedgerSlot, CompletionAggregate,
    WorkCompletionOutcome

(* recordIssued() *)
LEMMA SlotAfterIssue ==
  ASSUME NEW slot \in LedgerSlot, NEW request \in PlannedWriteRequest
  PROVE  LET next == IssuedSlot(slot, request)
         IN  /\ next \in LedgerSlot
             /\ next.aggregate = slot.aggregate
             /\ next.observedOutcome = slot.observedOutcome
             /\ next.issuedRequest = request
             /\ next.outstandingRequests = 1
             /\ next.planningClosed
                  <=> slot.planningClosed \/ request.finalFragment
             /\ next.nextIssuedFragment =
                  IF request.finalFragment THEN slot.nextIssuedFragment
                  ELSE slot.nextIssuedFragment + 1
<1> DEFINE closed == slot.planningClosed \/ request.finalFragment
           index == IF request.finalFragment THEN slot.nextIssuedFragment
                    ELSE slot.nextIssuedFragment + 1
           next == IssuedSlot(slot, request)
<1>1. closed \in BOOLEAN
  OBVIOUS
<1>2. index \in Nat
  BY DEF LedgerSlot
<1>3. next = [slot EXCEPT !.issuedRequest = request,
                          !.outstandingRequests = 1,
                          !.planningClosed = closed,
                          !.nextIssuedFragment = index]
  BY Zenon DEF IssuedSlot
<1> SUFFICES /\ next \in LedgerSlot
             /\ next.aggregate = slot.aggregate
             /\ next.observedOutcome = slot.observedOutcome
             /\ next.issuedRequest = request
             /\ next.outstandingRequests = 1
             /\ next.planningClosed = closed
             /\ next.nextIssuedFragment = index
  BY Zenon
<1> HIDE DEF next, closed, index
<1>4. next \in LedgerSlot
  BY <1>1, <1>2, <1>3 DEF LedgerSlot
<1>5. /\ next.aggregate = slot.aggregate
      /\ next.observedOutcome = slot.observedOutcome
      /\ next.issuedRequest = request
      /\ next.outstandingRequests = 1
  BY <1>3 DEF LedgerSlot
<1>6. next.planningClosed = closed /\ next.nextIssuedFragment = index
  BY <1>3 DEF LedgerSlot
<1> QED BY <1>4, <1>5, <1>6

(* The transition on the aggregate. *)
LEMMA AggregateAfterResult ==
  ASSUME NEW old \in CompletionAggregate, NEW request \in PlannedWriteRequest,
         NEW outcome \in DownstreamOutcome
  PROVE  LET next == ResolvedAggregate(request, outcome, old)
         IN  /\ next \in CompletionAggregate
             /\ next.work = old.work
             /\ next.delivery = old.delivery
             /\ next.complete = request.finalFragment
             /\ next.nextFragmentIndex =
                  IF request.finalFragment THEN old.nextFragmentIndex
                  ELSE old.nextFragmentIndex + 1
             /\ next.failed <=> old.failed \/ outcome # "Applied"
             /\ next.noticeEmitted
                  <=> \/ old.noticeEmitted
                      \/ ResolutionNotice(request, outcome, old) # "None"
<1> DEFINE failed == old.failed \/ outcome # "Applied"
           final == request.finalFragment
           index == IF final THEN old.nextFragmentIndex
                    ELSE old.nextFragmentIndex + 1
           emitted == \/ old.noticeEmitted
                      \/ ResolutionNotice(request, outcome, old) # "None"
           next == ResolvedAggregate(request, outcome, old)
<1>1. failed \in BOOLEAN /\ emitted \in BOOLEAN
  OBVIOUS
<1>2. final \in BOOLEAN
  BY DEF PlannedWriteRequest
<1>3. index \in Nat
  BY DEF CompletionAggregate
<1>4. next = [old EXCEPT !.failed = failed, !.complete = final,
                         !.nextFragmentIndex = index,
                         !.noticeEmitted = emitted]
  BY Zenon DEF ResolvedAggregate
<1> SUFFICES /\ next \in CompletionAggregate
             /\ next.work = old.work
             /\ next.delivery = old.delivery
             /\ next.complete = final
             /\ next.nextFragmentIndex = index
             /\ next.failed = failed
             /\ next.noticeEmitted = emitted
  BY Zenon
<1> HIDE DEF failed, final, index, emitted, next
<1>5. next \in CompletionAggregate
  BY <1>1, <1>2, <1>3, <1>4 DEF CompletionAggregate
<1>6. next.work = old.work /\ next.delivery = old.delivery
  BY <1>4 DEF CompletionAggregate
<1>7. /\ next.complete = final /\ next.nextFragmentIndex = index
      /\ next.failed = failed /\ next.noticeEmitted = emitted
  BY <1>4 DEF CompletionAggregate
<1> QED BY <1>5, <1>6, <1>7

(* resolve() *)
LEMMA SlotAfterResult ==
  ASSUME NEW slot \in LedgerSlot, NEW outcome \in DownstreamOutcome
  PROVE  LET next == ResolvedSlot(slot, outcome)
         IN  /\ next \in LedgerSlot
             /\ next.aggregate =
                  ResolvedAggregate(slot.issuedRequest, outcome, slot.aggregate)
             /\ next.observedOutcome =
                  CombineWorkOutcomes(slot.observedOutcome, outcome)
             /\ next.outstandingRequests = 0
             /\ next.planningClosed = slot.planningClosed
             /\ next.nextIssuedFragment = slot.nextIssuedFragment
<1> DEFINE aggregate ==
             ResolvedAggregate(slot.issuedRequest, outcome, slot.aggregate)
           observed == CombineWorkOutcomes(slot.observedOutcome, outcome)
           next == ResolvedSlot(slot, outcome)
<1>1. aggregate \in CompletionAggregate
  BY AggregateAfterResult DEF LedgerSlot
<1>2. observed \in WorkCompletionOutcome
  BY DEF CombineWorkOutcomes, WorkOutcomeFor, WorkCompletionOutcome
<1>3. next = [slot EXCEPT !.aggregate = aggregate,
                          !.observedOutcome = observed,
                          !.outstandingRequests = 0,
                          !.issuedRequest = NoWrite]
  BY Zenon DEF ResolvedSlot
<1> SUFFICES /\ next \in LedgerSlot
             /\ next.aggregate = aggregate
             /\ next.observedOutcome = observed
             /\ next.outstandingRequests = 0
             /\ next.planningClosed = slot.planningClosed
             /\ next.nextIssuedFragment = slot.nextIssuedFragment
  BY Zenon
<1> HIDE DEF aggregate, observed, next
<1> QED BY <1>1, <1>2, <1>3, NoWriteTyped DEF LedgerSlot

LEMMA SummaryTyped ==
  ASSUME NEW slot \in LedgerSlot
  PROVE  Summarize(slot) \in WorkCompletionSummary
<1>1. Settled(slot) \in BOOLEAN /\ Drained(slot) \in BOOLEAN
  BY DEF Settled, Drained, Failed
<1>2. slot.aggregate.work \in WorkIdentity
  BY DEF LedgerSlot, CompletionAggregate
<1>3. slot.observedOutcome \in WorkCompletionOutcome
      /\ slot.outstandingRequests \in {0, 1}
      /\ "Pending" \in WorkCompletionOutcome
  BY DEF LedgerSlot, WorkCompletionOutcome
<1> HIDE DEF Settled, Drained
<1> QED BY <1>1, <1>2, <1>3 DEF Summarize, WorkCompletionSummary

-----------------------------------------------------------------------------
(* The inductive invariant.                                                *)

(* A slot beside its plan.  The three indices (planned, issued, resolved)  *)
(* agree while nothing is out, and the issued one is a step ahead of the   *)
(* resolved one while a fragment is.                                       *)
OutRequest(work, slot) ==
  LET request == slot.issuedRequest
  IN  /\ ValidRequest(request)
      /\ request.work = work
      /\ request.delivery = slot.aggregate.delivery
      /\ request.fragmentIndex = slot.aggregate.nextFragmentIndex
      /\ request.finalFragment \/ request.fragmentIndex # MaxFragmentIndex
      /\ ~slot.aggregate.complete
      /\ ~slot.planningClosed =>
           /\ ~request.finalFragment
           /\ slot.nextIssuedFragment = slot.aggregate.nextFragmentIndex + 1

SlotInv(work, slot, planned) ==
  /\ ValidWork(work)
  /\ IsAccepted(slot.aggregate.delivery)
  /\ slot.outstandingRequests = 1 => OutRequest(work, slot)
  /\ ~slot.planningClosed =>
       /\ planned.issued = slot.nextIssuedFragment
       /\ planned.issued < planned.extent
       /\ slot.outstandingRequests = 0 =>
            /\ ~slot.aggregate.complete
            /\ slot.nextIssuedFragment = slot.aggregate.nextFragmentIndex

SlotsInv == \A w \in DOMAIN ledger : SlotInv(w, ledger[w], plan[w])

UniqueRequests ==
  \A s, t \in sent :
    s.request.requestSequence = t.request.requestSequence => s = t

OutstandingIsSent ==
  \A w \in DOMAIN ledger :
    ledger[w].outstandingRequests = 1 =>
      \E s \in sent : s.open /\ s.request = ledger[w].issuedRequest

IInv == /\ TypeOK /\ SlotsInv /\ UniqueRequests
        /\ OpenRequestsHaveSlots /\ OutstandingIsSent

LEMMA RunnerInit == Init => IInv
<1> SUFFICES ASSUME Init PROVE IInv
  OBVIOUS
<1>1. /\ DOMAIN ledger = {} /\ DOMAIN plan = {} /\ DOMAIN history = {}
      /\ requestSequence = 0 /\ session = InitialSession /\ sent = {}
  BY DEF Init
<1>2. TypeOK
  BY <1>1, RunnerAssumption DEF TypeOK
<1> QED
  BY <1>1, <1>2
  DEF IInv, SlotsInv, UniqueRequests, OpenRequestsHaveSlots, OutstandingIsSent

(* Types of a slot and of a plan that are there. *)
LEMMA EntryTypes ==
  ASSUME TypeOK, NEW w \in DOMAIN ledger
  PROVE  /\ w \in WorkIdentity
         /\ ledger[w] \in LedgerSlot
         /\ ledger[w].aggregate \in CompletionAggregate
         /\ ledger[w].aggregate.work = w
         /\ ledger[w].aggregate.delivery \in IngressDelivery
         /\ ledger[w].issuedRequest \in PlannedWriteRequest
         /\ ledger[w].outstandingRequests \in {0, 1}
         /\ ledger[w].nextIssuedFragment \in Nat
         /\ ledger[w].aggregate.nextFragmentIndex \in Nat
         /\ plan[w] \in Plan
         /\ plan[w].issued \in Nat
         /\ plan[w].extent \in 1 .. MaxFragmentIndex + 1
         /\ plan[w].extent \in Extents
         /\ history[w] \in History
<1>1. w \in WorkIdentity
  BY RunnerAssumption DEF TypeOK
<1>2. /\ ledger[w] \in LedgerSlot /\ ledger[w].aggregate.work = w
      /\ plan[w] \in Plan /\ history[w] \in History
  BY DEF TypeOK
<1>3. /\ ledger[w].aggregate \in CompletionAggregate
      /\ ledger[w].issuedRequest \in PlannedWriteRequest
      /\ ledger[w].outstandingRequests \in {0, 1}
      /\ ledger[w].nextIssuedFragment \in Nat
  BY <1>2 DEF LedgerSlot
<1>4. /\ ledger[w].aggregate.delivery \in IngressDelivery
      /\ ledger[w].aggregate.nextFragmentIndex \in Nat
  BY <1>3 DEF CompletionAggregate
<1>5. plan[w].issued \in Nat /\ plan[w].extent \in Extents
  BY <1>2 DEF Plan
<1>6. plan[w].extent \in 1 .. MaxFragmentIndex + 1
  BY <1>5, RunnerAssumption
<1> QED BY <1>1, <1>2, <1>3, <1>4, <1>5, <1>6

-----------------------------------------------------------------------------
LEMMA ReserveKeeps ==
  ASSUME IInv, NEW work \in Works, NEW delivery \in Deliveries,
         NEW extent \in Extents, ReserveWork(work, delivery, extent)
  PROVE  IInv'
<1> DEFINE slot == NewSlot(work, delivery)
           fresh == [extent |-> extent, issued |-> 0]
           quiet == [outcomes |-> <<>>, notices |-> <<>>]
<1>1. /\ ValidWork(work) /\ IsAccepted(delivery) /\ work \notin DOMAIN ledger
  BY DEF ReserveWork, ReserveStatus
<1>2. /\ work \in WorkIdentity /\ delivery \in IngressDelivery
      /\ extent \in 1 .. MaxFragmentIndex + 1
  BY RunnerAssumption
<1>3. /\ DOMAIN ledger' = DOMAIN ledger \cup {work}
      /\ ledger'[work] = slot
      /\ \A w \in DOMAIN ledger : ledger'[w] = ledger[w]
  BY <1>1 DEF ReserveWork, Reserve
<1>4. /\ DOMAIN plan = DOMAIN ledger /\ DOMAIN history = DOMAIN ledger
  BY DEF IInv, TypeOK
<1>5. /\ DOMAIN plan' = DOMAIN ledger \cup {work}
      /\ plan'[work] = fresh
      /\ \A w \in DOMAIN ledger : plan'[w] = plan[w]
  BY <1>1, <1>4 DEF ReserveWork
<1>6. /\ DOMAIN history' = DOMAIN ledger \cup {work}
      /\ history'[work] = quiet
      /\ \A w \in DOMAIN ledger : history'[w] = history[w]
  BY <1>1, <1>4 DEF ReserveWork
<1>7. UNCHANGED <<requestSequence, session, sent>>
  BY DEF ReserveWork
<1>8. /\ slot \in LedgerSlot /\ slot.aggregate.work = work
      /\ slot.aggregate.delivery = delivery
      /\ slot.aggregate.nextFragmentIndex = 0 /\ ~slot.aggregate.complete
      /\ slot.nextIssuedFragment = 0 /\ slot.outstandingRequests = 0
      /\ ~slot.planningClosed
  BY <1>2, FreshSlot
<1>9. fresh \in Plan /\ fresh.issued = 0 /\ fresh.extent = extent
      /\ quiet \in History
  BY DEF Plan, History
<1> HIDE DEF slot, fresh, quiet
<1>10. TypeOK'
  <2>1. Summarize(slot) \in WorkCompletionSummary
    BY <1>8, SummaryTyped
  <2> QED BY <1>3, <1>5, <1>6, <1>7, <1>8, <1>9, <2>1 DEF IInv, TypeOK
<1>11. SlotsInv'
  <2>1. SlotInv(work, slot, fresh)
    BY <1>1, <1>2, <1>8, <1>9 DEF SlotInv
  <2> QED BY <1>3, <1>5, <2>1 DEF IInv, SlotsInv
<1>12. UniqueRequests' /\ OpenRequestsHaveSlots'
  BY <1>3, <1>7 DEF IInv, UniqueRequests, OpenRequestsHaveSlots
<1>13. OutstandingIsSent'
  BY <1>3, <1>7, <1>8 DEF IInv, OutstandingIsSent
<1> QED BY <1>10, <1>11, <1>12, <1>13 DEF IInv

-----------------------------------------------------------------------------
(* The request a plan yields is well formed and in order. *)
LEMMA PlannedRequest ==
  ASSUME IInv, NEW work \in DOMAIN ledger
  PROVE  LET request == PlannedFragment(work)
         IN  /\ request \in PlannedWriteRequest
             /\ ValidRequest(request)
             /\ request.work = work
             /\ request.requestSequence \in 1 .. SequenceModulus - 1
             /\ request.delivery = ledger[work].aggregate.delivery
             /\ request.fragmentIndex = plan[work].issued
             /\ request.finalFragment
                  <=> plan[work].issued + 1 = plan[work].extent
<1> DEFINE request == PlannedFragment(work)
           number == NextNonZero(requestSequence, SequenceModulus)
           final == plan[work].issued + 1 = plan[work].extent
<1>1. number \in 1 .. SequenceModulus - 1 /\ number \in Nat /\ number # 0
  BY SequenceRange, RunnerAssumption DEF IInv, TypeOK
<1>2. final \in BOOLEAN
  OBVIOUS
<1>3. /\ work \in WorkIdentity /\ plan[work].issued \in Nat
      /\ ledger[work].aggregate.delivery \in IngressDelivery
      /\ ValidWork(work)
  BY EntryTypes DEF IInv, SlotsInv, SlotInv
<1>4. request = [work |-> work, requestSequence |-> number,
                 fragmentIndex |-> plan[work].issued,
                 delivery |-> ledger[work].aggregate.delivery,
                 finalFragment |-> final]
  BY Zenon DEF PlannedFragment
<1> HIDE DEF request, number, final
<1>5. /\ request \in PlannedWriteRequest
      /\ request.work = work /\ request.requestSequence = number
      /\ request.delivery = ledger[work].aggregate.delivery
      /\ request.fragmentIndex = plan[work].issued
      /\ request.finalFragment = final
  BY <1>1, <1>2, <1>3, <1>4 DEF PlannedWriteRequest
<1>6. ValidRequest(request)
  BY <1>1, <1>3, <1>5 DEF ValidRequest
<1> QED BY <1>1, <1>5, <1>6 DEF request, final

LEMMA IssueKeeps ==
  ASSUME IInv, NEW work \in DOMAIN ledger, IssueFragment(work)
  PROVE  IInv'
<1> DEFINE request == PlannedFragment(work)
           old == ledger[work]
           new == IssuedSlot(old, request)
           entry == [request |-> request, open |-> TRUE]
<1>1. /\ plan[work].issued < plan[work].extent
      /\ \A s \in sent : s.request.requestSequence # request.requestSequence
      /\ IssueStatus(ledger, request) = "Recorded"
      /\ ledger' = RecordIssued(ledger, request)
      /\ requestSequence' = request.requestSequence
      /\ plan' = [plan EXCEPT ![work].issued = @ + 1]
      /\ sent' = sent \cup {entry}
      /\ UNCHANGED <<session, history>>
  BY DEF IssueFragment
<1>2. /\ request \in PlannedWriteRequest
      /\ ValidRequest(request)
      /\ request.work = work
      /\ request.requestSequence \in 1 .. SequenceModulus - 1
      /\ request.delivery = old.aggregate.delivery
      /\ request.fragmentIndex = plan[work].issued
      /\ request.finalFragment <=> plan[work].issued + 1 = plan[work].extent
  BY PlannedRequest
<1> HIDE DEF request
<1>3. /\ ~old.planningClosed
      /\ old.outstandingRequests = 0
      /\ request.fragmentIndex = old.nextIssuedFragment
      /\ old.nextIssuedFragment = MaxFragmentIndex => request.finalFragment
  BY <1>1, <1>2 DEF IssueStatus
<1>4. /\ old \in LedgerSlot /\ old.aggregate.work = work
      /\ old.nextIssuedFragment \in Nat
      /\ plan[work] \in Plan /\ plan[work].issued \in Nat
      /\ plan[work].extent \in Nat
      /\ DOMAIN plan = DOMAIN ledger /\ DOMAIN history = DOMAIN ledger
  BY EntryTypes DEF IInv, TypeOK
<1>5. /\ DOMAIN ledger' = DOMAIN ledger
      /\ ledger'[work] = new
      /\ \A w \in DOMAIN ledger \ {work} : ledger'[w] = ledger[w]
  BY <1>1, <1>2 DEF RecordIssued
<1>6. /\ new \in LedgerSlot
      /\ new.aggregate = old.aggregate
      /\ new.issuedRequest = request
      /\ new.outstandingRequests = 1
      /\ new.planningClosed <=> old.planningClosed \/ request.finalFragment
      /\ new.nextIssuedFragment =
           IF request.finalFragment THEN old.nextIssuedFragment
           ELSE old.nextIssuedFragment + 1
  BY <1>2, <1>4, SlotAfterIssue
<1> HIDE DEF new
<1>7. /\ DOMAIN plan' = DOMAIN ledger
      /\ plan'[work] = [plan[work] EXCEPT !.issued = @ + 1]
      /\ \A w \in DOMAIN ledger \ {work} : plan'[w] = plan[w]
  BY <1>1, <1>4
<1>8. /\ plan'[work] \in Plan
      /\ plan'[work].issued = plan[work].issued + 1
      /\ plan'[work].extent = plan[work].extent
  BY <1>4, <1>7 DEF Plan
<1>9. entry \in SentRequest /\ entry.request = request /\ entry.open
  BY <1>2 DEF SentRequest
<1> HIDE DEF entry
<1>10. TypeOK'
  <2>1. Summarize(new) \in WorkCompletionSummary
    BY <1>6, SummaryTyped
  <2>2. requestSequence' \in 0 .. SequenceModulus - 1
    BY <1>1, <1>2, RunnerAssumption
  <2>3. new.aggregate.work = work
    BY <1>4, <1>6
  <2>4. sent' \subseteq SentRequest
    BY <1>1, <1>9 DEF IInv, TypeOK
  <2>5. \A w \in DOMAIN ledger' :
          /\ ledger'[w] \in LedgerSlot
          /\ ledger'[w].aggregate.work = w
          /\ Summarize(ledger'[w]) \in WorkCompletionSummary
    BY <1>5, <1>6, <2>1, <2>3 DEF IInv, TypeOK
  <2>6. \A w \in DOMAIN plan' : plan'[w] \in Plan
    BY <1>4, <1>7, <1>8 DEF IInv, TypeOK
  <2> QED BY <1>1, <1>4, <1>5, <1>7, <2>2, <2>4, <2>5, <2>6 DEF IInv, TypeOK
<1>11. SlotsInv'
  <2>1. /\ ValidWork(work) /\ IsAccepted(old.aggregate.delivery)
        /\ plan[work].issued = old.nextIssuedFragment
        /\ ~old.aggregate.complete
        /\ old.nextIssuedFragment = old.aggregate.nextFragmentIndex
    BY <1>3 DEF IInv, SlotsInv, SlotInv
  <2>2. OutRequest(work, new)
    BY <1>2, <1>3, <1>4, <1>6, <2>1 DEF OutRequest
  <2>3. ~new.planningClosed => plan[work].issued + 1 < plan[work].extent
    BY <1>1, <1>2, <1>4, <1>6
  <2>4. SlotInv(work, new, plan'[work])
    BY <1>4, <1>6, <1>8, <2>1, <2>2, <2>3 DEF SlotInv
  <2> QED BY <1>5, <1>7, <2>4 DEF IInv, SlotsInv
<1>12. UniqueRequests'
  BY <1>1, <1>9 DEF IInv, UniqueRequests
<1>13. OpenRequestsHaveSlots'
  <2>1. ASSUME NEW s \in sent, s.open
        PROVE  s.request.work # work
    BY <1>3, <2>1 DEF IInv, OpenRequestsHaveSlots
  <2> QED
    BY <1>1, <1>2, <1>5, <1>6, <1>9, <2>1 DEF IInv, OpenRequestsHaveSlots
<1>14. OutstandingIsSent'
  BY <1>1, <1>5, <1>6, <1>9 DEF IInv, OutstandingIsSent
<1> QED BY <1>10, <1>11, <1>12, <1>13, <1>14 DEF IInv

-----------------------------------------------------------------------------
(* A counted result is that of the recorded request, and of an open one:   *)
(* a lingering request differs from every open one in its sequence.        *)
LEMMA CountedResult ==
  ASSUME IInv, NEW s \in sent, NEW outcome, NEW view,
         Resolution(s.request, outcome, view) = "Resolved"
  PROVE  /\ outcome \in DownstreamOutcome
         /\ s.request.work \in DOMAIN ledger
         /\ ledger[s.request.work].outstandingRequests = 1
         /\ ledger[s.request.work].issuedRequest = s.request
         /\ s.open
<1> DEFINE work == s.request.work
<1>1. /\ Observed(s.request, outcome).outcome = outcome
  BY DEF Observed
<1>2. /\ outcome \in DownstreamOutcome
      /\ work \in DOMAIN ledger
      /\ ledger[work].outstandingRequests # 0
      /\ ledger[work].issuedRequest = s.request
  BY <1>1 DEF Resolution, ResolveStatus
<1>3. ledger[work].outstandingRequests = 1
  BY <1>2, EntryTypes DEF IInv
<1>4. PICK t \in sent : t.open /\ t.request = ledger[work].issuedRequest
  BY <1>2, <1>3 DEF IInv, OutstandingIsSent
<1>5. s = t
  BY <1>2, <1>4 DEF IInv, UniqueRequests
<1> QED BY <1>2, <1>3, <1>4, <1>5

LEMMA ResolveKeeps ==
  ASSUME IInv, NEW s \in sent, NEW outcome \in DownstreamOutcome,
         NEW kept \in BOOLEAN, ResolveResult(s, outcome, kept)
  PROVE  IInv'
<1> DEFINE request == s.request
           work == request.work
           old == ledger[work]
           new == ResolvedSlot(old, outcome)
           notice == ResolutionNotice(request, outcome, old.aggregate)
           late == [request |-> request, open |-> FALSE]
           told == [history[work] EXCEPT
                      !.outcomes = Append(@, outcome),
                      !.notices = IF notice = "None" THEN @
                                  ELSE Append(@, notice)]
<1>1. /\ Resolution(request, outcome, session) = "Resolved"
      /\ ledger' = Resolve(ledger, request, outcome)
      /\ sent' = (sent \ {s}) \cup IF kept THEN {late} ELSE {}
      /\ UNCHANGED <<requestSequence, plan, session>>
  BY DEF ResolveResult
<1>2. /\ work \in DOMAIN ledger
      /\ old.outstandingRequests = 1
      /\ old.issuedRequest = request
      /\ s.open
  BY <1>1, CountedResult
<1>3. history' = [history EXCEPT ![work] = told]
  BY <1>2 DEF ResolveResult, IInv, TypeOK
<1>4. /\ old \in LedgerSlot /\ old.aggregate \in CompletionAggregate
      /\ old.aggregate.work = work
      /\ old.aggregate.nextFragmentIndex \in Nat
      /\ request \in PlannedWriteRequest
      /\ history[work] \in History
      /\ DOMAIN plan = DOMAIN ledger /\ DOMAIN history = DOMAIN ledger
  BY <1>2, EntryTypes DEF IInv, TypeOK
<1>5. /\ DOMAIN ledger' = DOMAIN ledger
      /\ ledger'[work] = new
      /\ \A w \in DOMAIN ledger \ {work} : ledger'[w] = ledger[w]
  BY <1>1, <1>2 DEF Resolve
<1>6. /\ new \in LedgerSlot
      /\ new.aggregate = ResolvedAggregate(request, outcome, old.aggregate)
      /\ new.outstandingRequests = 0
      /\ new.planningClosed = old.planningClosed
      /\ new.nextIssuedFragment = old.nextIssuedFragment
  BY <1>2, <1>4, SlotAfterResult
<1>7. /\ new.aggregate.work = work
      /\ new.aggregate.delivery = old.aggregate.delivery
      /\ new.aggregate.complete = request.finalFragment
      /\ new.aggregate.nextFragmentIndex =
           IF request.finalFragment THEN old.aggregate.nextFragmentIndex
           ELSE old.aggregate.nextFragmentIndex + 1
  BY <1>4, <1>6, AggregateAfterResult
<1>8. told \in History
  <2>1. notice \in CompletionNotice
    BY DEF ResolutionNotice, CompletionNotice
  <2>2. /\ Append(history[work].outcomes, outcome) \in Seq(DownstreamOutcome)
        /\ Append(history[work].notices, notice) \in Seq(CompletionNotice)
        /\ history[work].notices \in Seq(CompletionNotice)
    BY <1>4, <2>1 DEF History
  <2>3. ASSUME NEW outcomes \in Seq(DownstreamOutcome),
               NEW notices \in Seq(CompletionNotice)
        PROVE  [history[work] EXCEPT !.outcomes = outcomes, !.notices = notices]
                 \in History
    BY <1>4 DEF History
  <2>4. told = [history[work] EXCEPT
                  !.outcomes = Append(history[work].outcomes, outcome),
                  !.notices = IF notice = "None" THEN history[work].notices
                              ELSE Append(history[work].notices, notice)]
    OBVIOUS
  <2> HIDE DEF told, notice
  <2> QED BY <2>2, <2>3, <2>4
<1>9. /\ late \in SentRequest /\ late.request = request /\ ~late.open
  BY <1>4 DEF SentRequest
<1> HIDE DEF new, notice, late, told
<1>10. TypeOK'
  <2>1. Summarize(new) \in WorkCompletionSummary
    BY <1>6, SummaryTyped
  <2>2. \A w \in DOMAIN ledger' :
          /\ ledger'[w] \in LedgerSlot
          /\ ledger'[w].aggregate.work = w
          /\ Summarize(ledger'[w]) \in WorkCompletionSummary
    BY <1>5, <1>6, <1>7, <2>1 DEF IInv, TypeOK
  <2>3. DOMAIN history' = DOMAIN ledger
        /\ \A w \in DOMAIN history' : history'[w] \in History
    BY <1>2, <1>3, <1>4, <1>8 DEF IInv, TypeOK
  <2>4. sent' \subseteq SentRequest
    BY <1>1, <1>9 DEF IInv, TypeOK
  <2> QED BY <1>1, <1>5, <2>2, <2>3, <2>4 DEF IInv, TypeOK
<1>11. SlotsInv'
  <2>1. SlotInv(work, old, plan[work]) /\ OutRequest(work, old)
    BY <1>2 DEF IInv, SlotsInv, SlotInv
  <2>2. ~old.planningClosed =>
          /\ ~request.finalFragment
          /\ old.nextIssuedFragment = old.aggregate.nextFragmentIndex + 1
    BY <1>2, <2>1 DEF OutRequest
  <2>3. ~new.planningClosed =>
          /\ ~new.aggregate.complete
          /\ new.nextIssuedFragment = new.aggregate.nextFragmentIndex
    BY <1>6, <1>7, <2>2
  <2>4. SlotInv(work, new, plan[work])
    BY <1>6, <1>7, <2>1, <2>3 DEF SlotInv
  <2> QED BY <1>1, <1>5, <2>4 DEF IInv, SlotsInv
<1>12. UniqueRequests'
  BY <1>1, <1>9 DEF IInv, UniqueRequests
<1>13. ASSUME NEW t \in sent \ {s}, t.open
       PROVE  t.request.work # work
  <2>1. SUFFICES ASSUME t.request.work = work PROVE FALSE
    OBVIOUS
  <2>2. t.request = request
    BY <1>2, <1>13, <2>1 DEF IInv, OpenRequestsHaveSlots
  <2> QED BY <1>13, <2>2 DEF IInv, UniqueRequests
<1>14. OpenRequestsHaveSlots'
  BY <1>1, <1>5, <1>9, <1>13 DEF IInv, OpenRequestsHaveSlots
<1>15. OutstandingIsSent'
  <2> SUFFICES ASSUME NEW w \in DOMAIN ledger,
                      ledger'[w].outstandingRequests = 1
               PROVE  \E t \in sent' : t.open /\ t.request = ledger'[w].issuedRequest
    BY <1>5 DEF OutstandingIsSent
  <2>1. w # work /\ ledger'[w] = ledger[w]
    BY <1>5, <1>6
  <2>2. PICK t \in sent : t.open /\ t.request = ledger[w].issuedRequest
    BY <2>1 DEF IInv, OutstandingIsSent
  <2>3. t # s
    <3>1. ledger[w].issuedRequest.work = w
      BY <2>1 DEF IInv, SlotsInv, SlotInv, OutRequest
    <3> QED BY <2>1, <2>2, <3>1
  <2> QED BY <1>1, <2>1, <2>2, <2>3
<1> QED BY <1>10, <1>11, <1>12, <1>14, <1>15 DEF IInv

LEMMA ForgetKeeps ==
  ASSUME IInv, NEW s \in sent, Forget(s)
  PROVE  IInv'
<1>1. /\ ~s.open /\ sent' = sent \ {s}
      /\ UNCHANGED <<ledger, requestSequence, plan, session, history>>
  BY DEF Forget
<1> QED
  BY <1>1
  DEF IInv, TypeOK, SlotsInv, UniqueRequests, OpenRequestsHaveSlots,
      OutstandingIsSent

LEMMA CloseKeeps ==
  ASSUME IInv, NEW work \in DOMAIN ledger, ClosePlanning(work)
  PROVE  IInv'
<1> DEFINE old == ledger[work]
           new == [old EXCEPT !.planningClosed = TRUE]
<1>1. /\ ledger' = ClosePlanningAfterFailure(ledger, work)
      /\ UNCHANGED <<requestSequence, plan, session, sent, history>>
  BY DEF ClosePlanning
<1>2. CASE ledger' = ledger
  BY <1>1, <1>2
  DEF IInv, TypeOK, SlotsInv, UniqueRequests, OpenRequestsHaveSlots,
      OutstandingIsSent
<1>3. CASE ledger' # ledger
  <2>1. ledger' = [ledger EXCEPT ![work].planningClosed = TRUE]
    BY <1>1, <1>3 DEF ClosePlanningAfterFailure
  <2>2. /\ DOMAIN ledger' = DOMAIN ledger
        /\ ledger'[work] = new
        /\ \A w \in DOMAIN ledger \ {work} : ledger'[w] = ledger[w]
    BY <2>1
  <2>3. old \in LedgerSlot /\ old.aggregate.work = work
    BY EntryTypes DEF IInv
  <2>4. /\ new \in LedgerSlot
        /\ new.aggregate = old.aggregate
        /\ new.issuedRequest = old.issuedRequest
        /\ new.outstandingRequests = old.outstandingRequests
        /\ new.planningClosed
    BY <2>3 DEF LedgerSlot
  <2> HIDE DEF new
  <2>5. TypeOK'
    <3>1. Summarize(new) \in WorkCompletionSummary
      BY <2>4, SummaryTyped
    <3>2. \A w \in DOMAIN ledger' :
            /\ ledger'[w] \in LedgerSlot
            /\ ledger'[w].aggregate.work = w
            /\ Summarize(ledger'[w]) \in WorkCompletionSummary
      BY <2>2, <2>3, <2>4, <3>1 DEF IInv, TypeOK
    <3> QED BY <1>1, <2>2, <3>2 DEF IInv, TypeOK
  <2>6. SlotsInv'
    <3>1. SlotInv(work, old, plan[work])
      BY DEF IInv, SlotsInv
    <3>2. SlotInv(work, new, plan[work])
      BY <2>4, <3>1 DEF SlotInv, OutRequest
    <3> QED BY <1>1, <2>2, <3>2 DEF IInv, SlotsInv
  <2>7. UniqueRequests' /\ OpenRequestsHaveSlots' /\ OutstandingIsSent'
    <3>1. \A w \in DOMAIN ledger :
            /\ ledger'[w].issuedRequest = ledger[w].issuedRequest
            /\ ledger'[w].outstandingRequests = ledger[w].outstandingRequests
      BY <2>2, <2>4
    <3> QED
      BY <1>1, <2>2, <3>1
      DEF IInv, UniqueRequests, OpenRequestsHaveSlots, OutstandingIsSent
  <2> QED BY <2>5, <2>6, <2>7 DEF IInv
<1> QED BY <1>2, <1>3

-----------------------------------------------------------------------------
(* Slots leave, by release() or by one of the abandoning calls.            *)

LEMMA DropKeeps ==
  ASSUME IInv, DOMAIN ledger' \subseteq DOMAIN ledger,
         \A w \in DOMAIN ledger' : ledger'[w] = ledger[w],
         DropPlans(ledger'),
         sent' = {IF s.request.work \in DOMAIN ledger' THEN s
                  ELSE [s EXCEPT !.open = FALSE] : s \in sent}
  PROVE  IInv'
<1> DEFINE Left(s) == IF s.request.work \in DOMAIN ledger' THEN s
                      ELSE [s EXCEPT !.open = FALSE]
<1>1. /\ DOMAIN plan' = DOMAIN ledger' /\ DOMAIN history' = DOMAIN ledger'
      /\ \A w \in DOMAIN ledger' : /\ plan'[w] = plan[w]
                                   /\ history'[w] = history[w]
      /\ UNCHANGED <<requestSequence, session>>
  BY DEF DropPlans
<1>2. \A s \in sent : /\ Left(s) \in SentRequest
                      /\ Left(s).request = s.request
                      /\ Left(s).open =>
                           Left(s) = s /\ s.request.work \in DOMAIN ledger'
  BY DEF IInv, TypeOK, SentRequest
<1>3. \A t \in sent' : \E s \in sent : t = Left(s)
  OBVIOUS
<1>4. \A s \in sent : s.request.work \in DOMAIN ledger' => s \in sent'
  OBVIOUS
<1> HIDE DEF Left
<1>5. TypeOK'
  <2>1. sent' \subseteq SentRequest
    BY <1>2, <1>3
  <2> QED BY <1>1, <2>1 DEF IInv, TypeOK
<1>6. SlotsInv'
  BY <1>1 DEF IInv, SlotsInv
<1>7. UniqueRequests'
  <2> SUFFICES ASSUME NEW t \in sent', NEW u \in sent',
                      t.request.requestSequence = u.request.requestSequence
               PROVE  t = u
    BY DEF UniqueRequests
  <2>1. PICK s \in sent : t = Left(s)
    BY <1>3
  <2>2. PICK r \in sent : u = Left(r)
    BY <1>3
  <2>3. s = r
    BY <1>2, <2>1, <2>2 DEF IInv, UniqueRequests
  <2> QED BY <2>1, <2>2, <2>3
<1>8. OpenRequestsHaveSlots'
  <2> SUFFICES ASSUME NEW t \in sent', t.open
               PROVE  /\ t.request.work \in DOMAIN ledger'
                      /\ ledger'[t.request.work].issuedRequest = t.request
                      /\ ledger'[t.request.work].outstandingRequests = 1
    BY DEF OpenRequestsHaveSlots
  <2>1. t \in sent /\ t.request.work \in DOMAIN ledger'
    BY <1>2, <1>3
  <2> QED BY <2>1 DEF IInv, OpenRequestsHaveSlots
<1>9. OutstandingIsSent'
  <2> SUFFICES ASSUME NEW w \in DOMAIN ledger',
                      ledger'[w].outstandingRequests = 1
               PROVE  \E t \in sent' : t.open /\ t.request = ledger'[w].issuedRequest
    BY DEF OutstandingIsSent
  <2>1. PICK s \in sent : s.open /\ s.request = ledger[w].issuedRequest
    BY DEF IInv, OutstandingIsSent
  <2>2. s.request.work = w
    BY <2>1 DEF IInv, SlotsInv, SlotInv, OutRequest
  <2> QED BY <1>4, <2>1, <2>2
<1> QED BY <1>5, <1>6, <1>7, <1>8, <1>9 DEF IInv

LEMMA AbandonKeeps ==
  ASSUME IInv, NEW works, AbandonTo(WithoutWorks(ledger, works))
  PROVE  IInv'
<1>1. /\ DOMAIN ledger' \subseteq DOMAIN ledger
      /\ \A w \in DOMAIN ledger' : ledger'[w] = ledger[w]
  BY DEF AbandonTo, WithoutWorks
<1> QED BY <1>1, DropKeeps DEF AbandonTo

(* A drained work has no open request, so its release strands none.        *)
LEMMA ReleaseKeeps ==
  ASSUME IInv, NEW work \in DOMAIN ledger, ReleaseWork(work)
  PROVE  IInv'
<1>1. ledger' = Release(ledger, work) /\ DropPlans(ledger') /\ sent' = sent
  BY DEF ReleaseWork
<1>2. /\ DOMAIN ledger' \subseteq DOMAIN ledger
      /\ \A w \in DOMAIN ledger' : ledger'[w] = ledger[w]
      /\ \A w \in DOMAIN ledger \ DOMAIN ledger' :
           ledger[w].outstandingRequests = 0
  BY <1>1 DEF Release, WithoutWorks, Drained
<1>3. \A s \in sent :
        s.open => s.request.work \in DOMAIN ledger'
  BY <1>2 DEF IInv, OpenRequestsHaveSlots
<1>4. /\ DOMAIN plan' = DOMAIN ledger' /\ DOMAIN history' = DOMAIN ledger'
      /\ \A w \in DOMAIN ledger' : /\ plan'[w] = plan[w]
                                   /\ history'[w] = history[w]
      /\ UNCHANGED <<requestSequence, session>>
  BY <1>1 DEF DropPlans
<1>5. TypeOK'
  BY <1>1, <1>2, <1>4 DEF IInv, TypeOK
<1>6. SlotsInv' /\ UniqueRequests' /\ OpenRequestsHaveSlots' /\ OutstandingIsSent'
  BY <1>1, <1>2, <1>3, <1>4
  DEF IInv, SlotsInv, UniqueRequests, OpenRequestsHaveSlots, OutstandingIsSent
<1> QED BY <1>5, <1>6 DEF IInv

-----------------------------------------------------------------------------
LEMMA RunnerStep == IInv /\ [Next]_vars => IInv'
<1> SUFFICES ASSUME IInv, [Next]_vars PROVE IInv'
  OBVIOUS
<1>1. ASSUME NEW work \in Works, NEW delivery \in Deliveries,
             NEW extent \in Extents, ReserveWork(work, delivery, extent)
      PROVE  IInv'
  BY <1>1, ReserveKeeps
<1>2. ASSUME NEW work \in DOMAIN ledger,
             \/ IssueFragment(work)
             \/ ClosePlanning(work)
             \/ ReleaseWork(work)
             \/ AbandonWork(work)
             \/ AbandonOldGeneration(work.sessionGeneration)
      PROVE  IInv'
  BY <1>2, IssueKeeps, CloseKeeps, ReleaseKeeps, AbandonKeeps
  DEF AbandonWork, Abandon, AbandonOldGeneration, AbandonGeneration
<1>3. ASSUME NEW s \in sent, NEW outcome \in DownstreamOutcome,
             NEW kept \in BOOLEAN, ResolveResult(s, outcome, kept)
      PROVE  IInv'
  BY <1>3, ResolveKeeps
<1>4. ASSUME NEW s \in sent, Forget(s)
      PROVE  IInv'
  BY <1>4, ForgetKeeps
<1>5. CASE AbandonStale
  BY <1>5, AbandonKeeps DEF AbandonStale, AbandonNotCurrent
<1>6. CASE Clear
  BY <1>6, AbandonKeeps DEF Clear
<1>7. ASSUME NEW view \in Sessions, ChangeSession(view)
      PROVE  IInv'
  BY <1>7
  DEF ChangeSession, IInv, TypeOK, SlotsInv, UniqueRequests,
      OpenRequestsHaveSlots, OutstandingIsSent
<1>8. CASE UNCHANGED vars
  BY <1>8
  DEF vars, IInv, TypeOK, SlotsInv, UniqueRequests, OpenRequestsHaveSlots,
      OutstandingIsSent
<1> QED BY <1>1, <1>2, <1>3, <1>4, <1>5, <1>6, <1>7, <1>8 DEF Next

LEMMA RunnerInvariant == Spec => []IInv
BY RunnerInit, RunnerStep, PTL DEF Spec

-----------------------------------------------------------------------------
(* Of an open request only the session can keep the result from counting:  *)
(* all other checks of resolve() and of the transition hold.               *)
LEMMA OpenRequestVerdict ==
  ASSUME IInv, NEW s \in sent, s.open,
         NEW outcome \in DownstreamOutcome, NEW view
  PROVE  IF WorkCurrent(s.request.work, view)
           THEN Resolution(s.request, outcome, view) = "Resolved"
           ELSE /\ Resolution(s.request, outcome, view) = "CompletionRejected"
                /\ Decision(s.request, outcome, view) = "StaleSession"
<1> DEFINE request == s.request
           work == request.work
           slot == ledger[work]
           aggregate == slot.aggregate
           observed == Observed(request, outcome)
           status == ResolutionStatus(request, observed, view, aggregate)
<1>1. /\ work \in DOMAIN ledger
      /\ slot.issuedRequest = request
      /\ slot.outstandingRequests = 1
  BY DEF IInv, OpenRequestsHaveSlots
<1>2. /\ ValidWork(work) /\ IsAccepted(aggregate.delivery)
      /\ ValidRequest(request)
      /\ request.delivery = aggregate.delivery
      /\ request.fragmentIndex = aggregate.nextFragmentIndex
      /\ request.finalFragment \/ request.fragmentIndex # MaxFragmentIndex
      /\ ~aggregate.complete
  BY <1>1 DEF IInv, SlotsInv, SlotInv, OutRequest
<1>3. aggregate.work = work
  BY <1>1, EntryTypes DEF IInv
<1>4. /\ observed.outcome = outcome /\ observed.identity = request
      /\ SameRequestIdentity(request, observed.identity)
      /\ ValidAggregate(aggregate)
  BY <1>2, <1>3 DEF Observed, SameRequestIdentity, ValidAggregate
<1>5. status = IF WorkCurrent(work, view) THEN "Current" ELSE "StaleSession"
  <2>1. CASE WorkCurrent(work, view)
    BY <1>2, <1>3, <1>4, <2>1 DEF ResolutionStatus
  <2>2. CASE ~WorkCurrent(work, view)
    BY <1>2, <1>3, <1>4, <2>2 DEF ResolutionStatus
  <2> QED BY <2>1, <2>2
<1>6. Resolution(request, outcome, view) =
        IF status # "Current" THEN "CompletionRejected" ELSE "Resolved"
  <2> HIDE DEF status, observed
  <2>1. Resolution(request, outcome, view) =
          ResolveStatus(ledger, request, observed, view)
    BY DEF Resolution, observed
  <2>2. ResolutionStatus(slot.issuedRequest, observed, view, aggregate) = status
    BY <1>1 DEF status
  <2> QED BY <1>1, <1>4, <2>1, <2>2 DEF ResolveStatus
<1>7. Decision(request, outcome, view) = status
  BY DEF Decision
<1> HIDE DEF status
<1> QED BY <1>5, <1>6, <1>7

(* A request that is not open is refused, whoever presents its result.     *)
LEMMA LateRequestVerdict ==
  ASSUME IInv, NEW s \in sent, ~s.open,
         NEW outcome \in DownstreamOutcome, NEW view
  PROVE  Resolution(s.request, outcome, view) \in
           {"WorkNotFound", "NoOutstandingRequest", "RequestMismatch"}
<1> DEFINE request == s.request
           work == request.work
           observed == Observed(request, outcome)
<1>1. observed.outcome \in DownstreamOutcome
  BY DEF Observed
<1>2. CASE work \notin DOMAIN ledger
  BY <1>1, <1>2 DEF Resolution, ResolveStatus
<1>3. CASE work \in DOMAIN ledger /\ ledger[work].outstandingRequests = 0
  BY <1>1, <1>3 DEF Resolution, ResolveStatus
<1>4. CASE work \in DOMAIN ledger /\ ledger[work].outstandingRequests # 0
  <2>1. ledger[work].outstandingRequests = 1
    BY <1>4, EntryTypes DEF IInv
  <2>2. PICK t \in sent : t.open /\ t.request = ledger[work].issuedRequest
    BY <1>4, <2>1 DEF IInv, OutstandingIsSent
  <2>3. ledger[work].issuedRequest # request
    BY <2>2 DEF IInv, UniqueRequests
  <2> QED BY <1>1, <1>4, <2>3 DEF Resolution, ResolveStatus
<1> QED BY <1>2, <1>3, <1>4

(* The state of a runner and its ledger keeps its types.                   *)
THEOREM RunnerTypes == Spec => []TypeOK
<1>1. IInv => TypeOK
  BY DEF IInv
<1> QED BY <1>1, RunnerInvariant, PTL

(* release() never takes the slot of an open request.                      *)
THEOREM OpenRequestsKept == Spec => []OpenRequestsHaveSlots
<1>1. IInv => OpenRequestsHaveSlots
  BY DEF IInv
<1> QED BY <1>1, RunnerInvariant, PTL

(* A result counts exactly while its request is open and its work current. *)
THEOREM CountOnce == Spec => []ResultsCountOnce
<1>1. IInv => ResultsCountOnce
  BY OpenRequestVerdict, LateRequestVerdict DEF ResultsCountOnce
<1> QED BY <1>1, RunnerInvariant, PTL

(* A work that is neither drained nor waiting for an open request can have *)
(* its next fragment recorded.                                             *)
LEMMA IdleWorkCanIssue ==
  ASSUME IInv, NEW work \in DOMAIN ledger, ~ledger[work].planningClosed,
         ledger[work].outstandingRequests = 0
  PROVE  /\ plan[work].issued < plan[work].extent
         /\ IssueStatus(ledger, PlannedFragment(work)) = "Recorded"
<1> DEFINE request == PlannedFragment(work)
           slot == ledger[work]
<1>1. /\ ValidRequest(request)
      /\ request.work = work
      /\ request.delivery = slot.aggregate.delivery
      /\ request.fragmentIndex = plan[work].issued
      /\ request.finalFragment <=> plan[work].issued + 1 = plan[work].extent
  BY PlannedRequest
<1>2. /\ IsAccepted(slot.aggregate.delivery)
      /\ plan[work].issued = slot.nextIssuedFragment
      /\ plan[work].issued < plan[work].extent
  BY DEF IInv, SlotsInv, SlotInv
<1>3. plan[work].issued \in Nat /\ plan[work].extent \in 1 .. MaxFragmentIndex + 1
  BY EntryTypes DEF IInv
<1>4. slot.nextIssuedFragment = MaxFragmentIndex => request.finalFragment
  BY <1>1, <1>2, <1>3, FragmentIndexAssumption
<1> HIDE DEF request
<1> QED BY <1>1, <1>2, <1>4 DEF IssueStatus, request

(* No work is ever wedged.                                                 *)
THEOREM NeverWedged == Spec => []NoWorkIsWedged
<1>1. ASSUME IInv, NEW w \in DOMAIN ledger, ~Drained(ledger[w])
      PROVE  \/ /\ plan[w].issued < plan[w].extent
                /\ IssueStatus(ledger, PlannedFragment(w)) = "Recorded"
             \/ \E s \in sent :
                  /\ s.request.work = w
                  /\ \A view \in Sessions, outcome \in DownstreamOutcome :
                       WorkCurrent(w, view)
                         => Resolution(s.request, outcome, view) = "Resolved"
  <2>1. CASE ledger[w].outstandingRequests = 0
    BY <1>1, <2>1, IdleWorkCanIssue DEF Drained
  <2>2. CASE ledger[w].outstandingRequests = 1
    <3>1. PICK s \in sent : s.open /\ s.request = ledger[w].issuedRequest
      BY <1>1, <2>2 DEF IInv, OutstandingIsSent
    <3>2. s.request.work = w
      BY <1>1, <2>2, <3>1 DEF IInv, SlotsInv, SlotInv, OutRequest
    <3> QED BY <1>1, <3>1, <3>2, OpenRequestVerdict
  <2> QED BY <1>1, <2>1, <2>2, EntryTypes DEF IInv
<1>2. IInv => NoWorkIsWedged
  BY <1>1 DEF NoWorkIsWedged
<1> QED BY <1>2, RunnerInvariant, PTL
-----------------------------------------------------------------------------
(* What a slot tells of its history. *)

LEMMA OneMoreOutcome ==
  ASSUME NEW outcomes \in Seq(DownstreamOutcome),
         NEW outcome \in DownstreamOutcome
  PROVE  LET longer == Append(outcomes, outcome)
         IN  /\ longer # <<>>
             /\ Len(longer) = Len(outcomes) + 1
             /\ SomeFailed(longer)
                  <=> SomeFailed(outcomes) \/ outcome # "Applied"
             /\ WorstOutcome(longer) =
                  CombineWorkOutcomes(
                    IF outcomes = <<>> THEN "Pending" ELSE WorstOutcome(outcomes),
                    outcome)
<1> DEFINE longer == Append(outcomes, outcome)
           Seen(results) == {results[i] : i \in DOMAIN results}
<1>1. /\ longer # <<>> /\ Len(longer) = Len(outcomes) + 1
      /\ Len(outcomes) \in Nat
      /\ DOMAIN outcomes = 1 .. Len(outcomes)
      /\ DOMAIN longer = 1 .. Len(outcomes) + 1
      /\ longer[Len(outcomes) + 1] = outcome
      /\ \A i \in 1 .. Len(outcomes) : longer[i] = outcomes[i]
  OBVIOUS
<1>2. /\ Len(outcomes) + 1 \in DOMAIN longer
      /\ \A i \in DOMAIN outcomes : i \in DOMAIN longer /\ longer[i] = outcomes[i]
      /\ \A i \in DOMAIN longer : i \in DOMAIN outcomes \/ i = Len(outcomes) + 1
  BY <1>1
<1> HIDE DEF longer
<1>3. Seen(longer) = Seen(outcomes) \cup {outcome}
  BY <1>1, <1>2
<1>4. SomeFailed(longer) <=> SomeFailed(outcomes) \/ outcome # "Applied"
  BY <1>1, <1>2 DEF SomeFailed
<1>5. outcomes = <<>> => Seen(outcomes) = {}
  OBVIOUS
<1>6. /\ WorstOutcome(longer) =
           IF "FailedAfterSend" \in Seen(longer) THEN "TerminalFailure"
           ELSE IF "SendUncertain" \in Seen(longer) THEN "UncertainSend"
           ELSE IF "DefinitelyNotSent" \in Seen(longer) THEN "DefinitelyNotSent"
           ELSE "Applied"
      /\ WorstOutcome(outcomes) =
           IF "FailedAfterSend" \in Seen(outcomes) THEN "TerminalFailure"
           ELSE IF "SendUncertain" \in Seen(outcomes) THEN "UncertainSend"
           ELSE IF "DefinitelyNotSent" \in Seen(outcomes) THEN "DefinitelyNotSent"
           ELSE "Applied"
  BY DEF WorstOutcome
<1> HIDE DEF Seen
<1>7. WorstOutcome(longer) =
        CombineWorkOutcomes(
          IF outcomes = <<>> THEN "Pending" ELSE WorstOutcome(outcomes), outcome)
  <2>1. CASE outcomes = <<>>
    BY <1>3, <1>5, <1>6, <2>1
    DEF CombineWorkOutcomes, WorkOutcomeFor, DownstreamOutcome
  <2>2. CASE outcomes # <<>>
    BY <1>3, <1>6, <2>2
    DEF CombineWorkOutcomes, WorkOutcomeFor, DownstreamOutcome
  <2> QED BY <2>1, <2>2
<1> QED BY <1>1, <1>4, <1>7 DEF longer

LEMMA WorstIsFailure ==
  ASSUME NEW outcomes \in Seq(DownstreamOutcome)
  PROVE  /\ WorstOutcome(outcomes) # "Pending"
         /\ WorstOutcome(outcomes) # "Applied" <=> SomeFailed(outcomes)
<1>1. \A i \in DOMAIN outcomes : outcomes[i] \in DownstreamOutcome
  OBVIOUS
<1> QED BY <1>1 DEF WorstOutcome, SomeFailed, DownstreamOutcome

(* The notices that the results of a work call for. *)
NoticesDue(delivery, outcomes, whole) ==
  IF ~TracksPublicCompletion(delivery) THEN <<>>
  ELSE IF SomeFailed(outcomes) THEN <<"WorkFailed">>
  ELSE IF whole THEN <<"WorkSucceeded">>
  ELSE <<>>

(* A slot holds what became of its work: the worst outcome, whether one    *)
(* failed, whether a notice is out.  The results and the request on the    *)
(* wire account for the fragments issued; planning is closed by the last   *)
(* of them, which alone is marked final, or after a failure.               *)
Tells(slot, planned, told) ==
  /\ slot.observedOutcome = IF told.outcomes = <<>> THEN "Pending"
                            ELSE WorstOutcome(told.outcomes)
  /\ slot.aggregate.failed <=> SomeFailed(told.outcomes)
  /\ slot.aggregate.noticeEmitted <=> told.notices # <<>>
  /\ told.notices = NoticesDue(slot.aggregate.delivery, told.outcomes,
                               Len(told.outcomes) = planned.extent)
  /\ planned.issued = Len(told.outcomes) + slot.outstandingRequests
  /\ planned.issued <= planned.extent
  /\ planned.issued = planned.extent => slot.planningClosed
  /\ slot.planningClosed =>
       planned.issued = planned.extent \/ SomeFailed(told.outcomes)
  /\ slot.outstandingRequests = 1 =>
       (slot.issuedRequest.finalFragment <=> planned.issued = planned.extent)

TellsInv == \A w \in DOMAIN ledger : Tells(ledger[w], plan[w], history[w])

LEMMA ReserveTells ==
  ASSUME IInv, TellsInv, NEW work \in Works, NEW delivery \in Deliveries,
         NEW extent \in Extents, ReserveWork(work, delivery, extent)
  PROVE  TellsInv'
<1> DEFINE slot == NewSlot(work, delivery)
           fresh == [extent |-> extent, issued |-> 0]
           quiet == [outcomes |-> <<>>, notices |-> <<>>]
<1>1. /\ work \in WorkIdentity /\ delivery \in IngressDelivery
      /\ extent \in 1 .. MaxFragmentIndex + 1
      /\ DOMAIN plan = DOMAIN ledger /\ DOMAIN history = DOMAIN ledger
      /\ work \notin DOMAIN ledger
  BY RunnerAssumption DEF IInv, TypeOK, ReserveWork, ReserveStatus
<1>2. /\ DOMAIN ledger' = DOMAIN ledger \cup {work}
      /\ ledger'[work] = slot /\ plan'[work] = fresh /\ history'[work] = quiet
      /\ \A w \in DOMAIN ledger : /\ ledger'[w] = ledger[w]
                                  /\ plan'[w] = plan[w]
                                  /\ history'[w] = history[w]
  BY <1>1 DEF ReserveWork, Reserve
<1>3. /\ ~slot.aggregate.failed /\ ~slot.aggregate.noticeEmitted
      /\ slot.observedOutcome = "Pending" /\ slot.outstandingRequests = 0
      /\ ~slot.planningClosed
  BY <1>1, FreshSlot
<1>4. /\ fresh.extent = extent /\ fresh.issued = 0
      /\ quiet.outcomes = <<>> /\ quiet.notices = <<>>
      /\ Len(quiet.outcomes) = 0 /\ ~SomeFailed(quiet.outcomes)
  BY DEF SomeFailed
<1>5. extent # 0 /\ 0 <= extent /\ 0 = 0 + 0
  BY <1>1, FragmentIndexAssumption
<1> HIDE DEF slot, fresh, quiet
<1>6. Tells(slot, fresh, quiet)
  BY <1>3, <1>4, <1>5 DEF Tells, NoticesDue
<1> QED BY <1>2, <1>6 DEF TellsInv

(* A step that changes one slot and its history, and nothing of the others.*)
LEMMA OthersTell ==
  ASSUME TellsInv, NEW work \in DOMAIN ledger,
         DOMAIN ledger' = DOMAIN ledger,
         \A w \in DOMAIN ledger \ {work} :
           ledger'[w] = ledger[w] /\ plan'[w] = plan[w] /\ history'[w] = history[w],
         Tells(ledger'[work], plan'[work], history'[work])
  PROVE  TellsInv'
BY DEF TellsInv

LEMMA IssueTells ==
  ASSUME IInv, TellsInv, NEW work \in DOMAIN ledger, IssueFragment(work)
  PROVE  TellsInv'
<1> DEFINE request == PlannedFragment(work)
           old == ledger[work]
           new == IssuedSlot(old, request)
           told == history[work]
<1>1. /\ plan[work].issued < plan[work].extent
      /\ IssueStatus(ledger, request) = "Recorded"
      /\ ledger' = RecordIssued(ledger, request)
      /\ plan' = [plan EXCEPT ![work].issued = @ + 1]
      /\ history' = history
  BY DEF IssueFragment
<1>2. /\ request \in PlannedWriteRequest /\ request.work = work
      /\ request.finalFragment <=> plan[work].issued + 1 = plan[work].extent
  BY PlannedRequest
<1> HIDE DEF request
<1>3. ~old.planningClosed /\ old.outstandingRequests = 0
  BY <1>1, <1>2 DEF IssueStatus
<1>4. /\ old \in LedgerSlot
      /\ plan[work] \in Plan /\ plan[work].issued \in Nat
      /\ plan[work].extent \in 1 .. MaxFragmentIndex + 1
      /\ plan[work].extent \in Nat
      /\ DOMAIN plan = DOMAIN ledger
      /\ told.outcomes \in Seq(DownstreamOutcome)
      /\ Len(told.outcomes) \in Nat
  BY EntryTypes, FragmentIndexAssumption DEF IInv, TypeOK, History
<1>5. /\ DOMAIN ledger' = DOMAIN ledger
      /\ ledger'[work] = new
      /\ \A w \in DOMAIN ledger \ {work} : ledger'[w] = ledger[w]
  BY <1>1, <1>2 DEF RecordIssued
<1>6. /\ new.aggregate = old.aggregate
      /\ new.observedOutcome = old.observedOutcome
      /\ new.issuedRequest = request
      /\ new.outstandingRequests = 1
      /\ new.planningClosed <=> old.planningClosed \/ request.finalFragment
  BY <1>2, <1>4, SlotAfterIssue
<1> HIDE DEF new
<1>7. /\ plan'[work].issued = plan[work].issued + 1
      /\ plan'[work].extent = plan[work].extent
      /\ \A w \in DOMAIN ledger \ {work} : plan'[w] = plan[w]
  BY <1>1, <1>4 DEF Plan
<1>8. Tells(old, plan[work], told)
  BY DEF TellsInv
<1>9. /\ plan[work].issued = Len(told.outcomes)
      /\ plan'[work].issued = Len(told.outcomes) + 1
      /\ plan'[work].issued <= plan'[work].extent
  BY <1>1, <1>3, <1>4, <1>7, <1>8 DEF Tells
<1>10. Tells(new, plan'[work], told)
  BY <1>2, <1>3, <1>4, <1>6, <1>7, <1>8, <1>9 DEF Tells
<1> QED BY <1>1, <1>5, <1>7, <1>10, OthersTell

(* The notice of a result, beside the notices that were due before it: a   *)
(* work of which a fragment is out has not succeeded yet.                  *)
LEMMA NoticeIsDue ==
  ASSUME NEW slot \in LedgerSlot, NEW planned \in Plan, NEW told \in History,
         NEW outcome \in DownstreamOutcome, Tells(slot, planned, told),
         planned.extent \in Nat,
         slot.outstandingRequests = 1,
         slot.issuedRequest.delivery = slot.aggregate.delivery
  PROVE  LET notice == ResolutionNotice(slot.issuedRequest, outcome, slot.aggregate)
             longer == Append(told.outcomes, outcome)
             notices == IF notice = "None" THEN told.notices
                        ELSE Append(told.notices, notice)
         IN  /\ notices = NoticesDue(slot.aggregate.delivery, longer,
                                     Len(longer) = planned.extent)
             /\ slot.aggregate.noticeEmitted \/ notice # "None"
                  <=> notices # <<>>
<1> DEFINE request == slot.issuedRequest
           notice == ResolutionNotice(request, outcome, slot.aggregate)
           longer == Append(told.outcomes, outcome)
           tracked == TracksPublicCompletion(slot.aggregate.delivery)
           before == SomeFailed(told.outcomes)
           bad == outcome # "Applied"
           notices == IF notice = "None" THEN told.notices
                      ELSE Append(told.notices, notice)
<1>1. /\ told.outcomes \in Seq(DownstreamOutcome)
      /\ Len(told.outcomes) \in Nat
      /\ planned.issued \in Nat /\ planned.extent \in Nat
  BY DEF History, Plan
<1>2. /\ Len(longer) = Len(told.outcomes) + 1
      /\ SomeFailed(longer) <=> before \/ bad
  BY <1>1, OneMoreOutcome
<1>3. /\ slot.aggregate.failed <=> before
      /\ slot.aggregate.noticeEmitted <=> told.notices # <<>>
      /\ told.notices = NoticesDue(slot.aggregate.delivery, told.outcomes,
                                   Len(told.outcomes) = planned.extent)
      /\ planned.issued = Len(told.outcomes) + 1
      /\ planned.issued <= planned.extent
      /\ request.finalFragment <=> planned.issued = planned.extent
  BY DEF Tells
<1>4. /\ Len(told.outcomes) # planned.extent
      /\ Len(longer) = planned.extent <=> request.finalFragment
  BY <1>1, <1>2, <1>3
<1>5. told.notices = IF tracked /\ before THEN <<"WorkFailed">> ELSE <<>>
  BY <1>3, <1>4 DEF NoticesDue
<1>6. slot.aggregate.noticeEmitted <=> tracked /\ before
  <2>1. <<"WorkFailed">> # <<>>
    OBVIOUS
  <2>2. told.notices # <<>> <=> tracked /\ before
    <3> HIDE DEF tracked, before
    <3> QED BY <1>5, <2>1
  <2> QED BY <1>3, <2>2, Zenon
<1>7. notice = IF ~tracked \/ before THEN "None"
               ELSE IF bad THEN "WorkFailed"
               ELSE IF request.finalFragment THEN "WorkSucceeded"
               ELSE "None"
  BY <1>3, <1>6 DEF ResolutionNotice
<1>8. NoticesDue(slot.aggregate.delivery, longer, Len(longer) = planned.extent) =
        IF ~tracked THEN <<>>
        ELSE IF before \/ bad THEN <<"WorkFailed">>
        ELSE IF request.finalFragment THEN <<"WorkSucceeded">>
        ELSE <<>>
  BY <1>2, <1>4 DEF NoticesDue
<1> HIDE DEF notice, longer, before, tracked, request, bad
<1>9. Append(<<>>, notice) = <<notice>> /\ <<notice>> # <<>>
  OBVIOUS
<1>10. notices = NoticesDue(slot.aggregate.delivery, longer,
                            Len(longer) = planned.extent)
  BY <1>5, <1>7, <1>8, <1>9
<1>11. slot.aggregate.noticeEmitted \/ notice # "None" <=> notices # <<>>
  BY <1>5, <1>6, <1>7, <1>9
<1> QED BY <1>10, <1>11 DEF notice, longer, request

LEMMA ResolveTells ==
  ASSUME IInv, TellsInv, NEW s \in sent, NEW outcome \in DownstreamOutcome,
         NEW kept \in BOOLEAN, ResolveResult(s, outcome, kept)
  PROVE  TellsInv'
<1> DEFINE request == s.request
           work == request.work
           old == ledger[work]
           new == ResolvedSlot(old, outcome)
           notice == ResolutionNotice(request, outcome, old.aggregate)
           longer == Append(history[work].outcomes, outcome)
           notices == IF notice = "None" THEN history[work].notices
                      ELSE Append(history[work].notices, notice)
           told == [history[work] EXCEPT !.outcomes = longer, !.notices = notices]
<1>1. /\ Resolution(request, outcome, session) = "Resolved"
      /\ ledger' = Resolve(ledger, request, outcome)
      /\ plan' = plan
  BY DEF ResolveResult
<1>2. /\ work \in DOMAIN ledger
      /\ old.outstandingRequests = 1
      /\ old.issuedRequest = request
  BY <1>1, CountedResult
<1>3. /\ old \in LedgerSlot /\ old.aggregate \in CompletionAggregate
      /\ request \in PlannedWriteRequest
      /\ plan[work] \in Plan /\ plan[work].extent \in Nat
      /\ history[work] \in History
      /\ DOMAIN history = DOMAIN ledger
      /\ history[work].outcomes \in Seq(DownstreamOutcome)
      /\ Len(history[work].outcomes) \in Nat
      /\ request.delivery = old.aggregate.delivery
  BY <1>2, EntryTypes, FragmentIndexAssumption
  DEF IInv, TypeOK, History, SlotsInv, SlotInv, OutRequest
<1>4. history' = [history EXCEPT ![work] = told]
  BY <1>2, <1>3 DEF ResolveResult
<1>5. /\ history'[work] = told
      /\ \A w \in DOMAIN ledger \ {work} : history'[w] = history[w]
  BY <1>2, <1>3, <1>4
<1>6. told.outcomes = longer /\ told.notices = notices
  <2> HIDE DEF longer, notices
  <2> QED BY <1>3 DEF History
<1>7. /\ DOMAIN ledger' = DOMAIN ledger
      /\ ledger'[work] = new
      /\ \A w \in DOMAIN ledger \ {work} : ledger'[w] = ledger[w]
  BY <1>1, <1>2 DEF Resolve
<1>8. /\ new.aggregate = ResolvedAggregate(request, outcome, old.aggregate)
      /\ new.observedOutcome = CombineWorkOutcomes(old.observedOutcome, outcome)
      /\ new.outstandingRequests = 0
      /\ new.planningClosed = old.planningClosed
  BY <1>2, <1>3, SlotAfterResult
<1>9. /\ new.aggregate.delivery = old.aggregate.delivery
      /\ new.aggregate.failed <=> old.aggregate.failed \/ outcome # "Applied"
      /\ new.aggregate.noticeEmitted
           <=> old.aggregate.noticeEmitted \/ notice # "None"
  BY <1>3, <1>8, AggregateAfterResult
<1>10. Tells(old, plan[work], history[work])
  BY <1>2 DEF TellsInv
<1>11. /\ notices = NoticesDue(old.aggregate.delivery, longer,
                               Len(longer) = plan[work].extent)
       /\ old.aggregate.noticeEmitted \/ notice # "None" <=> notices # <<>>
  <2> DEFINE due == ResolutionNotice(old.issuedRequest, outcome, old.aggregate)
             emitted == IF due = "None" THEN history[work].notices
                     ELSE Append(history[work].notices, due)
  <2>1. old.issuedRequest.delivery = old.aggregate.delivery
    BY <1>2, <1>3
  <2>2. /\ emitted = NoticesDue(old.aggregate.delivery, longer,
                              Len(longer) = plan[work].extent)
        /\ old.aggregate.noticeEmitted \/ due # "None" <=> emitted # <<>>
    <3> HIDE DEF old
    <3> QED BY <1>2, <1>3, <1>10, <2>1, NoticeIsDue
  <2>3. due = notice
    BY <1>2
  <2> HIDE DEF due, notice, longer
  <2> QED BY <2>2, <2>3
<1>12. /\ longer # <<>>
       /\ Len(longer) = Len(history[work].outcomes) + 1
       /\ SomeFailed(longer)
            <=> SomeFailed(history[work].outcomes) \/ outcome # "Applied"
       /\ WorstOutcome(longer) = CombineWorkOutcomes(old.observedOutcome, outcome)
  BY <1>3, <1>10, OneMoreOutcome DEF Tells
<1> HIDE DEF new, notice, longer, notices, told
<1>13. Tells(new, plan[work], told)
  <2>1. plan[work].issued = Len(longer) + new.outstandingRequests
    BY <1>2, <1>3, <1>8, <1>10, <1>12 DEF Tells
  <2>2. /\ new.observedOutcome = WorstOutcome(longer)
        /\ new.aggregate.failed <=> SomeFailed(longer)
        /\ new.aggregate.noticeEmitted <=> notices # <<>>
        /\ notices = NoticesDue(new.aggregate.delivery, longer,
                                Len(longer) = plan[work].extent)
    BY <1>8, <1>9, <1>10, <1>11, <1>12 DEF Tells
  <2>3. /\ plan[work].issued <= plan[work].extent
        /\ plan[work].issued = plan[work].extent => new.planningClosed
        /\ new.planningClosed =>
             plan[work].issued = plan[work].extent \/ SomeFailed(longer)
    BY <1>8, <1>10, <1>12 DEF Tells
  <2> QED BY <1>6, <1>8, <1>12, <2>1, <2>2, <2>3 DEF Tells
<1> QED BY <1>1, <1>2, <1>5, <1>7, <1>13, OthersTell

LEMMA CloseTells ==
  ASSUME IInv, TellsInv, NEW work \in DOMAIN ledger, ClosePlanning(work)
  PROVE  TellsInv'
<1> DEFINE old == ledger[work]
           new == [old EXCEPT !.planningClosed = TRUE]
<1>1. /\ ledger' = ClosePlanningAfterFailure(ledger, work)
      /\ plan' = plan /\ history' = history
  BY DEF ClosePlanning
<1>2. CASE ledger' = ledger
  BY <1>1, <1>2 DEF TellsInv
<1>3. CASE ledger' # ledger
  <2>1. Failed(old) /\ ledger' = [ledger EXCEPT ![work].planningClosed = TRUE]
    BY <1>1, <1>3 DEF ClosePlanningAfterFailure
  <2>2. /\ DOMAIN ledger' = DOMAIN ledger
        /\ ledger'[work] = new
        /\ \A w \in DOMAIN ledger \ {work} : ledger'[w] = ledger[w]
    BY <2>1
  <2>3. old \in LedgerSlot /\ history[work].outcomes \in Seq(DownstreamOutcome)
    BY EntryTypes DEF IInv, History
  <2>4. /\ new.aggregate = old.aggregate
        /\ new.observedOutcome = old.observedOutcome
        /\ new.issuedRequest = old.issuedRequest
        /\ new.outstandingRequests = old.outstandingRequests
        /\ new.planningClosed
    BY <2>3 DEF LedgerSlot
  <2>5. Tells(old, plan[work], history[work])
    BY DEF TellsInv
  <2>6. SomeFailed(history[work].outcomes)
    BY <2>1, <2>3, <2>5, WorstIsFailure DEF Tells, Failed
  <2> HIDE DEF new
  <2>7. Tells(new, plan[work], history[work])
    BY <2>4, <2>5, <2>6 DEF Tells
  <2> QED BY <1>1, <2>2, <2>7, OthersTell
<1> QED BY <1>2, <1>3

LEMMA DropTells ==
  ASSUME TellsInv, NEW works, ledger' = WithoutWorks(ledger, works),
         DropPlans(ledger')
  PROVE  TellsInv'
BY DEF TellsInv, DropPlans, WithoutWorks

LEMMA TellsStep == IInv /\ TellsInv /\ [Next]_vars => TellsInv'
<1> SUFFICES ASSUME IInv, TellsInv, [Next]_vars PROVE TellsInv'
  OBVIOUS
<1>1. ASSUME NEW work \in Works, NEW delivery \in Deliveries,
             NEW extent \in Extents, ReserveWork(work, delivery, extent)
      PROVE  TellsInv'
  BY <1>1, ReserveTells
<1>2. ASSUME NEW work \in DOMAIN ledger,
             IssueFragment(work) \/ ClosePlanning(work)
      PROVE  TellsInv'
  BY <1>2, IssueTells, CloseTells
<1>3. ASSUME NEW s \in sent, NEW outcome \in DownstreamOutcome,
             NEW kept \in BOOLEAN, ResolveResult(s, outcome, kept)
      PROVE  TellsInv'
  BY <1>3, ResolveTells
<1>4. ASSUME NEW work \in DOMAIN ledger, ReleaseWork(work)
      PROVE  TellsInv'
  <2>1. CASE ledger' = ledger
    BY <1>4, <2>1 DEF ReleaseWork, DropPlans, TellsInv
  <2>2. CASE ledger' # ledger
    BY <1>4, <2>2, DropTells DEF ReleaseWork, Release
  <2> QED BY <2>1, <2>2
<1>5. ASSUME NEW works, AbandonTo(WithoutWorks(ledger, works))
      PROVE  TellsInv'
  BY <1>5, DropTells DEF AbandonTo
<1>6. ASSUME NEW work \in DOMAIN ledger,
             AbandonWork(work) \/ AbandonOldGeneration(work.sessionGeneration)
      PROVE  TellsInv'
  BY <1>5, <1>6 DEF AbandonWork, Abandon, AbandonOldGeneration, AbandonGeneration
<1>7. CASE AbandonStale \/ Clear
  BY <1>5, <1>7 DEF AbandonStale, AbandonNotCurrent, Clear
<1>8. ASSUME NEW s \in sent, Forget(s)
      PROVE  TellsInv'
  BY <1>8 DEF Forget, TellsInv
<1>9. ASSUME NEW view \in Sessions, ChangeSession(view)
      PROVE  TellsInv'
  BY <1>9 DEF ChangeSession, TellsInv
<1>10. CASE UNCHANGED vars
  BY <1>10 DEF vars, TellsInv
<1> QED
  BY <1>1, <1>2, <1>3, <1>4, <1>6, <1>7, <1>8, <1>9, <1>10 DEF Next

LEMMA TellsInvariant == Spec => []TellsInv
<1>1. Init => TellsInv
  BY DEF Init, TellsInv
<1> QED BY <1>1, TellsStep, RunnerInvariant, PTL DEF Spec

(* What summary() reports of a work is what its results were, whatever the *)
(* order in which those of several works came in: applied exactly when     *)
(* every fragment was, the worst outcome from the first failure on, and    *)
(* drained only when no result can still count.                            *)
THEOREM SummaryFaithful == Spec => []SummaryTellsHistory
<1>1. ASSUME IInv, TellsInv, NEW w \in DOMAIN ledger
      PROVE  LET summary == Summarize(ledger[w])
                 outcomes == history[w].outcomes
                 whole == Len(outcomes) = plan[w].extent
             IN  /\ summary.outcome =
                      IF whole \/ SomeFailed(outcomes) THEN WorstOutcome(outcomes)
                      ELSE "Pending"
                 /\ whole => summary.drained
                 /\ summary.drained =>
                      /\ whole \/ SomeFailed(outcomes)
                      /\ \A s \in sent : s.open => s.request.work # w
  <2> DEFINE slot == ledger[w]
             outcomes == history[w].outcomes
             whole == Len(outcomes) = plan[w].extent
  <2>1. /\ outcomes \in Seq(DownstreamOutcome) /\ Len(outcomes) \in Nat
        /\ slot.outstandingRequests \in {0, 1}
        /\ plan[w].issued \in Nat /\ plan[w].extent \in Nat \ {0}
    BY <1>1, EntryTypes, FragmentIndexAssumption DEF IInv, History
  <2>2. Tells(slot, plan[w], history[w])
    BY <1>1 DEF TellsInv
  <2>3. whole => slot.outstandingRequests = 0 /\ slot.planningClosed
    BY <2>1, <2>2 DEF Tells
  <2>4. whole => Drained(slot)
    BY <2>3 DEF Drained
  <2>5. Drained(slot) => whole \/ SomeFailed(outcomes)
    BY <2>1, <2>2 DEF Tells, Drained
  <2>6. outcomes = <<>> => ~whole /\ ~SomeFailed(outcomes)
    BY <2>1 DEF SomeFailed
  <2>7. Failed(slot) <=> SomeFailed(outcomes)
    BY <2>1, <2>2, <2>6, WorstIsFailure DEF Tells, Failed
  <2>8. Settled(slot) <=> whole \/ SomeFailed(outcomes)
    BY <2>4, <2>5, <2>7 DEF Settled
  <2>9. whole \/ SomeFailed(outcomes) =>
          slot.observedOutcome = WorstOutcome(outcomes)
    BY <2>2, <2>6 DEF Tells
  <2>10. Drained(slot) => \A s \in sent : s.open => s.request.work # w
    BY <1>1 DEF Drained, IInv, OpenRequestsHaveSlots
  <2> HIDE DEF slot, outcomes, whole
  <2>11. /\ Summarize(slot).outcome =
              IF Settled(slot) THEN slot.observedOutcome ELSE "Pending"
         /\ Summarize(slot).drained = Drained(slot)
    BY DEF Summarize
  <2>12. /\ Summarize(slot).outcome =
              IF whole \/ SomeFailed(outcomes) THEN WorstOutcome(outcomes)
              ELSE "Pending"
         /\ whole => Summarize(slot).drained
         /\ Summarize(slot).drained =>
              /\ whole \/ SomeFailed(outcomes)
              /\ \A s \in sent : s.open => s.request.work # w
    BY <2>4, <2>5, <2>8, <2>9, <2>10, <2>11
  <2> QED BY <2>12 DEF slot, outcomes, whole
<1>2. IInv /\ TellsInv => SummaryTellsHistory
  BY <1>1 DEF SummaryTellsHistory
<1> QED BY <1>2, RunnerInvariant, TellsInvariant, PTL

(* resolve() emits for a work exactly the notices its results call for:    *)
(* at most one, a failure at the first failed fragment, a success after    *)
(* the last one when all were applied, and none for an untracked work.     *)
THEOREM OneNoticePerWork == Spec => []NoticeOnce
<1>1. TellsInv => NoticeOnce
  BY DEF TellsInv, Tells, NoticesDue, NoticeOnce
<1> QED BY <1>1, TellsInvariant, PTL
=============================================================================
