---------------------- MODULE StoreForwardBridgeProofs ----------------------
(***************************************************************************)
(* The facade, for every set of works, every queue and ledger capacity,    *)
(* every candidate table and every counter width: its planner, its safety, *)
(* the service it implements, and the ring that holds its queue.           *)
(***************************************************************************)
EXTENDS StoreForwardBridge, FixedRingQueue, FiniteSetTheorems, TLAPS

(* The inductive invariant.  Shape alone is not inductive: that a          *)
(* completion finds its ledger entry, its fragment index and its queue     *)
(* slot depends on the coupling of the three records.                      *)
IInv == TypeOK /\ LockStep /\ InFlightIsFront /\ WireOrder

-----------------------------------------------------------------------------
(* The planner: what select() and commit() guarantee for every candidate   *)
(* table and every fairness state.                                         *)

(* A non-empty set of natural numbers has a least element.  The initial    *)
(* segments up to its members are finite sets; a minimal one under strict  *)
(* inclusion ends in the least member.                                     *)
LEMMA LeastNatural ==
  ASSUME NEW S \in SUBSET Nat, S # {}
  PROVE  \E n \in S : \A m \in S : n <= m
<1> DEFINE Segments == {0..n : n \in S}
<1>1. Segments \subseteq FiniteSubsetsOf(Nat)
  <2>1. ASSUME NEW n \in S PROVE 0..n \in FiniteSubsetsOf(Nat)
    BY FS_Interval DEF FiniteSubsetsOf
  <2> QED BY <2>1
<1>2. Segments # {}
  OBVIOUS
<1>3. PICK I \in Segments :
        \A J \in Segments : <<J, I>> \notin StrictSubsetOrdering(Nat)
  BY <1>1, <1>2, WFMin, FS_StrictSubsetOrderingWellFounded
<1>4. PICK n \in S : I = 0..n
  OBVIOUS
<1>5. ASSUME NEW m \in S, m < n PROVE FALSE
  <2>1. 0..m \in Segments /\ 0..m \subseteq 0..n /\ n \notin 0..m /\ n \in 0..n
    BY <1>5
  <2>2. <<0..m, I>> \in StrictSubsetOrdering(Nat)
    BY <1>4, <2>1 DEF StrictSubsetOrdering
  <2> QED BY <1>3, <2>1, <2>2
<1> QED BY <1>5

-----------------------------------------------------------------------------
(* A scan index lies in the table. *)
LEMMA ScanIndexInRange ==
  ASSUME NEW polls, Len(polls) \in Nat \ {0},
         NEW state \in PollPlannerState, NEW offset \in Nat
  PROVE  ScanIndex(polls, state, offset) \in 0..(Len(polls) - 1)
<1>1. ScanStart(polls, state) \in Nat
  BY DEF ScanStart, PollPlannerState
<1> QED BY <1>1 DEF ScanIndex

(* When some candidate is due, nextDue() stops at the first due one in     *)
(* round-robin order: it is due, and every candidate scanned before it is  *)
(* not.                                                                    *)
THEOREM FirstDueIsFirst ==
  ASSUME NEW now \in Nat, NEW polls, Len(polls) \in Nat,
         NEW state \in PollPlannerState,
         DueOffsets(now, polls, state) # {}
  PROVE  \E offset \in 0..(Len(polls) - 1) :
           /\ FirstDue(now, polls, state) = ScanIndex(polls, state, offset)
           /\ IsDue(now, polls[FirstDue(now, polls, state) + 1])
           /\ \A earlier \in 0..(offset - 1) :
                ~IsDue(now, polls[ScanIndex(polls, state, earlier) + 1])
<1> DEFINE D == DueOffsets(now, polls, state)
           first == CHOOSE o \in D : \A p \in D : o <= p
<1>1. D \subseteq 0..(Len(polls) - 1)
  BY DEF DueOffsets
<1>2. \E o \in D : \A p \in D : o <= p
  BY <1>1, LeastNatural
<1>3. first \in D /\ \A p \in D : first <= p
  BY <1>2
<1>4. FirstDue(now, polls, state) = ScanIndex(polls, state, first)
  BY DEF FirstDue
<1>5. IsDue(now, polls[ScanIndex(polls, state, first) + 1])
  BY <1>3 DEF DueOffsets
<1>6. ASSUME NEW e \in 0..(first - 1)
      PROVE  ~IsDue(now, polls[ScanIndex(polls, state, e) + 1])
  <2>1. e \in 0..(Len(polls) - 1) /\ e < first
    BY <1>1, <1>3
  <2>2. e \notin D
    BY <1>1, <1>3, <2>1
  <2> QED BY <2>1, <2>2 DEF DueOffsets
<1> HIDE DEF first
<1> QED BY <1>1, <1>3, <1>4, <1>5, <1>6

(* What select() returns is well formed, bound to the table it was made    *)
(* against, and names an existing candidate when it is a poll.             *)
LEMMA SelectWellFormed ==
  ASSUME NEW now \in Nat, NEW ready \in BOOLEAN, NEW polls,
         Len(polls) \in Nat, NEW state \in PollPlannerState
  PROVE  LET selection == Select(now, ready, polls, state)
         IN  /\ selection \in PollSelection
             /\ selection.kind = "ForwardWrite" => ready
             /\ selection.kind = "Poll" => selection.pollIndex < Len(polls)
             /\ selection.kind # "None" =>
                  selection.originatingPollCount = Len(polls)
<1>1. ASSUME DueOffsets(now, polls, state) # {}
      PROVE  FirstDue(now, polls, state) \in 0..(Len(polls) - 1)
  <2>1. PICK offset \in 0..(Len(polls) - 1) :
          FirstDue(now, polls, state) = ScanIndex(polls, state, offset)
    BY <1>1, FirstDueIsFirst
  <2> QED BY <2>1, ScanIndexInRange
<1> QED
  BY <1>1 DEF Select, PollSelection, ScheduledActionKind, NoSelection

(* A selection made against the table that is still in force is never      *)
(* refused by commit(), and the fairness state stays well formed.          *)
THEOREM CommitNeverRefuses ==
  ASSUME NEW now \in Nat, NEW ready \in BOOLEAN, NEW polls,
         Len(polls) \in Nat, NEW state \in PollPlannerState,
         Select(now, ready, polls, state).kind # "None"
  PROVE  /\ CommitAccepts(Select(now, ready, polls, state), Len(polls))
         /\ Commit(Select(now, ready, polls, state), Len(polls), now, state)
              \in PollPlannerState
<1> DEFINE selection == Select(now, ready, polls, state)
<1>1. /\ selection \in PollSelection
      /\ selection.kind = "Poll" => selection.pollIndex < Len(polls)
      /\ selection.originatingPollCount = Len(polls)
      /\ selection.kind \in {"ForwardWrite", "Poll"}
  BY SelectWellFormed DEF PollSelection, ScheduledActionKind
<1> SUFFICES /\ CommitAccepts(selection, Len(polls))
             /\ Commit(selection, Len(polls), now, state) \in PollPlannerState
  OBVIOUS
<1> HIDE DEF selection
<1>2. CommitAccepts(selection, Len(polls))
  BY <1>1 DEF CommitAccepts
<1>3. CASE selection.kind = "ForwardWrite"
  BY <1>1, <1>2, <1>3, PollPlannerAssumption
  DEF Commit, CommitForward, PollPlannerState
<1>4. CASE selection.kind = "Poll"
  <2>1. (selection.pollIndex + 1) % Len(polls) \in Nat
    BY <1>1, <1>4 DEF PollSelection
  <2> QED
    BY <1>2, <1>4, <2>1, PollPlannerAssumption
    DEF Commit, CommitPoll, PollPlannerState
<1> QED BY <1>1, <1>3, <1>4

-----------------------------------------------------------------------------
(* Counters. *)

(* nextNonZeroSequence32() stays inside its width and never yields zero.   *)
LEMMA NextSequenceRange ==
  ASSUME NEW value \in 0..(SequenceModulus - 1)
  PROVE  NextSequence(value) \in 1..(SequenceModulus - 1)
BY BridgeAssumption DEF NextSequence, NextNonZero

-----------------------------------------------------------------------------
(* Sequences of work slots. *)

Distinct(queue) ==
  \A i, j \in DOMAIN queue : queue[i].work = queue[j].work => i = j

(* A queue is indexed from 1, and what popFront() leaves is the same slots *)
(* one place nearer to the front.                                          *)
LEMMA QueueShape ==
  ASSUME NEW queue \in Seq(WorkSlot)
  PROVE  /\ Len(queue) \in Nat
         /\ DOMAIN queue = 1..Len(queue)
         /\ \A i \in DOMAIN queue : queue[i] \in WorkSlot
         /\ queue # <<>> =>
              /\ Len(queue) > 0
              /\ 1 \in DOMAIN queue
              /\ Head(queue) = queue[1]
              /\ Tail(queue) \in Seq(WorkSlot)
              /\ DOMAIN Tail(queue) = 1..(Len(queue) - 1)
              /\ \A i \in DOMAIN Tail(queue) : Tail(queue)[i] = queue[i + 1]
OBVIOUS

(* popFront() takes exactly the front identity off a queue without         *)
(* duplicates.                                                             *)
LEMMA QueuedTail ==
  ASSUME NEW queue \in Seq(WorkSlot), queue # <<>>, Distinct(queue)
  PROVE  /\ Queued(Tail(queue)) = Queued(queue) \ {Head(queue).work}
         /\ Distinct(Tail(queue))
         /\ Head(queue).work \in Queued(queue)
<1> USE QueueShape
<1>1. ASSUME NEW i \in DOMAIN Tail(queue)
      PROVE  /\ i + 1 \in DOMAIN queue
             /\ Tail(queue)[i].work \in Queued(queue) \ {Head(queue).work}
  BY DEF Queued, Distinct
<1>2. ASSUME NEW i \in DOMAIN queue, queue[i].work # Head(queue).work
      PROVE  queue[i].work \in Queued(Tail(queue))
  <2>1. i - 1 \in DOMAIN Tail(queue) /\ Tail(queue)[i - 1] = queue[i]
    BY <1>2
  <2> QED BY <2>1 DEF Queued
<1>3. Queued(Tail(queue)) = Queued(queue) \ {Head(queue).work}
  BY <1>1, <1>2 DEF Queued
<1>4. Distinct(Tail(queue))
  BY <1>1 DEF Distinct
<1> QED BY <1>3, <1>4 DEF Queued

(* pushBack() adds exactly the new identity and moves no slot. *)
LEMMA QueuedAppend ==
  ASSUME NEW queue \in Seq(WorkSlot), NEW slot \in WorkSlot,
         Distinct(queue), slot.work \notin Queued(queue)
  PROVE  /\ Append(queue, slot) \in Seq(WorkSlot)
         /\ DOMAIN Append(queue, slot) = 1..(Len(queue) + 1)
         /\ \A i \in DOMAIN queue : Append(queue, slot)[i] = queue[i]
         /\ Append(queue, slot)[Len(queue) + 1] = slot
         /\ Queued(Append(queue, slot)) = Queued(queue) \cup {slot.work}
         /\ Distinct(Append(queue, slot))
<1> DEFINE q == Append(queue, slot)
<1>1. /\ q \in Seq(WorkSlot)
      /\ DOMAIN q = 1..(Len(queue) + 1)
      /\ DOMAIN queue = 1..Len(queue)
      /\ \A i \in DOMAIN queue : q[i] = queue[i]
      /\ q[Len(queue) + 1] = slot
      /\ Len(queue) \in Nat
  OBVIOUS
<1> HIDE DEF q
<1>2. \A i \in DOMAIN q : i \in DOMAIN queue \/ i = Len(queue) + 1
  BY <1>1
<1>3. \A i \in DOMAIN queue : i \in DOMAIN q /\ queue[i].work # slot.work
  BY <1>1 DEF Queued
<1>4. Queued(q) = Queued(queue) \cup {slot.work}
  <2>1. Queued(q) \subseteq Queued(queue) \cup {slot.work}
    BY <1>1, <1>2 DEF Queued
  <2>2. Queued(queue) \subseteq Queued(q)
    BY <1>1, <1>3 DEF Queued
  <2>3. Len(queue) + 1 \in DOMAIN q
    BY <1>1
  <2>4. slot.work \in Queued(q)
    BY <1>1, <2>3 DEF Queued
  <2> QED BY <2>1, <2>2, <2>4
<1>5. Distinct(q)
  BY <1>1, <1>2, <1>3 DEF Distinct
<1> QED BY <1>1, <1>4, <1>5 DEF q

-----------------------------------------------------------------------------
(* The constructor's state satisfies the inductive invariant. *)
THEOREM InitEstablishes == Init => IInv
<1> SUFFICES ASSUME Init PROVE IInv
  OBVIOUS
<1> USE DEF Init
<1>1. NoWrite \in PlannedWriteRequest
  BY DEF NoWrite, PlannedWriteRequest, NoWork, WorkIdentity, IngressDelivery
<1>2. NoAction \in Action
  BY <1>1 DEF NoAction, Action, NoSelection, PollSelection, ScheduledActionKind
<1>3. WorkDataTypes
  <2>1. workQueue \in Seq(WorkSlot)
    OBVIOUS
  <2>2. DOMAIN ledger = {} /\ ledger \in [DOMAIN ledger -> LedgerSlot]
    OBVIOUS
  <2>3. DOMAIN wire = {} /\ wire \in [DOMAIN wire -> Seq(WireRecord)]
    OBVIOUS
  <2> QED BY <2>1, <2>2, <2>3 DEF WorkDataTypes
<1>4. TypeOK
  <2>1. pollState \in PollPlannerState
    BY PollPlannerAssumption DEF InitialPollState, PollPlannerState
  <2>2. requestSequence \in 0..(SequenceModulus - 1)
        /\ revision \in 1..(SequenceModulus - 1)
    BY BridgeAssumption
  <2>3. returned \in [notice : CompletionNotice, applied : BOOLEAN,
                      reclaimed : SUBSET Works]
    BY DEF NothingReturned, CompletionNotice
  <2>4. session \in Sessions
    BY BridgeAssumption
  <2> QED BY <1>2, <1>3, <2>1, <2>2, <2>3, <2>4 DEF TypeOK
<1>5. LockStep /\ WireOrder
  BY DEF LockStep, WireOrder, Queued
<1>6. InFlightIsFront
  BY DEF InFlightIsFront, ForwardInFlight, NoAction
<1> QED BY <1>4, <1>5, <1>6 DEF IInv
-----------------------------------------------------------------------------
(* Proposals. *)

(* A candidate table holds candidates; its length is the poll count. *)
LEMMA TableShape ==
  ASSUME NEW polls \in PollTables
  PROVE  /\ Len(polls) \in Nat
         /\ \A i \in 1..Len(polls) : polls[i] \in PollCandidate
BY BridgeAssumption

(* The default-constructed request and action are well formed. *)
LEMMA DefaultsTyped ==
  /\ NoWrite \in PlannedWriteRequest
  /\ NoAction \in Action
<1>1. NoWrite \in PlannedWriteRequest
  BY DEF NoWrite, PlannedWriteRequest, NoWork, WorkIdentity, IngressDelivery
<1> QED
  BY <1>1 DEF NoAction, Action, NoSelection, PollSelection, ScheduledActionKind

(* The front work, whenever there is one. *)
LEMMA FrontShape ==
  ASSUME IInv, workQueue # <<>>
  PROVE  /\ 1 \in DOMAIN workQueue
         /\ Front = workQueue[1]
         /\ Front \in WorkSlot
         /\ Front.work \in Works
         /\ Front.work \in WorkIdentity
         /\ Front.work \in Queued(workQueue)
         /\ Front.work \in DOMAIN ledger
         /\ ledger[Front.work] \in LedgerSlot
<1>1. workQueue \in Seq(WorkSlot)
  BY DEF IInv, TypeOK, WorkDataTypes
<1>2. 1 \in DOMAIN workQueue /\ Front = workQueue[1] /\ Front \in WorkSlot
  BY <1>1, QueueShape DEF Front
<1>3. Front.work \in Works /\ Front.work \in WorkIdentity
  BY <1>2, BridgeAssumption DEF WorkSlot
<1>4. Front.work \in Queued(workQueue)
  BY <1>2 DEF Queued
<1> QED
  BY <1>2, <1>3, <1>4 DEF IInv, LockStep, TypeOK, WorkDataTypes

(* A shown proposal is well formed, and describes the front work's next    *)
(* fragment when it is a write.                                            *)
LEMMA ProposalShape ==
  ASSUME IInv, NEW now \in Nat, NEW polls \in PollTables
  PROVE  /\ Preview(now, polls) \in Action
         /\ PreviewStatus(now, polls) = "Ready" =>
              LET action == Preview(now, polls)
              IN  /\ action.scheduling = Selection(now, polls)
                  /\ action.kind = action.scheduling.kind
                  /\ action.kind \in {"ForwardWrite", "Poll"}
                  /\ action.pollCount = Len(polls)
                  /\ action.selectedAt = now
                  /\ action.kind = "ForwardWrite" =>
                       /\ workQueue # <<>>
                       /\ action.requiresCompletion
                       /\ action.sequence = NextSequence(requestSequence)
                       /\ action.write = NextFragment(Front, action.sequence)
                       /\ Front.remaining # 0
                       /\ WorkCurrent(Front.work, session)
                  /\ action.kind = "Poll" =>
                       /\ action.write = NoWrite
                       /\ ~action.requiresCompletion => action.sequence = 0
                       /\ action.requiresCompletion =>
                            /\ action.sequence = NextSequence(requestSequence)
                            /\ action.read \in ValidPollRequests
<1> DEFINE selection == Selection(now, polls)
           status == PreviewStatus(now, polls)
           next == NextSequence(requestSequence)
<1>1. pollState \in PollPlannerState /\ (workQueue # <<>>) \in BOOLEAN
  BY DEF IInv, TypeOK
<1>2. /\ selection \in PollSelection
      /\ selection.kind = "ForwardWrite" => workQueue # <<>>
      /\ selection.kind = "Poll" => selection.pollIndex < Len(polls)
  BY <1>1, TableShape, SelectWellFormed DEF Selection
<1>3. next \in Nat /\ revision \in Nat
  <2>1. next \in 1..(SequenceModulus - 1)
    BY NextSequenceRange DEF IInv, TypeOK
  <2> QED BY <2>1, BridgeAssumption DEF IInv, TypeOK
<1>4. selection.kind = "Poll" => PollPicked(now, polls) \in PollCandidate
  BY <1>2, TableShape DEF PollPicked, PollSelection
<1>5. status = "Ready" =>
        /\ selection.kind \in {"ForwardWrite", "Poll"}
        /\ selection.kind = "Poll" /\ PollPicked(now, polls).requiresDispatch
             => PollPicked(now, polls).request \in ValidPollRequests
        /\ selection.kind = "ForwardWrite" =>
             Front.remaining # 0 /\ WorkCurrent(Front.work, session)
  BY <1>2 DEF PreviewStatus, PollSelection, ScheduledActionKind
<1>6. CASE status # "Ready"
  BY <1>6, DefaultsTyped DEF Preview
<1>7. CASE status = "Ready" /\ selection.kind = "Poll"
  <2>1. PollPicked(now, polls) \in PollCandidate
    BY <1>4, <1>7
  <2>2. Preview(now, polls) = PollProposal(now, polls)
    BY <1>7 DEF Preview
  <2>3. PollProposal(now, polls) \in Action
    BY <1>2, <1>3, <2>1, TableShape, DefaultsTyped
    DEF PollProposal, PollCandidate, Action, ScheduledActionKind
  <2> HIDE DEF selection, status, next
  <2> QED
    BY <1>5, <1>7, <2>2, <2>3 DEF PollProposal, selection, status, next
<1>8. CASE status = "Ready" /\ selection.kind = "ForwardWrite"
  <2>1. workQueue # <<>>
    BY <1>2, <1>8
  <2>2. Preview(now, polls) = ForwardProposal(now, polls)
    BY <1>8 DEF Preview
  <2>3. NextFragment(Front, next) \in PlannedWriteRequest
    BY <1>3, <2>1, FrontShape
    DEF NextFragment, PlannedWriteRequest, WorkSlot
  <2>4. ForwardProposal(now, polls) \in Action
    BY <1>2, <1>3, <2>3, TableShape
    DEF ForwardProposal, Action, ScheduledActionKind
  <2> QED
    BY <1>5, <1>8, <2>1, <2>2, <2>4 DEF ForwardProposal
<1> QED BY <1>5, <1>6, <1>7, <1>8

-----------------------------------------------------------------------------
(* Steps that leave queue, ledger and trace alone and neither start nor    *)
(* finish a forward: nextAction(), polls, a session change.                *)
LEMMA CouplingFrame ==
  ASSUME IInv, UNCHANGED <<workQueue, ledger, wire>>,
         ForwardInFlight' <=> ForwardInFlight,
         ForwardInFlight => UNCHANGED inFlightAction
  PROVE  WorkDataTypes' /\ LockStep' /\ WireOrder'
<1>1. WorkDataTypes'
  BY DEF IInv, TypeOK, WorkDataTypes
<1>2. WireOrder'
  <2>1. WireOrder
    BY DEF IInv
  <2> QED BY <2>1 DEF WireOrder, Queued
<1>3. LockStep'
  <2>1. LockStep
    BY DEF IInv
  <2> QED BY <2>1 DEF LockStep, Queued
<1> QED BY <1>1, <1>2, <1>3

-----------------------------------------------------------------------------
(* admitWork() appends a slot and its ledger entry together.               *)
LEMMA AdmitWorkStep ==
  ASSUME IInv, NEW work \in Works, NEW delivery \in Deliveries,
         NEW fragments \in FragmentCounts,
         AdmitWork(work, delivery, fragments)
  PROVE  IInv'
<1> DEFINE slot == [work |-> work, delivery |-> delivery,
                    quantity |-> fragments, remaining |-> fragments,
                    fragmentIndex |-> 0]
           last == Len(workQueue) + 1
<1>1. /\ fragments \in 1..MaxFragmentIndex
      /\ work \in WorkIdentity
      /\ delivery \in IngressDelivery
      /\ IsAccepted(delivery)
      /\ ValidWork(work)
      /\ work \notin DOMAIN ledger
  <2>1. fragments \in 0..MaxFragmentIndex /\ work \in WorkIdentity
        /\ delivery \in IngressDelivery
    BY BridgeAssumption
  <2>2. /\ AdmitWorkStatus(work, delivery, fragments) = "Admitted"
        /\ ReserveStatus(ledger, work, delivery) = "Reserved"
    BY DEF AdmitWork, AdmitWorkStatus
  <2> QED
    BY <2>1, <2>2, FragmentIndexAssumption
    DEF AdmitWorkStatus, ReserveStatus
<1>2. slot \in WorkSlot
  BY <1>1, FragmentIndexAssumption DEF WorkSlot
<1>3. /\ workQueue \in Seq(WorkSlot)
      /\ Distinct(workQueue)
      /\ slot.work \notin Queued(workQueue)
      /\ DOMAIN ledger = Queued(workQueue)
      /\ DOMAIN wire = Queued(workQueue)
  BY <1>1 DEF IInv, TypeOK, WorkDataTypes, LockStep, Distinct, WireOrder
<1>4. workQueue' = Append(workQueue, slot)
  BY DEF AdmitWork
<1>5. /\ workQueue' \in Seq(WorkSlot)
      /\ DOMAIN workQueue' = 1..last
      /\ DOMAIN workQueue = 1..Len(workQueue)
      /\ Len(workQueue) \in Nat
      /\ \A i \in DOMAIN workQueue : workQueue'[i] = workQueue[i]
      /\ workQueue'[last] = slot
      /\ Queued(workQueue)' = Queued(workQueue) \cup {work}
      /\ Distinct(workQueue')
  <2> HIDE DEF slot
  <2>1. Queued(workQueue)' = Queued(workQueue')
    BY DEF Queued
  <2>2. slot.work = work
    BY DEF slot
  <2> QED BY <1>2, <1>3, <1>4, <2>1, <2>2, QueuedAppend, QueueShape
<1>6. /\ ledger' = Reserve(ledger, work, delivery)
      /\ wire' = [w \in DOMAIN wire \cup {work} |->
                    IF w = work THEN <<>> ELSE wire[w]]
      /\ ForwardInFlight' <=> ForwardInFlight
      /\ UNCHANGED inFlightAction
  BY DEF AdmitWork, ForwardInFlight
<1> HIDE DEF slot
<1>7. WorkDataTypes'
  <2>1. NewSlot(work, delivery) \in LedgerSlot
    BY <1>1, DefaultsTyped
    DEF NewSlot, LedgerSlot, NewAggregate, CompletionAggregate,
        WorkCompletionOutcome
  <2>2. DOMAIN ledger' \subseteq Works
        /\ ledger' \in [DOMAIN ledger' -> LedgerSlot]
    BY <1>6, <2>1 DEF Reserve, IInv, TypeOK, WorkDataTypes
  <2>3. DOMAIN wire' \subseteq Works
        /\ wire' \in [DOMAIN wire' -> Seq(WireRecord)]
    BY <1>6 DEF IInv, TypeOK, WorkDataTypes
  <2> QED BY <1>5, <2>2, <2>3 DEF WorkDataTypes
<1>8. TypeOK'
  <2>1. revision' \in 1..(SequenceModulus - 1)
    BY BridgeAssumption, NextSequenceRange DEF AdmitWork, IInv, TypeOK
  <2>2. returned' \in [notice : CompletionNotice, applied : BOOLEAN,
                       reclaimed : SUBSET Works]
    BY DEF AdmitWork, NothingReturned, CompletionNotice
  <2> QED BY <1>7, <2>1, <2>2 DEF AdmitWork, IInv, TypeOK
<1>9. ASSUME NEW i \in DOMAIN workQueue
      PROVE  /\ workQueue'[i] = workQueue[i]
             /\ workQueue[i].work \in Queued(workQueue)
             /\ ledger'[workQueue[i].work] = ledger[workQueue[i].work]
             /\ wire'[workQueue[i].work] = wire[workQueue[i].work]
  <2>1. workQueue[i].work \in Queued(workQueue)
    BY DEF Queued
  <2> QED BY <1>1, <1>3, <1>5, <1>6, <2>1 DEF Reserve
<1>10. \A i \in DOMAIN workQueue' : i \in DOMAIN workQueue \/ i = last
  BY <1>5
<1>11. ForwardInFlight => last # 1
  <2>1. ForwardInFlight => workQueue # <<>>
    BY DEF IInv, InFlightIsFront
  <2> QED BY <1>3, <1>5, <2>1
<1>12. LockStep'
  <2>1. DOMAIN ledger' = Queued(workQueue)'
    BY <1>3, <1>5, <1>6 DEF Reserve
  <2>2. ASSUME NEW i \in DOMAIN workQueue
        PROVE  /\ CleanEntry(workQueue'[i], ledger'[workQueue'[i].work])
               /\ IF ForwardInFlight /\ i = 1
                    THEN OutstandingEntry(workQueue'[i],
                                          ledger'[workQueue'[i].work],
                                          inFlightAction.write)
                    ELSE IdleEntry(workQueue'[i],
                                   ledger'[workQueue'[i].work])
    BY <1>9 DEF IInv, LockStep
  <2>3. /\ CleanEntry(slot, ledger'[slot.work])
        /\ IdleEntry(slot, ledger'[slot.work])
    <3>1. ledger'[slot.work] = NewSlot(work, delivery)
      BY <1>6 DEF Reserve, slot
    <3> QED
      BY <1>1, <3>1, FragmentIndexAssumption
      DEF CleanEntry, IdleEntry, NewSlot, NewAggregate, slot
  <2>4. /\ ForwardInFlight' <=> ForwardInFlight
        /\ inFlightAction' = inFlightAction
    BY <1>6
  <2>5. \A i \in DOMAIN workQueue' :
          /\ CleanEntry(workQueue'[i], ledger'[workQueue'[i].work])
          /\ IF ForwardInFlight /\ i = 1
               THEN OutstandingEntry(workQueue'[i],
                                     ledger'[workQueue'[i].work],
                                     inFlightAction.write)
               ELSE IdleEntry(workQueue'[i], ledger'[workQueue'[i].work])
    BY <1>5, <1>10, <1>11, <2>2, <2>3
  <2> QED
    BY <1>5, <2>1, <2>4, <2>5 DEF LockStep, Distinct
<1>13. WireOrder'
  <2>1. DOMAIN wire' = Queued(workQueue)'
    BY <1>3, <1>5, <1>6
  <2>2. wire'[slot.work] = <<>> /\ slot.fragmentIndex = 0
        /\ slot.remaining = slot.quantity /\ slot.quantity \in Nat
    BY <1>1, <1>6, FragmentIndexAssumption DEF slot
  <2>3. \A i \in DOMAIN workQueue' :
          TraceInOrder(workQueue'[i], wire'[workQueue'[i].work],
                       ForwardInFlight /\ i = 1)
    <3>1. ASSUME NEW i \in DOMAIN workQueue
          PROVE  TraceInOrder(workQueue'[i], wire'[workQueue'[i].work],
                              ForwardInFlight /\ i = 1)
      BY <1>9 DEF IInv, WireOrder
    <3>2. TraceInOrder(workQueue'[last], wire'[workQueue'[last].work],
                       ForwardInFlight /\ last = 1)
      BY <1>5, <2>2 DEF TraceInOrder
    <3> QED BY <1>10, <3>1, <3>2
  <2> QED BY <1>6, <2>1, <2>3 DEF WireOrder
<1>14. InFlightIsFront'
  <2>1. workQueue # <<>> => workQueue' # <<>> /\ Head(workQueue') = Head(workQueue)
    BY <1>2, <1>3, <1>4
  <2>2. UNCHANGED <<inFlight, inFlightAction, inFlightWork>>
    BY DEF AdmitWork
  <2> QED
    BY <1>6, <2>1, <2>2 DEF IInv, InFlightIsFront, Front
<1> QED BY <1>8, <1>12, <1>13, <1>14 DEF IInv

-----------------------------------------------------------------------------
(* nextAction() only hands out a proposal.                                 *)
LEMMA NextActionStep ==
  ASSUME IInv, NEW now \in Ticks, NEW polls \in PollTables,
         NextAction(now, polls)
  PROVE  IInv'
<1>1. held' \in Action
  BY ProposalShape, BridgeAssumption DEF NextAction
<1>2. UNCHANGED facade /\ UNCHANGED <<session, wire>>
  BY DEF NextAction
<1>3. WorkDataTypes' /\ LockStep' /\ WireOrder'
  BY <1>2, CouplingFrame DEF facade, ForwardInFlight
<1>4. TypeOK'
  BY <1>1, <1>2, <1>3
  DEF NextAction, facade, IInv, TypeOK, NothingReturned, CompletionNotice
<1>5. InFlightIsFront'
  BY <1>2 DEF facade, IInv, InFlightIsFront, ForwardInFlight, Front
<1> QED BY <1>3, <1>4, <1>5 DEF IInv

(* A move of the caller's lifecycle touches nothing of the facade.         *)
LEMMA ChangeSessionStep ==
  ASSUME IInv, NEW view \in Sessions, ChangeSession(view)
  PROVE  IInv'
<1>1. UNCHANGED facade /\ UNCHANGED <<held, wire>>
  BY DEF ChangeSession
<1>2. WorkDataTypes' /\ LockStep' /\ WireOrder'
  BY <1>1, CouplingFrame DEF facade, ForwardInFlight
<1>3. TypeOK'
  BY <1>1, <1>2
  DEF ChangeSession, facade, IInv, TypeOK, NothingReturned, CompletionNotice
<1>4. InFlightIsFront'
  BY <1>1 DEF facade, IInv, InFlightIsFront, ForwardInFlight, Front
<1> QED BY <1>2, <1>3, <1>4 DEF IInv

-----------------------------------------------------------------------------
(* admitAction(): whatever copy the caller holds, an action it gets        *)
(* accepted is exactly the proposal of the present state, so the planner's *)
(* commit accepts it too.                                                  *)
LEMMA AcceptedIsCurrent ==
  ASSUME IInv, NEW action \in Action, NEW polls \in PollTables,
         AdmitActionStatus(action, polls) \in {"Admitted", "Consumed"}
  PROVE  /\ ~inFlight
         /\ action.kind \in {"ForwardWrite", "Poll"}
         /\ Commit(action.scheduling, action.pollCount, action.selectedAt,
                   pollState) \in PollPlannerState
         /\ action.kind = "ForwardWrite" =>
              /\ workQueue # <<>>
              /\ action.sequence = NextSequence(requestSequence)
              /\ action.write = NextFragment(Front, action.sequence)
              /\ Front.remaining # 0
              /\ WorkCurrent(Front.work, session)
<1> DEFINE now == action.selectedAt
<1>1. now \in Nat
  BY DEF Action
<1>2. ~inFlight /\ IsCurrentProposal(action, polls)
  BY DEF AdmitActionStatus
<1>3. action = Preview(now, polls) /\ PreviewStatus(now, polls) = "Ready"
  BY <1>2 DEF IsCurrentProposal
<1>4. /\ action.scheduling = Selection(now, polls)
      /\ action.kind = action.scheduling.kind
      /\ action.kind \in {"ForwardWrite", "Poll"}
      /\ action.pollCount = Len(polls)
      /\ action.kind = "ForwardWrite" =>
           /\ workQueue # <<>>
           /\ action.sequence = NextSequence(requestSequence)
           /\ action.write = NextFragment(Front, action.sequence)
           /\ Front.remaining # 0
           /\ WorkCurrent(Front.work, session)
  BY <1>1, <1>3, ProposalShape
<1>5. Commit(Selection(now, polls), Len(polls), now, pollState)
        \in PollPlannerState
  <2>1. pollState \in PollPlannerState /\ (workQueue # <<>>) \in BOOLEAN
    BY DEF IInv, TypeOK
  <2>2. Selection(now, polls).kind # "None"
    BY <1>4
  <2> HIDE DEF now
  <2> QED
    BY <1>1, <2>1, <2>2, TableShape, CommitNeverRefuses DEF Selection
<1> QED BY <1>2, <1>4, <1>5

(* The fairness state and the revision after an accepted action.           *)
LEMMA CommitActionTypes ==
  ASSUME IInv, NEW action \in Action, NEW polls \in PollTables,
         AdmitActionStatus(action, polls) \in {"Admitted", "Consumed"},
         CommitAction(action)
  PROVE  /\ pollState' \in PollPlannerState
         /\ revision' \in 1..(SequenceModulus - 1)
         /\ returned' \in [notice : CompletionNotice, applied : BOOLEAN,
                           reclaimed : SUBSET Works]
         /\ session' \in Sessions
         /\ held' \in Action
<1>1. pollState' \in PollPlannerState
  BY AcceptedIsCurrent DEF CommitAction
<1>2. revision' \in 1..(SequenceModulus - 1)
  BY BridgeAssumption, NextSequenceRange DEF CommitAction, IInv, TypeOK
<1>3. returned' \in [notice : CompletionNotice, applied : BOOLEAN,
                     reclaimed : SUBSET Works]
  BY DEF CommitAction, NothingReturned, CompletionNotice
<1> QED BY <1>1, <1>2, <1>3 DEF CommitAction, IInv, TypeOK

(* A gated phase consumes its poll turn without going in flight.           *)
LEMMA ConsumePollStep ==
  ASSUME IInv, NEW action \in Action, NEW polls \in PollTables,
         ConsumePoll(action, polls)
  PROVE  IInv'
<1>1. /\ AdmitActionStatus(action, polls) \in {"Admitted", "Consumed"}
      /\ CommitAction(action)
      /\ UNCHANGED <<workQueue, ledger, requestSequence, inFlight,
                     inFlightAction, inFlightWork, wire>>
  BY DEF ConsumePoll
<1>2. WorkDataTypes' /\ LockStep' /\ WireOrder'
  BY <1>1, CouplingFrame DEF ForwardInFlight
<1>3. TypeOK'
  BY <1>1, <1>2, CommitActionTypes DEF IInv, TypeOK
<1>4. InFlightIsFront'
  BY <1>1 DEF IInv, InFlightIsFront, ForwardInFlight, Front
<1> QED BY <1>2, <1>3, <1>4 DEF IInv

(* An admitted poll occupies the lane and no work.                         *)
LEMMA AdmitPollStep ==
  ASSUME IInv, NEW action \in Action, NEW polls \in PollTables,
         AdmitPoll(action, polls)
  PROVE  IInv'
<1>1. /\ AdmitActionStatus(action, polls) = "Admitted"
      /\ action.kind = "Poll"
      /\ CommitAction(action)
      /\ EnterFlight(action, NoWork)
      /\ UNCHANGED <<workQueue, ledger, wire>>
  BY DEF AdmitPoll
<1>2. ~inFlight
  BY <1>1, AcceptedIsCurrent
<1>3. ~ForwardInFlight /\ ~ForwardInFlight'
  BY <1>1, <1>2 DEF EnterFlight, ForwardInFlight
<1>4. WorkDataTypes' /\ LockStep' /\ WireOrder'
  BY <1>1, <1>3, CouplingFrame
<1>5. requestSequence' \in 0..(SequenceModulus - 1)
  <2>1. action.sequence = NextSequence(requestSequence)
    BY <1>1 DEF AdmitActionStatus
  <2>2. NextSequence(requestSequence) \in 0..(SequenceModulus - 1)
    BY NextSequenceRange, BridgeAssumption DEF IInv, TypeOK
  <2> QED BY <1>1, <2>1, <2>2 DEF EnterFlight
<1>6. TypeOK'
  BY <1>1, <1>4, <1>5, CommitActionTypes DEF EnterFlight, TypeOK
<1>7. InFlightIsFront'
  BY <1>1, <1>3 DEF EnterFlight, InFlightIsFront
<1> QED BY <1>4, <1>6, <1>7 DEF IInv

-----------------------------------------------------------------------------
(* recordIssued() on a slot: one request outstanding, the issue index past *)
(* a non-final fragment, planning closed by a final one.                   *)
LEMMA IssuedSlotShape ==
  ASSUME NEW slot \in LedgerSlot, NEW request \in PlannedWriteRequest
  PROVE  LET next == IssuedSlot(slot, request)
         IN  /\ next \in LedgerSlot
             /\ next.aggregate = slot.aggregate
             /\ next.issuedRequest = request
             /\ next.observedOutcome = slot.observedOutcome
             /\ next.outstandingRequests = 1
             /\ next.planningClosed =
                  (slot.planningClosed \/ request.finalFragment)
             /\ next.nextIssuedFragment =
                  IF request.finalFragment THEN slot.nextIssuedFragment
                  ELSE slot.nextIssuedFragment + 1
<1> DEFINE closed == slot.planningClosed \/ request.finalFragment
           index == IF request.finalFragment THEN slot.nextIssuedFragment
                    ELSE slot.nextIssuedFragment + 1
           next == IssuedSlot(slot, request)
<1>1. closed \in BOOLEAN
  OBVIOUS
<1>2. index \in Nat
  BY DEF LedgerSlot
<1>3. next = [slot EXCEPT !.issuedRequest = request,
                          !.outstandingRequests = 1,
                          !.planningClosed = closed,
                          !.nextIssuedFragment = index]
  BY Zenon DEF IssuedSlot
<1> SUFFICES /\ next \in LedgerSlot
             /\ next.aggregate = slot.aggregate
             /\ next.issuedRequest = request
             /\ next.observedOutcome = slot.observedOutcome
             /\ next.outstandingRequests = 1
             /\ next.planningClosed = closed
             /\ next.nextIssuedFragment = index
  BY Zenon
<1> HIDE DEF next, closed, index
<1>4. next \in LedgerSlot
  BY <1>1, <1>2, <1>3 DEF LedgerSlot
<1>5. /\ next.aggregate = slot.aggregate
      /\ next.issuedRequest = request
      /\ next.observedOutcome = slot.observedOutcome
      /\ next.outstandingRequests = 1
  BY <1>3 DEF LedgerSlot
<1>6. next.planningClosed = closed
  BY <1>3 DEF LedgerSlot
<1>7. next.nextIssuedFragment = index
  BY <1>3 DEF LedgerSlot
<1> QED BY <1>4, <1>5, <1>6, <1>7
-----------------------------------------------------------------------------
(* The entry of the front work, read from the coupling invariants.         *)
LEMMA FrontCoupling ==
  ASSUME IInv, workQueue # <<>>
  PROVE  LET entry == ledger[Front.work]
             trace == wire[Front.work]
         IN  /\ CleanEntry(Front, entry)
             /\ ForwardInFlight =>
                  OutstandingEntry(Front, entry, inFlightAction.write)
             /\ ~ForwardInFlight => IdleEntry(Front, entry)
             /\ trace \in Seq(WireRecord)
             /\ ForwardInFlight => TraceInOrder(Front, trace, TRUE)
             /\ ~ForwardInFlight => TraceInOrder(Front, trace, FALSE)
             /\ Front.work \in DOMAIN wire
<1>1. 1 \in DOMAIN workQueue /\ Front = workQueue[1]
  BY FrontShape
<1>2. /\ CleanEntry(Front, ledger[Front.work])
      /\ ForwardInFlight =>
           OutstandingEntry(Front, ledger[Front.work], inFlightAction.write)
      /\ ~ForwardInFlight => IdleEntry(Front, ledger[Front.work])
  BY <1>1 DEF IInv, LockStep
<1>3. Front.work \in DOMAIN wire /\ wire[Front.work] \in Seq(WireRecord)
  BY FrontShape DEF IInv, WireOrder, TypeOK, WorkDataTypes
<1>4. /\ ForwardInFlight => TraceInOrder(Front, wire[Front.work], TRUE)
      /\ ~ForwardInFlight => TraceInOrder(Front, wire[Front.work], FALSE)
  BY <1>1 DEF IInv, WireOrder, TraceInOrder
<1> QED BY <1>2, <1>3, <1>4

(* The other queued works: no step on the front touches them.              *)
LEMMA BehindFront ==
  ASSUME IInv, NEW i \in DOMAIN workQueue, i # 1
  PROVE  LET slot == workQueue[i]
         IN  /\ slot.work # Front.work
             /\ slot.work \in DOMAIN ledger
             /\ slot.work \in DOMAIN wire
             /\ CleanEntry(slot, ledger[slot.work])
             /\ IdleEntry(slot, ledger[slot.work])
             /\ TraceInOrder(slot, wire[slot.work], FALSE)
<1>1. workQueue # <<>> /\ workQueue \in Seq(WorkSlot)
  BY DEF IInv, TypeOK, WorkDataTypes
<1>2. 1 \in DOMAIN workQueue /\ Front = workQueue[1]
  BY <1>1, FrontShape
<1>3. workQueue[i].work # Front.work
  BY <1>2 DEF IInv, LockStep
<1>4. workQueue[i].work \in Queued(workQueue)
  BY DEF Queued
<1> QED BY <1>3, <1>4 DEF IInv, LockStep, WireOrder

(* An admitted write: the ledger records the fragment as issued and the    *)
(* cursor moves past it, in the same step.                                 *)
LEMMA AdmitForwardStep ==
  ASSUME IInv, NEW action \in Action, NEW polls \in PollTables,
         AdmitForward(action, polls)
  PROVE  IInv'
<1> DEFINE work == Front.work
           entry == ledger[work]
           request == action.write
           slot1 == AdvancedSlot(Front)
           entry1 == IssuedSlot(entry, request)
           record == [fragment |-> request.fragmentIndex,
                      outcome |-> "Pending"]
           trace1 == Append(wire[work], record)
<1>1. /\ AdmitActionStatus(action, polls) = "Admitted"
      /\ action.kind = "ForwardWrite"
      /\ CommitAction(action)
      /\ EnterFlight(action, action.write.work)
      /\ ledger' = RecordIssued(ledger, action.write)
      /\ workQueue' = [workQueue EXCEPT ![1] = AdvancedSlot(@)]
      /\ wire' = [wire EXCEPT ![action.write.work] =
                    Append(@, [fragment |-> action.write.fragmentIndex,
                               outcome |-> "Pending"])]
  BY DEF AdmitForward
<1>2. /\ ~inFlight
      /\ workQueue # <<>>
      /\ action.sequence = NextSequence(requestSequence)
      /\ request = NextFragment(Front, action.sequence)
      /\ Front.remaining # 0
      /\ WorkCurrent(work, session)
  BY <1>1, AcceptedIsCurrent
<1>3. /\ action.sequence \in 1..(SequenceModulus - 1)
      /\ action.sequence # 0
      /\ action.sequence \in 0..(SequenceModulus - 1)
  BY <1>2, NextSequenceRange, BridgeAssumption DEF IInv, TypeOK
<1>4. IssueStatus(ledger, request) = "Recorded"
  BY <1>1 DEF AdmitActionStatus
<1>5. /\ 1 \in DOMAIN workQueue
      /\ Front = workQueue[1]
      /\ Front \in WorkSlot
      /\ work \in DOMAIN ledger
      /\ entry \in LedgerSlot
      /\ work \in WorkIdentity
      /\ work \in Works
  BY <1>2, FrontShape
<1>6. /\ CleanEntry(Front, entry)
      /\ IdleEntry(Front, entry)
      /\ wire[work] \in Seq(WireRecord)
      /\ TraceInOrder(Front, wire[work], FALSE)
      /\ work \in DOMAIN wire
  <2>1. ~ForwardInFlight
    BY <1>2 DEF ForwardInFlight
  <2> QED BY <1>2, <2>1, FrontCoupling
<1>7. ForwardInFlight' /\ inFlightAction' = action
  BY <1>1 DEF EnterFlight, ForwardInFlight
<1>8. /\ request \in PlannedWriteRequest
      /\ request.work = work
      /\ request.requestSequence = action.sequence
      /\ request.fragmentIndex = Front.fragmentIndex
      /\ request.delivery = Front.delivery
      /\ request.finalFragment <=> Front.remaining = 1
  <2>1. request \in PlannedWriteRequest
    BY DEF Action
  <2>2. request = NextFragment(Front, action.sequence)
    BY <1>2
  <2> HIDE DEF request
  <2> QED BY <2>1, <2>2 DEF NextFragment
<1>9. /\ slot1 \in WorkSlot
      /\ slot1.work = work
      /\ slot1.delivery = Front.delivery
      /\ slot1.quantity = Front.quantity
      /\ slot1.fragmentIndex = Front.fragmentIndex + 1
      /\ slot1.remaining = Front.remaining - 1
  <2>1. /\ Front.remaining - 1 \in Nat
        /\ Front.fragmentIndex + 1 \in Nat
    BY <1>2, <1>5 DEF WorkSlot
  <2>2. slot1 = [Front EXCEPT !.fragmentIndex = Front.fragmentIndex + 1,
                              !.remaining = Front.remaining - 1]
    BY DEF AdvancedSlot
  <2> HIDE DEF slot1
  <2> QED BY <1>5, <2>1, <2>2 DEF WorkSlot
<1>10. /\ entry1 \in LedgerSlot
       /\ entry1.aggregate = entry.aggregate
       /\ entry1.issuedRequest = request
       /\ entry1.observedOutcome = entry.observedOutcome
       /\ entry1.outstandingRequests = 1
       /\ entry1.planningClosed <=>
            (entry.planningClosed \/ request.finalFragment)
       /\ entry1.nextIssuedFragment =
            IF request.finalFragment THEN entry.nextIssuedFragment
            ELSE entry.nextIssuedFragment + 1
  BY <1>5, <1>8, IssuedSlotShape
<1>11. /\ trace1 \in Seq(WireRecord)
       /\ Len(trace1) = Len(wire[work]) + 1
       /\ \A k \in DOMAIN wire[work] : trace1[k] = wire[work][k]
       /\ trace1[Len(wire[work]) + 1] = record
       /\ DOMAIN trace1 = 1..(Len(wire[work]) + 1)
       /\ DOMAIN wire[work] = 1..Len(wire[work])
       /\ Len(wire[work]) \in Nat
  <2>1. record \in WireRecord
    BY <1>8 DEF WireRecord, PlannedWriteRequest
  <2> HIDE DEF record
  <2> QED BY <1>6, <2>1
<1>12. /\ DOMAIN workQueue' = DOMAIN workQueue
       /\ workQueue'[1] = slot1
       /\ \A i \in DOMAIN workQueue : i # 1 => workQueue'[i] = workQueue[i]
       /\ workQueue' \in Seq(WorkSlot)
       /\ workQueue' # <<>>
       /\ Head(workQueue') = slot1
  <2>1. workQueue \in Seq(WorkSlot)
    BY DEF IInv, TypeOK, WorkDataTypes
  <2>2. workQueue' = [workQueue EXCEPT ![1] = slot1]
    BY <1>1, <1>5
  <2> HIDE DEF slot1
  <2>3. workQueue' \in Seq(WorkSlot) /\ DOMAIN workQueue' = DOMAIN workQueue
    BY <1>5, <1>9, <2>1, <2>2
  <2> QED BY <1>2, <1>5, <1>9, <2>1, <2>2, <2>3
<1>13. /\ DOMAIN ledger' = DOMAIN ledger
       /\ ledger'[work] = entry1
       /\ \A w \in DOMAIN ledger : w # work => ledger'[w] = ledger[w]
       /\ DOMAIN wire' = DOMAIN wire
       /\ wire'[work] = trace1
       /\ \A w \in DOMAIN wire : w # work => wire'[w] = wire[w]
  BY <1>1, <1>5, <1>6, <1>8 DEF RecordIssued
<1> HIDE DEF slot1, entry1, trace1, record, request
<1>14. /\ ledger' \in [DOMAIN ledger -> LedgerSlot]
       /\ wire' \in [DOMAIN wire -> Seq(WireRecord)]
  <2>1. /\ ledger \in [DOMAIN ledger -> LedgerSlot]
        /\ wire \in [DOMAIN wire -> Seq(WireRecord)]
    BY DEF IInv, TypeOK, WorkDataTypes
  <2>2. /\ ledger' = [ledger EXCEPT ![work] = entry1]
        /\ wire' = [wire EXCEPT ![work] = trace1]
    BY <1>1, <1>8 DEF RecordIssued, entry1, trace1, record, request
  <2> QED BY <1>10, <1>11, <2>1, <2>2
<1>15. WorkDataTypes'
  BY <1>12, <1>13, <1>14 DEF WorkDataTypes, IInv, TypeOK
<1>16. TypeOK'
  <2>1. inFlightWork' \in Works \cup {NoWork}
    BY <1>1, <1>5, <1>8 DEF EnterFlight, request
  <2> QED
    BY <1>1, <1>3, <1>15, <2>1, CommitActionTypes DEF EnterFlight, TypeOK
<1>17. \A i \in DOMAIN workQueue : workQueue'[i].work = workQueue[i].work
  BY <1>5, <1>9, <1>12
<1>18. Queued(workQueue)' = Queued(workQueue)
  BY <1>12, <1>17 DEF Queued
<1>19. LockStep'
  <2>1. CleanEntry(slot1, entry1)
    BY <1>6, <1>9, <1>10 DEF CleanEntry
  <2>2. OutstandingEntry(slot1, entry1, request)
    <3>1. ValidRequest(request)
      BY <1>2, <1>3, <1>8 DEF ValidRequest, WorkCurrent
    <3>2. Front.remaining \in Nat
      BY <1>5 DEF WorkSlot
    <3>3. Front.fragmentIndex \in Nat
      BY <1>5 DEF WorkSlot
    <3> HIDE DEF entry
    <3>4. /\ slot1.remaining = 0 <=> Front.remaining = 1
          /\ slot1.fragmentIndex = request.fragmentIndex + 1
          /\ slot1.fragmentIndex = entry1.aggregate.nextFragmentIndex + 1
      BY <1>2, <1>6, <1>8, <1>9, <1>10, <3>2 DEF IdleEntry
    <3>5. entry1.planningClosed <=> slot1.remaining = 0
      BY <1>6, <1>8, <1>10, <3>4 DEF IdleEntry
    <3>6. slot1.remaining = 0 \/ slot1.fragmentIndex = entry1.nextIssuedFragment
      BY <1>6, <1>8, <1>9, <1>10, <3>4 DEF IdleEntry
    <3> QED
      BY <1>8, <1>9, <1>10, <3>1, <3>4, <3>5, <3>6 DEF OutstandingEntry
  <2>3. \A i, j \in DOMAIN workQueue' :
          workQueue'[i].work = workQueue'[j].work => i = j
    BY <1>12, <1>17 DEF IInv, LockStep
  <2>4. DOMAIN ledger' = Queued(workQueue)'
    BY <1>13, <1>18 DEF IInv, LockStep
  <2>5. ASSUME NEW i \in DOMAIN workQueue'
        PROVE  /\ CleanEntry(workQueue'[i], ledger'[workQueue'[i].work])
               /\ IF i = 1
                    THEN OutstandingEntry(workQueue'[i],
                                          ledger'[workQueue'[i].work],
                                          action.write)
                    ELSE IdleEntry(workQueue'[i],
                                   ledger'[workQueue'[i].work])
    <3>1. CASE i = 1
      BY <1>9, <1>12, <1>13, <2>1, <2>2, <3>1 DEF request
    <3>2. CASE i # 1
      BY <1>12, <1>13, <3>2, BehindFront
    <3> QED BY <3>1, <3>2
  <2> QED BY <1>7, <2>3, <2>4, <2>5 DEF LockStep
<1>20. WireOrder'
  <2>1. TraceInOrder(slot1, trace1, TRUE)
    <3>1. Front.fragmentIndex \in Nat /\ Front.remaining \in Nat
          /\ Front.quantity \in Nat
      BY <1>5, FragmentIndexAssumption DEF WorkSlot
    <3>2. /\ Len(trace1) = slot1.fragmentIndex
          /\ Len(trace1) + slot1.remaining = slot1.quantity
      BY <1>2, <1>6, <1>9, <1>11, <3>1 DEF TraceInOrder
    <3>3. ASSUME NEW k \in DOMAIN trace1
          PROVE  trace1[k] = [fragment |-> k - 1,
                              outcome |-> IF k = Len(trace1)
                                            THEN "Pending" ELSE "Applied"]
      <4>1. CASE k \in DOMAIN wire[work]
        BY <1>6, <1>11, <4>1 DEF TraceInOrder
      <4>2. CASE k = Len(wire[work]) + 1
        BY <1>6, <1>8, <1>11, <4>2 DEF TraceInOrder, record
      <4> QED BY <1>11, <4>1, <4>2
    <3> QED BY <3>2, <3>3 DEF TraceInOrder
  <2>2. ASSUME NEW i \in DOMAIN workQueue'
        PROVE  TraceInOrder(workQueue'[i], wire'[workQueue'[i].work], i = 1)
    <3>1. CASE i = 1
      BY <1>9, <1>12, <1>13, <2>1, <3>1
    <3>2. CASE i # 1
      <4>1. TraceInOrder(workQueue'[i], wire'[workQueue'[i].work], FALSE)
        BY <1>12, <1>13, <3>2, BehindFront
      <4> QED BY <3>2, <4>1
    <3> QED BY <3>1, <3>2
  <2> QED
    BY <1>7, <1>13, <1>18, <2>2 DEF WireOrder, IInv
<1>21. InFlightIsFront'
  <2>1. Head(workQueue)' = slot1
    BY <1>12
  <2> QED
    BY <1>1, <1>7, <1>8, <1>9, <1>12, <2>1
    DEF InFlightIsFront, EnterFlight, Front, request
<1> QED BY <1>16, <1>19, <1>20, <1>21 DEF IInv

-----------------------------------------------------------------------------
(* Taking the front work off the queue together with its ledger entry and  *)
(* its trace keeps the rest coupled: the common end of retireFront(), of a *)
(* drained completion and of an old-session result.                        *)
LEMMA RemoveFront ==
  ASSUME IInv, workQueue # <<>>,
         workQueue' = Tail(workQueue),
         ledger' = WithoutWorks(ledger, {Front.work}),
         wire' = WithoutWorks(wire, {Front.work}),
         ~ForwardInFlight'
  PROVE  WorkDataTypes' /\ LockStep' /\ WireOrder'
<1>1. workQueue \in Seq(WorkSlot) /\ Distinct(workQueue)
  BY DEF IInv, TypeOK, WorkDataTypes, LockStep, Distinct
<1>2. /\ Queued(workQueue)' = Queued(workQueue) \ {Front.work}
      /\ Distinct(workQueue')
  <2>1. Queued(workQueue)' = Queued(workQueue')
    BY DEF Queued
  <2> QED BY <1>1, <2>1, QueuedTail DEF Front
<1>3. /\ workQueue' \in Seq(WorkSlot)
      /\ DOMAIN workQueue = 1..Len(workQueue)
      /\ DOMAIN workQueue' = 1..(Len(workQueue) - 1)
      /\ Len(workQueue) \in Nat
      /\ \A i \in DOMAIN workQueue' : workQueue'[i] = workQueue[i + 1]
  BY <1>1, QueueShape
<1>4. /\ DOMAIN ledger' = DOMAIN ledger \ {Front.work}
      /\ \A w \in DOMAIN ledger' : ledger'[w] = ledger[w]
      /\ DOMAIN wire' = DOMAIN wire \ {Front.work}
      /\ \A w \in DOMAIN wire' : wire'[w] = wire[w]
  BY DEF WithoutWorks
<1>5. WorkDataTypes'
  <2>1. /\ DOMAIN ledger \subseteq Works
        /\ ledger \in [DOMAIN ledger -> LedgerSlot]
        /\ DOMAIN wire \subseteq Works
        /\ wire \in [DOMAIN wire -> Seq(WireRecord)]
    BY DEF IInv, TypeOK, WorkDataTypes
  <2>2. DOMAIN ledger' \subseteq Works
        /\ ledger' \in [DOMAIN ledger' -> LedgerSlot]
    BY <1>4, <2>1 DEF WithoutWorks
  <2>3. DOMAIN wire' \subseteq Works
        /\ wire' \in [DOMAIN wire' -> Seq(WireRecord)]
    BY <1>4, <2>1 DEF WithoutWorks
  <2> QED BY <1>3, <2>2, <2>3 DEF WorkDataTypes
<1>6. ASSUME NEW i \in DOMAIN workQueue'
      PROVE  LET slot == workQueue'[i]
             IN  /\ CleanEntry(slot, ledger'[slot.work])
                 /\ IdleEntry(slot, ledger'[slot.work])
                 /\ TraceInOrder(slot, wire'[slot.work], FALSE)
  <2>1. i + 1 \in DOMAIN workQueue /\ i + 1 # 1
    BY <1>3
  <2>2. workQueue'[i] = workQueue[i + 1]
    BY <1>3
  <2> QED BY <1>4, <2>1, <2>2, BehindFront
<1>7. LockStep'
  <2>1. DOMAIN ledger' = Queued(workQueue)'
    BY <1>2, <1>4 DEF IInv, LockStep
  <2> QED BY <1>2, <1>6, <2>1 DEF LockStep, Distinct
<1>8. WireOrder'
  <2>1. DOMAIN wire' = Queued(workQueue)'
    BY <1>2, <1>4 DEF IInv, WireOrder
  <2> QED BY <1>6, <2>1 DEF WireOrder, TraceInOrder
<1> QED BY <1>5, <1>7, <1>8

(* retireFront(): an idle front work is abandoned.                         *)
LEMMA RetireFrontStep ==
  ASSUME IInv, ~inFlight, workQueue # <<>>, RetireFront
  PROVE  IInv'
<1>1. /\ ledger' = WithoutWorks(ledger, {Front.work})
      /\ workQueue' = Tail(workQueue)
      /\ revision' = NextSequence(revision)
      /\ returned' = [NothingReturned EXCEPT !.reclaimed = {Front.work}]
      /\ wire' = WithoutWorks(wire, {Front.work})
      /\ UNCHANGED <<pollState, requestSequence, inFlight, inFlightAction,
                     inFlightWork, session, held>>
  BY DEF RetireFront, Abandon
<1>2. ~ForwardInFlight /\ ~ForwardInFlight'
  BY <1>1 DEF ForwardInFlight
<1>3. WorkDataTypes' /\ LockStep' /\ WireOrder'
  BY <1>1, <1>2, RemoveFront
<1>4. TypeOK'
  <2>1. revision' \in 1..(SequenceModulus - 1)
    BY <1>1, BridgeAssumption, NextSequenceRange DEF IInv, TypeOK
  <2>2. returned' \in [notice : CompletionNotice, applied : BOOLEAN,
                       reclaimed : SUBSET Works]
    BY <1>1, FrontShape DEF NothingReturned, CompletionNotice
  <2> QED BY <1>1, <1>3, <2>1, <2>2 DEF IInv, TypeOK
<1>5. InFlightIsFront'
  BY <1>1, <1>2 DEF IInv, InFlightIsFront
<1> QED BY <1>3, <1>4, <1>5 DEF IInv

(* reset() abandons every queued work and restarts poll fairness.          *)
LEMMA ResetStep ==
  ASSUME IInv, Reset
  PROVE  IInv'
<1>1. /\ ~inFlight
      /\ workQueue' = <<>>
      /\ ledger' = WithoutWorks(ledger, Queued(workQueue))
      /\ pollState' = InitialPollState
      /\ revision' = NextSequence(revision)
      /\ returned' = [NothingReturned EXCEPT !.reclaimed = Queued(workQueue)]
      /\ wire' = WithoutWorks(wire, Queued(workQueue))
      /\ UNCHANGED <<requestSequence, inFlight, inFlightAction, inFlightWork,
                     session, held>>
  BY DEF Reset
<1>2. ~ForwardInFlight /\ ~ForwardInFlight'
  BY <1>1 DEF ForwardInFlight
<1>3. /\ DOMAIN ledger' = {}
      /\ DOMAIN wire' = {}
      /\ Queued(workQueue)' = {}
      /\ DOMAIN workQueue' = {}
  BY <1>1 DEF WithoutWorks, Queued, IInv, LockStep, WireOrder
<1>4. WorkDataTypes'
  <2>1. ledger' \in [DOMAIN ledger' -> LedgerSlot]
    BY <1>1, <1>3 DEF WithoutWorks
  <2>2. wire' \in [DOMAIN wire' -> Seq(WireRecord)]
    BY <1>1, <1>3 DEF WithoutWorks
  <2>3. workQueue' \in Seq(WorkSlot)
    BY <1>1
  <2> QED BY <1>3, <2>1, <2>2, <2>3 DEF WorkDataTypes
<1>5. LockStep' /\ WireOrder'
  BY <1>3 DEF LockStep, WireOrder
<1>6. TypeOK'
  <2>1. revision' \in 1..(SequenceModulus - 1)
    BY <1>1, BridgeAssumption, NextSequenceRange DEF IInv, TypeOK
  <2>2. Queued(workQueue) \subseteq Works
    BY DEF IInv, TypeOK, WorkDataTypes, LockStep
  <2>3. returned' \in [notice : CompletionNotice, applied : BOOLEAN,
                       reclaimed : SUBSET Works]
    BY <1>1, <2>2 DEF NothingReturned, CompletionNotice
  <2>4. pollState' \in PollPlannerState
    BY <1>1, PollPlannerAssumption DEF InitialPollState, PollPlannerState
  <2> QED BY <1>1, <1>4, <2>1, <2>3, <2>4 DEF IInv, TypeOK
<1>7. InFlightIsFront'
  BY <1>1, <1>2 DEF IInv, InFlightIsFront
<1> QED BY <1>5, <1>6, <1>7 DEF IInv

-----------------------------------------------------------------------------
(* complete(): what a cleared in-flight record and a new revision keep.    *)
LEMMA ClearedTypes ==
  ASSUME IInv, ClearInFlight, revision' = NextSequence(revision),
         UNCHANGED <<pollState, requestSequence, session, held>>,
         WorkDataTypes',
         returned' \in [notice : CompletionNotice, applied : BOOLEAN,
                        reclaimed : SUBSET Works]
  PROVE  TypeOK' /\ InFlightIsFront' /\ ~ForwardInFlight'
<1>1. revision' \in 1..(SequenceModulus - 1)
  BY BridgeAssumption, NextSequenceRange DEF IInv, TypeOK
<1>2. TypeOK'
  BY <1>1, DefaultsTyped DEF ClearInFlight, IInv, TypeOK
<1>3. InFlightIsFront' /\ ~ForwardInFlight'
  BY DEF ClearInFlight, InFlightIsFront, ForwardInFlight, NoAction
<1> QED BY <1>2, <1>3

(* A completed poll frees the lane.                                        *)
LEMMA CompletePollStep ==
  ASSUME IInv, NEW action, NEW outcome, CompletePoll(action, outcome)
  PROVE  IInv'
<1>1. /\ CompleteStatus(action, outcome) = "Completed"
      /\ action.kind = "Poll"
      /\ ClearInFlight
      /\ revision' = NextSequence(revision)
      /\ returned' = NothingReturned
      /\ UNCHANGED <<workQueue, ledger, pollState, requestSequence, session,
                     held, wire>>
  BY DEF CompletePoll
<1>2. action = inFlightAction
  BY <1>1 DEF CompleteStatus
<1>3. ~ForwardInFlight /\ ~ForwardInFlight'
  BY <1>1, <1>2 DEF ForwardInFlight, ClearInFlight
<1>4. WorkDataTypes' /\ LockStep' /\ WireOrder'
  BY <1>1, <1>3, CouplingFrame
<1>5. returned' \in [notice : CompletionNotice, applied : BOOLEAN,
                     reclaimed : SUBSET Works]
  BY <1>1 DEF NothingReturned, CompletionNotice
<1> QED BY <1>1, <1>4, <1>5, ClearedTypes DEF IInv

(* A completion that gets past the status checks is for the forward in     *)
(* flight, hence for the front work.                                       *)
LEMMA CompletedIsFront ==
  ASSUME IInv, NEW action, NEW outcome,
         \/ CompleteStatus(action, outcome) = "StaleSession"
         \/ /\ CompleteStatus(action, outcome) = "Completed"
            /\ action.kind = "ForwardWrite"
  PROVE  /\ ForwardInFlight
         /\ action = inFlightAction
         /\ outcome \in DownstreamOutcome
         /\ workQueue # <<>>
         /\ action.write.work = Front.work
         /\ inFlightWork = Front.work
         /\ PopFrontIf(workQueue, Front.work) = Tail(workQueue)
<1>1. /\ inFlight
      /\ action = inFlightAction
      /\ outcome \in DownstreamOutcome
      /\ action.kind = "ForwardWrite"
  BY DEF CompleteStatus
<1>2. ForwardInFlight
  BY <1>1 DEF ForwardInFlight
<1>3. /\ workQueue # <<>>
      /\ inFlightWork = Front.work
      /\ inFlightAction.write.work = Front.work
  BY <1>2 DEF IInv, InFlightIsFront
<1>4. PopFrontIf(workQueue, Front.work) = Tail(workQueue)
  BY <1>3 DEF PopFrontIf, Front
<1> QED BY <1>1, <1>2, <1>3, <1>4

(* An old-session result retires the work in flight.                       *)
LEMMA CompleteStaleStep ==
  ASSUME IInv, NEW action, NEW outcome, CompleteStale(action, outcome)
  PROVE  IInv'
<1>1. /\ CompleteStatus(action, outcome) = "StaleSession"
      /\ ledger' = WithoutWorks(ledger, {inFlightWork})
      /\ workQueue' = PopFrontIf(workQueue, inFlightWork)
      /\ ClearInFlight
      /\ revision' = NextSequence(revision)
      /\ returned' =
           [NothingReturned EXCEPT !.reclaimed = {action.write.work}]
      /\ wire' = WithoutWorks(wire, {action.write.work})
      /\ UNCHANGED <<pollState, requestSequence, session, held>>
  BY DEF CompleteStale, Abandon
<1>2. /\ workQueue # <<>>
      /\ action.write.work = Front.work
      /\ inFlightWork = Front.work
      /\ PopFrontIf(workQueue, Front.work) = Tail(workQueue)
  BY <1>1, CompletedIsFront
<1>3. ~ForwardInFlight'
  BY <1>1 DEF ForwardInFlight, ClearInFlight
<1>4. WorkDataTypes' /\ LockStep' /\ WireOrder'
  BY <1>1, <1>2, <1>3, RemoveFront
<1>5. returned' \in [notice : CompletionNotice, applied : BOOLEAN,
                     reclaimed : SUBSET Works]
  BY <1>1, <1>2, FrontShape DEF NothingReturned, CompletionNotice
<1> QED BY <1>1, <1>4, <1>5, ClearedTypes DEF IInv

(* A failed outcome marks the whole work as failed, whatever it was; an    *)
(* applied one keeps a clean work clean.                                   *)
LEMMA CombinedOutcome ==
  ASSUME NEW outcome \in DownstreamOutcome,
         NEW current \in {"Pending", "Applied"}
  PROVE  /\ CombineWorkOutcomes(current, outcome) \in WorkCompletionOutcome
         /\ CombineWorkOutcomes(current, outcome) \in {"Pending", "Applied"}
              <=> outcome = "Applied"
         /\ outcome = "Applied" =>
              CombineWorkOutcomes(current, outcome) = "Applied"
BY DEF CombineWorkOutcomes, WorkOutcomeFor, DownstreamOutcome,
       WorkCompletionOutcome

(* A non-final applied fragment moves the resolution index of a clean      *)
(* entry one forward and leaves nothing outstanding.                       *)
LEMMA AppliedMiddle ==
  ASSUME NEW entry \in LedgerSlot,
         ~entry.issuedRequest.finalFragment,
         ~entry.planningClosed,
         ~entry.aggregate.failed,
         entry.observedOutcome \in {"Pending", "Applied"}
  PROVE  LET next == ResolvedSlot(entry, "Applied")
         IN  /\ next \in LedgerSlot
             /\ next.aggregate =
                  [entry.aggregate EXCEPT
                     !.complete = FALSE,
                     !.nextFragmentIndex = entry.aggregate.nextFragmentIndex + 1]
             /\ next.issuedRequest = NoWrite
             /\ next.observedOutcome = "Applied"
             /\ next.nextIssuedFragment = entry.nextIssuedFragment
             /\ next.outstandingRequests = 0
             /\ ~next.planningClosed
<1> DEFINE old == entry.aggregate
           new == [old EXCEPT !.complete = FALSE,
                              !.nextFragmentIndex = old.nextFragmentIndex + 1]
           next == ResolvedSlot(entry, "Applied")
<1>1. old \in CompletionAggregate /\ old.nextFragmentIndex \in Nat
  BY DEF LedgerSlot, CompletionAggregate
<1>2. ResolutionNotice(entry.issuedRequest, "Applied", old) = "None"
  BY DEF ResolutionNotice
<1>3. ResolvedAggregate(entry.issuedRequest, "Applied", old) =
        [old EXCEPT !.failed = old.failed,
                    !.complete = FALSE,
                    !.nextFragmentIndex = old.nextFragmentIndex + 1,
                    !.noticeEmitted = old.noticeEmitted]
  <2>1. /\ old.failed \in BOOLEAN /\ old.noticeEmitted \in BOOLEAN
        /\ entry.issuedRequest.finalFragment \in BOOLEAN
    BY <1>1 DEF CompletionAggregate, LedgerSlot, PlannedWriteRequest
  <2>2. (old.failed \/ "Applied" # "Applied") = old.failed
    BY <2>1
  <2>3. (old.noticeEmitted \/ "None" # "None") = old.noticeEmitted
    BY <2>1
  <2>4. entry.issuedRequest.finalFragment = FALSE
    BY <2>1
  <2> HIDE DEF old
  <2> QED BY <1>2, <2>2, <2>3, <2>4, Zenon DEF ResolvedAggregate
<1>4. new \in CompletionAggregate
  <2>1. ASSUME NEW index \in Nat
        PROVE  [old EXCEPT !.complete = FALSE,
                           !.nextFragmentIndex = index]
                 \in CompletionAggregate
    BY <1>1 DEF CompletionAggregate
  <2>2. old.nextFragmentIndex + 1 \in Nat
    BY <1>1
  <2> HIDE DEF old
  <2> QED BY <2>1, <2>2
<1>5. ResolvedAggregate(entry.issuedRequest, "Applied", old) = new
  <2> HIDE DEF old
  <2> QED BY <1>1, <1>3 DEF CompletionAggregate
<1>6. CombineWorkOutcomes(entry.observedOutcome, "Applied") = "Applied"
  BY CombinedOutcome DEF DownstreamOutcome
<1>7. next = [entry EXCEPT !.aggregate = new,
                           !.observedOutcome = "Applied",
                           !.outstandingRequests = 0,
                           !.issuedRequest = NoWrite]
  <2> HIDE DEF new
  <2> QED BY <1>5, <1>6, Zenon DEF ResolvedSlot
<1> SUFFICES /\ next \in LedgerSlot
             /\ next.aggregate = new
             /\ next.issuedRequest = NoWrite
             /\ next.observedOutcome = "Applied"
             /\ next.nextIssuedFragment = entry.nextIssuedFragment
             /\ next.outstandingRequests = 0
             /\ next.planningClosed = entry.planningClosed
  OBVIOUS
<1> HIDE DEF next, new
<1>8. next \in LedgerSlot
  BY <1>4, <1>7, DefaultsTyped DEF LedgerSlot, WorkCompletionOutcome
<1> QED BY <1>7, <1>8 DEF LedgerSlot

(* Whether a resolved forward is the last of its work: summarize() calls   *)
(* the work drained after a failure and after the final fragment.          *)
LEMMA DrainedWhenLast ==
  ASSUME IInv, ForwardInFlight, workQueue # <<>>,
         inFlightAction.write.work = Front.work,
         NEW outcome \in DownstreamOutcome
  PROVE  LET work == Front.work
             resolved == Resolve(ledger, inFlightAction.write, outcome)
             closed == IF outcome = "Applied" THEN resolved
                       ELSE ClosePlanningAfterFailure(resolved, work)
         IN  /\ closed[work].outstandingRequests = 0
             /\ closed[work].planningClosed <=>
                  (outcome # "Applied" \/ Front.remaining = 0)
<1> DEFINE work == Front.work
           entry == ledger[work]
           entry1 == ResolvedSlot(entry, outcome)
           resolved == Resolve(ledger, inFlightAction.write, outcome)
           closed == IF outcome = "Applied" THEN resolved
                     ELSE ClosePlanningAfterFailure(resolved, work)
<1>1. work \in DOMAIN ledger /\ entry \in LedgerSlot
  BY FrontShape
<1>2. /\ CleanEntry(Front, entry)
      /\ OutstandingEntry(Front, entry, inFlightAction.write)
  BY FrontCoupling
<1>3. DOMAIN resolved = DOMAIN ledger /\ resolved[work] = entry1
  BY <1>1 DEF Resolve
<1>4. /\ entry1.planningClosed = entry.planningClosed
      /\ entry1.outstandingRequests = 0
      /\ entry1.observedOutcome =
           CombineWorkOutcomes(entry.observedOutcome, outcome)
  BY <1>1 DEF ResolvedSlot, LedgerSlot
<1>5. Failed(entry1) <=> outcome # "Applied"
  BY <1>2, <1>4, CombinedOutcome DEF Failed, CleanEntry
<1>6. CASE outcome = "Applied"
  BY <1>2, <1>3, <1>4, <1>6 DEF OutstandingEntry
<1>7. CASE outcome # "Applied"
  <2>1. closed = [resolved EXCEPT ![work].planningClosed = TRUE]
    BY <1>1, <1>3, <1>5, <1>7 DEF ClosePlanningAfterFailure
  <2>2. closed[work] = [entry1 EXCEPT !.planningClosed = TRUE]
    BY <1>1, <1>3, <2>1
  <2>3. entry1 = [entry EXCEPT !.aggregate = entry1.aggregate,
                               !.observedOutcome = entry1.observedOutcome,
                               !.outstandingRequests = 0,
                               !.issuedRequest = NoWrite]
    BY <1>1 DEF entry1, ResolvedSlot, LedgerSlot
  <2> HIDE DEF entry1
  <2>4. closed[work].planningClosed /\ closed[work].outstandingRequests = 0
    BY <1>1, <2>2, <2>3 DEF LedgerSlot
  <2> QED BY <1>7, <2>4
<1> QED BY <1>6, <1>7

(* A resolved forward: a failure or the last fragment drains the work, and *)
(* everything about it goes; otherwise its entry is idle again.            *)
LEMMA CompleteForwardStep ==
  ASSUME IInv, NEW action, NEW outcome, CompleteForward(action, outcome)
  PROVE  IInv'
<1> DEFINE work == Front.work
           entry == ledger[work]
           entry1 == ResolvedSlot(entry, outcome)
           resolved == Resolve(ledger, action.write, outcome)
           closed == IF outcome = "Applied" THEN resolved
                     ELSE ClosePlanningAfterFailure(resolved, work)
           drained == Drained(closed[work])
           trace == [wire EXCEPT ![work][Len(wire[work])].outcome = outcome]
<1>1. /\ CompleteStatus(action, outcome) = "Completed"
      /\ action.kind = "ForwardWrite"
  BY DEF CompleteForward
<1>2. /\ ForwardInFlight
      /\ action = inFlightAction
      /\ outcome \in DownstreamOutcome
      /\ workQueue # <<>>
      /\ action.write.work = work
      /\ PopFrontIf(workQueue, work) = Tail(workQueue)
  BY <1>1, CompletedIsFront
<1>3. /\ ClearInFlight
      /\ ledger' = IF drained THEN Release(closed, work) ELSE closed
      /\ workQueue' = IF drained THEN PopFrontIf(workQueue, work)
                      ELSE workQueue
      /\ revision' = NextSequence(revision)
      /\ returned' =
           [notice |-> ResolutionNotice(action.write, outcome,
                                        ledger[work].aggregate),
            applied |-> MarksApplied("Current", outcome),
            reclaimed |-> IF drained THEN {work} ELSE {}]
      /\ wire' = IF drained THEN WithoutWorks(trace, {work}) ELSE trace
      /\ UNCHANGED <<pollState, requestSequence, session, held>>
  BY <1>2 DEF CompleteForward
<1>4. /\ 1 \in DOMAIN workQueue
      /\ Front = workQueue[1]
      /\ Front \in WorkSlot
      /\ work \in Works
      /\ work \in DOMAIN ledger
      /\ entry \in LedgerSlot
  BY <1>2, FrontShape
<1>5. /\ CleanEntry(Front, entry)
      /\ OutstandingEntry(Front, entry, action.write)
      /\ wire[work] \in Seq(WireRecord)
      /\ TraceInOrder(Front, wire[work], TRUE)
      /\ work \in DOMAIN wire
  BY <1>2, FrontCoupling
<1>6. /\ DOMAIN resolved = DOMAIN ledger
      /\ resolved[work] = entry1
      /\ \A w \in DOMAIN ledger : w # work => resolved[w] = ledger[w]
  BY <1>2, <1>4 DEF Resolve
<1> HIDE DEF entry1
<1>7. /\ DOMAIN closed = DOMAIN ledger
      /\ \A w \in DOMAIN ledger : w # work => closed[w] = ledger[w]
      /\ outcome = "Applied" => closed = resolved
  <2> HIDE DEF resolved
  <2> QED BY <1>6 DEF ClosePlanningAfterFailure
<1>8. /\ closed[work].outstandingRequests = 0
      /\ closed[work].planningClosed <=>
            (outcome # "Applied" \/ Front.remaining = 0)
  BY <1>2, DrainedWhenLast
<1>9. drained <=> (outcome # "Applied" \/ Front.remaining = 0)
  BY <1>8 DEF Drained
<1>10. /\ DOMAIN trace = DOMAIN wire
       /\ trace[work] = [wire[work] EXCEPT
                           ![Len(wire[work])].outcome = outcome]
       /\ \A w \in DOMAIN wire : w # work => trace[w] = wire[w]
  BY <1>5
<1> HIDE DEF closed, resolved, drained, trace
<1>11. returned' \in [notice : CompletionNotice, applied : BOOLEAN,
                      reclaimed : SUBSET Works]
  <2>1. ResolutionNotice(action.write, outcome, ledger[work].aggregate)
          \in CompletionNotice
    BY DEF ResolutionNotice, CompletionNotice
  <2>2. MarksApplied("Current", outcome) \in BOOLEAN
    BY DEF MarksApplied
  <2>3. (IF drained THEN {work} ELSE {}) \in SUBSET Works
    BY <1>4
  <2> QED BY <1>3, <2>1, <2>2, <2>3
<1>12. ~ForwardInFlight'
  BY <1>3 DEF ClearInFlight, ForwardInFlight
<1>13. CASE drained
  <2>1. closed[work].planningClosed /\ closed[work].outstandingRequests = 0
    BY <1>13 DEF drained, Drained
  <2>2. ledger' = WithoutWorks(ledger, {work})
    <3>1. Release(closed, work) = WithoutWorks(closed, {work})
      BY <1>4, <1>7, <2>1 DEF Release, Drained
    <3>2. WithoutWorks(closed, {work}) = WithoutWorks(ledger, {work})
      BY <1>7 DEF WithoutWorks
    <3> QED BY <1>3, <1>13, <3>1, <3>2
  <2>3. wire' = WithoutWorks(wire, {work})
    BY <1>3, <1>10, <1>13 DEF WithoutWorks
  <2>4. workQueue' = Tail(workQueue)
    BY <1>2, <1>3, <1>13
  <2>5. WorkDataTypes' /\ LockStep' /\ WireOrder'
    BY <1>2, <1>12, <2>2, <2>3, <2>4, RemoveFront
  <2> QED BY <1>3, <1>11, <2>5, ClearedTypes DEF IInv
<1>14. CASE ~drained
  <2>1. /\ outcome = "Applied"
        /\ Front.remaining # 0
        /\ workQueue' = workQueue
        /\ ledger' = resolved
        /\ wire' = trace
    BY <1>3, <1>7, <1>9, <1>14
  <2>2. /\ ~entry.issuedRequest.finalFragment
        /\ ~entry.planningClosed
        /\ ~entry.aggregate.failed
        /\ entry.observedOutcome \in {"Pending", "Applied"}
    BY <1>5, <2>1 DEF OutstandingEntry, CleanEntry
  <2>3. /\ entry1 \in LedgerSlot
        /\ entry1.aggregate =
             [entry.aggregate EXCEPT
                !.complete = FALSE,
                !.nextFragmentIndex = entry.aggregate.nextFragmentIndex + 1]
        /\ entry1.issuedRequest = NoWrite
        /\ entry1.observedOutcome = "Applied"
        /\ entry1.nextIssuedFragment = entry.nextIssuedFragment
        /\ entry1.outstandingRequests = 0
        /\ ~entry1.planningClosed
    BY <1>4, <2>1, <2>2, AppliedMiddle DEF entry1
  <2>4. /\ CleanEntry(Front, entry1)
        /\ IdleEntry(Front, entry1)
    <3>1. /\ Front.remaining \in Nat
          /\ entry.aggregate \in CompletionAggregate
          /\ entry.aggregate.nextFragmentIndex \in Nat
      BY <1>4 DEF WorkSlot, LedgerSlot, CompletionAggregate
    <3>2. /\ entry1.aggregate.work = entry.aggregate.work
          /\ entry1.aggregate.delivery = entry.aggregate.delivery
          /\ entry1.aggregate.failed = entry.aggregate.failed
          /\ entry1.aggregate.noticeEmitted = entry.aggregate.noticeEmitted
          /\ ~entry1.aggregate.complete
          /\ entry1.aggregate.nextFragmentIndex =
               entry.aggregate.nextFragmentIndex + 1
      <4> HIDE DEF entry
      <4> QED BY <2>3, <3>1 DEF CompletionAggregate
    <3> HIDE DEF entry
    <3>3. CleanEntry(Front, entry1)
      BY <1>5, <2>3, <3>2 DEF CleanEntry
    <3>4. IdleEntry(Front, entry1)
      BY <1>5, <2>1, <2>3, <3>1, <3>2 DEF IdleEntry, OutstandingEntry
    <3> QED BY <3>3, <3>4
  <2>5. /\ trace[work] \in Seq(WireRecord)
        /\ TraceInOrder(Front, trace[work], FALSE)
    <3> DEFINE old == wire[work]
               last == Len(old)
    <3>1. /\ Front.fragmentIndex = last
          /\ last > 0
          /\ last \in Nat
          /\ DOMAIN old = 1..last
          /\ old[last] = [fragment |-> last - 1, outcome |-> "Pending"]
          /\ last + Front.remaining = Front.quantity
      <4>1. last = Front.fragmentIndex /\ last \in Nat /\ DOMAIN old = 1..last
        BY <1>5 DEF TraceInOrder
      <4>2. last > 0
        <5>1. entry.aggregate.nextFragmentIndex \in Nat
          BY <1>4 DEF LedgerSlot, CompletionAggregate
        <5> QED BY <1>5, <4>1, <5>1 DEF OutstandingEntry
      <4> QED BY <1>5, <4>1, <4>2 DEF TraceInOrder
    <3>2. [old[last] EXCEPT !.outcome = "Applied"] =
            [fragment |-> last - 1, outcome |-> "Applied"]
      BY <3>1
    <3>3. trace[work] =
            [old EXCEPT ![last] =
               [fragment |-> last - 1, outcome |-> "Applied"]]
      BY <1>10, <2>1, <3>1, <3>2
    <3>4. [fragment |-> last - 1, outcome |-> "Applied"] \in WireRecord
      BY <3>1 DEF WireRecord, DownstreamOutcome
    <3>5. trace[work] \in Seq(WireRecord) /\ Len(trace[work]) = last
      BY <1>5, <3>1, <3>3, <3>4
    <3>6. ASSUME NEW k \in DOMAIN trace[work]
          PROVE  trace[work][k] = [fragment |-> k - 1, outcome |-> "Applied"]
      <4>1. k \in DOMAIN old
        BY <3>1, <3>5
      <4>2. CASE k = last
        BY <3>1, <3>3, <4>1, <4>2
      <4>3. CASE k # last
        BY <1>5, <3>1, <3>3, <4>1, <4>3 DEF TraceInOrder
      <4> QED BY <4>2, <4>3
    <3> QED BY <3>1, <3>5, <3>6 DEF TraceInOrder
  <2>6. WorkDataTypes'
    <3>1. /\ DOMAIN ledger \subseteq Works
          /\ ledger \in [DOMAIN ledger -> LedgerSlot]
          /\ DOMAIN wire \subseteq Works
          /\ wire \in [DOMAIN wire -> Seq(WireRecord)]
          /\ workQueue \in Seq(WorkSlot)
      BY DEF IInv, TypeOK, WorkDataTypes
    <3>2. resolved \in [DOMAIN ledger -> LedgerSlot]
      <4>1. resolved = [ledger EXCEPT ![work] = entry1]
        BY <1>2 DEF resolved, Resolve, entry1
      <4> QED BY <2>3, <3>1, <4>1
    <3>3. trace \in [DOMAIN wire -> Seq(WireRecord)]
      <4>1. trace = [wire EXCEPT ![work] = trace[work]]
        BY <1>5, <1>10 DEF trace
      <4> QED BY <2>5, <3>1, <4>1
    <3> QED BY <1>6, <1>10, <2>1, <3>1, <3>2, <3>3 DEF WorkDataTypes
  <2>7. Queued(workQueue)' = Queued(workQueue)
    BY <2>1 DEF Queued
  <2>8. ASSUME NEW i \in DOMAIN workQueue
        PROVE  LET slot == workQueue[i]
               IN  /\ CleanEntry(slot, resolved[slot.work])
                   /\ IdleEntry(slot, resolved[slot.work])
                   /\ TraceInOrder(slot, trace[slot.work], FALSE)
    <3>1. CASE i = 1
      BY <1>4, <1>6, <2>4, <2>5, <3>1
    <3>2. CASE i # 1
      BY <1>6, <1>10, <3>2, BehindFront
    <3> QED BY <3>1, <3>2
  <2>9. LockStep'
    BY <1>6, <1>12, <2>1, <2>7, <2>8 DEF IInv, LockStep
  <2>10. WireOrder'
    BY <1>10, <1>12, <2>1, <2>7, <2>8 DEF IInv, WireOrder, TraceInOrder
  <2> QED BY <1>3, <1>11, <2>6, <2>9, <2>10, ClearedTypes DEF IInv
<1> QED BY <1>13, <1>14

-----------------------------------------------------------------------------
(* A completion of any kind. *)
LEMMA CompleteStep ==
  ASSUME IInv, NEW action, NEW outcome, Complete(action, outcome)
  PROVE  IInv'
BY CompletePollStep, CompleteStaleStep, CompleteForwardStep DEF Complete

(* An admission of any kind. *)
LEMMA AdmitActionStep ==
  ASSUME IInv, NEW action \in Action, NEW polls \in PollTables,
         AdmitAction(action, polls)
  PROVE  IInv'
BY ConsumePollStep, AdmitPollStep, AdmitForwardStep DEF AdmitAction

(* Every call of the facade's interface, and every move of its caller,     *)
(* preserves the coupling of queue, ledger and in-flight record.           *)
THEOREM StepPreserves == IInv /\ [Next]_vars => IInv'
<1> SUFFICES ASSUME IInv, [Next]_vars PROVE IInv'
  OBVIOUS
<1>1. ASSUME NEW work \in Works, NEW delivery \in Deliveries,
             NEW n \in FragmentCounts, AdmitWork(work, delivery, n)
      PROVE  IInv'
  BY <1>1, AdmitWorkStep
<1>2. ASSUME NEW now \in Ticks, NEW polls \in PollTables,
             NextAction(now, polls)
      PROVE  IInv'
  BY <1>2, NextActionStep
<1>3. ASSUME NEW polls \in PollTables, AdmitAction(held, polls)
      PROVE  IInv'
  <2>1. held \in Action
    BY DEF IInv, TypeOK
  <2> QED BY <1>3, <2>1, AdmitActionStep
<1>4. ASSUME NEW now \in Ticks, NEW polls \in PollTables,
             AdmitAction(Preview(now, polls), polls)
      PROVE  IInv'
  <2>1. Preview(now, polls) \in Action
    BY ProposalShape, BridgeAssumption
  <2> QED BY <1>4, <2>1, AdmitActionStep
<1>5. ASSUME NEW action, NEW outcome, Complete(action, outcome)
      PROVE  IInv'
  BY <1>5, CompleteStep
<1>6. CASE DiscardOneStaleWork
  BY <1>6, RetireFrontStep DEF DiscardOneStaleWork
<1>7. CASE AbandonFront
  BY <1>7, RetireFrontStep DEF AbandonFront
<1>8. CASE Reset
  BY <1>8, ResetStep
<1>9. ASSUME NEW view \in Sessions, ChangeSession(view)
      PROVE  IInv'
  BY <1>9, ChangeSessionStep
<1>10. CASE UNCHANGED vars
  <2>1. WorkDataTypes' /\ LockStep' /\ WireOrder'
    BY <1>10, CouplingFrame DEF vars, ForwardInFlight
  <2>2. TypeOK'
    BY <1>10, <2>1 DEF vars, IInv, TypeOK
  <2>3. InFlightIsFront'
    BY <1>10 DEF vars, IInv, InFlightIsFront, ForwardInFlight, Front
  <2> QED BY <2>1, <2>2, <2>3 DEF IInv
<1> QED
  BY <1>1, <1>2, <1>3, <1>4, <1>5, <1>6, <1>7, <1>8, <1>9, <1>10 DEF Next

(* The inductive invariant holds in every reachable state.                 *)
THEOREM Inductive == Spec => []IInv
BY InitEstablishes, StepPreserves, PTL DEF Spec

(* Every variable keeps its shape, and revisions never wrap to the         *)
(* reserved zero.                                                          *)
THEOREM TypeCorrect == Spec => []TypeOK
<1>1. IInv => TypeOK
  BY DEF IInv
<1> QED BY <1>1, Inductive, PTL

(* Queue and ledger never drift apart, whatever capacities, tables and     *)
(* lifecycles the caller chooses.                                          *)
THEOREM QueueAndLedgerInStep == Spec => []LockStep
<1>1. IInv => LockStep
  BY DEF IInv
<1> QED BY <1>1, Inductive, PTL

(* No retirement pulls the work in flight from under its completion.       *)
THEOREM FlightIsFront == Spec => []InFlightIsFront
<1>1. IInv => InFlightIsFront
  BY DEF IInv
<1> QED BY <1>1, Inductive, PTL

(* Fragments reach the wire once, in order, and none after a failure.      *)
THEOREM FragmentsInOrder == Spec => []WireOrder
<1>1. IInv => WireOrder
  BY DEF IInv
<1> QED BY <1>1, Inductive, PTL

-----------------------------------------------------------------------------
(* The front work's cursor stays inside the fragment index width.          *)
LEMMA FrontBounds ==
  ASSUME IInv, workQueue # <<>>
  PROVE  /\ Front.fragmentIndex \in Nat
         /\ Front.remaining \in Nat
         /\ Front.fragmentIndex + Front.remaining <= MaxFragmentIndex
<1>1. Front \in WorkSlot
  BY FrontShape
<1>2. TraceInOrder(Front, wire[Front.work], TRUE)
      \/ TraceInOrder(Front, wire[Front.work], FALSE)
  BY FrontCoupling
<1>3. Front.fragmentIndex + Front.remaining = Front.quantity
  BY <1>2 DEF TraceInOrder
<1> QED BY <1>1, <1>3, FragmentIndexAssumption DEF WorkSlot

(* next() finds something left to plan: a front work without remaining     *)
(* fragments is only ever seen while its last one is in flight.            *)
LEMMA PlanningNeverFails ==
  ASSUME IInv, NEW now \in Nat, NEW polls \in PollTables
  PROVE  PreviewStatus(now, polls) # "PlanningFailed"
<1> SUFFICES ASSUME PreviewStatus(now, polls) = "PlanningFailed"
             PROVE  FALSE
  OBVIOUS
<1>1. /\ ~inFlight
      /\ Selection(now, polls).kind = "ForwardWrite"
      /\ Front.remaining = 0
  BY DEF PreviewStatus
<1>2. workQueue # <<>>
  <2>1. pollState \in PollPlannerState /\ (workQueue # <<>>) \in BOOLEAN
    BY DEF IInv, TypeOK
  <2> QED BY <1>1, <2>1, TableShape, SelectWellFormed DEF Selection
<1>3. IdleEntry(Front, ledger[Front.work])
  BY <1>1, <1>2, FrontCoupling DEF ForwardInFlight
<1> QED BY <1>1, <1>3 DEF IdleEntry

(* An accepted proposal is not refused by the planner's commit or by the   *)
(* ledger.                                                                 *)
LEMMA AdmissionNeverRefused ==
  ASSUME IInv, NEW action \in Action, NEW polls \in PollTables
  PROVE  AdmitActionStatus(action, polls) \notin
           {"FairnessRejected", "LedgerRejected"}
<1> DEFINE now == action.selectedAt
           status == AdmitActionStatus(action, polls)
<1> SUFFICES ASSUME status \in {"FairnessRejected", "LedgerRejected"}
             PROVE  FALSE
  OBVIOUS
<1>1. now \in Nat
  BY DEF Action
<1>2. ~inFlight /\ IsCurrentProposal(action, polls)
  BY DEF AdmitActionStatus
<1>3. action = Preview(now, polls) /\ PreviewStatus(now, polls) = "Ready"
  BY <1>2 DEF IsCurrentProposal
<1>4. /\ action.scheduling = Selection(now, polls)
      /\ action.kind = action.scheduling.kind
      /\ action.kind \in {"ForwardWrite", "Poll"}
      /\ action.pollCount = Len(polls)
      /\ action.kind = "ForwardWrite" =>
           /\ workQueue # <<>>
           /\ action.requiresCompletion
           /\ action.sequence = NextSequence(requestSequence)
           /\ action.write = NextFragment(Front, action.sequence)
           /\ Front.remaining # 0
           /\ WorkCurrent(Front.work, session)
      /\ action.kind = "Poll" /\ ~action.requiresCompletion =>
           action.sequence = 0
  BY <1>1, <1>3, ProposalShape
<1>5. CommitAccepts(action.scheduling, action.pollCount)
  <2>1. pollState \in PollPlannerState /\ (workQueue # <<>>) \in BOOLEAN
    BY DEF IInv, TypeOK
  <2>2. Selection(now, polls).kind # "None"
    BY <1>4
  <2>3. CommitAccepts(Selection(now, polls), Len(polls))
    BY <1>1, <2>1, <2>2, TableShape, CommitNeverRefuses DEF Selection
  <2> QED BY <1>4, <2>3
<1>6. /\ status = "LedgerRejected"
      /\ action.kind = "ForwardWrite"
      /\ IssueStatus(ledger, action.write) # "Recorded"
  BY <1>2, <1>4, <1>5 DEF AdmitActionStatus
<1> DEFINE request == action.write
           entry == ledger[Front.work]
<1>7. /\ request.work = Front.work
      /\ request.requestSequence = action.sequence
      /\ request.fragmentIndex = Front.fragmentIndex
      /\ request.delivery = Front.delivery
      /\ request.finalFragment <=> Front.remaining = 1
  <2>1. request = NextFragment(Front, action.sequence)
    BY <1>4, <1>6
  <2> HIDE DEF request
  <2> QED BY <2>1 DEF NextFragment
<1>8. CleanEntry(Front, entry) /\ IdleEntry(Front, entry)
      /\ Front.work \in DOMAIN ledger
  BY <1>2, <1>4, <1>6, FrontCoupling, FrontShape DEF ForwardInFlight
<1>9. ValidRequest(request) /\ IsAccepted(request.delivery)
  <2>1. action.sequence # 0
    BY <1>4, <1>6, NextSequenceRange, BridgeAssumption DEF IInv, TypeOK
  <2> QED
    BY <1>7, <1>8, <2>1 DEF ValidRequest, CleanEntry
<1>10. ~(entry.nextIssuedFragment = MaxFragmentIndex
           /\ ~request.finalFragment)
  BY <1>4, <1>6, <1>7, <1>8, FrontBounds, FragmentIndexAssumption
  DEF IdleEntry
<1>11. IssueStatus(ledger, request) = "Recorded"
  <2> HIDE DEF request
  <2> QED
    BY <1>7, <1>8, <1>9, <1>10 DEF IssueStatus, CleanEntry, IdleEntry
<1> QED BY <1>6, <1>11

(* A proposal that describes the present is admitted: its sequence is not  *)
(* the reserved zero, and the preview it is compared with is the same one. *)
LEMMA FreshIsAdmitted ==
  ASSUME IInv, NEW now \in Nat, NEW polls \in PollTables,
         PreviewStatus(now, polls) = "Ready"
  PROVE  AdmitActionStatus(Preview(now, polls), polls) \in
           {"Admitted", "Consumed"}
<1> DEFINE action == Preview(now, polls)
<1>1. /\ action \in Action
      /\ action.kind = action.scheduling.kind
      /\ action.kind \in {"ForwardWrite", "Poll"}
      /\ action.selectedAt = now
      /\ action.kind = "ForwardWrite" =>
           /\ workQueue # <<>>
           /\ action.requiresCompletion
           /\ action.sequence = NextSequence(requestSequence)
      /\ action.kind = "Poll" /\ action.requiresCompletion =>
           /\ action.sequence = NextSequence(requestSequence)
           /\ action.read \in ValidPollRequests
  BY ProposalShape
<1>2. action.proposalRevision = revision
  BY DEF Preview, ForwardProposal, PollProposal
<1>3. ~inFlight
  BY DEF PreviewStatus
<1>4. IsCurrentProposal(action, polls)
  <2> HIDE DEF action
  <2>1. action = Preview(now, polls)
    BY DEF action
  <2> QED BY <1>1, <1>2, <2>1 DEF IsCurrentProposal
<1>5. NextSequence(requestSequence) # 0
  <2>1. NextSequence(requestSequence) \in 1..(SequenceModulus - 1)
    BY NextSequenceRange DEF IInv, TypeOK
  <2> QED BY <2>1, BridgeAssumption
<1>6. AdmitActionStatus(action, polls) \notin
        {"FairnessRejected", "LedgerRejected"}
  BY <1>1, AdmissionNeverRefused
<1> HIDE DEF action
<1>7. AdmitActionStatus(action, polls) \in {"Admitted", "Consumed"}
  BY <1>1, <1>3, <1>4, <1>5, <1>6 DEF AdmitActionStatus
<1> QED BY <1>7 DEF action

(* A matching completion is never refused by the ledger.                   *)
LEMMA CompletionNeverRefused ==
  ASSUME IInv, NEW action, NEW outcome
  PROVE  CompleteStatus(action, outcome) # "LedgerRejected"
<1> SUFFICES ASSUME CompleteStatus(action, outcome) = "LedgerRejected"
             PROVE  FALSE
  OBVIOUS
<1> DEFINE request == inFlightAction.write
           entry == ledger[Front.work]
           observed == Observed(action, outcome)
<1>1. /\ inFlight
      /\ action = inFlightAction
      /\ outcome \in DownstreamOutcome
      /\ action.kind = "ForwardWrite"
      /\ Resolution(action, outcome) # "Resolved"
      /\ ~(/\ Resolution(action, outcome) = "CompletionRejected"
           /\ Decision(action, outcome) = "StaleSession")
  BY DEF CompleteStatus
<1>2. /\ workQueue # <<>>
      /\ request.work = Front.work
      /\ ForwardInFlight
  BY <1>1 DEF IInv, InFlightIsFront, ForwardInFlight
<1>3. /\ CleanEntry(Front, entry)
      /\ OutstandingEntry(Front, entry, request)
      /\ Front.work \in DOMAIN ledger
  BY <1>2, FrontCoupling, FrontShape
<1>4. /\ observed.identity = request
      /\ observed.outcome = outcome
  BY <1>1 DEF Observed
<1> DEFINE decision ==
             ResolutionStatus(request, observed, session, entry.aggregate)
<1>5. decision \in {"Current", "StaleSession"}
  <2>1. ~(~request.finalFragment
            /\ entry.aggregate.nextFragmentIndex = MaxFragmentIndex)
    <3>1. entry.aggregate.nextFragmentIndex \in Nat
      BY <1>2, FrontShape DEF LedgerSlot, CompletionAggregate
    <3> QED
      BY <1>2, <1>3, <3>1, FrontBounds, FragmentIndexAssumption
      DEF OutstandingEntry
  <2>2. request.fragmentIndex = entry.aggregate.nextFragmentIndex
    <3>1. /\ entry.aggregate.nextFragmentIndex \in Nat
          /\ request.fragmentIndex \in Nat
      BY <1>2, FrontShape
      DEF LedgerSlot, CompletionAggregate, IInv, TypeOK, Action,
          PlannedWriteRequest
    <3> QED BY <1>3, <3>1 DEF OutstandingEntry
  <2>3. ValidAggregate(entry.aggregate) /\ ValidRequest(request)
    BY <1>3 DEF CleanEntry, OutstandingEntry, ValidAggregate
  <2>4. SameRequestIdentity(request, observed.identity)
    BY <1>4 DEF SameRequestIdentity
  <2>5. /\ request.work = entry.aggregate.work
        /\ request.delivery = entry.aggregate.delivery
        /\ ~entry.aggregate.complete
    BY <1>3 DEF CleanEntry, OutstandingEntry
  <2> HIDE DEF request, entry, observed
  <2> QED
    BY <1>1, <1>4, <2>1, <2>2, <2>3, <2>4, <2>5 DEF ResolutionStatus
<1>6. Decision(action, outcome) = decision
  BY <1>1, <1>2 DEF Decision
<1>7. Resolution(action, outcome) =
        IF decision # "Current" THEN "CompletionRejected" ELSE "Resolved"
  <2>1. /\ entry.outstandingRequests # 0
        /\ entry.issuedRequest = request
    BY <1>3 DEF OutstandingEntry
  <2> HIDE DEF request, observed
  <2> QED
    BY <1>1, <1>2, <1>3, <1>4, <2>1
    DEF Resolution, ResolveStatus, observed, request
<1> QED BY <1>1, <1>5, <1>6, <1>7

(* None of the branches kept against corrupted or shared state is ever     *)
(* taken, so no call stops half-way and the facade never stays busy; and a *)
(* proposal that describes the present is admitted.                        *)
THEOREM DefensiveBranchesAreDead == Spec => []DefensiveBranchesUnreachable
<1>1. IInv => DefensiveBranchesUnreachable
  <2> SUFFICES ASSUME IInv PROVE DefensiveBranchesUnreachable
    OBVIOUS
  <2>1. ASSUME NEW now \in Ticks, NEW polls \in PollTables
        PROVE  /\ PreviewStatus(now, polls) # "PlanningFailed"
               /\ PreviewStatus(now, polls) = "Ready" =>
                    AdmitActionStatus(Preview(now, polls), polls) \in
                      {"Admitted", "Consumed"}
               /\ \A action \in {held, inFlightAction} :
                    AdmitActionStatus(action, polls) \notin
                      {"FairnessRejected", "LedgerRejected"}
    <3>1. now \in Nat
      BY BridgeAssumption
    <3>2. held \in Action /\ inFlightAction \in Action
      BY DEF IInv, TypeOK
    <3> QED
      BY <3>1, <3>2, PlanningNeverFails, AdmissionNeverRefused, FreshIsAdmitted
  <2>2. \A action \in {held, inFlightAction}, outcome \in DownstreamOutcome :
          CompleteStatus(action, outcome) # "LedgerRejected"
    BY CompletionNeverRefused
  <2> QED BY <2>1, <2>2 DEF DefensiveBranchesUnreachable
<1> QED BY <1>1, Inductive, PTL

-----------------------------------------------------------------------------
(* What a single call of the facade may never do: the action properties.  *)

(* The four step obligations together: every call is shown to meet all.    *)
Effects ==
  SessionGate /\ FailureLeaves /\ ReclaimsWhatLeaves /\ AnnouncesOnce

-----------------------------------------------------------------------------
(* A call that hands nothing back and takes no work off the queue meets    *)
(* them if a write only takes off for the present session.                 *)
LEMMA QuietEffects ==
  ASSUME returned' = NothingReturned,
         Queued(workQueue) \subseteq Queued(workQueue)',
         ForwardInFlight => inFlight',
         ~ForwardInFlight /\ ForwardInFlight' =>
           WorkCurrent(inFlightWork', session)
  PROVE  Effects
<1>1. Left = {} /\ Announced = {}
  BY DEF Left, Announced, Queued
<1>2. returned'.notice = "None" /\ ~returned'.applied
      /\ returned'.reclaimed = {}
  BY DEF NothingReturned
<1> QED
  BY <1>1, <1>2
  DEF Effects, SessionGate, FailureLeaves, ReclaimsWhatLeaves, AnnouncesOnce

(* A call that takes idle works off the queue silently meets them.         *)
LEMMA RetirementEffects ==
  ASSUME ~ForwardInFlight, ~ForwardInFlight',
         NEW works, works = {Front.work} \/ works = Queued(workQueue),
         Left = works,
         returned' = [NothingReturned EXCEPT !.reclaimed = works]
  PROVE  Effects
<1>1. Announced = {}
  BY DEF Announced
<1>2. returned'.notice = "None" /\ ~returned'.applied
      /\ returned'.reclaimed = works
  BY DEF NothingReturned
<1> QED
  BY <1>1, <1>2
  DEF Effects, SessionGate, FailureLeaves, ReclaimsWhatLeaves, AnnouncesOnce

(* Taking the front off the queue takes exactly its identity off.          *)
LEMMA TailLeaves ==
  ASSUME IInv, workQueue # <<>>, workQueue' = Tail(workQueue)
  PROVE  Left = {Front.work}
<1>1. workQueue \in Seq(WorkSlot) /\ Distinct(workQueue)
  BY DEF IInv, TypeOK, WorkDataTypes, LockStep, Distinct
<1>2. Queued(workQueue)' = Queued(Tail(workQueue))
  BY DEF Queued
<1> QED BY <1>1, <1>2, QueuedTail DEF Left, Front

(* discardOneStaleWork() and abandonFront(): one idle work goes silently. *)
LEMMA RetireFrontEffects ==
  ASSUME IInv, ~inFlight, workQueue # <<>>, RetireFront
  PROVE  Effects
<1>1. /\ workQueue' = Tail(workQueue)
      /\ returned' = [NothingReturned EXCEPT !.reclaimed = {Front.work}]
      /\ ~ForwardInFlight
      /\ ~ForwardInFlight'
  BY DEF RetireFront, ForwardInFlight
<1> QED BY <1>1, TailLeaves, RetirementEffects

(* reset(): every queued work goes silently. *)
LEMMA ResetEffects ==
  ASSUME IInv, Reset
  PROVE  Effects
<1>1. /\ workQueue' = <<>>
      /\ returned' = [NothingReturned EXCEPT !.reclaimed = Queued(workQueue)]
      /\ ~ForwardInFlight
      /\ ~ForwardInFlight'
  BY DEF Reset, ForwardInFlight
<1>2. Left = Queued(workQueue)
  BY <1>1 DEF Left, Queued
<1> QED BY <1>1, <1>2, RetirementEffects

-----------------------------------------------------------------------------
(* admitWork() only adds. *)
LEMMA AdmitWorkEffects ==
  ASSUME IInv, NEW work, NEW delivery, NEW fragments,
         AdmitWork(work, delivery, fragments)
  PROVE  Effects
<1>1. /\ returned' = NothingReturned
      /\ UNCHANGED <<inFlight, inFlightAction, inFlightWork>>
      /\ workQueue' = Append(workQueue,
                        [work |-> work, delivery |-> delivery,
                         quantity |-> fragments, remaining |-> fragments,
                         fragmentIndex |-> 0])
  BY DEF AdmitWork
<1>2. Queued(workQueue) \subseteq Queued(workQueue)'
  <2>1. workQueue \in Seq(WorkSlot)
    BY DEF IInv, TypeOK, WorkDataTypes
  <2>2. \A i \in DOMAIN workQueue :
          i \in DOMAIN workQueue' /\ workQueue'[i] = workQueue[i]
    BY <1>1, <2>1
  <2> QED BY <2>2 DEF Queued
<1> QED BY <1>1, <1>2, QuietEffects DEF ForwardInFlight

(* A write takes off only for a work of the ready session.                 *)
LEMMA AdmitActionEffects ==
  ASSUME IInv, NEW action \in Action, NEW polls \in PollTables,
         AdmitAction(action, polls)
  PROVE  Effects
<1>1. CASE ConsumePoll(action, polls)
  BY <1>1, QuietEffects
  DEF ConsumePoll, CommitAction, ForwardInFlight, Queued
<1>2. CASE AdmitPoll(action, polls)
  <2>1. /\ returned' = NothingReturned
        /\ workQueue' = workQueue
        /\ inFlight'
        /\ ~ForwardInFlight'
    BY <1>2 DEF AdmitPoll, CommitAction, EnterFlight, ForwardInFlight
  <2> QED BY <2>1, QuietEffects DEF Queued
<1>3. CASE AdmitForward(action, polls)
  <2>1. /\ AdmitActionStatus(action, polls) = "Admitted"
        /\ action.kind = "ForwardWrite"
        /\ returned' = NothingReturned
        /\ inFlight'
        /\ inFlightWork' = action.write.work
        /\ workQueue' = [workQueue EXCEPT ![1] = AdvancedSlot(@)]
    BY <1>3 DEF AdmitForward, CommitAction, EnterFlight
  <2>2. /\ workQueue # <<>>
        /\ action.write = NextFragment(Front, action.sequence)
        /\ WorkCurrent(Front.work, session)
    BY <2>1, AcceptedIsCurrent
  <2>3. WorkCurrent(inFlightWork', session)
    BY <2>1, <2>2 DEF NextFragment
  <2>4. Queued(workQueue) \subseteq Queued(workQueue)'
    <3>1. 1 \in DOMAIN workQueue /\ workQueue[1] \in WorkSlot
      BY <2>2, FrontShape
    <3>2. AdvancedSlot(workQueue[1]).work = workQueue[1].work
      BY <3>1 DEF AdvancedSlot, WorkSlot
    <3>3. \A i \in DOMAIN workQueue :
            i \in DOMAIN workQueue' /\ workQueue'[i].work = workQueue[i].work
      BY <2>1, <3>1, <3>2
    <3> QED BY <3>3 DEF Queued
  <2> QED BY <2>1, <2>3, <2>4, QuietEffects
<1> QED BY <1>1, <1>2, <1>3 DEF AdmitAction

-----------------------------------------------------------------------------
(* A completed poll announces nothing and takes no work off the queue. *)
LEMMA CompletePollEffects ==
  ASSUME NEW action, NEW outcome, CompletePoll(action, outcome)
  PROVE  Effects
<1>1. /\ returned' = NothingReturned
      /\ workQueue' = workQueue
      /\ ~ForwardInFlight
      /\ ~ForwardInFlight'
  BY DEF CompletePoll, CompleteStatus, ClearInFlight, ForwardInFlight
<1> QED BY <1>1, QuietEffects DEF Queued

(* What an old-session result does to queue, flight and report. *)
LEMMA StaleForward ==
  ASSUME IInv, NEW action, NEW outcome, CompleteStale(action, outcome)
  PROVE  /\ ForwardInFlight
         /\ ~inFlight'
         /\ workQueue # <<>>
         /\ inFlightWork = Front.work
         /\ ~WorkCurrent(Front.work, session)
         /\ workQueue' = Tail(workQueue)
         /\ returned' = [NothingReturned EXCEPT !.reclaimed = {Front.work}]
         /\ UNCHANGED session
<1>1. /\ CompleteStatus(action, outcome) = "StaleSession"
      /\ workQueue' = PopFrontIf(workQueue, inFlightWork)
      /\ ClearInFlight
      /\ returned' =
           [NothingReturned EXCEPT !.reclaimed = {action.write.work}]
      /\ UNCHANGED session
  BY DEF CompleteStale
<1>2. /\ ForwardInFlight
      /\ action.write.work = Front.work
      /\ inFlightWork = Front.work
      /\ workQueue # <<>>
      /\ PopFrontIf(workQueue, Front.work) = Tail(workQueue)
  BY <1>1, CompletedIsFront
<1>3. ~WorkCurrent(inFlightWork, session)
  <2>1. Decision(action, outcome) = "StaleSession"
    BY <1>1 DEF CompleteStatus
  <2> QED BY <1>2, <2>1 DEF Decision, ResolutionStatus
<1> QED BY <1>1, <1>2, <1>3 DEF ClearInFlight

(* An old-session result: the work goes, nothing is applied or announced.  *)
LEMMA CompleteStaleEffects ==
  ASSUME IInv, NEW action, NEW outcome, CompleteStale(action, outcome)
  PROVE  Effects
<1>1. /\ ForwardInFlight
      /\ ~ForwardInFlight'
      /\ workQueue # <<>>
      /\ inFlightWork = Front.work
      /\ ~WorkCurrent(Front.work, session)
      /\ workQueue' = Tail(workQueue)
      /\ returned' = [NothingReturned EXCEPT !.reclaimed = {Front.work}]
  BY StaleForward DEF ForwardInFlight
<1>2. Left = {Front.work}
  BY <1>1, TailLeaves
<1>3. Announced = {}
  BY <1>1 DEF Announced
<1>4. /\ returned'.notice = "None"
      /\ ~returned'.applied
      /\ returned'.reclaimed = {Front.work}
  BY <1>1 DEF NothingReturned
<1> QED
  BY <1>1, <1>2, <1>3, <1>4
  DEF Effects, SessionGate, FailureLeaves, ReclaimsWhatLeaves, AnnouncesOnce

(* What a resolved forward does to queue, flight and report. *)
LEMMA ResolvedForward ==
  ASSUME IInv, NEW action, NEW outcome, CompleteForward(action, outcome)
  PROVE  LET gone == outcome # "Applied" \/ Front.remaining = 0
             request == inFlightAction.write
         IN  /\ ForwardInFlight
             /\ ~inFlight'
             /\ outcome \in DownstreamOutcome
             /\ workQueue # <<>>
             /\ request.work = Front.work
             /\ inFlightWork = Front.work
             /\ WorkCurrent(Front.work, session)
             /\ workQueue' = IF gone THEN Tail(workQueue) ELSE workQueue
             /\ returned' =
                  [notice |-> ResolutionNotice(request, outcome,
                                ledger[Front.work].aggregate),
                   applied |-> outcome = "Applied",
                   reclaimed |-> IF gone THEN {Front.work} ELSE {}]
             /\ UNCHANGED session
<1> DEFINE work == Front.work
           request == inFlightAction.write
           gone == outcome # "Applied" \/ Front.remaining = 0
           notice == ResolutionNotice(request, outcome, ledger[work].aggregate)
<1>1. /\ CompleteStatus(action, outcome) = "Completed"
      /\ action.kind = "ForwardWrite"
  BY DEF CompleteForward
<1>2. /\ ForwardInFlight
      /\ action = inFlightAction
      /\ outcome \in DownstreamOutcome
      /\ workQueue # <<>>
      /\ request.work = work
      /\ inFlightWork = work
      /\ PopFrontIf(workQueue, work) = Tail(workQueue)
  BY <1>1, CompletedIsFront
<1>3. /\ workQueue' = IF gone THEN Tail(workQueue) ELSE workQueue
      /\ returned' = [notice |-> notice,
                      applied |-> outcome = "Applied",
                      reclaimed |-> IF gone THEN {work} ELSE {}]
      /\ ~inFlight'
      /\ UNCHANGED session
  <2> DEFINE resolved == Resolve(ledger, request, outcome)
             closed == IF outcome = "Applied" THEN resolved
                       ELSE ClosePlanningAfterFailure(resolved, work)
             drained == Drained(closed[work])
  <2>1. /\ closed[work].outstandingRequests = 0
        /\ closed[work].planningClosed <=> gone
    BY <1>2, DrainedWhenLast
  <2>2. drained <=> gone
    BY <2>1 DEF Drained
  <2>3. /\ workQueue' = IF drained THEN PopFrontIf(workQueue, work)
                        ELSE workQueue
        /\ returned' = [notice |-> notice,
                        applied |-> MarksApplied("Current", outcome),
                        reclaimed |-> IF drained THEN {work} ELSE {}]
        /\ ClearInFlight
        /\ UNCHANGED session
    BY <1>2 DEF CompleteForward
  <2> HIDE DEF drained, notice, gone
  <2> QED
    BY <1>2, <2>2, <2>3 DEF MarksApplied, ClearInFlight
<1>4. OutstandingEntry(Front, ledger[work], request)
  BY <1>2, FrontCoupling
<1>5. WorkCurrent(inFlightWork, session)
  <2>1. Resolution(action, outcome) = "Resolved"
    BY <1>1 DEF CompleteStatus
  <2>2. ledger[work].issuedRequest = request
    BY <1>4 DEF OutstandingEntry
  <2>3. ResolutionStatus(request, Observed(action, outcome), session,
                         ledger[work].aggregate) = "Current"
    BY <1>2, <2>1, <2>2 DEF Resolution, ResolveStatus
  <2> QED BY <1>2, <2>3 DEF ResolutionStatus
<1> QED BY <1>2, <1>3, <1>5

(* A resolved forward: gone after a failure or its last fragment, and      *)
(* announced then, and only then, if it is tracked.                        *)
LEMMA CompleteForwardEffects ==
  ASSUME IInv, NEW action, NEW outcome, CompleteForward(action, outcome)
  PROVE  Effects
<1> DEFINE work == Front.work
           entry == ledger[work]
           request == inFlightAction.write
           gone == outcome # "Applied" \/ Front.remaining = 0
           notice == ResolutionNotice(request, outcome, entry.aggregate)
<1>2. /\ ForwardInFlight
      /\ outcome \in DownstreamOutcome
      /\ workQueue # <<>>
      /\ request.work = work
      /\ inFlightWork = work
  BY ResolvedForward
<1>3. /\ workQueue' = IF gone THEN Tail(workQueue) ELSE workQueue
      /\ returned'.notice = notice
      /\ returned'.applied <=> outcome = "Applied"
      /\ returned'.reclaimed = IF gone THEN {work} ELSE {}
      /\ ~ForwardInFlight'
  <2>1. /\ workQueue' = IF gone THEN Tail(workQueue) ELSE workQueue
        /\ returned' = [notice |-> notice,
                        applied |-> outcome = "Applied",
                        reclaimed |-> IF gone THEN {work} ELSE {}]
        /\ ~inFlight'
    BY ResolvedForward
  <2> HIDE DEF notice, gone
  <2> QED BY <2>1 DEF ForwardInFlight
<1>4. /\ CleanEntry(Front, entry)
      /\ OutstandingEntry(Front, entry, request)
      /\ TraceInOrder(Front, wire[work], TRUE)
  BY <1>2, FrontCoupling
<1>5. WorkCurrent(inFlightWork, session)
  BY <1>2, ResolvedForward
<1>6. Left = IF gone THEN {work} ELSE {}
  <2>1. CASE gone
    BY <1>2, <1>3, <2>1, TailLeaves
  <2>2. CASE ~gone
    BY <1>3, <2>2 DEF Left, Queued
  <2> QED BY <2>1, <2>2
<1>7. Announced = IF gone /\ TracksPublicCompletion(request.delivery)
                    THEN {work} ELSE {}
  <2>1. entry.aggregate.delivery = request.delivery
    BY <1>4 DEF CleanEntry, OutstandingEntry
  <2> HIDE DEF gone
  <2> QED BY <1>2, <1>5, <1>6, <2>1 DEF Announced
<1>8. /\ notice = "None" <=>
           ~(gone /\ TracksPublicCompletion(request.delivery))
      /\ notice = "WorkSucceeded" => outcome = "Applied"
      /\ gone /\ TracksPublicCompletion(request.delivery)
           /\ outcome = "Applied" => notice = "WorkSucceeded"
  BY <1>4 DEF ResolutionNotice, CleanEntry, OutstandingEntry
<1>9. /\ Len(wire[work]) = Front.quantity <=> Front.remaining = 0
      /\ \A k \in 1..(Len(wire[work]) - 1) : wire[work][k].outcome = "Applied"
  <2>1. /\ wire[work] \in Seq(WireRecord)
        /\ Front.quantity \in Nat
        /\ Front.remaining \in Nat
    BY <1>2, FrontCoupling, FrontShape, FragmentIndexAssumption DEF WorkSlot
  <2>2. Len(wire[work]) \in Nat /\ DOMAIN wire[work] = 1..Len(wire[work])
    BY <2>1
  <2>3. Len(wire[work]) + Front.remaining = Front.quantity
    BY <1>4 DEF TraceInOrder
  <2>4. ASSUME NEW k \in 1..(Len(wire[work]) - 1)
        PROVE  wire[work][k].outcome = "Applied"
    <3>1. k \in DOMAIN wire[work] /\ k # Len(wire[work])
      BY <2>2
    <3>2. wire[work][k] = [fragment |-> k - 1, outcome |-> "Applied"]
      BY <1>4, <3>1 DEF TraceInOrder
    <3> QED BY <3>2
  <2> QED BY <2>1, <2>2, <2>3, <2>4
<1> HIDE DEF notice
<1>10. AnnouncesOnce
  <2>1. returned'.notice = "None" <=> Announced = {}
    BY <1>3, <1>7, <1>8
  <2>2. ASSUME NEW w \in Announced
        PROVE  returned'.notice = "WorkSucceeded" <=>
                 /\ returned'.applied
                 /\ Front.remaining = 0
                 /\ Len(wire[w]) = Front.quantity
                 /\ \A k \in 1..(Len(wire[w]) - 1) :
                      wire[w][k].outcome = "Applied"
    <3>1. /\ w = work
          /\ gone
          /\ TracksPublicCompletion(request.delivery)
      BY <1>7
    <3> QED BY <1>3, <1>8, <1>9, <3>1
  <2> QED BY <2>1, <2>2 DEF AnnouncesOnce
<1>11. ReclaimsWhatLeaves
  BY <1>3, <1>6 DEF ReclaimsWhatLeaves
<1>12. SessionGate /\ FailureLeaves
  BY <1>2, <1>3, <1>5, <1>6 DEF SessionGate, FailureLeaves
<1> QED BY <1>10, <1>11, <1>12 DEF Effects

-----------------------------------------------------------------------------
(* Every step of the specification meets the four obligations.             *)
THEOREM StepEffects == IInv /\ [Next]_vars => [Effects]_vars
<1> SUFFICES ASSUME IInv, Next PROVE Effects
  OBVIOUS
<1>1. ASSUME NEW work \in Works, NEW delivery \in Deliveries,
             NEW n \in FragmentCounts, AdmitWork(work, delivery, n)
      PROVE  Effects
  BY <1>1, AdmitWorkEffects
<1>2. ASSUME NEW now \in Ticks, NEW polls \in PollTables,
             NextAction(now, polls)
      PROVE  Effects
  BY <1>2, QuietEffects DEF NextAction, facade, ForwardInFlight, Queued
<1>3. ASSUME NEW polls \in PollTables, AdmitAction(held, polls)
      PROVE  Effects
  BY <1>3, AdmitActionEffects DEF IInv, TypeOK
<1>4. ASSUME NEW now \in Ticks, NEW polls \in PollTables,
             AdmitAction(Preview(now, polls), polls)
      PROVE  Effects
  <2>1. Preview(now, polls) \in Action
    BY ProposalShape, BridgeAssumption
  <2> QED BY <1>4, <2>1, AdmitActionEffects
<1>5. ASSUME NEW action, NEW outcome, Complete(action, outcome)
      PROVE  Effects
  BY <1>5, CompletePollEffects, CompleteStaleEffects, CompleteForwardEffects
  DEF Complete
<1>6. CASE DiscardOneStaleWork
  BY <1>6, RetireFrontEffects DEF DiscardOneStaleWork
<1>7. CASE AbandonFront
  BY <1>7, RetireFrontEffects DEF AbandonFront
<1>8. CASE Reset
  BY <1>8, ResetEffects
<1>9. ASSUME NEW view \in Sessions, ChangeSession(view)
      PROVE  Effects
  BY <1>9, QuietEffects DEF ChangeSession, facade, ForwardInFlight, Queued
<1> QED
  BY <1>1, <1>2, <1>3, <1>4, <1>5, <1>6, <1>7, <1>8, <1>9 DEF Next

(* A tracked work is announced once, as it leaves, with the right verdict; *)
(* nothing else is ever announced.                                         *)
THEOREM NoticesAreExact == Spec => ExactNotice
<1>1. [Effects]_vars => [AnnouncesOnce]_vars
  BY DEF Effects
<1> QED BY <1>1, Inductive, StepEffects, PTL DEF Spec, ExactNotice

(* Nothing takes effect for a work of a session that is not ready.         *)
THEOREM SessionGateHolds == Spec => StaleHasNoEffect
<1>1. [Effects]_vars => [SessionGate]_vars
  BY DEF Effects
<1> QED BY <1>1, Inductive, StepEffects, PTL DEF Spec, StaleHasNoEffect

(* Works are handed back exactly when they leave the queue.                *)
THEOREM ReclaimsAreExact == Spec => RetirementIsExact
<1>1. [Effects]_vars => [ReclaimsWhatLeaves]_vars
  BY DEF Effects
<1> QED BY <1>1, Inductive, StepEffects, PTL DEF Spec, RetirementIsExact

(* A failed fragment is the last one of its work.                          *)
THEOREM FailuresRetire == Spec => FailureRetires
<1>1. [Effects]_vars => [FailureLeaves]_vars
  BY DEF Effects
<1> QED BY <1>1, Inductive, StepEffects, PTL DEF Spec, FailureRetires

-----------------------------------------------------------------------------
(* The facade implements the plain service of StoreForwardSpec, whatever   *)
(* capacities, sessions, tables and copies the caller brings: each of its  *)
(* calls is one step of the service or changes nothing the service sees.   *)

(* What the service sees of the queue, built the way the queue is.         *)
LEMMA EntriesShape ==
  ASSUME NEW slots \in Seq(WorkSlot)
  PROVE  /\ Entries(slots) \in Seq({Entry(slot) : slot \in WorkSlot})
         /\ Len(Entries(slots)) = Len(slots)
         /\ DOMAIN Entries(slots) = DOMAIN slots
         /\ \A i \in DOMAIN slots : Entries(slots)[i].work = slots[i].work
         /\ Entries(slots) = <<>> <=> slots = <<>>
         /\ slots # <<>> => Head(Entries(slots)) = Entry(Head(slots))
<1>1. DOMAIN slots = 1..Len(slots) /\ Len(slots) \in Nat
  BY QueueShape
<1>2. DOMAIN Entries(slots) = 1..Len(slots)
  BY <1>1 DEF Entries
<1>3. \A i \in DOMAIN slots :
        /\ slots[i] \in WorkSlot
        /\ Entries(slots)[i] = Entry(slots[i])
  BY QueueShape DEF Entries
<1>4. Entries(slots) \in Seq({Entry(slot) : slot \in WorkSlot})
  BY <1>1, <1>2, <1>3 DEF Entries
<1>5. Len(Entries(slots)) = Len(slots)
  BY <1>1, <1>2, <1>4
<1>6. \A i \in DOMAIN slots : Entries(slots)[i].work = slots[i].work
  <2>1. \A slot : Entry(slot).work = slot.work
    BY DEF Entry
  <2> QED BY <1>3, <2>1
<1>7. Entries(slots) = <<>> <=> slots = <<>>
  BY <1>1, <1>4, <1>5
<1>8. slots # <<>> => Head(Entries(slots)) = Entry(Head(slots))
  <2> SUFFICES ASSUME slots # <<>> PROVE Head(Entries(slots)) = Entry(Head(slots))
    OBVIOUS
  <2>1. 1 \in DOMAIN slots /\ Head(slots) = slots[1]
    BY QueueShape
  <2>2. Head(Entries(slots)) = Entries(slots)[1]
    BY <1>4, <1>7
  <2> QED BY <1>3, <2>1, <2>2
<1> QED BY <1>1, <1>2, <1>4, <1>5, <1>6, <1>7, <1>8

LEMMA EntriesTail ==
  ASSUME NEW slots \in Seq(WorkSlot), slots # <<>>
  PROVE  Entries(Tail(slots)) = Tail(Entries(slots))
<1>1. Tail(slots) \in Seq(WorkSlot) /\ Len(Tail(slots)) = Len(slots) - 1
  OBVIOUS
<1>2. /\ Entries(slots) \in Seq({Entry(slot) : slot \in WorkSlot})
      /\ Len(Entries(slots)) = Len(slots)
      /\ Entries(slots) # <<>>
  BY EntriesShape
<1>3. /\ Tail(Entries(slots)) \in Seq({Entry(slot) : slot \in WorkSlot})
      /\ Len(Tail(Entries(slots))) = Len(slots) - 1
  BY <1>2
<1>4. /\ Entries(Tail(slots)) \in Seq({Entry(slot) : slot \in WorkSlot})
      /\ Len(Entries(Tail(slots))) = Len(slots) - 1
  BY <1>1, EntriesShape
<1>5. ASSUME NEW i \in 1..(Len(slots) - 1)
      PROVE  Entries(Tail(slots))[i] = Tail(Entries(slots))[i]
  <2>1. i \in DOMAIN Tail(slots) /\ Tail(slots)[i] = slots[i + 1]
    BY <1>1
  <2>2. i + 1 \in DOMAIN slots
    OBVIOUS
  <2>3. Tail(Entries(slots))[i] = Entries(slots)[i + 1]
    BY <1>2, <1>3
  <2> QED BY <2>1, <2>2, <2>3 DEF Entries
<1> QED BY <1>3, <1>4, <1>5

LEMMA EntriesAppend ==
  ASSUME NEW slots \in Seq(WorkSlot), NEW slot \in WorkSlot
  PROVE  Entries(Append(slots, slot)) = Append(Entries(slots), Entry(slot))
<1>1. Append(slots, slot) \in Seq(WorkSlot)
      /\ Len(Append(slots, slot)) = Len(slots) + 1
  OBVIOUS
<1>2. /\ Entries(slots) \in Seq({Entry(s) : s \in WorkSlot})
      /\ Len(Entries(slots)) = Len(slots)
  BY EntriesShape
<1>3. /\ Entries(Append(slots, slot)) \in Seq({Entry(s) : s \in WorkSlot})
      /\ Len(Entries(Append(slots, slot))) = Len(slots) + 1
  BY <1>1, EntriesShape
<1>4. /\ Append(Entries(slots), Entry(slot)) \in Seq({Entry(s) : s \in WorkSlot})
      /\ Len(Append(Entries(slots), Entry(slot))) = Len(slots) + 1
  BY <1>2
<1>5. ASSUME NEW i \in 1..(Len(slots) + 1)
      PROVE  Entries(Append(slots, slot))[i]
               = Append(Entries(slots), Entry(slot))[i]
  <2>1. i \in DOMAIN Append(slots, slot)
    BY <1>1
  <2>2. CASE i <= Len(slots)
    <3>1. i \in DOMAIN slots /\ Append(slots, slot)[i] = slots[i]
      BY <2>2
    <3>2. Append(Entries(slots), Entry(slot))[i] = Entries(slots)[i]
      BY <1>2, <2>2
    <3> QED BY <2>1, <3>1, <3>2 DEF Entries
  <2>3. CASE i = Len(slots) + 1
    <3>1. Append(slots, slot)[i] = slot
      BY <2>3
    <3>2. Append(Entries(slots), Entry(slot))[i] = Entry(slot)
      BY <1>2, <2>3
    <3> QED BY <2>1, <3>1, <3>2 DEF Entries
  <2>4. i <= Len(slots) \/ i = Len(slots) + 1
    OBVIOUS
  <2> QED BY <2>2, <2>3, <2>4
<1> QED BY <1>3, <1>4, <1>5

(* Advancing the front slot is, for the service, one fragment less to do.  *)
LEMMA EntriesAdvance ==
  ASSUME NEW slots \in Seq(WorkSlot), slots # <<>>
  PROVE  Entries([slots EXCEPT ![1] = AdvancedSlot(@)])
           = [Entries(slots) EXCEPT ![1].left = @ - 1]
<1>1. 1 \in DOMAIN slots /\ slots[1] \in WorkSlot
  BY QueueShape
<1> DEFINE slot == slots[1]
           less == slot.remaining - 1
<1>2. /\ AdvancedSlot(slot).work = slot.work
      /\ AdvancedSlot(slot).delivery = slot.delivery
      /\ AdvancedSlot(slot).quantity = slot.quantity
      /\ AdvancedSlot(slot).remaining = less
  BY <1>1 DEF AdvancedSlot, WorkSlot
<1>3. Entry(AdvancedSlot(slot)) = [work |-> slot.work,
        delivery |-> slot.delivery, extent |-> slot.quantity, left |-> less]
  BY <1>2 DEF Entry
<1>4. /\ Entry(slot) = [work |-> slot.work, delivery |-> slot.delivery,
                        extent |-> slot.quantity, left |-> slot.remaining]
      /\ Entry(slot).left - 1 = less
  BY DEF Entry
<1>5. [Entry(slot) EXCEPT !.left = less] = Entry(AdvancedSlot(slot))
  <2> HIDE DEF less
  <2> QED BY <1>3, <1>4
<1>6. [Entry(slot) EXCEPT !.left = @ - 1] = [Entry(slot) EXCEPT !.left = less]
  BY <1>4
<1> QED BY <1>1, <1>5, <1>6 DEF Entries

-----------------------------------------------------------------------------
(* The service speaks of works and sessions as the facade does.            *)
LEMMA SameVocabulary ==
  /\ \A work : Service!WorkCurrent(work, session) <=> WorkCurrent(work, session)
  /\ \A delivery : Service!IsAccepted(delivery) <=> IsAccepted(delivery)
  /\ \A delivery : Service!TracksPublicCompletion(delivery)
                     <=> TracksPublicCompletion(delivery)
  /\ Service!DownstreamOutcome = DownstreamOutcome
BY DEF Service!WorkCurrent, Service!ValidWork, WorkCurrent, ValidWork,
       Service!IsAccepted, IsAccepted, Service!TracksPublicCompletion,
       TracksPublicCompletion, Service!DownstreamOutcome, DownstreamOutcome

THEOREM InitImplements == Init => Service!SpecInit
<1> SUFFICES ASSUME Init PROVE Service!SpecInit
  OBVIOUS
<1>1. Entries(workQueue) = <<>>
  BY DEF Init, Entries
<1> QED
  BY <1>1 DEF Init, Service!SpecInit, ServiceBusy, NothingReturned, Service!Nothing

(* A call that leaves queue, flight and session alone is only a look. *)
LEMMA QuietImplements ==
  ASSUME returned' = NothingReturned,
         UNCHANGED <<workQueue, inFlight, inFlightAction, session>>
  PROVE  Service!Look
<1>1. Entries(workQueue)' = Entries(workQueue) /\ ServiceBusy' = ServiceBusy
  BY DEF Entries, ServiceBusy
<1> QED BY <1>1 DEF Service!Look, NothingReturned, Service!Nothing

LEMMA AdmitWorkImplements ==
  ASSUME IInv, NEW work \in Works, NEW delivery \in Deliveries,
         NEW fragments \in FragmentCounts,
         AdmitWork(work, delivery, fragments)
  PROVE  Service!Accept(work, delivery, fragments)
<1> DEFINE slot == [work |-> work, delivery |-> delivery,
                    quantity |-> fragments, remaining |-> fragments,
                    fragmentIndex |-> 0]
<1>1. /\ AdmitWorkStatus(work, delivery, fragments) = "Admitted"
      /\ workQueue' = Append(workQueue, slot)
      /\ returned' = NothingReturned
      /\ UNCHANGED <<inFlight, inFlightAction, session>>
  BY DEF AdmitWork
<1>2. /\ Len(workQueue) < QueueCapacity
      /\ WorkCurrent(work, session)
      /\ IsAccepted(delivery)
      /\ fragments # 0
      /\ ReserveStatus(ledger, work, delivery) = "Reserved"
  <2>1. ~(Len(workQueue) >= QueueCapacity)
    BY <1>1 DEF AdmitWorkStatus
  <2>2. Len(workQueue) \in Nat /\ QueueCapacity \in Nat
    BY QueueShape, BridgeAssumption DEF IInv, TypeOK, WorkDataTypes
  <2> QED BY <1>1, <2>1, <2>2 DEF AdmitWorkStatus
<1>3. workQueue \in Seq(WorkSlot) /\ slot \in WorkSlot
  BY <1>2, BridgeAssumption, FragmentIndexAssumption
  DEF IInv, TypeOK, WorkDataTypes, WorkSlot
<1>4. work \notin Queued(workQueue)
  BY <1>2 DEF ReserveStatus, IInv, LockStep
<1>5. fragments > 0
  BY <1>2, BridgeAssumption, FragmentIndexAssumption
<1>6. Entries(workQueue)' = Append(Entries(workQueue), Entry(slot))
  BY <1>1, <1>3, EntriesAppend
<1>7. Entry(slot) = [work |-> work, delivery |-> delivery,
                     extent |-> fragments, left |-> fragments]
  BY DEF Entry
<1>8. ServiceBusy' = ServiceBusy
  BY <1>1 DEF ServiceBusy
<1>9. Len(Entries(workQueue)) < QueueCapacity
  BY <1>2, <1>3, EntriesShape
<1>10. work \notin Service!Queue
  BY <1>3, <1>4, EntriesShape DEF Service!Queue, Queued
<1> QED
  BY <1>1, <1>2, <1>5, <1>6, <1>7, <1>8, <1>9, <1>10, SameVocabulary
  DEF Service!Accept, NothingReturned, Service!Nothing

(* What the service sees of a non-empty queue. *)
LEMMA FrontEntry ==
  ASSUME IInv, workQueue # <<>>
  PROVE  /\ workQueue \in Seq(WorkSlot)
         /\ Entries(workQueue) # <<>>
         /\ Service!First.work = Front.work
         /\ Service!First.delivery = Front.delivery
         /\ Service!First.left = Front.remaining
         /\ Entries(Tail(workQueue)) = Tail(Entries(workQueue))
<1>1. workQueue \in Seq(WorkSlot)
  BY DEF IInv, TypeOK, WorkDataTypes
<1>2. Entries(workQueue) # <<>> /\ Head(Entries(workQueue)) = Entry(Head(workQueue))
  BY <1>1, EntriesShape
<1>3. \A slot : /\ Entry(slot).work = slot.work
                /\ Entry(slot).delivery = slot.delivery
                /\ Entry(slot).left = slot.remaining
  BY DEF Entry
<1>4. Service!First = Entry(Front)
  BY <1>2 DEF Service!First, Front
<1>5. /\ Service!First.work = Front.work
      /\ Service!First.delivery = Front.delivery
      /\ Service!First.left = Front.remaining
  BY <1>3, <1>4
<1>6. Entries(Tail(workQueue)) = Tail(Entries(workQueue))
  BY <1>1, EntriesTail
<1> QED BY <1>1, <1>2, <1>5, <1>6

(* A consumed poll is no downstream action; an admitted one occupies the   *)
(* service; an admitted forward sends the front work's next fragment.      *)
LEMMA AdmitActionImplements ==
  ASSUME IInv, NEW action \in Action, NEW polls \in PollTables,
         AdmitAction(action, polls)
  PROVE  Service!Look \/ Service!StartPoll \/ Service!StartWrite
<1>1. CASE ConsumePoll(action, polls)
  BY <1>1, QuietImplements DEF ConsumePoll, CommitAction
<1>2. CASE AdmitPoll(action, polls)
  <2>1. /\ AdmitActionStatus(action, polls) = "Admitted"
        /\ action.kind = "Poll"
        /\ returned' = NothingReturned
        /\ inFlight'
        /\ inFlightAction' = action
        /\ UNCHANGED <<workQueue, session>>
    BY <1>2 DEF AdmitPoll, CommitAction, EnterFlight
  <2>2. ServiceBusy = "No" /\ ServiceBusy' = "Poll"
    BY <2>1, AcceptedIsCurrent DEF ServiceBusy
  <2>3. Entries(workQueue)' = Entries(workQueue)
    BY <2>1 DEF Entries
  <2> QED
    BY <2>1, <2>2, <2>3
    DEF Service!StartPoll, NothingReturned, Service!Nothing
<1>3. CASE AdmitForward(action, polls)
  <2>1. /\ AdmitActionStatus(action, polls) = "Admitted"
        /\ action.kind = "ForwardWrite"
        /\ returned' = NothingReturned
        /\ inFlight'
        /\ inFlightAction' = action
        /\ workQueue' = [workQueue EXCEPT ![1] = AdvancedSlot(@)]
        /\ UNCHANGED session
    BY <1>3 DEF AdmitForward, CommitAction, EnterFlight
  <2>2. /\ ~inFlight
        /\ workQueue # <<>>
        /\ WorkCurrent(Front.work, session)
        /\ Front.remaining > 0
    <3>1. ~inFlight /\ workQueue # <<>> /\ WorkCurrent(Front.work, session)
      BY <2>1, AcceptedIsCurrent
    <3>2. ~ForwardInFlight
      BY <3>1 DEF ForwardInFlight
    <3> QED BY <3>1, <3>2, FrontCoupling DEF IdleEntry
  <2>3. ServiceBusy = "No" /\ ServiceBusy' = "Write"
    BY <2>1, <2>2 DEF ServiceBusy
  <2>4. workQueue \in Seq(WorkSlot)
    BY DEF IInv, TypeOK, WorkDataTypes
  <2>5. Entries(workQueue)' = [Entries(workQueue) EXCEPT ![1].left = @ - 1]
    BY <2>1, <2>2, <2>4, EntriesAdvance
  <2>6. /\ Entries(workQueue) # <<>>
        /\ Service!First.work = Front.work
        /\ Service!First.left = Front.remaining
    BY <2>2, FrontEntry
  <2>7. Service!WorkCurrent(Service!First.work, session)
    BY <2>2, <2>6, SameVocabulary
  <2> QED
    BY <2>1, <2>2, <2>3, <2>5, <2>6, <2>7
    DEF Service!StartWrite, NothingReturned, Service!Nothing
<1> QED BY <1>1, <1>2, <1>3 DEF AdmitAction

-----------------------------------------------------------------------------
LEMMA CompletePollImplements ==
  ASSUME IInv, NEW action, NEW outcome, CompletePoll(action, outcome)
  PROVE  Service!FinishPoll
<1>1. /\ CompleteStatus(action, outcome) = "Completed"
      /\ action.kind = "Poll"
      /\ ClearInFlight
      /\ returned' = NothingReturned
      /\ UNCHANGED <<workQueue, session>>
  BY DEF CompletePoll
<1>2. inFlight /\ inFlightAction.kind = "Poll"
  BY <1>1 DEF CompleteStatus
<1>3. ServiceBusy = "Poll" /\ ServiceBusy' = "No"
  BY <1>1, <1>2 DEF ServiceBusy, ClearInFlight
<1>4. Entries(workQueue)' = Entries(workQueue)
  BY <1>1 DEF Entries
<1> QED
  BY <1>1, <1>3, <1>4 DEF Service!FinishPoll, NothingReturned, Service!Nothing

(* Taking the front off silently is a retirement. *)
LEMMA TailRetires ==
  ASSUME IInv, workQueue # <<>>, workQueue' = Tail(workQueue),
         returned' = [NothingReturned EXCEPT !.reclaimed = {Front.work}],
         UNCHANGED session
  PROVE  Service!Retire
<1>1. Entries(workQueue)' = Tail(Entries(workQueue))
  BY FrontEntry
<1>2. returned' = [Service!Nothing EXCEPT !.reclaimed = {Service!First.work}]
  BY FrontEntry DEF NothingReturned, Service!Nothing
<1> QED BY <1>1, <1>2 DEF Service!Retire

LEMMA CompleteStaleImplements ==
  ASSUME IInv, NEW action, NEW outcome, CompleteStale(action, outcome)
  PROVE  Service!FinishStale
<1>1. /\ ForwardInFlight
      /\ ~inFlight'
      /\ workQueue # <<>>
      /\ ~WorkCurrent(Front.work, session)
      /\ Service!Retire
  BY StaleForward, TailRetires
<1>2. ServiceBusy = "Write" /\ ServiceBusy' = "No"
  BY <1>1 DEF ServiceBusy, ForwardInFlight
<1>3. ~Service!WorkCurrent(Service!First.work, session)
  BY <1>1, FrontEntry, SameVocabulary
<1> QED BY <1>1, <1>2, <1>3 DEF Service!FinishStale

(* The ledger's aggregate and the request's final flag decide what the     *)
(* service reads off its own queue.                                        *)
LEMMA CompleteForwardImplements ==
  ASSUME IInv, NEW action, NEW outcome, CompleteForward(action, outcome)
  PROVE  outcome \in DownstreamOutcome /\ Service!FinishWrite(outcome)
<1> DEFINE request == inFlightAction.write
           entry == ledger[Front.work]
           gone == outcome # "Applied" \/ Front.remaining = 0
           notice == ResolutionNotice(request, outcome, entry.aggregate)
           leaves == Service!First.left = 0 \/ outcome # "Applied"
           verdict == IF ~leaves
                           \/ ~Service!TracksPublicCompletion(Service!First.delivery)
                        THEN "None"
                      ELSE IF outcome = "Applied" THEN "WorkSucceeded"
                      ELSE "WorkFailed"
<1>1. /\ ForwardInFlight
      /\ ~inFlight'
      /\ outcome \in DownstreamOutcome
      /\ workQueue # <<>>
      /\ WorkCurrent(Front.work, session)
      /\ workQueue' = IF gone THEN Tail(workQueue) ELSE workQueue
      /\ returned' = [notice |-> notice, applied |-> outcome = "Applied",
                      reclaimed |-> IF gone THEN {Front.work} ELSE {}]
      /\ UNCHANGED session
  BY ResolvedForward
<1>2. /\ Service!First.work = Front.work
      /\ Service!First.delivery = Front.delivery
      /\ Service!First.left = Front.remaining
      /\ Entries(Tail(workQueue)) = Tail(Entries(workQueue))
  BY <1>1, FrontEntry
<1>3. leaves <=> gone
  BY <1>2
<1>4. notice = verdict
  <2>1. CleanEntry(Front, entry) /\ OutstandingEntry(Front, entry, request)
    BY <1>1, FrontCoupling
  <2>2. /\ request.delivery = Front.delivery
        /\ request.finalFragment <=> Front.remaining = 0
        /\ ~entry.aggregate.failed
        /\ ~entry.aggregate.noticeEmitted
    BY <2>1 DEF CleanEntry, OutstandingEntry
  <2>3. Service!TracksPublicCompletion(Service!First.delivery)
          <=> TracksPublicCompletion(request.delivery)
    BY <1>2, <2>2, SameVocabulary
  <2> QED BY <1>2, <2>2, <2>3 DEF ResolutionNotice
<1>5. Entries(workQueue)' = IF leaves THEN Tail(Entries(workQueue))
                            ELSE Entries(workQueue)
  <2>1. CASE gone
    BY <1>1, <1>2, <1>3, <2>1
  <2>2. CASE ~gone
    BY <1>1, <1>3, <2>2 DEF Entries
  <2> QED BY <2>1, <2>2
<1>6. ServiceBusy = "Write" /\ ServiceBusy' = "No"
  BY <1>1 DEF ServiceBusy, ForwardInFlight
<1>7. Service!WorkCurrent(Service!First.work, session)
  BY <1>1, <1>2, SameVocabulary
<1>8. returned' = [notice |-> verdict, applied |-> outcome = "Applied",
                   reclaimed |-> IF leaves THEN {Service!First.work} ELSE {}]
  <2> HIDE DEF notice, verdict, gone, leaves
  <2> QED BY <1>1, <1>2, <1>3, <1>4
<1> QED
  BY <1>1, <1>5, <1>6, <1>7, <1>8 DEF Service!FinishWrite

-----------------------------------------------------------------------------
LEMMA RetireFrontImplements ==
  ASSUME IInv, ~inFlight, workQueue # <<>>, RetireFront
  PROVE  Service!GiveUp
<1>1. /\ workQueue' = Tail(workQueue)
      /\ returned' = [NothingReturned EXCEPT !.reclaimed = {Front.work}]
      /\ UNCHANGED <<inFlight, inFlightAction, session>>
  BY DEF RetireFront
<1>2. Service!Retire
  BY <1>1, TailRetires
<1>3. ServiceBusy = "No" /\ ServiceBusy' = ServiceBusy
  BY <1>1 DEF ServiceBusy
<1> QED BY <1>2, <1>3, FrontEntry DEF Service!GiveUp

LEMMA ResetImplements ==
  ASSUME IInv, Reset
  PROVE  Service!Clear
<1>1. /\ ~inFlight
      /\ workQueue' = <<>>
      /\ returned' = [NothingReturned EXCEPT !.reclaimed = Queued(workQueue)]
      /\ UNCHANGED <<inFlight, inFlightAction, session>>
  BY DEF Reset
<1>2. Service!Queue = Queued(workQueue)
  <2>1. workQueue \in Seq(WorkSlot)
    BY DEF IInv, TypeOK, WorkDataTypes
  <2> QED BY <2>1, EntriesShape DEF Service!Queue, Queued
<1>3. Entries(workQueue)' = <<>>
  BY <1>1 DEF Entries
<1>4. ServiceBusy = "No" /\ ServiceBusy' = ServiceBusy
  BY <1>1 DEF ServiceBusy
<1> QED
  BY <1>1, <1>2, <1>3, <1>4 DEF Service!Clear, NothingReturned, Service!Nothing

LEMMA ChangeSessionImplements ==
  ASSUME IInv, NEW view \in Sessions, ChangeSession(view)
  PROVE  Service!ChangeLifecycle(view)
<1>1. Entries(workQueue)' = Entries(workQueue) /\ ServiceBusy' = ServiceBusy
  BY DEF ChangeSession, facade, Entries, ServiceBusy
<1> QED
  BY <1>1
  DEF ChangeSession, Service!ChangeLifecycle, NothingReturned, Service!Nothing

-----------------------------------------------------------------------------
(* Every call is a step of the service. *)
THEOREM StepImplements ==
  IInv /\ [Next]_vars => [Service!SpecNext]_Service!specVars
<1> SUFFICES ASSUME IInv, [Next]_vars
             PROVE  Service!SpecNext \/ UNCHANGED Service!specVars
  OBVIOUS
<1>1. ASSUME NEW work \in Works, NEW delivery \in Deliveries,
             NEW n \in FragmentCounts, AdmitWork(work, delivery, n)
      PROVE  Service!SpecNext
  BY <1>1, AdmitWorkImplements DEF Service!SpecNext
<1>2. ASSUME NEW now \in Ticks, NEW polls \in PollTables,
             NextAction(now, polls)
      PROVE  Service!SpecNext
  BY <1>2, QuietImplements DEF NextAction, facade, Service!SpecNext
<1>3. ASSUME NEW polls \in PollTables, AdmitAction(held, polls)
      PROVE  Service!SpecNext
  BY <1>3, AdmitActionImplements DEF IInv, TypeOK, Service!SpecNext
<1>4. ASSUME NEW now \in Ticks, NEW polls \in PollTables,
             AdmitAction(Preview(now, polls), polls)
      PROVE  Service!SpecNext
  <2>1. Preview(now, polls) \in Action
    BY ProposalShape, BridgeAssumption
  <2> QED BY <1>4, <2>1, AdmitActionImplements DEF Service!SpecNext
<1>5. ASSUME NEW action, NEW outcome, Complete(action, outcome)
      PROVE  Service!SpecNext
  <2>1. CASE CompletePoll(action, outcome)
    BY <2>1, CompletePollImplements DEF Service!SpecNext
  <2>2. CASE CompleteStale(action, outcome)
    BY <2>2, CompleteStaleImplements DEF Service!SpecNext
  <2>3. CASE CompleteForward(action, outcome)
    BY <2>3, CompleteForwardImplements, SameVocabulary DEF Service!SpecNext
  <2> QED BY <1>5, <2>1, <2>2, <2>3 DEF Complete
<1>6. CASE DiscardOneStaleWork
  BY <1>6, RetireFrontImplements DEF DiscardOneStaleWork, Service!SpecNext
<1>7. CASE AbandonFront
  BY <1>7, RetireFrontImplements DEF AbandonFront, Service!SpecNext
<1>8. CASE Reset
  BY <1>8, ResetImplements DEF Service!SpecNext
<1>9. ASSUME NEW view \in Sessions, ChangeSession(view)
      PROVE  Service!SpecNext
  BY <1>9, ChangeSessionImplements DEF Service!SpecNext
<1>10. CASE UNCHANGED vars
  BY <1>10 DEF vars, Service!specVars, Entries, ServiceBusy
<1> QED
  BY <1>1, <1>2, <1>3, <1>4, <1>5, <1>6, <1>7, <1>8, <1>9, <1>10 DEF Next

(* The facade is a FIFO of works served one downstream action at a time,   *)
(* for every capacity, modulus, session, table and set of works.           *)
THEOREM FacadeImplementsService == Spec => ImplementsService
BY InitImplements, StepImplements, Inductive, PTL
DEF Spec, ImplementsService, Service!ServiceSpec

-----------------------------------------------------------------------------
(* The ring behind the work queue, for every capacity that fits its        *)
(* indices.  First, its index arithmetic.                                  *)

(* The bounds of the ring's numbers. *)
LEMMA RingNumbers ==
  ASSUME RingTypeOK
  PROVE  /\ IndexSpace \in Nat /\ capacity \in Nat /\ capacity < IndexSpace
         /\ head \in Nat /\ size \in Nat
         /\ head <= capacity /\ size <= capacity
         /\ capacity > 0 => head < capacity
BY RingAssumption DEF RingTypeOK, LogicalIndex

(* increment() steps to the next slot and wraps at the capacity. *)
LEMMA IncrementWraps ==
  ASSUME RingTypeOK, capacity > 0
  PROVE  Increment(head) = IF head + 1 = capacity THEN 0 ELSE head + 1
<1>1. head + 1 \in 0 .. IndexSpace - 1 /\ IndexSpace \in Nat \ {0}
  BY RingNumbers
<1>2. (head + 1) % IndexSpace = head + 1
  BY <1>1
<1> QED BY <1>2 DEF Increment

(* physicalIndex() reaches a slot, and two entries never share one. *)
LEMMA SlotsDiffer ==
  ASSUME RingTypeOK, NEW i \in 0 .. capacity - 1, NEW j \in 0 .. capacity - 1
  PROVE  /\ PhysicalIndex(i) \in 0 .. capacity - 1
         /\ PhysicalIndex(i) = PhysicalIndex(j) => i = j
BY RingNumbers DEF PhysicalIndex

(* The front entry is where the head stands. *)
LEMMA HeadSlot == ASSUME RingTypeOK, capacity > 0 PROVE PhysicalIndex(0) = head
BY RingNumbers DEF PhysicalIndex

-----------------------------------------------------------------------------
(* The types of the ring. *)

(* A record may be stored into any slot of the array. *)
LEMMA StoreType ==
  ASSUME RingTypeOK, hasStorage, NEW value \in Values, NEW i \in 0 .. capacity - 1
  PROVE  [storage EXCEPT ![PhysicalIndex(i)] = value]
           \in [0 .. capacity - 1 -> Values]
BY SlotsDiffer DEF RingTypeOK

(* Only a queue with storage and room for an entry holds one. *)
LEMMA HoldsEntry ==
  ASSUME RingTypeOK, size # 0
  PROVE  hasStorage /\ capacity > 0 /\ capacity \in Nat /\ size \in 1 .. capacity
BY RingNumbers DEF RingTypeOK

(* Every call keeps the ring's numbers in range, its array an array of     *)
(* records and the head of an empty ring at the first slot.                *)
LEMMA RingTypeStep == RingTypeOK /\ [RingNext]_ringVars => RingTypeOK'
<1> SUFFICES ASSUME RingTypeOK, [RingNext]_ringVars PROVE RingTypeOK' OBVIOUS
<1> USE DEF ring
<1>1. CASE UNCHANGED ringVars
  BY <1>1 DEF ringVars, RingTypeOK
<1>2. ASSUME RingNext, Refused PROVE RingTypeOK'
  BY <1>2 DEF RingNext, Refused, RingTypeOK
<1>3. ASSUME RingNext, UNCHANGED ring PROVE RingTypeOK'
  BY <1>3 DEF RingNext, RingTypeOK
<1>4. ASSUME RingNext, NEW value \in Values, TryPush(value) PROVE RingTypeOK'
  <2>1. CASE ~(ValidStorage /\ size # capacity)
    BY <1>2, <1>4, <2>1 DEF TryPush
  <2>2. CASE ValidStorage /\ size # capacity
    <3>1. size \in 0 .. capacity - 1 /\ capacity > 0 /\ capacity \in Nat
      BY <2>2, RingNumbers
    <3>2. hasStorage
      BY <2>2, <3>1 DEF ValidStorage
    <3>3. storage' \in [0 .. capacity - 1 -> Values]
      BY <1>4, <2>2, <3>1, <3>2, StoreType DEF TryPush
    <3>4. size' = size + 1 /\ head' = head /\ size' \in 1 .. capacity
      BY <1>4, <2>2, <3>1 DEF TryPush
    <3> QED BY <1>4, <3>1, <3>2, <3>3, <3>4 DEF RingNext, RingTypeOK
  <2> QED BY <2>1, <2>2
<1>5. ASSUME RingNext, Popable, DropFront PROVE RingTypeOK'
  <2>1. hasStorage /\ capacity > 0 /\ capacity \in Nat /\ size \in 1 .. capacity
    BY <1>5, HoldsEntry DEF Popable
  <2>2. head' \in 0 .. capacity - 1
    BY <1>5, <2>1, IncrementWraps, RingNumbers DEF DropFront
  <2>3. size' = size - 1 /\ size' \in 0 .. capacity /\ (size' = 0 => head' = 0)
    BY <1>5, <2>1 DEF DropFront
  <2> QED BY <1>5, <2>1, <2>2, <2>3 DEF RingNext, RingTypeOK, DropFront
<1>6. ASSUME RingNext, NEW index \in LogicalIndex, NEW value \in Values,
             Update(index, value)
      PROVE  RingTypeOK'
  <2>1. hasStorage /\ capacity > 0 /\ index \in 0 .. capacity - 1
    BY <1>6, RingNumbers, HoldsEntry, RingAssumption
       DEF Update, Reachable, LogicalIndex
  <2>2. storage' \in [0 .. capacity - 1 -> Values]
    BY <1>6, <2>1, StoreType DEF Update
  <2> QED BY <1>6, <2>1, <2>2 DEF RingNext, Update, RingTypeOK
<1>7. ASSUME RingNext, Clear PROVE RingTypeOK'
  <2>1. head' = 0 /\ size' = 0 /\ 0 \in 0 .. capacity
    BY <1>7, RingNumbers DEF Clear
  <2> QED BY <1>7, <2>1 DEF RingNext, Clear, RingTypeOK
<1> QED
  BY <1>1, <1>2, <1>3, <1>4, <1>5, <1>6, <1>7 DEF RingNext, TryPop, PopFront, At

-----------------------------------------------------------------------------
(* The entries of the ring, as the FIFO sees them. *)

(* Two sequences with the same length and elements are the same. *)
LEMMA SameSequence ==
  ASSUME NEW S, NEW s \in Seq(S), NEW t \in Seq(S), Len(s) = Len(t),
         \A i \in 1 .. Len(s) : s[i] = t[i]
  PROVE  s = t
OBVIOUS

(* The entries are a sequence of the ring's size. *)
LEMMA EntriesLength ==
  RingTypeOK => RingEntries \in Seq(Values) /\ Len(RingEntries) = size
<1> SUFFICES ASSUME RingTypeOK
             PROVE  RingEntries \in Seq(Values) /\ Len(RingEntries) = size
  OBVIOUS
<1>1. size \in Nat
  BY RingNumbers
<1>2. \A i \in 1 .. size : storage[PhysicalIndex(i - 1)] \in Values
  <2> SUFFICES ASSUME NEW i \in 1 .. size
               PROVE  storage[PhysicalIndex(i - 1)] \in Values
    OBVIOUS
  <2>1. hasStorage /\ i - 1 \in 0 .. capacity - 1
    BY HoldsEntry
  <2> QED BY <2>1, SlotsDiffer DEF RingTypeOK
<1>3. RingEntries \in [1 .. size -> Values]
  BY <1>2 DEF RingEntries
<1> QED BY <1>1, <1>3

(* And so they are after a step that keeps the types. *)
LEMMA NextEntriesLength ==
  RingTypeOK' => (RingEntries \in Seq(Values) /\ Len(RingEntries) = size)'
BY EntriesLength, PTL

(* The entry at a logical index. *)
LEMMA EntryAt ==
  ASSUME RingTypeOK, NEW i \in 0 .. size - 1
  PROVE  RingEntries[i + 1] = storage[PhysicalIndex(i)]
BY RingNumbers DEF RingEntries

(* An empty ring is an empty queue. *)
LEMMA EmptyEntries == ASSUME RingTypeOK PROVE RingEntries = <<>> <=> size = 0
BY EntriesLength

(* A push appends: the slot it fills held no entry. *)
LEMMA PushAppends ==
  ASSUME RingTypeOK, RingTypeOK', NEW value \in Values, TryPush(value),
         ValidStorage, size # capacity, capacity' = capacity
  PROVE  RingEntries' = Append(RingEntries, value)
<1>1. /\ size \in 0 .. capacity - 1 /\ capacity \in Nat /\ capacity > 0
      /\ size \in Nat
  BY RingNumbers
<1>2. hasStorage /\ storage \in [0 .. capacity - 1 -> Values]
  BY <1>1 DEF RingTypeOK, ValidStorage
<1>3. /\ storage' = [storage EXCEPT ![PhysicalIndex(size)] = value]
      /\ size' = size + 1 /\ head' = head
  BY DEF TryPush, Refused
<1>4. \A i : PhysicalIndex(i)' = PhysicalIndex(i)
  BY <1>3 DEF PhysicalIndex
<1>5. RingEntries' = [i \in 1 .. size + 1 |-> storage'[PhysicalIndex(i - 1)]]
  BY <1>3, <1>4 DEF RingEntries
<1>6. ASSUME NEW i \in 1 .. size + 1
      PROVE  storage'[PhysicalIndex(i - 1)] = Append(RingEntries, value)[i]
  <2>1. i - 1 \in 0 .. capacity - 1 /\ PhysicalIndex(i - 1) \in 0 .. capacity - 1
    BY <1>1, SlotsDiffer
  <2>2. CASE i = size + 1
    BY <1>1, <1>2, <1>3, <2>1, <2>2, EntriesLength
  <2>3. CASE i # size + 1
    <3>1. PhysicalIndex(i - 1) # PhysicalIndex(size)
      BY <1>1, <2>1, <2>3, SlotsDiffer
    <3>2. storage'[PhysicalIndex(i - 1)] = storage[PhysicalIndex(i - 1)]
      BY <1>2, <1>3, <2>1, <3>1
    <3>3. i \in 1 .. size /\ RingEntries[i] = storage[PhysicalIndex(i - 1)]
      BY <1>1, <2>3 DEF RingEntries
    <3> QED BY <1>1, <3>2, <3>3, EntriesLength
  <2> QED BY <2>2, <2>3
<1>7. /\ Append(RingEntries, value) \in Seq(Values)
      /\ Len(Append(RingEntries, value)) = size + 1
  BY EntriesLength
<1>8. RingEntries' \in Seq(Values) /\ Len(RingEntries') = size'
  BY NextEntriesLength
<1>9. \A i \in 1 .. size + 1 : RingEntries'[i] = Append(RingEntries, value)[i]
  BY <1>5, <1>6
<1> QED BY <1>3, <1>7, <1>8, <1>9, SameSequence

(* A pop leaves the tail: the head moves and every entry keeps its slot,   *)
(* also when the emptied ring returns to the first slot.                   *)
LEMMA PopLeavesTail ==
  ASSUME RingTypeOK, RingTypeOK', DropFront, Popable, capacity' = capacity
  PROVE  /\ RingEntries' = Tail(RingEntries)
         /\ RingEntries # <<>> /\ Head(RingEntries) = storage[head]
<1>1. /\ size \in 1 .. capacity /\ capacity \in Nat /\ capacity > 0 /\ size \in Nat
      /\ head \in 0 .. capacity - 1
  BY HoldsEntry, RingNumbers DEF Popable
<1>2. storage' = storage /\ size' = size - 1
  BY DEF DropFront
<1>3. RingEntries # <<>> /\ Head(RingEntries) = storage[head]
  <2>1. RingEntries[1] = storage[PhysicalIndex(0)]
    BY <1>1 DEF RingEntries
  <2> QED BY <1>1, <2>1, HeadSlot, EntriesLength
<1>4. Tail(RingEntries) \in Seq(Values) /\ Len(Tail(RingEntries)) = size - 1
  BY <1>1, <1>3, EntriesLength
<1>5. (RingEntries \in Seq(Values) /\ Len(RingEntries) = size)'
  BY NextEntriesLength
<1>6. ASSUME NEW i \in 1 .. size - 1 PROVE RingEntries'[i] = Tail(RingEntries)[i]
  <2>1. head' = IF head + 1 = capacity THEN 0 ELSE head + 1
    <3>1. size - 1 # 0
      BY <1>1
    <3> QED BY <1>1, <3>1, IncrementWraps DEF DropFront
  <2>2. PhysicalIndex(i - 1)' = PhysicalIndex(i)
    BY <1>1, <2>1 DEF PhysicalIndex
  <2>3. RingEntries'[i] = storage[PhysicalIndex(i - 1)']
    BY <1>1, <1>2 DEF RingEntries
  <2>4. Tail(RingEntries)[i] = RingEntries[i + 1]
    BY <1>1, <1>3, EntriesLength
  <2>5. RingEntries[i + 1] = storage[PhysicalIndex(i)]
    BY <1>1, EntryAt
  <2> QED BY <2>2, <2>3, <2>4, <2>5
<1>7. RingEntries' = Tail(RingEntries)
  BY <1>1, <1>2, <1>4, <1>5, <1>6, SameSequence
<1> QED BY <1>3, <1>7

(* A write through a reference changes the entry at that index only. *)
LEMMA UpdateReplaces ==
  ASSUME RingTypeOK, RingTypeOK', NEW index \in LogicalIndex, NEW value \in Values,
         Update(index, value), capacity' = capacity
  PROVE  RingEntries' = [RingEntries EXCEPT ![index + 1] = value]
<1>1. /\ size \in 1 .. capacity /\ capacity \in Nat /\ index \in 0 .. size - 1
      /\ size \in Nat /\ hasStorage
  BY HoldsEntry, RingNumbers, RingAssumption DEF Update, Reachable, LogicalIndex
<1>2. /\ storage' = [storage EXCEPT ![PhysicalIndex(index)] = value]
      /\ size' = size /\ head' = head /\ storage \in [0 .. capacity - 1 -> Values]
  BY <1>1 DEF Update, RingTypeOK
<1>3. \A i : PhysicalIndex(i)' = PhysicalIndex(i)
  BY <1>2 DEF PhysicalIndex
<1>4. (RingEntries \in Seq(Values) /\ Len(RingEntries) = size)'
  BY NextEntriesLength
<1>5. /\ [RingEntries EXCEPT ![index + 1] = value] \in Seq(Values)
      /\ Len([RingEntries EXCEPT ![index + 1] = value]) = size
  BY <1>1, EntriesLength
<1>6. ASSUME NEW i \in 1 .. size
      PROVE  RingEntries'[i] = [RingEntries EXCEPT ![index + 1] = value][i]
  <2>1. /\ i - 1 \in 0 .. capacity - 1 /\ index \in 0 .. capacity - 1
        /\ PhysicalIndex(i - 1) \in 0 .. capacity - 1
        /\ PhysicalIndex(i - 1) = PhysicalIndex(index) => i - 1 = index
    BY <1>1, SlotsDiffer
  <2>2. RingEntries'[i] = storage'[PhysicalIndex(i - 1)]
    BY <1>1, <1>2, <1>3 DEF RingEntries
  <2>3. RingEntries[i] = storage[PhysicalIndex(i - 1)]
    BY <1>1 DEF RingEntries
  <2>4. i \in DOMAIN RingEntries
    BY <1>1, EntriesLength
  <2>5. CASE i = index + 1
    <3>1. i - 1 = index
      BY <1>1, <2>5
    <3> QED BY <1>2, <2>1, <2>2, <2>4, <2>5, <3>1
  <2>6. CASE i # index + 1
    <3>1. PhysicalIndex(i - 1) # PhysicalIndex(index)
      BY <1>1, <2>1, <2>6
    <3> QED BY <1>2, <2>1, <2>2, <2>3, <2>4, <2>6, <3>1
  <2> QED BY <2>5, <2>6
<1> QED BY <1>2, <1>4, <1>5, <1>6, SameSequence

(* A step that leaves the ring alone leaves its entries alone. *)
LEMMA SameRingSameEntries ==
  ASSUME UNCHANGED ring, capacity' = capacity PROVE RingEntries' = RingEntries
BY DEF RingEntries, PhysicalIndex, ring

-----------------------------------------------------------------------------
(* The ring refines the bounded FIFO. *)

(* The room the FIFO sees. *)
Room == IF hasStorage THEN capacity ELSE 0

(* A ring is full when the FIFO is, and it has room without storage only   *)
(* as a disabled queue does.                                               *)
LEMMA RoomAgrees ==
  ASSUME RingTypeOK
  PROVE  /\ (~ValidStorage \/ size = capacity) => Len(RingEntries) = Room
         /\ ValidStorage /\ size # capacity => Len(RingEntries) < Room
         /\ Popable <=> RingEntries # <<>>
         /\ \A index \in LogicalIndex : Reachable(index) <=> index < Len(RingEntries)
<1>1. Len(RingEntries) = size /\ size \in Nat /\ capacity \in Nat /\ size <= capacity
  BY EntriesLength, RingNumbers
<1>2. size # 0 => hasStorage
  BY DEF RingTypeOK
<1>3. RingEntries # <<>> <=> size # 0
  BY EmptyEntries
<1>4. \A index \in LogicalIndex : index \in Nat
  BY RingAssumption DEF LogicalIndex
<1> QED BY <1>1, <1>2, <1>3, <1>4 DEF ValidStorage, Room, Popable, Reachable

(* A constructed ring is a new FIFO. *)
LEMMA RefineInit == RingInit => RingTypeOK /\ Fifo!Init
<1> SUFFICES ASSUME RingInit PROVE RingTypeOK /\ Fifo!Init OBVIOUS
<1>1. capacity \in Nat /\ capacity \in Capacities /\ head = 0 /\ size = 0
  BY RingAssumption DEF RingInit, LogicalIndex
<1>2. hasStorage => storage \in [0 .. capacity - 1 -> Values]
  BY Zenon DEF RingInit
<1>3. hasStorage \in BOOLEAN /\ answer = "ok"
  BY DEF RingInit
<1>4. head \in 0 .. capacity /\ size \in 0 .. capacity /\ (capacity > 0 => head < capacity)
  BY <1>1
<1>5. RingTypeOK
  BY <1>1, <1>2, <1>3, <1>4, Zenon DEF RingTypeOK
<1>6. RingEntries = <<>>
  BY <1>1, <1>5, EmptyEntries
<1>7. Room \in Nat
  BY <1>1 DEF Room
<1> QED BY <1>3, <1>5, <1>6, <1>7 DEF Fifo!Init, Room

(* Each call of the ring is the same call of the FIFO. *)
LEMMA RefineStep ==
  ASSUME RingTypeOK, RingTypeOK', [RingNext]_ringVars PROVE [Fifo!Next]_Fifo!vars
<1>1. CASE UNCHANGED ringVars
  <2>1. RingEntries' = RingEntries
    BY <1>1, SameRingSameEntries DEF ringVars
  <2> QED BY <1>1, <2>1 DEF ringVars, Fifo!vars
<1> SUFFICES ASSUME RingNext PROVE Fifo!Next
  BY <1>1
<1>0. capacity' = capacity /\ hasStorage' = hasStorage /\ Room' = Room
  BY DEF RingNext, Room
<1>2. ASSUME NEW value \in Values, TryPush(value) PROVE Fifo!TryPush(value)
  <2>1. CASE ~ValidStorage \/ size = capacity
    <3>1. answer' = "refused" /\ RingEntries' = RingEntries
      BY <1>0, <1>2, <2>1, SameRingSameEntries DEF TryPush, Refused
    <3> QED BY <2>1, <3>1, RoomAgrees DEF Fifo!TryPush, Fifo!Refused, Room
  <2>2. CASE ValidStorage /\ size # capacity
    <3>1. answer' = "ok" /\ RingEntries' = Append(RingEntries, value)
      BY <1>0, <1>2, <2>2, PushAppends DEF TryPush
    <3> QED BY <2>2, <3>1, RoomAgrees DEF Fifo!TryPush, Room
  <2> QED BY <2>1, <2>2
<1>3. ASSUME Refused, ~Popable PROVE RingEntries = <<>> /\ Fifo!Refused
  BY <1>0, <1>3, RoomAgrees, SameRingSameEntries DEF Refused, Fifo!Refused
<1>4. ASSUME TryPop PROVE Fifo!TryPop
  <2>1. CASE ~Popable
    BY <1>3, <1>4, <2>1 DEF TryPop, Fifo!TryPop
  <2>2. CASE Popable
    BY <1>0, <1>4, <2>2, PopLeavesTail DEF TryPop, Fifo!TryPop
  <2> QED BY <2>1, <2>2
<1>5. ASSUME PopFront PROVE Fifo!PopFront
  <2>1. CASE ~Popable
    BY <1>3, <1>5, <2>1 DEF PopFront, Fifo!PopFront
  <2>2. CASE Popable
    BY <1>0, <1>5, <2>2, PopLeavesTail DEF PopFront, Fifo!PopFront
  <2> QED BY <2>1, <2>2
<1>6. ASSUME NEW index \in LogicalIndex, At(index) PROVE Fifo!At(index)
  <2>1. RingEntries' = RingEntries
    BY <1>0, <1>6, SameRingSameEntries DEF At, Refused
  <2>2. CASE ~Reachable(index)
    <3>1. index >= Len(RingEntries)
      BY <2>2, RoomAgrees, EntriesLength, RingNumbers, RingAssumption DEF LogicalIndex
    <3> QED BY <1>6, <2>1, <2>2, <3>1 DEF At, Refused, Fifo!At, Fifo!Refused
  <2>3. CASE Reachable(index)
    <3>1. index < Len(RingEntries) /\ index \in 0 .. size - 1
      BY <2>3, RoomAgrees, EntriesLength, RingNumbers, RingAssumption DEF LogicalIndex
    <3>2. answer' = RingEntries[index + 1]
      BY <1>6, <2>3, <3>1, EntryAt DEF At
    <3> QED BY <2>1, <3>1, <3>2 DEF Fifo!At
  <2> QED BY <2>2, <2>3
<1>7. ASSUME NEW index \in LogicalIndex, NEW value \in Values,
             Update(index, value)
      PROVE  Fifo!Update(index, value)
  BY <1>0, <1>7, RoomAgrees, UpdateReplaces DEF Update, Fifo!Update
<1>8. ASSUME Clear PROVE Fifo!Clear
  <2>1. (RingEntries = <<>> <=> size = 0)'
    <3>1. RingTypeOK => (RingEntries = <<>> <=> size = 0)
      BY EmptyEntries
    <3>2. Len(RingEntries') = size' /\ RingEntries' \in Seq(Values)
      BY NextEntriesLength
    <3> QED BY <3>2
  <2> QED BY <1>8, <2>1 DEF Clear, Fifo!Clear
<1> QED BY <1>0, <1>2, <1>4, <1>5, <1>6, <1>7, <1>8 DEF RingNext, Fifo!Next, Room

-----------------------------------------------------------------------------
(* The ring's indices stay within its array, whatever the capacity. *)
THEOREM RingTypes == RingSpec => []RingTypeOK
BY RefineInit, RingTypeStep, PTL DEF RingSpec

(* For every capacity the ring of FixedStorage.h implements a bounded FIFO: *)
(* wrapping, the 16-bit indices and the return to the first slot of an     *)
(* emptied ring are invisible to its caller.                               *)
THEOREM ImplementsFifo == RingSpec => RingIsFifo
<1>1. RingTypeOK /\ RingTypeOK' /\ [RingNext]_ringVars => [Fifo!Next]_Fifo!vars
  BY RefineStep
<1>2. RingSpec => []RingTypeOK
  BY RingTypes
<1>3. RingInit => Fifo!Init
  BY RefineInit
<1> QED BY <1>1, <1>2, <1>3, PTL DEF RingSpec, RingIsFifo, Fifo!Spec
=============================================================================
