------------------------- MODULE StoreForwardBridge -------------------------
(***************************************************************************)
(* include/modbus_rtu_bridge/StoreForwardBridge.h: the facade that couples *)
(* a FIFO of planned works, the completion ledger and the poll planner     *)
(* behind preview / admit / complete, with one downstream action in flight *)
(* at a time.                                                              *)
(*                                                                         *)
(* A preview is only a proposal: the caller may hold it while anything     *)
(* else happens and try to admit it later, and it may report a completion  *)
(* for any action it ever got hold of.  `held' is such a copy.  The        *)
(* session, the time and the candidate tables belong to the caller too.    *)
(*                                                                         *)
(* Planning is abstracted to a number of fragments.  A slot's quantity and *)
(* remaining count fragments, not registers; zero stands for a work that   *)
(* ForwardPlanner::begin() rejects.  Calls that return an error without    *)
(* changing state are the stuttering steps.                                *)
(***************************************************************************)
EXTENDS CompletionLedger, PollPlanner

CONSTANTS
  Works,             \* identities the caller may submit
  Deliveries,        \* deliveries it may submit them with
  FragmentCounts,    \* numbers of fragments a submitted work may need
  QueueCapacity,     \* workCapacity
  SequenceModulus,   \* 2^32: request sequences and revisions wrap here
  Sessions,          \* views of the caller's lifecycle
  InitialSession,
  PollTables,        \* candidate tables the caller may pass
  PollRequests,      \* requests a candidate may carry ...
  ValidPollRequests, \* ... and those that are well-formed reads
  NoRead,            \* the default-constructed request
  Ticks              \* times the caller may pass

PollCandidate ==
  [request : PollRequests, dueAt : Nat, enabled : BOOLEAN,
   requiresDispatch : BOOLEAN]

ASSUME BridgeAssumption ==
  /\ Works \subseteq WorkIdentity
  /\ Deliveries \subseteq IngressDelivery
  /\ FragmentCounts \subseteq 0..MaxFragmentIndex
  /\ QueueCapacity \in Nat
  /\ SequenceModulus \in Nat \ {0, 1}
  /\ Sessions \subseteq SessionStateView
  /\ InitialSession \in Sessions
  /\ PollTables \subseteq Seq(PollCandidate)
  /\ ValidPollRequests \subseteq PollRequests
  /\ Ticks \subseteq Nat

VARIABLES
  workQueue,        \* FixedRingQueue<StoreForwardWorkSlot>, front first
  ledger,           \* CompletionLedger
  pollState,
  requestSequence,
  revision,
  inFlight,
  inFlightAction,
  inFlightWork,
  session,          \* caller: current lifecycle view
  held,             \* caller: a copy of some previewed action
  returned,         \* history: what the last call handed back
  wire              \* history: the fragments put on the wire per queued work

facade == <<workQueue, ledger, pollState, requestSequence, revision, inFlight,
            inFlightAction, inFlightWork>>
vars == <<workQueue, ledger, pollState, requestSequence, revision, inFlight,
          inFlightAction, inFlightWork, session, held, returned, wire>>

-----------------------------------------------------------------------------
(* Work slots and actions. *)

WorkSlot ==
  [work : Works, delivery : IngressDelivery, quantity : 1..MaxFragmentIndex,
   remaining : Nat, fragmentIndex : Nat]

Action ==
  [kind : ScheduledActionKind, proposalRevision : Nat, sequence : Nat,
   write : PlannedWriteRequest, read : PollRequests \cup {NoRead},
   scheduling : PollSelection, pollCount : Nat, selectedAt : Nat,
   requiresCompletion : BOOLEAN]

NoAction ==
  [kind |-> "None", proposalRevision |-> 0, sequence |-> 0,
   write |-> NoWrite, read |-> NoRead, scheduling |-> NoSelection,
   pollCount |-> 0, selectedAt |-> 0, requiresCompletion |-> FALSE]

(* One fragment on the wire, and what became of it. *)
WireRecord ==
  [fragment : Nat, outcome : DownstreamOutcome \cup {"Pending"}]

Queued(queue) == {queue[i].work : i \in DOMAIN queue}

Front == Head(workQueue)

NextSequence(value) == NextNonZero(value, SequenceModulus)

(* Nothing handed back: the return value of a call the properties ignore. *)
NothingReturned == [notice |-> "None", applied |-> FALSE, reclaimed |-> {}]

-----------------------------------------------------------------------------
(* Planning.  next() always yields the slot's next fragment while some     *)
(* fragment remains.                                                       *)

NextFragment(slot, sequence) ==
  [work |-> slot.work, requestSequence |-> sequence,
   fragmentIndex |-> slot.fragmentIndex, delivery |-> slot.delivery,
   finalFragment |-> slot.remaining = 1]

(* A slip: the fragment index stays. *)
StuckSlot(slot) ==
  [slot EXCEPT !.remaining = @ - 1]

AdvancedSlot(slot) ==
  [slot EXCEPT !.fragmentIndex = @ + 1, !.remaining = @ - 1]

-----------------------------------------------------------------------------
(* previewAction(): reads the state, the time and a candidate table.       *)

Selection(now, polls) == Select(now, workQueue # <<>>, polls, pollState)

PollPicked(now, polls) == polls[Selection(now, polls).pollIndex + 1]

PreviewStatus(now, polls) ==
  LET kind == Selection(now, polls).kind
  IN  IF inFlight THEN "ActionInFlight"
      ELSE IF workQueue # <<>> /\ ~WorkCurrent(Front.work, session)
        THEN "StaleWork"
      ELSE IF kind = "None" THEN "NoAction"
      ELSE IF /\ kind = "Poll"
              /\ PollPicked(now, polls).requiresDispatch
              /\ PollPicked(now, polls).request \notin ValidPollRequests
        THEN "InvalidPollRequest"
      ELSE IF kind = "ForwardWrite" /\ Front.remaining = 0
        THEN "PlanningFailed"
      ELSE "Ready"

ForwardProposal(now, polls) ==
  [kind |-> "ForwardWrite", proposalRevision |-> revision,
   sequence |-> NextSequence(requestSequence),
   write |-> NextFragment(Front, NextSequence(requestSequence)),
   read |-> NoRead, scheduling |-> Selection(now, polls),
   pollCount |-> Len(polls), selectedAt |-> now, requiresCompletion |-> TRUE]

PollProposal(now, polls) ==
  LET dispatch == PollPicked(now, polls).requiresDispatch
  IN  [kind |-> "Poll", proposalRevision |-> revision,
       sequence |-> IF dispatch THEN NextSequence(requestSequence) ELSE 0,
       write |-> NoWrite,
       read |-> IF dispatch THEN PollPicked(now, polls).request ELSE NoRead,
       scheduling |-> Selection(now, polls),
       pollCount |-> Len(polls), selectedAt |-> now,
       requiresCompletion |-> dispatch]

Preview(now, polls) ==
  IF PreviewStatus(now, polls) # "Ready" THEN NoAction
  ELSE IF Selection(now, polls).kind = "Poll" THEN PollProposal(now, polls)
  ELSE ForwardProposal(now, polls)

-----------------------------------------------------------------------------
Init ==
  /\ workQueue = <<>>
  /\ ledger = [w \in {} |-> NewSlot(NoWork, "Rejected")]
  /\ pollState = InitialPollState
  /\ requestSequence = 0
  /\ revision = 1
  /\ inFlight = FALSE
  /\ inFlightAction = NoAction
  /\ inFlightWork = NoWork
  /\ session = InitialSession
  /\ held = NoAction
  /\ returned = NothingReturned
  /\ wire = [w \in {} |-> <<>>]

-----------------------------------------------------------------------------
(* admitWork(): both overloads.                                            *)

AdmitWorkStatus(work, delivery, fragments) ==
  IF Len(workQueue) >= QueueCapacity THEN "QueueFull"
  ELSE IF \/ ~WorkCurrent(work, session)
          \/ ~IsAccepted(delivery)
          \/ fragments = 0
    THEN "PlanRejected"
  ELSE IF ReserveStatus(ledger, work, delivery) # "Reserved"
    THEN "LedgerRejected"
  ELSE "Admitted"

AdmitWork(work, delivery, fragments) ==
  /\ AdmitWorkStatus(work, delivery, fragments) = "Admitted"
  /\ workQueue' = Append(workQueue,
                    [work |-> work, delivery |-> delivery,
                     quantity |-> fragments, remaining |-> fragments,
                     fragmentIndex |-> 0])
  /\ ledger' = Reserve(ledger, work, delivery)
  /\ revision' = NextSequence(revision)
  /\ returned' = NothingReturned
  /\ wire' = [w \in DOMAIN wire \cup {work} |->
                IF w = work THEN <<>> ELSE wire[w]]
  /\ UNCHANGED <<pollState, requestSequence, inFlight, inFlightAction,
                 inFlightWork, session, held>>

-----------------------------------------------------------------------------
(* nextAction(): the caller keeps the proposal it is shown.                *)

NextAction(now, polls) ==
  /\ held' = Preview(now, polls)
  /\ returned' = NothingReturned
  /\ UNCHANGED <<facade, session, wire>>

-----------------------------------------------------------------------------
(* admitAction(): the caller passes a proposal and its candidate table as  *)
(* it is now; the code previews again at the proposal's own time.          *)

(* A slip: the revision alone is compared, not the proposal. *)
IsRevisionCurrent(action, polls) ==
  action.proposalRevision = revision

IsCurrentProposal(action, polls) ==
  /\ action.proposalRevision = revision
  /\ PreviewStatus(action.selectedAt, polls) = "Ready"
  /\ action = Preview(action.selectedAt, polls)
  /\ action.kind = action.scheduling.kind

AdmitActionStatus(action, polls) ==
  LET commits == CommitAccepts(action.scheduling, action.pollCount)
      consumes == action.kind = "Poll" /\ ~action.requiresCompletion
  IN  IF inFlight THEN "ActionInFlight"
      ELSE IF action.kind = "None" THEN "InvalidAction"
      ELSE IF ~IsCurrentProposal(action, polls) THEN "StaleProposal"
      ELSE IF consumes THEN
        IF action.sequence # 0 \/ ~commits THEN "FairnessRejected"
        ELSE "Consumed"
      ELSE IF \/ action.sequence = 0
              \/ action.sequence # NextSequence(requestSequence)
        THEN "StaleProposal"
      ELSE IF action.kind = "ForwardWrite" THEN
        IF workQueue = <<>> THEN "StaleProposal"
        ELSE IF ~commits THEN "FairnessRejected"
        ELSE IF IssueStatus(ledger, action.write) # "Recorded"
          THEN "LedgerRejected"
        ELSE "Admitted"
      ELSE IF action.read \notin ValidPollRequests THEN "InvalidAction"
      ELSE IF ~commits THEN "FairnessRejected"
      ELSE "Admitted"

CommitAction(action) ==
  /\ pollState' = Commit(action.scheduling, action.pollCount,
                         action.selectedAt, pollState)
  /\ revision' = NextSequence(revision)
  /\ returned' = NothingReturned
  /\ UNCHANGED <<session, held>>

EnterFlight(action, work) ==
  /\ requestSequence' = action.sequence
  /\ inFlight' = TRUE
  /\ inFlightAction' = action
  /\ inFlightWork' = work

ConsumePoll(action, polls) ==
  /\ AdmitActionStatus(action, polls) = "Consumed"
  /\ CommitAction(action)
  /\ UNCHANGED <<workQueue, ledger, requestSequence, inFlight, inFlightAction,
                 inFlightWork, wire>>

AdmitPoll(action, polls) ==
  /\ AdmitActionStatus(action, polls) = "Admitted"
  /\ action.kind = "Poll"
  /\ CommitAction(action)
  /\ EnterFlight(action, NoWork)
  /\ UNCHANGED <<workQueue, ledger, wire>>

AdmitForward(action, polls) ==
  /\ AdmitActionStatus(action, polls) = "Admitted"
  /\ action.kind = "ForwardWrite"
  /\ CommitAction(action)
  /\ EnterFlight(action, action.write.work)
  /\ ledger' = RecordIssued(ledger, action.write)
  /\ workQueue' = [workQueue EXCEPT ![1] = AdvancedSlot(@)]
  /\ wire' = [wire EXCEPT ![action.write.work] =
                Append(@, [fragment |-> action.write.fragmentIndex,
                           outcome |-> "Pending"])]

AdmitAction(action, polls) ==
  \/ ConsumePoll(action, polls)
  \/ AdmitPoll(action, polls)
  \/ AdmitForward(action, polls)

-----------------------------------------------------------------------------
(* complete(): the caller reports an outcome for an action it holds.       *)

ClearInFlight ==
  /\ inFlight' = FALSE
  /\ inFlightAction' = NoAction
  /\ inFlightWork' = NoWork

(* A slip: the comparison is inverted. *)
PopFrontUnless(queue, work) ==
  IF queue # <<>> /\ Head(queue).work # work THEN Tail(queue) ELSE queue

PopFrontIf(queue, work) ==
  IF queue # <<>> /\ Head(queue).work = work THEN Tail(queue) ELSE queue

Observed(action, outcome) ==
  [identity |-> action.write, outcome |-> outcome]

(* The ledger's answer for a forward that matches the one in flight. *)
Resolution(action, outcome) ==
  ResolveStatus(ledger, action.write, Observed(action, outcome), session)

Decision(action, outcome) ==
  ResolutionStatus(action.write, Observed(action, outcome), session,
                   ledger[action.write.work].aggregate)

CompleteStatus(action, outcome) ==
  IF ~inFlight THEN "NoActionInFlight"
  ELSE IF action # inFlightAction THEN "ActionMismatch"
  ELSE IF outcome \notin DownstreamOutcome THEN "InvalidOutcome"
  ELSE IF action.kind = "Poll" THEN "Completed"
  ELSE IF action.kind # "ForwardWrite" \/ action.write.work # inFlightWork
    THEN "ActionMismatch"
  ELSE IF Resolution(action, outcome) = "Resolved" THEN "Completed"
  ELSE IF /\ Resolution(action, outcome) = "CompletionRejected"
          /\ Decision(action, outcome) = "StaleSession"
    THEN "StaleSession"
  ELSE "LedgerRejected"

CompletePoll(action, outcome) ==
  /\ CompleteStatus(action, outcome) = "Completed"
  /\ action.kind = "Poll"
  /\ ClearInFlight
  /\ revision' = NextSequence(revision)
  /\ returned' = NothingReturned
  /\ UNCHANGED <<workQueue, ledger, pollState, requestSequence, session, held,
                 wire>>

(* An old-session result retires its work without any cache or notice      *)
(* transition.                                                             *)
CompleteStale(action, outcome) ==
  /\ CompleteStatus(action, outcome) = "StaleSession"
  /\ ledger' = Abandon(ledger, inFlightWork)
  /\ workQueue' = PopFrontIf(workQueue, inFlightWork)
  /\ ClearInFlight
  /\ revision' = NextSequence(revision)
  /\ returned' = [NothingReturned EXCEPT !.reclaimed = {action.write.work}]
  /\ wire' = WithoutWorks(wire, {action.write.work})
  /\ UNCHANGED <<pollState, requestSequence, session, held>>

CompleteForward(action, outcome) ==
  LET work == action.write.work
      resolved == Resolve(ledger, action.write, outcome)
      closed == IF outcome = "Applied" THEN resolved
                ELSE ClosePlanningAfterFailure(resolved, work)
      drained == Drained(closed[work])
      trace == [wire EXCEPT ![work][Len(wire[work])].outcome = outcome]
  IN  /\ CompleteStatus(action, outcome) = "Completed"
      /\ action.kind = "ForwardWrite"
      /\ ClearInFlight
      /\ ledger' = IF drained THEN Release(closed, work) ELSE closed
      /\ workQueue' = IF drained THEN PopFrontIf(workQueue, work)
                      ELSE workQueue
      /\ revision' = NextSequence(revision)
      /\ returned' =
           [notice |-> ResolutionNotice(action.write, outcome,
                                        ledger[work].aggregate),
            applied |-> MarksApplied("Current", outcome),
            reclaimed |-> IF drained THEN {work} ELSE {}]
      /\ wire' = IF drained THEN WithoutWorks(trace, {work}) ELSE trace
      /\ UNCHANGED <<pollState, requestSequence, session, held>>

Complete(action, outcome) ==
  \/ CompletePoll(action, outcome)
  \/ CompleteStale(action, outcome)
  \/ CompleteForward(action, outcome)

-----------------------------------------------------------------------------
(* Explicit retirement and reset, refused while an action is in flight.    *)

RetireFront ==
  /\ ledger' = Abandon(ledger, Front.work)
  /\ workQueue' = Tail(workQueue)
  /\ revision' = NextSequence(revision)
  /\ returned' = [NothingReturned EXCEPT !.reclaimed = {Front.work}]
  /\ wire' = WithoutWorks(wire, {Front.work})
  /\ UNCHANGED <<pollState, requestSequence, inFlight, inFlightAction,
                 inFlightWork, session, held>>

(* A slip: the in-flight check is missing. *)
DiscardUnderFlight ==
  /\ workQueue # <<>>
  /\ ~WorkCurrent(Front.work, session)
  /\ RetireFront

DiscardOneStaleWork ==
  /\ ~inFlight
  /\ workQueue # <<>>
  /\ ~WorkCurrent(Front.work, session)
  /\ RetireFront

AbandonFront ==
  /\ ~inFlight
  /\ workQueue # <<>>
  /\ RetireFront

Reset ==
  /\ ~inFlight
  /\ workQueue' = <<>>
  /\ ledger' = WithoutWorks(ledger, Queued(workQueue))
  /\ pollState' = InitialPollState
  /\ revision' = NextSequence(revision)
  /\ returned' = [NothingReturned EXCEPT !.reclaimed = Queued(workQueue)]
  /\ wire' = WithoutWorks(wire, Queued(workQueue))
  /\ UNCHANGED <<requestSequence, inFlight, inFlightAction, inFlightWork,
                 session, held>>

-----------------------------------------------------------------------------
(* External: the caller's lifecycle moves on.  Generations never go back.  *)

ChangeSession(view) ==
  /\ view # session
  /\ view.currentGeneration >= session.currentGeneration
  /\ session' = view
  /\ returned' = NothingReturned
  /\ UNCHANGED <<facade, held, wire>>

-----------------------------------------------------------------------------
Next ==
  \/ \E work \in Works, delivery \in Deliveries, n \in FragmentCounts :
       AdmitWork(work, delivery, n)
  \/ \E now \in Ticks, polls \in PollTables : NextAction(now, polls)
  \/ \E polls \in PollTables : AdmitAction(held, polls)
  \/ \E now \in Ticks, polls \in PollTables :
       \E action \in {Preview(now, polls)} : AdmitAction(action, polls)
  \/ \E action \in {held, inFlightAction}, outcome \in DownstreamOutcome :
       Complete(action, outcome)
  \/ DiscardOneStaleWork
  \/ AbandonFront
  \/ Reset
  \/ \E view \in Sessions : ChangeSession(view)

Spec == Init /\ [][Next]_vars
-----------------------------------------------------------------------------
(* Fairness: the driver loop the repository's guide prescribes.  It admits *)
(* some current proposal whenever one exists, reports a terminal outcome   *)
(* for every admitted action, and discards works of an old session.        *)

AdmitSomething ==
  \E now \in Ticks, polls \in PollTables :
    \E action \in {Preview(now, polls)} : AdmitAction(action, polls)

CompleteSomething ==
  \E outcome \in DownstreamOutcome : Complete(inFlightAction, outcome)

DriverFairness ==
  /\ WF_vars(AdmitSomething)
  /\ WF_vars(CompleteSomething)
  /\ WF_vars(DiscardOneStaleWork)

FairSpec == Spec /\ DriverFairness

-----------------------------------------------------------------------------
(* Invariants. *)

(* The data of queued works keeps its shape. *)
WorkDataTypes ==
  /\ workQueue \in Seq(WorkSlot)
  /\ DOMAIN ledger \subseteq Works
  /\ ledger \in [DOMAIN ledger -> LedgerSlot]
  /\ DOMAIN wire \subseteq Works
  /\ wire \in [DOMAIN wire -> Seq(WireRecord)]

(* Every variable keeps its shape: counters stay inside their width, and   *)
(* revisions skip zero as nextNonZeroSequence32() promises.  The last      *)
(* sequence is zero before the first request.                              *)
TypeOK ==
  /\ WorkDataTypes
  /\ pollState \in PollPlannerState
  /\ requestSequence \in 0..(SequenceModulus - 1)
  /\ revision \in 1..(SequenceModulus - 1)
  /\ inFlight \in BOOLEAN
  /\ inFlightAction \in Action
  /\ inFlightWork \in Works \cup {NoWork}
  /\ session \in Sessions
  /\ held \in Action
  /\ returned \in [notice : CompletionNotice, applied : BOOLEAN,
                   reclaimed : SUBSET Works]

ForwardInFlight == inFlight /\ inFlightAction.kind = "ForwardWrite"

(* A slot and its ledger entry while no fragment of it is on the wire:     *)
(* cursor, issue index and resolution index agree, nothing failed, nothing *)
(* was announced, and something is left to plan.                           *)
IdleEntry(slot, entry) ==
  /\ slot.remaining > 0
  /\ slot.fragmentIndex = entry.nextIssuedFragment
  /\ slot.fragmentIndex = entry.aggregate.nextFragmentIndex
  /\ entry.outstandingRequests = 0
  /\ entry.issuedRequest = NoWrite
  /\ ~entry.planningClosed

(* ... and while its latest fragment is, as the given request. *)
OutstandingEntry(slot, entry, request) ==
  /\ slot.fragmentIndex = entry.issuedRequest.fragmentIndex + 1
  /\ slot.fragmentIndex = entry.aggregate.nextFragmentIndex + 1
  /\ entry.outstandingRequests = 1
  /\ entry.issuedRequest = request
  /\ entry.issuedRequest.work = slot.work
  /\ entry.issuedRequest.delivery = slot.delivery
  /\ ValidRequest(entry.issuedRequest)
  /\ entry.issuedRequest.finalFragment <=> slot.remaining = 0
  /\ entry.planningClosed <=> slot.remaining = 0
  /\ slot.remaining = 0 \/ slot.fragmentIndex = entry.nextIssuedFragment

CleanEntry(slot, entry) ==
  /\ entry.aggregate.work = slot.work
  /\ entry.aggregate.delivery = slot.delivery
  /\ IsAccepted(slot.delivery)
  /\ ValidWork(slot.work)
  /\ entry.observedOutcome \in {"Pending", "Applied"}
  /\ ~entry.aggregate.failed
  /\ ~entry.aggregate.complete
  /\ ~entry.aggregate.noticeEmitted

(* The queue and the ledger, updated by separate calls inside one facade   *)
(* call, never drift apart: each queued work has exactly one ledger entry, *)
(* no entry outlives its queue slot, and the cursor agrees with the issue  *)
(* and resolution indices of the entry.                                    *)
LockStep ==
  /\ \A i, j \in DOMAIN workQueue :
       workQueue[i].work = workQueue[j].work => i = j
  /\ DOMAIN ledger = Queued(workQueue)
  /\ \A i \in DOMAIN workQueue :
       LET slot == workQueue[i]
           entry == ledger[workQueue[i].work]
       IN  /\ CleanEntry(slot, entry)
           /\ IF ForwardInFlight /\ i = 1
                THEN OutstandingEntry(slot, entry, inFlightAction.write)
                ELSE IdleEntry(slot, entry)

(* The in-flight record names the front work while a forward executes, and *)
(* nothing otherwise; no retirement can pull that work from under it.      *)
InFlightIsFront ==
  /\ inFlight <=> inFlightAction.kind # "None"
  /\ ForwardInFlight =>
       /\ workQueue # <<>>
       /\ inFlightWork = Front.work
       /\ inFlightAction.write.work = Front.work
  /\ ~ForwardInFlight => inFlightWork = NoWork

(* A trace that issued fragments 0, 1, ... up to the cursor, all applied   *)
(* except possibly a pending last one, and has the rest still to come.     *)
TraceInOrder(slot, trace, pending) ==
  /\ Len(trace) = slot.fragmentIndex
  /\ Len(trace) + slot.remaining = slot.quantity
  /\ \A k \in DOMAIN trace :
       trace[k] = [fragment |-> k - 1,
                   outcome |-> IF pending /\ k = Len(trace)
                                 THEN "Pending" ELSE "Applied"]

(* What reached the wire for a queued work: each fragment once, in order,  *)
(* the next only after the previous applied, none after a failure.         *)
WireOrder ==
  /\ DOMAIN wire = Queued(workQueue)
  /\ \A i \in DOMAIN workQueue :
       TraceInOrder(workQueue[i], wire[workQueue[i].work],
                    ForwardInFlight /\ i = 1)

(* The branches the code keeps against corrupted or shared state stay      *)
(* unreachable whatever copies the caller holds: an admission that got     *)
(* past re-preview cannot be refused by the planner's commit or by the     *)
(* ledger, planning cannot fail, and a matching completion is never        *)
(* refused by the ledger (which would leave the facade busy for ever).     *)
(* Nor is a proposal refused that describes the present: its sequence is   *)
(* never the reserved zero, and re-preview answers the same once more.     *)
DefensiveBranchesUnreachable ==
  /\ \A now \in Ticks, polls \in PollTables :
       /\ PreviewStatus(now, polls) # "PlanningFailed"
       /\ PreviewStatus(now, polls) = "Ready" =>
            AdmitActionStatus(Preview(now, polls), polls) \in
              {"Admitted", "Consumed"}
       /\ \A action \in {held, inFlightAction} :
            AdmitActionStatus(action, polls) \notin
              {"FairnessRejected", "LedgerRejected"}
  /\ \A action \in {held, inFlightAction}, outcome \in DownstreamOutcome :
       CompleteStatus(action, outcome) # "LedgerRejected"

-----------------------------------------------------------------------------
(* Action properties. *)

Left == Queued(workQueue) \ Queued(workQueue')

(* A tracked work that runs to its end under its own session is announced  *)
(* once: success exactly when every fragment of it applied, failure        *)
(* otherwise.  No other step announces anything: not an intermediate       *)
(* fragment, a silent work, a retirement or an old-session result.         *)
Announced ==
  {w \in Left : /\ ForwardInFlight
                /\ w = inFlightWork
                /\ WorkCurrent(w, session)
                /\ TracksPublicCompletion(ledger[w].aggregate.delivery)}

AnnouncesOnce ==
  /\ returned'.notice = "None" <=> Announced = {}
  /\ \A w \in Announced :
       returned'.notice = "WorkSucceeded" <=>
         /\ returned'.applied
         /\ Front.remaining = 0
         /\ Len(wire[w]) = Front.quantity
         /\ \A k \in 1..(Len(wire[w]) - 1) : wire[w][k].outcome = "Applied"

ExactNotice == [][AnnouncesOnce]_vars

(* The session gate, across every call that intervenes between preview,    *)
(* admission and completion: a fragment goes on the wire, the applied      *)
(* image moves and a notice is emitted only for a work of the session that *)
(* is ready at that moment.                                                *)
SessionGate ==
  /\ returned'.applied \/ returned'.notice # "None" =>
       ForwardInFlight /\ WorkCurrent(inFlightWork, session)
  /\ ~ForwardInFlight /\ ForwardInFlight' =>
       WorkCurrent(inFlightWork', session)

StaleHasNoEffect == [][SessionGate]_vars

(* Snapshot lifetime: a call hands back exactly the works it takes off the *)
(* queue, never one that is still in flight, and a work is taken off only  *)
(* from the front unless everything goes.                                  *)
ReclaimsWhatLeaves ==
  /\ returned'.reclaimed = Left
  /\ ForwardInFlight' => inFlightWork' \notin returned'.reclaimed
  /\ Left \in {{}, Queued(workQueue)} \/ Left = {Front.work}

RetirementIsExact == [][ReclaimsWhatLeaves]_vars

(* A work's fate after its first failed fragment: retired in that step. *)
FailureLeaves ==
  ForwardInFlight /\ ~inFlight' /\ ~returned'.applied =>
    inFlightWork \in Left

FailureRetires == [][FailureLeaves]_vars

-----------------------------------------------------------------------------
(* Refinement. *)

Entry(slot) ==
  [work |-> slot.work, delivery |-> slot.delivery, extent |-> slot.quantity,
   left |-> slot.remaining]

Entries(slots) == [i \in DOMAIN slots |-> Entry(slots[i])]

ServiceBusy ==
  IF ~inFlight THEN "No"
  ELSE IF inFlightAction.kind = "Poll" THEN "Poll" ELSE "Write"

Service == INSTANCE StoreForwardSpec WITH
  Extents <- FragmentCounts,
  queue <- Entries(workQueue),
  busy <- ServiceBusy,
  told <- returned

(* Whatever copies and tables the caller brings, the facade is a FIFO of   *)
(* works served one downstream action at a time: the revision, the         *)
(* sequences, the ledger and the planner add no behaviour and no report    *)
(* that the plain service does not have.                                   *)
ImplementsService == Service!ServiceSpec

-----------------------------------------------------------------------------
(* Liveness. *)

(* The caller's lifecycle stops changing at some point. *)
SessionSettles == <>[][FALSE]_session

(* Once the lifecycle settles, every admitted work leaves the queue: it    *)
(* completes, or is retired as stale, or is given up by the caller.  Polls *)
(* cannot hold it back for ever.                                           *)
EveryWorkRetires ==
  SessionSettles =>
    \A w \in Works : w \in Queued(workQueue) ~> w \notin Queued(workQueue)

PollInFlight == inFlight /\ inFlightAction.kind = "Poll"

(* Polls are not starved by writes: while some poll is always due, poll    *)
(* requests reach the wire again and again, unless the lifecycle never     *)
(* settles or the caller keeps resetting the burst counter.                *)
PollsKeepRunning ==
  SessionSettles /\ <>[][~Reset]_vars => []<>PollInFlight
=============================================================================
