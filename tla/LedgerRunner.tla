----------------------------- MODULE LedgerRunner -----------------------------
(***************************************************************************)
(* Direct use of the completion ledger, without the facade: a runner keeps *)
(* several works outstanding at once, one fragment of each on the wire,    *)
(* and their terminal results come back in any order, late, twice, or in a *)
(* session that no longer lets them count.                                 *)
(*                                                                         *)
(* The runner does what the ledger's header asks of it: it reserves,       *)
(* records the fragments a plan yields, resolves terminal results, closes  *)
(* planning after a failure (or goes on), releases what has drained, and   *)
(* abandons at lifecycle boundaries.  `sent' is everything a caller may    *)
(* still present to resolve(): a request is open from its admission until  *)
(* its result counted or its work was abandoned, and afterwards it may     *)
(* linger as a late or repeated result.  Requests that are refused leave   *)
(* everything as it was and are the stuttering steps.                      *)
(*                                                                         *)
(* Environment assumption: a sequence number does not come round again     *)
(* while a request that carries it is still about (2^32 requests later).   *)
(***************************************************************************)
EXTENDS CompletionLedger, Sequences

CONSTANTS
  Works,            \* identities the runner may reserve
  Deliveries,       \* with these deliveries
  Extents,          \* numbers of fragments a plan may have
  SequenceModulus,  \* 2^32
  Sessions,         \* views of the caller's lifecycle
  InitialSession,
  MaxSent           \* bound: requests open or lingering at once

ASSUME RunnerAssumption ==
  /\ Works \subseteq WorkIdentity
  /\ Deliveries \subseteq IngressDelivery
  /\ Extents \subseteq 1..MaxFragmentIndex + 1
  /\ SequenceModulus \in Nat \ {0, 1}
  /\ Sessions \subseteq SessionStateView
  /\ InitialSession \in Sessions
  /\ MaxSent \in Nat

VARIABLES
  ledger,           \* CompletionLedger
  requestSequence,  \* runner: last sequence given to a planned request
  plan,             \* runner: per reserved work, its extent and cursor
  session,          \* caller: current lifecycle view
  sent,             \* requests whose results may still be presented
  history           \* per reserved work, what resolve() was told and said

vars == <<ledger, requestSequence, plan, session, sent, history>>

-----------------------------------------------------------------------------
Plan == [extent : Extents, issued : Nat]

SentRequest == [request : PlannedWriteRequest, open : BOOLEAN]

History ==
  [outcomes : Seq(DownstreamOutcome), notices : Seq(CompletionNotice)]

(* What the planner's cursor of a work yields next. *)
PlannedFragment(work) ==
  [work |-> work,
   requestSequence |-> NextNonZero(requestSequence, SequenceModulus),
   fragmentIndex |-> plan[work].issued,
   delivery |-> ledger[work].aggregate.delivery,
   finalFragment |-> plan[work].issued + 1 = plan[work].extent]

Observed(request, outcome) == [identity |-> request, outcome |-> outcome]

Resolution(request, outcome, view) ==
  ResolveStatus(ledger, request, Observed(request, outcome), view)

Decision(request, outcome, view) ==
  ResolutionStatus(request, Observed(request, outcome), view,
                   ledger[request.work].aggregate)

-----------------------------------------------------------------------------
Init ==
  /\ ledger = [w \in {} |-> NewSlot(NoWork, "Rejected")]
  /\ requestSequence = 0
  /\ plan = [w \in {} |-> [extent |-> 1, issued |-> 0]]
  /\ session = InitialSession
  /\ sent = {}
  /\ history = [w \in {} |-> [outcomes |-> <<>>, notices |-> <<>>]]

ReserveWork(work, delivery, extent) ==
  /\ ReserveStatus(ledger, work, delivery) = "Reserved"
  /\ ledger' = Reserve(ledger, work, delivery)
  /\ plan' = [w \in DOMAIN plan \cup {work} |->
                IF w = work THEN [extent |-> extent, issued |-> 0]
                ELSE plan[w]]
  /\ history' = [w \in DOMAIN history \cup {work} |->
                   IF w = work THEN [outcomes |-> <<>>, notices |-> <<>>]
                   ELSE history[w]]
  /\ UNCHANGED <<requestSequence, session, sent>>

IssueFragment(work) ==
  LET request == PlannedFragment(work)
  IN  /\ plan[work].issued < plan[work].extent
      /\ Cardinality(sent) < MaxSent
      /\ \A s \in sent : s.request.requestSequence # request.requestSequence
      /\ IssueStatus(ledger, request) = "Recorded"
      /\ ledger' = RecordIssued(ledger, request)
      /\ requestSequence' = request.requestSequence
      /\ plan' = [plan EXCEPT ![work].issued = @ + 1]
      /\ sent' = sent \cup {[request |-> request, open |-> TRUE]}
      /\ UNCHANGED <<session, history>>

(* The result may be presented again later (kept), or never. *)
ResolveResult(s, outcome, kept) ==
  LET request == s.request
      notice == ResolutionNotice(request, outcome,
                                 ledger[request.work].aggregate)
  IN  /\ Resolution(request, outcome, session) = "Resolved"
      /\ ledger' = Resolve(ledger, request, outcome)
      /\ sent' = (sent \ {s}) \cup
                   IF kept THEN {[request |-> request, open |-> FALSE]} ELSE {}
      /\ history' = [history EXCEPT
                       ![request.work].outcomes = Append(@, outcome),
                       ![request.work].notices =
                          IF notice = "None" THEN @ ELSE Append(@, notice)]
      /\ UNCHANGED <<requestSequence, plan, session>>

(* A result that no longer counts is not presented again. *)
Forget(s) ==
  /\ ~s.open
  /\ sent' = sent \ {s}
  /\ UNCHANGED <<ledger, requestSequence, plan, session, history>>

ClosePlanning(work) ==
  /\ ledger' = ClosePlanningAfterFailure(ledger, work)
  /\ UNCHANGED <<requestSequence, plan, session, sent, history>>

(* The runner drops its plan with the ledger's slot.  After a release no   *)
(* request may be open; abandoned requests linger.                         *)
DropPlans(remaining) ==
  /\ plan' = [w \in DOMAIN remaining |-> plan[w]]
  /\ history' = [w \in DOMAIN remaining |-> history[w]]
  /\ UNCHANGED <<requestSequence, session>>

ReleaseWork(work) ==
  /\ ledger' = Release(ledger, work)
  /\ DropPlans(ledger')
  /\ UNCHANGED sent

AbandonTo(remaining) ==
  /\ ledger' = remaining
  /\ DropPlans(remaining)
  /\ sent' = {IF s.request.work \in DOMAIN remaining THEN s
              ELSE [s EXCEPT !.open = FALSE] : s \in sent}

AbandonWork(work) == AbandonTo(Abandon(ledger, work))

AbandonOldGeneration(generation) ==
  AbandonTo(AbandonGeneration(ledger, generation))

AbandonStale == AbandonTo(AbandonNotCurrent(ledger, session))

Clear == AbandonTo(WithoutWorks(ledger, DOMAIN ledger))

ChangeSession(view) ==
  /\ session' = view
  /\ UNCHANGED <<ledger, requestSequence, plan, sent, history>>

Next ==
  \/ \E work \in Works, delivery \in Deliveries, extent \in Extents :
       ReserveWork(work, delivery, extent)
  \/ \E work \in DOMAIN ledger :
       \/ IssueFragment(work)
       \/ ClosePlanning(work)
       \/ ReleaseWork(work)
       \/ AbandonWork(work)
       \/ AbandonOldGeneration(work.sessionGeneration)
  \/ \E s \in sent :
       \/ \E outcome \in DownstreamOutcome, kept \in BOOLEAN :
            ResolveResult(s, outcome, kept)
       \/ Forget(s)
  \/ AbandonStale
  \/ Clear
  \/ \E view \in Sessions : ChangeSession(view)

Spec == Init /\ [][Next]_vars

-----------------------------------------------------------------------------
(* Properties. *)

(* The ledger, the runner's plans and the requests about have their types. *)
TypeOK ==
  /\ DOMAIN ledger \subseteq Works
  /\ \A w \in DOMAIN ledger :
       /\ ledger[w] \in LedgerSlot
       /\ ledger[w].aggregate.work = w
       /\ Summarize(ledger[w]) \in WorkCompletionSummary
  /\ DOMAIN plan = DOMAIN ledger
  /\ \A w \in DOMAIN plan : plan[w] \in Plan
  /\ DOMAIN history = DOMAIN ledger
  /\ \A w \in DOMAIN history : history[w] \in History
  /\ requestSequence \in 0..SequenceModulus - 1
  /\ session \in Sessions
  /\ sent \subseteq SentRequest

(* resolve(), the three comparisons before the transition and the session  *)
(* check in it: whatever view the session takes, a result counts iff its   *)
(* request is open and its work is current; an open request of a work that *)
(* is not current is refused as stale and for no other reason.  So results *)
(* of different works may come in any order, a repeated result or one of   *)
(* an abandoned work never settles a later work of the same identity, and  *)
(* the order, terminal and aggregate checks of the transition cannot fail  *)
(* behind the ledger's own.                                                *)
ResultsCountOnce ==
  \A s \in sent, outcome \in DownstreamOutcome, view \in Sessions :
    LET status == Resolution(s.request, outcome, view)
    IN  IF ~s.open THEN status \in {"WorkNotFound", "NoOutstandingRequest",
                                    "RequestMismatch"}
        ELSE IF WorkCurrent(s.request.work, view) THEN status = "Resolved"
        ELSE /\ status = "CompletionRejected"
             /\ Decision(s.request, outcome, view) = "StaleSession"

SomeFailed(outcomes) ==
  \E i \in DOMAIN outcomes : outcomes[i] # "Applied"

(* combineWorkOutcomes() over a whole work: no loss of certainty is        *)
(* forgotten, and none is invented.                                        *)
WorstOutcome(outcomes) ==
  LET seen == {outcomes[i] : i \in DOMAIN outcomes}
  IN  IF "FailedAfterSend" \in seen THEN "TerminalFailure"
      ELSE IF "SendUncertain" \in seen THEN "UncertainSend"
      ELSE IF "DefinitelyNotSent" \in seen THEN "DefinitelyNotSent"
      ELSE "Applied"

(* summarize(): a work is reported as applied exactly when each of its     *)
(* planned fragments was; a failure is reported from the first one on with *)
(* the least certain outcome so far, in whatever order the works' results  *)
(* came; and a drained work has no request about that could still count.   *)
SummaryTellsHistory ==
  \A w \in DOMAIN ledger :
    LET summary == Summarize(ledger[w])
        outcomes == history[w].outcomes
        whole == Len(outcomes) = plan[w].extent
    IN  /\ summary.outcome =
             IF whole \/ SomeFailed(outcomes) THEN WorstOutcome(outcomes)
             ELSE "Pending"
        /\ whole => summary.drained
        /\ summary.drained =>
             /\ whole \/ SomeFailed(outcomes)
             /\ \A s \in sent : s.open => s.request.work # w

(* The notices resolve() emitted for a work: none unless it is tracked, a  *)
(* failure at its first failed fragment, a success after its last fragment *)
(* when all applied, and never a second one, whatever follows.             *)
NoticeOnce ==
  \A w \in DOMAIN ledger :
    history[w].notices =
      IF ~TracksPublicCompletion(ledger[w].aggregate.delivery) THEN <<>>
      ELSE IF SomeFailed(history[w].outcomes) THEN <<"WorkFailed">>
      ELSE IF Len(history[w].outcomes) = plan[w].extent
        THEN <<"WorkSucceeded">>
      ELSE <<>>

(* release(): debt is discarded by the abandoning calls only.  An open     *)
(* request always has the slot that will accept its result.                *)
OpenRequestsHaveSlots ==
  \A s \in sent :
    s.open => /\ s.request.work \in DOMAIN ledger
              /\ ledger[s.request.work].issuedRequest = s.request
              /\ ledger[s.request.work].outstandingRequests = 1

(* The three operations together: a current work is never wedged.  Its     *)
(* next fragment can be recorded, or its open request resolved, or it has  *)
(* drained and can be released; closing planning never strands a request.  *)
NoWorkIsWedged ==
  \A w \in DOMAIN ledger :
    \/ Drained(ledger[w])
    \/ /\ plan[w].issued < plan[w].extent
       /\ IssueStatus(ledger, PlannedFragment(w)) = "Recorded"
    \/ \E s \in sent :
         /\ s.request.work = w
         /\ \A view \in Sessions, outcome \in DownstreamOutcome :
              WorkCurrent(w, view)
                => Resolution(s.request, outcome, view) = "Resolved"
=============================================================================
