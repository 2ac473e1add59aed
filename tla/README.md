# ModbusRTUStoreForwardBridge in TLA+

TLA+ models, TLC runs and TLAPS proofs for the C++ headers under
`src/include/modbus_rtu_bridge/`: a header-only library that queues Modbus
writes accepted upstream, splits them into requests a downstream RTU bus can
carry, interleaves them with polls, and reports what became of each write.

Everything runs in one caller's thread; there are no locks, no callbacks and no
persistence. What makes the library hard is the *protocol*: the caller holds
copies of proposals and of in-flight actions, the session it belongs to may roll
over at any point between two calls, results may be reported late, twice or for
the wrong action, and one call updates several records (queue, ledger, poll
fairness, in-flight action) by separate steps, any of which may refuse.

## 1. Inventory

| Component (header) | State | Operations | Interacts with |
|---|---|---|---|
| `StoreForwardBridge` | work queue, ledger, poll state, request sequence, proposal revision, in-flight action and work | `admitWork`, `nextAction`, `admitAction`, `complete`, `discardOneStaleWork`, `abandonFront`, `reset` | owns ledger, queue and planner state; calls `ForwardPlanner`, `DownstreamExecutor` |
| `CompletionLedger` | an array of slots, one per admitted work | `reserve`, `recordIssued`, `resolve`, `closePlanningAfterFailure`, `release`, `abandon`, `abandonGeneration`, `abandonNotCurrent`, `clear` | `resolveCompletion` of `CompletionTransition` |
| `CompletionTransition` | none (pure; updates an aggregate passed in) | `resolveCompletion`, `applyAppliedImageTransition` | session view, applied image |
| `IngressWork` | none (vocabulary) | `isAccepted`, `workCurrent`, token and generation order | everything |
| `PollPlanner`, `PollIndexScan` | round-robin index, burst counter, last poll time | `select`, `commit`; `beginPollScan`, `nextIndex`, `nextDue` on a cursor of the caller | candidate table of the caller |
| `ForwardPlan` (`ForwardPlanner`) | a cursor over a work's payload | `begin`, `next` | `RouteTable` |
| `FixedStorage` (`FixedRingQueue`) | head, count, caller's array | `pushBack`, `popFront`, `front`, `at`, `clear` | facade queue |
| `RouteTable` | the caller's array of routes, its span cursor | `validate`, `locate`, `inspectSpan`, `beginSpan`, `next` | `ForwardPlanner` |
| `CacheImage` | desired and applied images in the caller's memory | `captureDesired`, `markApplied`, `restore` | applied transitions of `CompletionTransition` |
| `DownstreamExecutor` | none | request validation, dispatch to a backend | the caller's Modbus master |
| `adapters/ModbusRTUMasterBackend` | none | the eight reads and writes, `exceptionCode` | the master, which keeps the code of its last transaction |

How they interact: the caller admits a work (`admitWork` reserves a ledger entry
and pushes a queue slot), asks for a proposal (`nextAction`, which changes
nothing), and admits it (`admitAction` previews again and requires the same
proposal, commits poll fairness, records the fragment as issued, advances the
cursor and puts the action in flight). It executes the action on the bus and
reports its outcome (`complete`), which resolves the ledger entry, may emit a
public notice, and takes the work off the queue once it is drained. A work of an
old session is retired by `complete` when its late result arrives, or by
`discardOneStaleWork` when it is idle at the front.

What is hard, and what should hold:

- *Coupling.* Queue, ledger, cursor and in-flight record are updated by separate
  calls inside one facade call. They must agree after every call, and no call may
  stop half-way.
- *Stale proposals.* A proposal may be admitted after anything else happened. It
  must be refused unless it is what a preview would return now.
- *Session rollover.* A result that arrives for an old session may not be applied
  or announced, yet its work must leave the queue.
- *Notices.* A tracked work is announced once, with success only if every
  fragment applied; silent works are never announced.
- *Partial failure.* After a failed fragment nothing more of the work is sent.
- *Fairness.* Neither polls nor writes starve the other.
- *Direct use.* Without the facade a runner has several works outstanding; results
  come in any order, late, twice, or after their work was torn down. Each counts
  once, no work is wedged and no debt is forgotten.
- *Scans.* A handler may decline candidates, give a pass up, or find the table
  changed. No due candidate may be missed in a full pass, or passed twice.
- *The image.* What the caller shows upstream, what it believes applied and what the
  devices hold are three things; a late failure may not undo a newer write.
- *Counters.* Sequences and revisions skip zero when they wrap; the burst counter
  saturates; fragment indices and ring indices stay inside their widths.

`PROJECT.json` lists each hazard at its line with the properties that cover it.

## 2. Modules

| Module | Models | Kind |
|---|---|---|
| `IngressWork` | deliveries, identities, session views, wrapping counters | operators |
| `CompletionTransition` | `resolveCompletion`: status, notice, new aggregate | operators |
| `CompletionLedger` | each ledger operation as a status and a new ledger | operators |
| `PollPlanner` | `select`, `commit`, and the incremental scan | operators |
| `RouteTable` | ranges, mappings, what `locate` answers, `inspectSpan` | operators |
| `CacheImage` | the two images and their range operations, the applied transition | operators |
| `DownstreamExecutor` | requests, validation, what the adapter hands to the master | operators |
| `StoreForwardSpec` | what the facade promises: a FIFO of works, one downstream action | abstract specification |
| `StoreForwardBridge` | the facade, its caller's copies and session; implements `StoreForwardSpec` | state machine |
| `LedgerRunner` | the ledger used directly by a runner with several works outstanding | state machine |
| `LedgerCalls` | the ledger as a function, under every call | abstract specification |
| `LedgerSlots` | the slot array and its occupancy counter; implements `LedgerCalls` | state machine |
| `PollRounds` | handler passes over a table that changes, beside `select` | state machine |
| `RouteSearch` | `validate` and `locate`, one loop iteration per step, with the width of the search bounds | state machine |
| `RouteSpan` | `inspectSpan` one lookup per step, `beginSpan` and `next` | state machine |
| `ForwardPlan` | `begin` and `next` over one register table, and a caller that replaces the routes | actions |
| `ForwardExecution` | `ForwardPlan` composed with the executor, the adapter and devices | composition |
| `CachedForwarding` | `StoreForwardSpec` composed with `CacheImage` and devices | composition |
| `BoundedFifo` | what a queue promises | abstract specification |
| `FixedRingQueue` | head, size and index arithmetic over an array; implements `BoundedFifo` | state machine |
| `MC...` | constants for TLC | instances |
| `StoreForwardBridgeProofs` | the planner's lemmas, the facade's inductive invariant, safety and action properties, the service it implements, the ring behind its queue | proofs |
| `LedgerRunnerProofs` | the runner's inductive invariant and its safety theorems | proofs |
| `LedgerSlotsProofs` | the slot array implements the ledger | proofs |
| `PollRoundsProofs` | deadlines, burst, passes and round-robin order | proofs |
| `RouteSearchProofs` | validation and search are exact, the search is logarithmic | proofs |
| `RouteSpanProofs` | the walk is exact, segments tile and are local | proofs |
| `ForwardExecutionProofs` | plans are exact, tile and are local, devices receive the snapshot | proofs |
| `CachedForwardingProofs` | the images are real and newest, successes are complete | proofs |

`StoreForwardBridge` extends `CompletionLedger` (which extends
`CompletionTransition` and `IngressWork`) and `PollPlanner`, as the facade's
header includes theirs. `RouteSearch`, `RouteSpan` and `ForwardPlan` extend
`RouteTable`. `LedgerRunner`, `LedgerCalls` and `LedgerSlots` use the same ledger
operators as the facade, and `PollRounds` the same planner operators.

The modules meet where one takes for granted what another establishes:

- the facade's `workQueue` is a sequence; `FixedRingQueue` shows that the ring
  behind it is a bounded FIFO in which `at` and `front` reach the right entry;
- `ForwardPlan` and `InspectSpan` look a route up with `Located`; that the loop of
  `locate()` computes it on a valid array of at most 32767 routes is a theorem
  (`SearchIsLocated`);
- the facade reduces a plan to its number of fragments and takes for granted that
  `next()` succeeds on each and marks the last one final; `ForwardPlan` shows both
  (`ReadyNeverFails`, `FragmentsTile`) while the routes stay what they were.

These are separate specifications, joined by this argument, not by a checked
composition. Four joints are compositions or refinements, checked and proved:

- `StoreForwardBridge` implements `StoreForwardSpec` (`ImplementsService`): with
  each queue slot mapped to a work and its number of unsent fragments, the
  in-flight record to what the lane is busy with, and the report of the last call
  to itself, every step is a step of the service or a stutter. Ledger, planner,
  revisions and sequences do not appear in the service;
- `CachedForwarding` extends `StoreForwardSpec` with images and devices: what it
  shows of the service holds of the facade;
- `LedgerSlots` implements `LedgerCalls` (`ImplementsLedger`), which has the
  ledger the facade and the runner use;
- `ForwardExecution` extends `ForwardPlan`, and executes the very fragments it plans.

### State and code

| Variable | Code |
|---|---|
| `workQueue` | `workQueue_`, a `FixedRingQueue<StoreForwardWorkSlot>`, front first |
| `ledger` | `ledger_`, as a function from the identities of the occupied slots |
| `pollState` | `pollState_` |
| `requestSequence`, `revision` | `lastRequestSequence_`, `proposalRevision_` |
| `inFlight`, `inFlightAction`, `inFlightWork` | the in-flight flag, action and work |
| `session` | the `SessionStateView` the caller passes to each call |
| `held` | a copy of an action the caller kept |
| `returned`, `wire` | history: what the last call handed back; the fragments each queued work has put on the wire and their outcomes |

`RouteSearch`: `hasStorage`, `routeCount`, `routes` are the view; `status`,
`tableIndex`, `routeIndex`, the two `previous...` values and their flags are the
locals of `validate()`; `low`, `high`, `routeIndexOut` those of `locate()`, whose
arguments are `table` and `upstreamAddress`; `search` is where the search stands,
`Undefined` after a read outside the caller's array. `probes` is history.

`ForwardPlan`: `routes` and `options` are the planner's, `work` to `active` the
`ForwardCursor`; `begun` and `planned` are what the last calls returned; `asked`,
`fragments` and `stable` are history.

`FixedRingQueue`: `storage`, `head`, `size`, `capacity` as in the code, `answer`
the value the last call returned.

`LedgerRunner`: `ledger` and `session` as above; `plan` is, per work, the planner
cursor of the runner; `sent` the requests whose results may still be presented,
open ones and those that linger; `history` what `resolve` was told and answered.
`LedgerSlots`: `slots` and `size` are `slots_` and `size_`, `storage` tells whether
`slots_` is a pointer to anything.

`PollRounds`: `state` is the `PollPlannerState`, `cursor` the `PollScanCursor`, `now`
and `polls` are the caller's; `selection` is what the pass was last offered. `dueIn`
(the true distance to each deadline, which the wrapping clock does not tell),
`offered`, `unseen`, `passed` and `burst` are history.

`RouteSpan`: `status`, `current`, `unwalked` are the locals of `inspectSpan()`,
`nextAddress`, `remaining`, `sourceOffset` the `RouteCursor`; `asked`, `segments`,
`answered` and `stable` are history.

`CachedForwarding`: `queue`, `busy`, `session`, `told` are the service's; `cache` is
the `DesiredAppliedCache`, `snapshots` the immutable payloads of queued works,
`device` and `reached` what the devices hold and whether the one in flight has
acted. `doubt` is history: the registers whose last request ended with an unknown
effect. `ForwardExecution` adds to the planner the values `written` to devices, the
master's `exception` code and the last `completion`.

In the facade, each public operation is one action; an operation that returns an error without
changing state is a stuttering step. `AdmitWork` is both overloads.
`AdmitAction` has one disjunct per way it can succeed: `ConsumePoll` (a gated
phase that uses up its turn), `AdmitPoll`, `AdmitForward`. `Complete` likewise:
`CompletePoll`, `CompleteStale`, `CompleteForward`. The order of the code's
checks is kept in `PreviewStatus`, `AdmitActionStatus`, `CompleteStatus`,
`IssueStatus`, `ResolveStatus` and `ResolutionStatus`, so that *which* refusal a
call returns is part of the model.

### Abstractions

- A work's payload is a number of fragments; `quantity` and `remaining` count
  fragments. Zero stands for a work `begin()` rejects. That `next()` succeeds on
  every fragment of an accepted work is assumed here. A work has at most
  `MaxFragmentIndex` (0xFFFF) fragments, since a quantity is a 16-bit register
  count and each fragment carries at least one register. (`ForwardPlan`, which
  keeps addresses and quantities, is the module that shows what is assumed here.)
- Addresses, payload pointers, opaque contexts and user data never influence a
  decision and are left out; a poll's request is a model value, and the ones
  `DownstreamExecutor` accepts are the set `ValidPollRequests`.
- A ledger is indexed by identity, not by array position; `LedgerSlots` shows that
  nothing is lost by it.
- *Runner.* A sequence number does not come round again while a request that carries
  it is still about (2^32 requests later). Requests that are refused change nothing
  and are stuttering steps.
- *Passes.* One handler pass at a time; a consumed candidate gets a new deadline, as
  the header asks; deadlines stay less than half the tick range away. An index scan
  asks for one index at a time, and `PollIndexScan` publishes with its commit only,
  so both are passes in which `InspectIndex` is taken. A table replaced by one of the
  same size cannot be told apart: the commit then counts for the new table.
- *Images.* A register is a route of its own, so a work has one fragment per register;
  no two registers share a device location. A device acts before the result of a
  request is reported or never, and the reported outcome does not contradict it. The
  caller rolls back the registers of a work that leaves without success, where no
  queued work claims them, under one lock. Result and rollback are one step, as the
  guide requires. A result that comes back into another session moves nothing, so a
  write that reached its device then leaves the applied image behind: such registers
  are in `doubt`, which is the price of the session gate.
- *Execution.* A snapshot holds 1, 2, 3, ..., so that a value tells its place. A
  transaction is done, refused with a code, or unanswered, done or not.
- The caller holds at most one old action (`held`) besides the one in flight, and
  admits works with identities from `Works`, possibly one that left earlier.

## 3. Runs

| Run | Question | Instance | States |
|---|---|---|---|
| `bridge_works` | Do queue, ledger, in-flight record and wire stay coupled, are notices, retirements and the session gate exact? | writes only; three identities in two generations, queue and ledger of 2, works of 0 to 2 fragments, three deliveries, four session views | 435,436 |
| `bridge_polls` | Is a proposal that describes the present always admitted, and none refused half-way, with polls of every kind? | one work of 2 fragments at a time; tables that grow and shrink, with disabled, gated, ill-formed and half-range-distant candidates; two times; two ready sessions | 120,724 |
| `route_search` | Does `validate()` accept exactly the arrays a binary search may rely on, each table on its own, and does `locate()` find every mapped address in a logarithmic number of probes? | two tables per route, every array of up to 4 of 6 mappings over 4 addresses: empty, overlapping, unsorted, past the last address, with unequal counts | 4,900,448 |
| `route_wide` | Does `locate()` keep its word on every array `validate()` accepts? *(violated)* | indices of two bits, up to 3 routes | — |
| `ring_queue` | Is the ring a bounded FIFO at every head position? | capacities 0 to 7 of 8 index values, two values, with and without storage | 25,090 |
| `ledger_runner` | Does each result count exactly once, does no work get wedged, and do summary and notices tell what the results said, when several works are outstanding? | ledger of 2, tracked works of 1 and 2 fragments with identities in two generations, two requests about, sessions that come and go, every outcome and every teardown call | 1,524,000 |
| `ledger_slots` | Does the array with its counter behave as the ledger? | 2 slots, every call with every argument, with and without storage | 1,838 |
| `poll_rounds` | Is any due candidate missed, offered twice or passed twice, or passed by a write once the burst is used up? | tables of 0, 2, 3 candidates, replaced at any moment; 4 ticks, every deadline; burst bound 1, counter up to 2 | 468,208 |
| `cached_forwarding` | Do the images tell the truth about devices and works? | 2 registers, 2 values, 3 queued works of 0 to 2 registers, starts inside, at the end and past the image, every outcome, session rollover | 300,496 |
| `route_span` | Does the walk find every gap, and do segments tile the span? | every searchable array of up to 3 of a few mappings over 5 addresses, every span, replaced at any moment | 38,289 |
| `forward_execution` | Does `begin()` let exactly the routable works through, do the fragments of a plan tile its payload, each within one endpoint, and does what reaches the devices mirror the snapshot? | five arrays of up to 3 routes over 5 addresses (adjacent, with a gap, with an empty route, none), replaced at any moment; limits 0, 2 and 4, three policies; works of every extent and one that fails each check; coils and registers, every response, ill-formed requests in between | 555,488 |
| `bridge_liveness` | With a fair driver, does every work leave the queue, and do polls keep running? | two identities, one always-due poll, burst bound 1 | 23,048 |

Bounds. Two works are enough for a front and one behind it; every action touches
only the front (or all). Two fragments give a first, a middle that is not final
and a final one, and a cursor at `MaxFragmentIndex`. `SequenceModulus = 3` wraps
sequences and revisions after two steps, so that stale copies meet *reused*
revisions: more behaviours than 2^32 allows, and the re-preview in `admitAction`
has to cope alone. `CounterLimit = 2` reaches saturation, `TickModulus = 4` has
deadlines exactly half the tick space away (in `bridge_polls`, where nothing depends
on the answer; the header leaves it undefined, and `poll_rounds` stays below). `Sessions` are a ready session, its
teardown, the next one's initialisation and the next one ready; generations
never go back; `bridge_polls` has the two ready ones only.

A route array of four gives every shape of search interval, with empty ranges
between populated ones; four addresses leave room for a gap, for an overlap and for
a range that ends at the last address, and `ValidationExact`, `SearchInBounds` and
`LocateExact` prove the rest for every size. Three routes under a plan give a first, a middle and a last route.
A ring of three wraps with every number of entries, one of seven is the largest
that eight index values allow, where the sum of two indices needs another bit.

Two requests about are enough for one outstanding and one that lingers from an
abandoned residence of the same identity, or for two works answered in either order.
`ledger_runner` has one token in two generations and one besides; that silent works
are not announced is what `bridge_works` checks (`ExactNotice`). Tables that shrink from three to
two leave the round-robin index out of range; four ticks wrap within one deadline.
With two registers works overlap in one register, both or none.

`route_search` and `route_wide` switch deadlock checking off: once validation has
refused an array the caller may not search it, and after a read outside the
array nothing more can be said of the program.

Properties: the type invariant of the facade, where it says that no revision takes
the reserved zero; `LockStep` (queue, ledger, cursor and resolution index agree, per work), `InFlightIsFront`, `WireOrder` (each fragment
once, in order, after its predecessor applied), `DefensiveBranchesUnreachable`
(a proposal that describes the present is admitted, so no sequence is the reserved
zero; no accepted proposal is refused by a later sub-step; no matching completion is
refused, which would leave the facade busy for ever), and per step `ExactNotice`,
`StaleHasNoEffect`, `RetirementIsExact`. For the parts below:
`ValidationIsExact`, `LocateIsExact`, `SearchStaysInside`, `LogarithmicSearch`;
`ReadyIsExact`, `ReadyNeverFails`, `FragmentsTile`, `FragmentIsLocal`,
`DevicesMirrorSnapshot`; `InspectionIsExact`, `SegmentsTile`, `SegmentIsLocal`; for
the direct ledger `ResultsCountOnce`, `OpenRequestsHaveSlots`, `NoWorkIsWedged`,
`SummaryTellsHistory`, `NoticeOnce`, `SizeCountsWorks`, `AnswersFromArray`; for scans
`DeadlinesAreExact`, `PassOffersEachOnce`, `NobodyPassedTwice`, `BurstIsBounded`; for
images `AppliedIsReal`, `VisibleIsNewest`, `SuccessIsOnDevice`; and the refinements
`RingIsFifo`, `ImplementsLedger` and `ImplementsService`. The type invariants of the
other modules declare their variables; they are proved (of `ForwardExecution` and
`PollRounds` as parts of the inductive invariants), and no run spends time on them.
`FailureRetires`, which follows from `ImplementsService`, is proved only.

### A disagreement

`route_wide` shows one. `RouteTableView` takes a `uint16_t` number of routes and
`validate()` puts no lower limit on it, but `locate()` keeps its bounds in
`int16_t` (`RouteTable.h:196`). Above 32768 routes `high` starts out negative, the
loop is never entered and every address of a valid table is reported unmapped;
with exactly 32768, `low` can wrap and the next probe reads outside the array.
The run has two-bit indices, so that three routes are already too many. The
remedy is a limit in `validate()` or wider bounds; up to 32767 routes the search
is proved right.

Every property of a passing run has a mutant in `PROJECT.json`: a plausible slip
in a mapped definition under which TLC finds that property violated. The mutated
definitions (`NextWithZero`, `StuckSlot`, ...) stand before their targets, marked
as slips.

### Fairness

`FairSpec` adds weak fairness of three actions, the driver loop the API guide
prescribes (`include/modbus_rtu_bridge/README.md`): the caller admits some
current proposal whenever one exists, reports a terminal outcome for every
admitted action, and discards stale works at the front. Nothing else is fair:
works need not arrive, copies need not be used, nothing is abandoned or reset.
`EveryWorkRetires` and `PollsKeepRunning` also assume that the session view
settles (`SessionSettles`) — a lifecycle that flips between sessions for ever may
retire nothing — and the second that the caller stops resetting, since each reset
returns the burst counter to zero.

## 4. Proofs

TLAPS proves every safety property that a passing run checks, the three
refinements included, for every value of the constants that meets the assumptions
named in the modules (`...Assumption`): the constants have their types, a route
array is searchable, the burst bound is at most the counter's limit, a work needs
at most `MaxFragmentIndex` fragments, an image fits its address space. Only
`SearchInBounds`, `LocateExact`, `SearchIsLogarithmic` and `SearchIsLocated` assume
more, and `route_wide` shows that they must.

*Planner* (`StoreForwardBridgeProofs`). `FirstDueIsFirst`: the candidate a scan
yields is due and everything scanned before it is not. It rests on `LeastNatural`,
the least-element principle, derived from the well-foundedness of strict inclusion
on finite sets. `CommitNeverRefuses`: `commit` accepts a selection made against the
table in force and keeps the fairness state well formed.

*Facade* (`StoreForwardBridgeProofs`), for every set of works, deliveries, sessions
and candidate tables, every queue and ledger capacity and every counter width. The
inductive invariant is

    IInv == TypeOK /\ LockStep /\ InFlightIsFront /\ WireOrder

No part is inductive alone. That a completion of the in-flight action finds its
ledger entry at the front needs `InFlightIsFront` and `LockStep`; that the entry
of a work becomes idle again after a middle fragment needs the agreement of
cursor, issue index and resolution index; that a fragment index cannot overflow
needs the fragment count `WireOrder` keeps. The proof has one lemma per action.
`RemoveFront` is the shared end of every path that takes the front work away,
`CouplingFrame` of every step that leaves queue, ledger and trace alone,
`AcceptedIsCurrent` reduces any accepted action to a present-state proposal.

Theorems: `TypeCorrect`, `QueueAndLedgerInStep`, `FlightIsFront`,
`FragmentsInOrder`, `DefensiveBranchesAreDead`, and of single steps
`NoticesAreExact`, `SessionGateHolds`, `ReclaimsAreExact`, `FailuresRetire` (a
failed fragment is the last of its work).

*Service* (`StoreForwardBridgeProofs`). `FacadeImplementsService`: `Spec` implies
`StoreForwardSpec`'s under the mapping above. From `IInv`, each successful call is
one step of the service: that admission takes the front work's next fragment, that a
work leaves exactly with its last fragment or its first failure, and that the notice
is then the right one are facts of the coupling, not of the calls alone.

*Ring* (`StoreForwardBridgeProofs`). `RingTypes`, and `ImplementsFifo`: `RingSpec`
implies `BoundedFifo`'s under the mapping `queue <- RingEntries`, the slots in
logical order from the head. The lemmas behind it: distinct logical indices have
distinct slots; removing the front shifts every entry by one; a write to one slot
changes one entry.

*Runner* (`LedgerRunnerProofs`), for every number of works, slots, fragments and
requests about. The inductive invariant is

    IInv == TypeOK /\ SlotsInv /\ UniqueRequests /\ OpenRequestsHaveSlots
              /\ OutstandingIsSent

`SlotsInv` ties each slot's aggregate and issue index to the runner's plan;
`UniqueRequests` says that no two requests about share a sequence number, without
which the late result of an abandoned residence could match a later request;
`OutstandingIsSent` that every outstanding request is open in `sent`, the converse
of `OpenRequestsHaveSlots`. Theorems: `RunnerTypes`, `OpenRequestsKept`, `CountOnce`,
`NeverWedged`. `SummaryFaithful` and `OneNoticePerWork` rest on a second invariant,
`TellsInv`: each slot's outcome, failure flag and notice flag are those of the
sequence of results the work has had, and what is issued is what was answered plus
what is outstanding.

*Slots* (`LedgerSlotsProofs`), for every number of slots and set of works. The
invariant is

    SlotsInv == TypeOK /\ size = Cardinality(Occupied) /\ Distinct(Occupied, slots)

`Distinct`, no identity in two slots, is what makes the array a function from
identities at all; the counter is hand-kept, and `reserve()` trusts it before it
looks for a free slot. Three lemmas say what writing a slot, filling a free one and
freeing a set of them do to the represented ledger; with them each of the nine calls
is the same call of `LedgerCalls`. Theorems: `SlotTypes`, `CounterExact`,
`AnswersExact`, `ArrayImplementsLedger`.

*Rounds* (`PollRoundsProofs`), for every tick width, table size and burst bound. The
invariant `RoundInv` adds to the types: each stored deadline is the true distance
from now, wrapped at most once (`DeadlinesInv`); the burst counter tells how many
writes there were since the last poll, or that they were too many (`BurstInv`); what
was due all along lies ahead of the scan and what was offered behind it (`ScanInv`);
and whoever was polled past a due candidate stands further from the round-robin
index than it does (`TurnInv`), so that it cannot be polled again first. Theorems:
`DeadlinesExact`, `BurstBounded`, `PassIsOneRound`, `RoundRobinIsFair`. The proof led to one change of the model:
`NextDueCursor` was a `CASE` whose guards overlapped, of which TLC took the first
and the semantics takes any; it is now the chain of tests that the code has.

*Routes* (`RouteSearchProofs`), for every number of tables, routes and addresses.
`TypeCorrect` and `ValidationExact` need no assumption beyond
`RouteSearchAssumption`. `validate()` compares each range with two remembered
values only, the last start and the end of the last populated range;
the invariant (`ScanInv`) says that together they lie at or after the ends of all
ranges passed so far in this table, and that all tables before it are
searchable. The theorems on the search assume `ShortArrays`: an array has
fewer routes than `HalfIndex`, 32768 in the code. Their invariant is that a
running search has bounds inside the array and that every route containing the
address lies within `low..high`; that a probe may discard one side rests on the order
`ValidationExact` establishes. `SearchIsLogarithmic` adds `ProbesInv`, the width of
the interval times 2 to the number of probes is at most the number of routes, with
the law of powers it needs derived from their definition. `SearchIsLocated`: the
answer is that of `Located`, since no two ranges of a searchable table share an
address.

*Spans* (`RouteSpanProofs`), for every number of routes and addresses. The invariant
adds to the properties where the walk and the iteration stand: `WalkInv` (all
addresses passed so far are mapped, and position and rest add up to the span) and
`SpanInv` (the cursor continues where the last segment ends). Theorems: `SpanTypes`,
`InspectionExact`, `SegmentsTileSpan`, `SegmentsLocal`.

*Plans* (`ForwardExecutionProofs`), for every number of routes and addresses, every
limit, policy and work. `CoveredIsExact` says what the recursive walk computes; that
the recursion has a solution, and one only, is shown by the least number of
addresses at which two solutions would differ. The invariant is

    PlanInv == TypeOK /\ CursorInv /\ LocalInv
                 /\ FragmentsTile /\ ReadyIsExact /\ ReadyNeverFails

`CursorInv` says that an active cursor continues where the last fragment ends and
that its work is still routable unless the routes were replaced; `LocalInv` that
each fragment planned so far is within one route. Theorems: `PlannerTypes`,
`BeginVerdictExact`, `NoGapAfterReady`, `PlanTilesPayload`, `PlannedWritesLocal`.
With the devices, `WireInv` ties what they hold to the fragments executed so far:
`SnapshotMirrored`.

*Image* (`CachedForwardingProofs`), for every image size, set of values, works and
sessions. The invariant `IInv` has five parts, over queue, snapshots, images and
devices: every queued work has a snapshot that fits the image, and only the front
one has started (`QueueGood`); types (`ImagesGood`); the applied image is real, and a
request acted upon is on its device (`RealGood`); the answered fragments of the front
work are on the devices and in the applied image (`DoneGood`), without which a
success could be announced for less than the whole work; and every register shows
the value of the newest work that wants it (`VisibleGood`). Each lemma on a step is
stated over arguments, and the actions are reduced to it. Theorems: `CachedTypes`,
`AppliedImageReal`, `VisibleImageNewest`, `SuccessIsComplete`.

Only model-checked: `EveryWorkRetires` and `PollsKeepRunning`. Liveness under
fairness and `ENABLED` are outside what the proof system handles.

## 5. Not modelled

- Data no decision depends on: opaque contexts, user data, read buffers.
- Discrete inputs and input registers in routes: looked up like the two writable
  tables, never planned for.
- The order of tokens (`nonZeroSerial16Before`, `workIdentityBefore`): offered to callers
  that keep an order of their own; nothing in the library compares two tokens.
  Nor does it call `admissionOpen()`, which callers ask before they admit.
- `classifyAcceptedIngress()` and the `isKnown...()` predicates of `IngressWork`:
  pure choices over their arguments; the models take any delivery as input.
- Null memory under an image view, and an applied transition for a request of the
  wrong table: refused before anything happens.
- A selection made by hand, which `commit()` does not bind to a table size, and two
  scans at once over one planner state; a selection committed against a different
  table of the same size. The header leaves these to the caller.
- Bulk teardown of a ledger that a facade owns, which the guide forbids.
- An ill-formed due poll that is never repaired: the facade reports
  `InvalidPollRequest` on each preview, and the repair is the caller's.
- Tests, benchmarks and scripts.

## 6. Plan

Done: every header but the token order, its compositions, and the proof of every
safety property that a run checks. What is left:

1. The joint between facade and plan: compose `StoreForwardBridge` with the
   fragments `ForwardPlan` yields, so that the number of fragments of a work is no
   longer an assumption.
2. The joint between facade and ring: the facade's steps on `workQueue` as calls of
   the ring.
3. Liveness stays with TLC; a larger instance of `bridge_liveness` with two polls.
