----------------------------- MODULE ForwardPlan -----------------------------
(***************************************************************************)
(* ForwardPlanner of include/modbus_rtu_bridge/ForwardPlan.h for one       *)
(* register table: begin() proves that an accepted work is routable, each  *)
(* next() yields one endpoint-local write.  The caller owns the cursor and *)
(* the route array, and may replace the array between two calls, which the *)
(* guide forbids while a cursor is active.  ForwardExecution joins these   *)
(* actions with those of the executor in one next-state relation.          *)
(***************************************************************************)
EXTENDS RouteTable, Sequences, IngressWork

CONSTANTS
  MaxRoutes,      \* a route array has at most this many routes
  RouteTables,    \* valid route arrays: functions from positions to mappings
  Works,          \* the works the caller may begin
  PlanOptions     \* the planner's limits and span policies

Policy == {"SingleEndpoint", "PreflightAndSplit", "Unknown"}

Options == [maxQuantity : Address, orderedSpanPolicy : Policy,
            latestStateSpanPolicy : Policy]

(* A work may come without an identity, and with a snapshot of the wrong   *)
(* length.                                                                 *)
Work == [start : Address, count : Address, delivery : IngressDelivery,
         identified : BOOLEAN, snapshotFits : BOOLEAN]

ASSUME ForwardPlanAssumption ==
  /\ MaxRoutes \in Nat
  /\ \A mappings \in RouteTables :
       \E n \in 0 .. MaxRoutes : /\ mappings \in [0 .. n - 1 -> Mapping]
                                 /\ Searchable(mappings, n)
  /\ Works \subseteq Work
  /\ PlanOptions \subseteq Options

VARIABLES
  routes, options,
  work, nextAddress, remaining, sourceOffset, fragmentIndex, active,
  begun,          \* what the last begin() returned
  planned,        \* what the last next() returned, if it was after that
  (* Auxiliary: the work of the last begin(), the writes planned since,    *)
  (* and whether the routes are still those of begin().                    *)
  asked, fragments, stable

cursor == <<work, nextAddress, remaining, sourceOffset, fragmentIndex, active>>
vars == <<routes, options, cursor, begun, planned, asked, fragments, stable>>

NoWorkView == [start |-> 0, count |-> 0, delivery |-> "Rejected",
               identified |-> FALSE, snapshotFits |-> FALSE]

ForwardPlanStatus ==
  {"Ready", "NotAccepted", "InvalidWork", "StaleSession", "InvalidLimits",
   "Empty", "AddressOverflow", "Gap", "MultipleEndpointsNotAllowed",
   "InvalidPolicy"}

ForwardNextStatus == {"Planned", "Complete", "InvalidSequence", "TopologyChanged"}

PlannedWrite ==
  [routeIndex : Nat, upstreamStart : Address, downstreamStart : Address,
   quantity : Address, sourceOffset : Address, fragmentIndex : Address,
   finalFragment : BOOLEAN]

TypeOK ==
  /\ routes \in RouteTables
  /\ options \in PlanOptions
  /\ work \in Works \cup {NoWorkView}
  /\ {nextAddress, remaining, sourceOffset, fragmentIndex} \subseteq Address
  /\ active \in BOOLEAN
  /\ begun \in ForwardPlanStatus
  /\ planned \in ForwardNextStatus \cup {"NotAsked"}
  /\ asked \in Works \cup {NoWorkView}
  /\ fragments \in Seq(PlannedWrite)
  /\ stable \in BOOLEAN

Init ==
  /\ routes \in RouteTables
  /\ options \in PlanOptions
  /\ work = NoWorkView
  /\ nextAddress = 0 /\ remaining = 0 /\ sourceOffset = 0 /\ fragmentIndex = 0
  /\ active = FALSE
  /\ begun = "NotAccepted"
  /\ planned = "NotAsked"
  /\ asked = NoWorkView
  /\ fragments = <<>>
  /\ stable = TRUE

-----------------------------------------------------------------------------
(* begin() *)

SpanPolicy(view) ==
  IF view.delivery = "LatestState" THEN options.latestStateSpanPolicy
                                   ELSE options.orderedSpanPolicy

CrossesRoutes(view) ==
  view.start + view.count > End(routes[Located(routes, view.start)].upstream)

(* A slip: the policy of ordered works is applied to all. *)
PolicyStatusOrdered(view) ==
  IF options.orderedSpanPolicy = "SingleEndpoint" /\ CrossesRoutes(view)
  THEN "MultipleEndpointsNotAllowed" ELSE "Ready"

PolicyStatus(view) ==
  CASE SpanPolicy(view) = "SingleEndpoint" ->
         IF CrossesRoutes(view) THEN "MultipleEndpointsNotAllowed" ELSE "Ready"
    [] SpanPolicy(view) = "PreflightAndSplit" -> "Ready"
    [] OTHER -> "InvalidPolicy"

BeginStatus(view, sessionStale) ==
  LET span == InspectSpan(routes, view.start, view.count)
  IN  IF sessionStale THEN "StaleSession"
      ELSE IF ~IsAccepted(view.delivery) THEN "NotAccepted"
      ELSE IF view.count = 0 THEN "Empty"
      ELSE IF view.start + view.count > AddressSpace THEN "AddressOverflow"
      ELSE IF ~view.snapshotFits THEN "InvalidWork"
      ELSE IF options.maxQuantity = 0 THEN "InvalidLimits"
      ELSE IF span # "Complete" THEN span
      ELSE PolicyStatus(view)

(* Every begin() clears the cursor first.  The caller may ask it to check  *)
(* the session, which then may prove stale.                                *)
Begin(view, sessionStale) ==
  /\ begun' = BeginStatus(view, sessionStale)
  /\ LET ready == begun' = "Ready"
     IN  /\ work' = IF ready THEN view ELSE NoWorkView
         /\ nextAddress' = IF ready THEN view.start ELSE 0
         /\ remaining' = IF ready THEN view.count ELSE 0
         /\ active' = ready
  /\ sourceOffset' = 0
  /\ fragmentIndex' = 0
  /\ planned' = "NotAsked"
  /\ asked' = view
  /\ fragments' = <<>>
  /\ stable' = TRUE
  /\ UNCHANGED <<routes, options>>

-----------------------------------------------------------------------------
(* next() *)

(* static_cast<uint16_t> of a sum. *)
Advance(counter, step) == (counter + step) % AddressSpace

Least(a, b) == IF a < b THEN a ELSE b

HasMore == active /\ remaining # 0

Route == routes[Located(routes, nextAddress)]

RouteOffset == nextAddress - Route.upstream.start

(* A slip: the limit is applied before what the route has left. *)
QuantityAcrossRoutes == Least(remaining, options.maxQuantity)

Quantity ==
  Least(Least(remaining, Route.upstream.count - RouteOffset), options.maxQuantity)

Plannable == Located(routes, nextAddress) # NoRoute /\ Quantity # 0

FinishPlan ==
  /\ ~HasMore
  /\ planned' = "Complete"
  /\ active' = FALSE
  /\ UNCHANGED <<work, nextAddress, remaining, sourceOffset, fragmentIndex,
                 fragments>>

RefuseSequence(sequence) ==
  /\ HasMore
  /\ sequence = 0 /\ work.identified
  /\ planned' = "InvalidSequence"
  /\ UNCHANGED <<cursor, fragments>>

FailClosed(sequence) ==
  /\ HasMore
  /\ ~(sequence = 0 /\ work.identified)
  /\ ~Plannable
  /\ planned' = "TopologyChanged"
  /\ active' = FALSE
  /\ remaining' = 0
  /\ UNCHANGED <<work, nextAddress, sourceOffset, fragmentIndex, fragments>>

(* A slip: a fragment is final when the limit covers all that remains,     *)
(* although its route may end before.                                      *)
PlannedFragmentEarlyFinal ==
  [routeIndex |-> Located(routes, nextAddress),
   upstreamStart |-> nextAddress,
   downstreamStart |-> Advance(Route.downstream.start, RouteOffset),
   quantity |-> Quantity,
   sourceOffset |-> sourceOffset,
   fragmentIndex |-> fragmentIndex,
   finalFragment |-> remaining <= options.maxQuantity]

PlannedFragment ==
  [routeIndex |-> Located(routes, nextAddress),
   upstreamStart |-> nextAddress,
   downstreamStart |-> Advance(Route.downstream.start, RouteOffset),
   quantity |-> Quantity,
   sourceOffset |-> sourceOffset,
   fragmentIndex |-> fragmentIndex,
   finalFragment |-> remaining = Quantity]

PlanFragment(sequence) ==
  /\ HasMore
  /\ ~(sequence = 0 /\ work.identified)
  /\ Plannable
  /\ planned' = "Planned"
  /\ fragments' = Append(fragments, PlannedFragment)
  /\ nextAddress' = Advance(nextAddress, Quantity)
  /\ remaining' = remaining - Quantity
  /\ sourceOffset' = Advance(sourceOffset, Quantity)
  /\ fragmentIndex' = Advance(fragmentIndex, 1)
  /\ active' = (remaining # Quantity)
  /\ UNCHANGED work

NextFragment(sequence) ==
  /\ \/ FinishPlan
     \/ RefuseSequence(sequence)
     \/ FailClosed(sequence)
     \/ PlanFragment(sequence)
  /\ UNCHANGED <<routes, options, begun, asked, stable>>

-----------------------------------------------------------------------------
(* The caller replaces the route array. *)
ReplaceRoutes(mappings) ==
  /\ mappings # routes
  /\ routes' = mappings
  /\ stable' = FALSE
  /\ UNCHANGED <<options, cursor, begun, planned, asked, fragments>>

-----------------------------------------------------------------------------
(* What begin() promises of a plan, and next() of its fragments. *)

MappedTo(index, address) == Contains(routes[index].upstream, address)

Routable(view) ==
  \A address \in view.start .. view.start + view.count - 1 :
    \E i \in DOMAIN routes : MappedTo(i, address)

InOneRoute(view) ==
  \E i \in DOMAIN routes :
    \A address \in view.start .. view.start + view.count - 1 : MappedTo(i, address)

(* begin() lets a work through exactly when every one of its addresses is  *)
(* mapped and, under SingleEndpoint, all of them by the same route: the    *)
(* walk from route to route and the look at the first route alone decide   *)
(* it.                                                                     *)
ReadyIsExact ==
  stable /\ begun # "StaleSession" =>
    (begun = "Ready" <=>
       /\ IsAccepted(asked.delivery) /\ asked.snapshotFits
       /\ asked.count > 0 /\ asked.start + asked.count <= AddressSpace
       /\ options.maxQuantity > 0
       /\ SpanPolicy(asked) # "Unknown"
       /\ Routable(asked)
       /\ SpanPolicy(asked) = "SingleEndpoint" => InOneRoute(asked))

(* A work that was let through is planned to its end while the routes stay *)
(* the ones begin() saw: no write reaches an endpoint before a gap is met. *)
ReadyNeverFails == planned = "TopologyChanged" => ~stable

Sent(k) == IF k = 0 THEN 0 ELSE fragments[k].sourceOffset + fragments[k].quantity

(* The fragments of a plan tile the work's payload from its start, in      *)
(* order, without a hole or an overlap, and the one that completes it,     *)
(* and no other, is final, even if the routes change on the way.           *)
FragmentsTile ==
  /\ \A k \in 1 .. Len(fragments) :
       LET f == fragments[k]
       IN  /\ f.quantity > 0
           /\ f.sourceOffset = Sent(k - 1)
           /\ f.upstreamStart = work.start + f.sourceOffset
           /\ f.fragmentIndex = k - 1
           /\ f.finalFragment <=> Sent(k) = work.count
  /\ Sent(Len(fragments)) <= work.count
  /\ active => Sent(Len(fragments)) + remaining = work.count
  /\ planned = "Complete" /\ begun = "Ready" /\ stable =>
       Sent(Len(fragments)) = work.count

(* The write planned last, in the route it was planned for. *)
LastIsLocal ==
  LET f == fragments'[Len(fragments')]
      route == routes[f.routeIndex]
      last == f.quantity - 1
  IN  /\ Contains(route.upstream, f.upstreamStart)
      /\ Contains(route.upstream, f.upstreamStart + last)
      /\ Contains(route.downstream, f.downstreamStart)
      /\ Contains(route.downstream, f.downstreamStart + last)
      /\ f.downstreamStart - route.downstream.start
           = f.upstreamStart - route.upstream.start
      /\ f.quantity <= options.maxQuantity
      /\ \/ f.finalFragment
         \/ f.quantity = options.maxQuantity
         \/ f.upstreamStart + f.quantity = End(route.upstream)

(* A planned write stays within one route and within its endpoint's own    *)
(* range, at the register that mirrors its upstream address, and it is cut *)
(* short of the work's end by nothing but the route's end or the limit.    *)
FragmentIsLocal ==
  [][fragments' # fragments /\ fragments' # <<>> => LastIsLocal]_vars
=============================================================================
