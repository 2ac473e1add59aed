----------------------- MODULE ForwardExecutionProofs -----------------------
(***************************************************************************)
(* A plan tiles its work, never meets a gap that begin() could have seen,  *)
(* and what the devices receive of it is the work's snapshot: for every    *)
(* size of the address space, every set of searchable route arrays, every  *)
(* limit and span policy, and every answer of the bus.                     *)
(***************************************************************************)
EXTENDS ForwardExecution, FiniteSetTheorems, SequenceTheorems, TLAPS

-----------------------------------------------------------------------------
(* Arithmetic of addresses, and what one lookup says of its route. *)

LEMMA AdvanceWraps ==
  ASSUME NEW a \in Nat, NEW b \in Nat
  PROVE  /\ Advance(a, b) \in Address
         /\ a + b < AddressSpace => Advance(a, b) = a + b
<1>1. a + b \in Nat /\ AddressSpace \in Nat \ {0}
  BY AddressSpaceAssumption
<1>2. (a + b) % AddressSpace \in 0 .. AddressSpace - 1
  BY <1>1
<1>3. a + b < AddressSpace => (a + b) % AddressSpace = a + b
  BY <1>1
<1> QED BY <1>2, <1>3 DEF Advance, Address

(* A route of a table and its numbers. *)
LEMMA RouteShape ==
  ASSUME NEW mappings \in RouteTables, NEW i \in DOMAIN mappings
  PROVE  /\ i \in Nat
         /\ mappings[i] \in Mapping
         /\ MappingFits(mappings[i])
         /\ mappings[i].upstream.start \in Nat
         /\ mappings[i].upstream.count \in Nat
         /\ mappings[i].downstream.start \in Nat
         /\ mappings[i].downstream.count = mappings[i].upstream.count
         /\ End(mappings[i].upstream) \in Nat
         /\ End(mappings[i].upstream) <= AddressSpace
<1>1. PICK n \in 0 .. MaxRoutes : /\ mappings \in [0 .. n - 1 -> Mapping]
                                  /\ Searchable(mappings, n)
  BY ForwardPlanAssumption
<1>2. n \in Nat /\ i \in 0 .. n - 1
  BY <1>1, ForwardPlanAssumption
<1>3. i \in Nat /\ mappings[i] \in Mapping /\ MappingFits(mappings[i])
  BY <1>1, <1>2 DEF Searchable
<1>4. /\ mappings[i].upstream.start \in Nat
      /\ mappings[i].upstream.count \in Nat
      /\ mappings[i].downstream.start \in Nat
  BY <1>3, AddressSpaceAssumption DEF Mapping, AddressRange, Address
<1> QED BY <1>3, <1>4 DEF MappingFits, End

(* No two routes of a table contain the same address. *)
LEMMA OneRoute ==
  ASSUME NEW mappings \in RouteTables, NEW address \in Nat,
         NEW i \in DOMAIN mappings, Contains(mappings[i].upstream, address),
         NEW j \in DOMAIN mappings, Contains(mappings[j].upstream, address)
  PROVE  i = j
<1>1. PICK n \in 0 .. MaxRoutes : /\ mappings \in [0 .. n - 1 -> Mapping]
                                  /\ Searchable(mappings, n)
  BY ForwardPlanAssumption
<1>2. n \in Nat /\ i \in 0 .. n - 1 /\ j \in 0 .. n - 1
  BY <1>1, ForwardPlanAssumption
<1>3. /\ j < i => End(mappings[j].upstream) <= mappings[i].upstream.start
      /\ i < j => End(mappings[i].upstream) <= mappings[j].upstream.start
  BY <1>1, <1>2 DEF Searchable
<1>4. /\ mappings[i].upstream.start \in Nat /\ End(mappings[i].upstream) \in Nat
      /\ mappings[j].upstream.start \in Nat /\ End(mappings[j].upstream) \in Nat
  BY RouteShape
<1> QED BY <1>2, <1>3, <1>4 DEF Contains

(* locate() finds the route that contains the address, or there is none.   *)
LEMMA LocatedRoute ==
  ASSUME NEW mappings \in RouteTables, NEW address \in Nat
  PROVE  /\ Located(mappings, address) = NoRoute =>
              \A i \in DOMAIN mappings : ~Contains(mappings[i].upstream, address)
         /\ Located(mappings, address) # NoRoute =>
              /\ Located(mappings, address) \in DOMAIN mappings
              /\ Contains(mappings[Located(mappings, address)].upstream, address)
         /\ \A i \in DOMAIN mappings :
              Contains(mappings[i].upstream, address) =>
                Located(mappings, address) = i
<1> DEFINE containing ==
             {i \in DOMAIN mappings : Contains(mappings[i].upstream, address)}
<1>1. CASE containing = {}
  <2>1. Located(mappings, address) = NoRoute
    BY <1>1 DEF Located
  <2> QED BY <1>1, <2>1
<1>2. CASE containing # {}
  <2>1. Located(mappings, address) \in containing
    BY <1>2 DEF Located
  <2>2. Located(mappings, address) \in Nat
    BY <2>1, RouteShape
  <2>3. Located(mappings, address) # NoRoute
    BY <2>2 DEF NoRoute
  <2>4. \A i \in DOMAIN mappings :
          Contains(mappings[i].upstream, address) => Located(mappings, address) = i
    BY <2>1, OneRoute
  <2> QED BY <2>1, <2>3, <2>4
<1> QED BY <1>1, <1>2

-----------------------------------------------------------------------------
(* inspectSpan() *)

(* A non-empty set of natural numbers has a least element.  The initial    *)
(* segments up to its members are finite sets; a minimal one under strict  *)
(* inclusion ends in the least member.                                     *)
LEMMA LeastNatural ==
  ASSUME NEW S \in SUBSET Nat, S # {}
  PROVE  \E n \in S : \A m \in S : n <= m
<1> DEFINE Segments == {0..n : n \in S}
<1>1. Segments \subseteq FiniteSubsetsOf(Nat)
  <2>1. ASSUME NEW n \in S PROVE 0..n \in FiniteSubsetsOf(Nat)
    BY FS_Interval DEF FiniteSubsetsOf
  <2> QED BY <2>1
<1>2. Segments # {}
  OBVIOUS
<1>3. PICK I \in Segments :
        \A J \in Segments : <<J, I>> \notin StrictSubsetOrdering(Nat)
  BY <1>1, <1>2, WFMin, FS_StrictSubsetOrderingWellFounded
<1>4. PICK n \in S : I = 0..n
  OBVIOUS
<1>5. ASSUME NEW m \in S, m < n PROVE FALSE
  <2>1. 0..m \in Segments /\ 0..m \subseteq 0..n /\ n \notin 0..m /\ n \in 0..n
    BY <1>5
  <2>2. <<0..m, I>> \in StrictSubsetOrdering(Nat)
    BY <1>4, <2>1 DEF StrictSubsetOrdering
  <2> QED BY <1>3, <2>1, <2>2
<1> QED BY <1>5

(* The walk from route to route finds a span complete exactly when each of *)
(* its addresses is mapped.  The definition of the walk is recursive, so   *)
(* that it has a solution is shown, and that all its solutions agree: at   *)
(* the least number of addresses to go where one went wrong, the addresses *)
(* that the next route covers leave fewer to go.                           *)
THEOREM CoveredIsExact ==
  ASSUME NEW mappings \in RouteTables, NEW start \in Nat, NEW count \in Nat
  PROVE  Covered(mappings, start, count) <=>
           \A address \in start .. start + count - 1 :
             \E i \in DOMAIN mappings : Contains(mappings[i].upstream, address)
<1> DEFINE Mapped(address) ==
             \E i \in DOMAIN mappings : Contains(mappings[i].upstream, address)
           Rest(left) ==
             \A address \in start + count - left .. start + count - 1 :
               Mapped(address)
           Step(f, left) ==
             LET current == start + count - left
                 route == Located(mappings, current)
             IN  \/ left = 0
                 \/ /\ route # NoRoute
                    /\ LET available == End(mappings[route].upstream) - current
                       IN  left <= available \/ f[left - available]
           walk == CHOOSE f : f = [left \in 0 .. count |-> Step(f, left)]
           rest == [left \in 0 .. count |-> Rest(left)]
<1>1. ASSUME NEW f, NEW left \in 0 .. count,
             \A r \in 0 .. left - 1 : f[r] <=> Rest(r)
      PROVE  Step(f, left) <=> Rest(left)
  <2> DEFINE current == start + count - left
             route == Located(mappings, current)
             end == End(mappings[route].upstream)
  <2>1. CASE left = 0
    <3>1. start + count - left .. start + count - 1 = {}
      BY <2>1
    <3> QED BY <2>1, <3>1
  <2>2. CASE left # 0 /\ route = NoRoute
    <3>1. current \in Nat /\ current \in start + count - left .. start + count - 1
      BY <2>2
    <3>2. ~Mapped(current)
      BY <2>2, <3>1, LocatedRoute
    <3> QED BY <2>2, <3>1, <3>2
  <2>3. CASE left # 0 /\ route # NoRoute
    <3>1. current \in Nat
      BY <2>3
    <3>2. /\ route \in DOMAIN mappings
          /\ Contains(mappings[route].upstream, current)
      BY <2>3, <3>1, LocatedRoute
    <3>3. /\ mappings[route].upstream.start \in Nat /\ end \in Nat
          /\ mappings[route].upstream.count # 0
          /\ mappings[route].upstream.start <= current
          /\ current < end
      BY <3>2, RouteShape DEF Contains
    <3>4. \A address \in current .. end - 1 : Mapped(address)
      <4> SUFFICES ASSUME NEW address \in current .. end - 1
                   PROVE  Mapped(address)
        OBVIOUS
      <4>1. /\ mappings[route].upstream.start <= address /\ address < end
        BY <3>1, <3>3
      <4> QED BY <3>2, <3>3, <4>1 DEF Contains
    <3> DEFINE available == end - current
    <3>5. available \in Nat \ {0} /\ end = current + available
      BY <3>1, <3>3
    <3>6. Step(f, left) <=> left <= available \/ f[left - available]
      BY <2>3
    <3> HIDE DEF Mapped, Step, current, route, end, available
    <3>7. CASE left <= available
      <4>1. \A address \in start + count - left .. start + count - 1 :
              address \in current .. end - 1
        BY <3>1, <3>5, <3>7 DEF current
      <4> QED BY <3>4, <3>6, <3>7, <4>1
    <3>8. CASE ~(left <= available)
      <4>1. left - available \in 0 .. left - 1
        BY <3>5, <3>8
      <4>2. f[left - available] <=> Rest(left - available)
        BY <1>1, <4>1
      <4>3. \A address \in start + count - left .. start + count - 1 :
              \/ address \in current .. end - 1
              \/ address \in start + count - (left - available) .. start + count - 1
        BY <3>1, <3>5, <3>8 DEF current
      <4>4. \A address \in start + count - (left - available) .. start + count - 1 :
              address \in start + count - left .. start + count - 1
        BY <3>5, <3>8
      <4>5. Rest(left - available) <=> Rest(left)
        BY <3>4, <4>3, <4>4
      <4> QED BY <3>6, <3>8, <4>2, <4>5
    <3> QED BY <3>7, <3>8
  <2> QED BY <2>1, <2>2, <2>3
<1> HIDE DEF Mapped
<1>2. rest = [left \in 0 .. count |-> Step(rest, left)]
  <2>1. ASSUME NEW left \in 0 .. count
        PROVE  Rest(left) = Step(rest, left)
    <3>1. \A r \in 0 .. left - 1 : r \in 0 .. count
      OBVIOUS
    <3>2. \A r \in 0 .. left - 1 : rest[r] <=> Rest(r)
      <4> HIDE DEF Rest
      <4> QED BY <3>1
    <3>3. Step(rest, left) <=> Rest(left)
      <4> HIDE DEF rest, Step, Rest
      <4> QED BY <1>1, <3>2
    <3>4. Rest(left) \in BOOLEAN /\ Step(rest, left) \in BOOLEAN
      OBVIOUS
    <3> HIDE DEF Rest, Step, rest
    <3> QED BY <3>3, <3>4
  <2> HIDE DEF Rest, Step
  <2> QED BY <2>1
<1>3. walk = [left \in 0 .. count |-> Step(walk, left)]
  <2> HIDE DEF rest, Step
  <2> QED BY <1>2
<1>4. Covered(mappings, start, count) = walk[count]
  BY DEF Covered
<1> HIDE DEF walk, Step, rest, Rest
<1>5. ASSUME NEW left \in 0 .. count
      PROVE  walk[left] <=> Step(walk, left)
  BY <1>3
<1> DEFINE wrong == {r \in 0 .. count : ~(walk[r] <=> Rest(r))}
<1>6. wrong = {}
  <2> SUFFICES ASSUME wrong # {} PROVE FALSE
    OBVIOUS
  <2>1. wrong \in SUBSET Nat
    OBVIOUS
  <2>2. PICK r \in wrong : \A q \in wrong : r <= q
    <3> HIDE DEF wrong
    <3> QED BY <2>1, LeastNatural
  <2>3. \A q \in 0 .. r - 1 : walk[q] <=> Rest(q)
    BY <2>2
  <2>4. r \in 0 .. count
    OBVIOUS
  <2>5. walk[r] <=> Rest(r)
    BY <1>1, <1>5, <2>3, <2>4
  <2> QED BY <2>2, <2>5
<1>7. walk[count] <=> Rest(count)
  BY <1>6
<1>8. start + count - count = start
  OBVIOUS
<1>9. Rest(count) <=> \A address \in start .. start + count - 1 : Mapped(address)
  BY <1>8 DEF Rest
<1> QED BY <1>4, <1>7, <1>9 DEF Mapped

-----------------------------------------------------------------------------
(* begin() *)

(* A routable work leaves the route of its first address exactly when no   *)
(* single route maps all of it.                                            *)
LEMMA CrossingIsExact ==
  ASSUME routes \in RouteTables, NEW view \in Work, view.count # 0,
         Routable(view)
  PROVE  ~CrossesRoutes(view) <=> InOneRoute(view)
<1> DEFINE first == Located(routes, view.start)
<1>1. view.start \in Nat /\ view.count \in Nat \ {0}
  BY AddressSpaceAssumption DEF Work, Address
<1>2. /\ view.start \in view.start .. view.start + view.count - 1
      /\ view.start + view.count - 1 \in view.start .. view.start + view.count - 1
      /\ view.start + view.count - 1 \in Nat
  BY <1>1
<1>3. PICK i \in DOMAIN routes : Contains(routes[i].upstream, view.start)
  BY <1>2 DEF Routable, MappedTo
<1>4. first = i
  BY <1>1, <1>3, LocatedRoute
<1> HIDE DEF first
<1>5. /\ routes[i].upstream.start \in Nat /\ End(routes[i].upstream) \in Nat
      /\ routes[i].upstream.count # 0
      /\ routes[i].upstream.start <= view.start
      /\ view.start < End(routes[i].upstream)
  BY <1>3, RouteShape DEF Contains
<1>6. CrossesRoutes(view) <=> view.start + view.count > End(routes[i].upstream)
  BY <1>4 DEF CrossesRoutes, first
<1>7. ASSUME ~CrossesRoutes(view) PROVE InOneRoute(view)
  <2>1. ASSUME NEW address \in view.start .. view.start + view.count - 1
        PROVE  MappedTo(i, address)
    <3>1. routes[i].upstream.start <= address /\ address < End(routes[i].upstream)
      BY <1>1, <1>5, <1>6, <1>7
    <3> QED BY <1>5, <3>1 DEF MappedTo, Contains
  <2> QED BY <2>1 DEF InOneRoute
<1>8. ASSUME InOneRoute(view) PROVE ~CrossesRoutes(view)
  <2>1. PICK j \in DOMAIN routes :
          \A address \in view.start .. view.start + view.count - 1 :
            MappedTo(j, address)
    BY <1>8 DEF InOneRoute
  <2>2. /\ Contains(routes[j].upstream, view.start)
        /\ Contains(routes[j].upstream, view.start + view.count - 1)
    BY <1>2, <2>1 DEF MappedTo
  <2>3. j = i
    BY <1>1, <1>3, <2>2, OneRoute
  <2>4. view.start + view.count - 1 < End(routes[i].upstream)
    BY <2>2, <2>3 DEF Contains
  <2> QED BY <1>1, <1>5, <1>6, <2>4
<1> QED BY <1>7, <1>8

(* What ReadyIsExact asks of a work. *)
MayBegin(view) ==
  /\ IsAccepted(view.delivery) /\ view.snapshotFits
  /\ view.count > 0 /\ view.start + view.count <= AddressSpace
  /\ options.maxQuantity > 0
  /\ SpanPolicy(view) # "Unknown"
  /\ Routable(view)
  /\ SpanPolicy(view) = "SingleEndpoint" => InOneRoute(view)

LEMMA BeginIsExact ==
  ASSUME routes \in RouteTables, options \in PlanOptions, NEW view \in Works,
         NEW sessionStale \in BOOLEAN
  PROVE  LET verdict == BeginStatus(view, sessionStale)
         IN  /\ verdict \in ForwardPlanStatus
             /\ sessionStale => verdict = "StaleSession"
             /\ ~sessionStale => (verdict = "Ready" <=> MayBegin(view))
             /\ verdict = "Ready" => MayBegin(view)
<1> DEFINE span == InspectSpan(routes, view.start, view.count)
           policy == PolicyStatus(view)
           verdict == BeginStatus(view, sessionStale)
<1>1. /\ view \in Work /\ view.start \in Nat /\ view.count \in Nat
      /\ view.snapshotFits \in BOOLEAN
      /\ options.maxQuantity \in Nat
      /\ AddressSpace \in Nat
      /\ SpanPolicy(view) \in Policy
  BY ForwardPlanAssumption, AddressSpaceAssumption
  DEF Work, Options, Address, SpanPolicy
<1>2. /\ span \in {"Empty", "AddressOverflow", "Complete", "Gap"}
      /\ view.count # 0 /\ view.start + view.count <= AddressSpace =>
           (span = "Complete" <=> Routable(view))
  <2>1. Covered(routes, view.start, view.count) <=> Routable(view)
    BY <1>1, CoveredIsExact DEF Routable, MappedTo
  <2> QED BY <1>1, <2>1 DEF InspectSpan
<1>3. /\ policy \in {"Ready", "MultipleEndpointsNotAllowed", "InvalidPolicy"}
      /\ view.count # 0 /\ Routable(view) =>
           (policy = "Ready" <=>
              /\ SpanPolicy(view) # "Unknown"
              /\ SpanPolicy(view) = "SingleEndpoint" => InOneRoute(view))
  <2>1. view.count # 0 /\ Routable(view) => (~CrossesRoutes(view) <=> InOneRoute(view))
    BY <1>1, CrossingIsExact
  <2> QED BY <1>1, <2>1 DEF PolicyStatus, Policy
<1>4. verdict =
        IF sessionStale THEN "StaleSession"
        ELSE IF ~IsAccepted(view.delivery) THEN "NotAccepted"
        ELSE IF view.count = 0 THEN "Empty"
        ELSE IF view.start + view.count > AddressSpace THEN "AddressOverflow"
        ELSE IF ~view.snapshotFits THEN "InvalidWork"
        ELSE IF options.maxQuantity = 0 THEN "InvalidLimits"
        ELSE IF span # "Complete" THEN span
        ELSE policy
  BY Zenon DEF BeginStatus
<1> HIDE DEF span, policy, verdict
<1>5. verdict \in ForwardPlanStatus
  BY <1>2, <1>3, <1>4 DEF ForwardPlanStatus
<1>6. sessionStale => verdict = "StaleSession"
  BY <1>4
<1>7. ~sessionStale => (verdict = "Ready" <=> MayBegin(view))
  <2>1. (view.count > 0 <=> view.count # 0)
        /\ (options.maxQuantity > 0 <=> options.maxQuantity # 0)
        /\ (view.start + view.count <= AddressSpace
              <=> ~(view.start + view.count > AddressSpace))
    BY <1>1
  <2> QED BY <1>2, <1>3, <1>4, <2>1 DEF MayBegin
<1>8. verdict = "Ready" => MayBegin(view)
  BY <1>6, <1>7
<1> QED BY <1>5, <1>6, <1>7, <1>8 DEF verdict

-----------------------------------------------------------------------------
(* The inductive invariant of the planner.                                 *)

(* The cursor beside its work and the fragments planned so far. *)
CursorInv ==
  /\ begun = "Ready" =>
       /\ work = asked /\ work \in Works
       /\ work.count # 0 /\ work.start + work.count <= AddressSpace
       /\ options.maxQuantity # 0
       /\ stable => Routable(work)
       /\ ~active /\ stable => Sent(Len(fragments)) = work.count
  /\ begun # "Ready" => ~active /\ fragments = <<>> /\ work = NoWorkView
  /\ active =>
       /\ remaining # 0
       /\ sourceOffset = Sent(Len(fragments))
       /\ nextAddress = work.start + sourceOffset
       /\ fragmentIndex = Len(fragments)
       /\ sourceOffset + remaining = work.count
  /\ Len(fragments) <= Sent(Len(fragments))
  /\ \A k \in 1 .. Len(fragments) : Sent(k) <= work.count

(* A planned write in its route. *)
Local(f) ==
  LET route == routes[f.routeIndex]
  IN  /\ f.routeIndex \in DOMAIN routes
      /\ route.upstream.start <= f.upstreamStart
      /\ f.upstreamStart + f.quantity <= End(route.upstream)
      /\ f.downstreamStart
           = route.downstream.start + (f.upstreamStart - route.upstream.start)

LocalInv == stable => \A k \in 1 .. Len(fragments) : Local(fragments[k])

PlanInv ==
  /\ TypeOK /\ CursorInv /\ LocalInv
  /\ FragmentsTile /\ ReadyIsExact /\ ReadyNeverFails

(* The k-th fragment in the payload of its work. *)
Tile(k) ==
  /\ fragments[k].quantity > 0
  /\ fragments[k].sourceOffset = Sent(k - 1)
  /\ fragments[k].upstreamStart = work.start + fragments[k].sourceOffset
  /\ fragments[k].fragmentIndex = k - 1
  /\ fragments[k].finalFragment <=> Sent(k) = work.count

LEMMA TilesDef ==
  FragmentsTile <=>
    /\ \A k \in 1 .. Len(fragments) : Tile(k)
    /\ Sent(Len(fragments)) <= work.count
    /\ active => Sent(Len(fragments)) + remaining = work.count
    /\ planned = "Complete" /\ begun = "Ready" /\ stable =>
         Sent(Len(fragments)) = work.count
BY DEF FragmentsTile, Tile

LEMMA Numbers ==
  ASSUME TypeOK
  PROVE  /\ AddressSpace \in Nat \ {0}
         /\ {nextAddress, remaining, sourceOffset, fragmentIndex} \subseteq Nat
         /\ work.start \in Address /\ work.count \in Address
         /\ work.start \in Nat /\ work.count \in Nat
         /\ options.maxQuantity \in Nat
         /\ Len(fragments) \in Nat
         /\ \A k \in 1 .. Len(fragments) :
              /\ fragments[k] \in PlannedWrite
              /\ fragments[k].sourceOffset \in Nat
              /\ fragments[k].upstreamStart \in Nat
              /\ fragments[k].downstreamStart \in Nat
              /\ fragments[k].quantity \in Nat
         /\ \A k \in 0 .. Len(fragments) : Sent(k) \in Nat
<1>1. /\ AddressSpace \in Nat \ {0} /\ 0 \in Address
      /\ {nextAddress, remaining, sourceOffset, fragmentIndex} \subseteq Nat
      /\ Len(fragments) \in Nat /\ options.maxQuantity \in Nat
  BY AddressSpaceAssumption, ForwardPlanAssumption DEF TypeOK, Address, Options
<1>2. work.start \in Address /\ work.count \in Address
  BY <1>1, ForwardPlanAssumption DEF TypeOK, NoWorkView, Work
<1>3. \A k \in 1 .. Len(fragments) : fragments[k] \in PlannedWrite
  BY DEF TypeOK
<1>4. \A k \in 1 .. Len(fragments) :
        /\ fragments[k].sourceOffset \in Nat
        /\ fragments[k].upstreamStart \in Nat
        /\ fragments[k].downstreamStart \in Nat
        /\ fragments[k].quantity \in Nat
  BY <1>1, <1>3 DEF PlannedWrite, Address
<1>5. \A k \in 0 .. Len(fragments) : Sent(k) \in Nat
  BY <1>1, <1>4 DEF Sent
<1>6. work.start \in Nat /\ work.count \in Nat
  BY <1>1, <1>2 DEF Address
<1> QED BY <1>1, <1>2, <1>3, <1>4, <1>5, <1>6

LEMMA PlanInit == Init => PlanInv
<1> SUFFICES ASSUME Init PROVE PlanInv
  OBVIOUS
<1>1. 0 \in Address
  BY AddressSpaceAssumption DEF Address
<1>2. /\ begun = "NotAccepted" /\ planned = "NotAsked" /\ active = FALSE
      /\ work = NoWorkView /\ asked = NoWorkView /\ fragments = <<>>
      /\ Len(fragments) = 0 /\ stable = TRUE
      /\ remaining = 0
  BY DEF Init
<1>3. TypeOK
  <2>1. "NotAccepted" \in ForwardPlanStatus /\ <<>> \in Seq(PlannedWrite)
    BY DEF ForwardPlanStatus
  <2>2. {nextAddress, remaining, sourceOffset, fragmentIndex} \subseteq Address
    BY <1>1 DEF Init
  <2> QED BY <1>2, <2>1, <2>2 DEF Init, TypeOK
<1>4. Sent(Len(fragments)) = 0 /\ work.count = 0
  BY <1>2 DEF Sent, NoWorkView
<1>5. CursorInv /\ LocalInv
  BY <1>2, <1>4 DEF CursorInv, LocalInv
<1>6. FragmentsTile /\ ReadyNeverFails
  BY <1>2, <1>4, TilesDef DEF ReadyNeverFails
<1>7. ReadyIsExact
  BY <1>2 DEF ReadyIsExact, NoWorkView, IsAccepted
<1> QED BY <1>3, <1>5, <1>6, <1>7 DEF PlanInv

LEMMA BeginKeeps ==
  ASSUME PlanInv, NEW view \in Works, NEW sessionStale \in BOOLEAN,
         Begin(view, sessionStale)
  PROVE  PlanInv'
<1> DEFINE verdict == BeginStatus(view, sessionStale)
<1>1. /\ begun' = verdict
      /\ work' = IF verdict = "Ready" THEN view ELSE NoWorkView
      /\ nextAddress' = IF verdict = "Ready" THEN view.start ELSE 0
      /\ remaining' = IF verdict = "Ready" THEN view.count ELSE 0
      /\ active' = (verdict = "Ready")
      /\ sourceOffset' = 0 /\ fragmentIndex' = 0 /\ planned' = "NotAsked"
      /\ asked' = view /\ fragments' = <<>> /\ stable' = TRUE
      /\ routes' = routes /\ options' = options
  BY DEF Begin
<1>2. /\ verdict \in ForwardPlanStatus
      /\ sessionStale => verdict = "StaleSession"
      /\ ~sessionStale => (verdict = "Ready" <=> MayBegin(view))
      /\ verdict = "Ready" => MayBegin(view)
  BY BeginIsExact DEF PlanInv, TypeOK
<1> HIDE DEF verdict
<1>3. /\ view \in Work /\ view.start \in Address /\ view.count \in Address
      /\ view.start \in Nat /\ view.count \in Nat /\ 0 \in Address
      /\ options.maxQuantity \in Nat
  BY ForwardPlanAssumption, AddressSpaceAssumption, Numbers
  DEF PlanInv, Work, Address
<1>4. TypeOK'
  BY <1>1, <1>2, <1>3 DEF PlanInv, TypeOK
<1>5. Len(fragments)' = 0 /\ Sent(0)' = 0 /\ 1 .. 0 = {}
  BY <1>1 DEF Sent
<1>6. Routable(view)' <=> Routable(view)
  BY <1>1 DEF Routable, MappedTo
<1>7. verdict = "Ready" =>
        /\ view.count > 0 /\ view.start + view.count <= AddressSpace
        /\ options.maxQuantity > 0 /\ Routable(view)
  BY <1>2 DEF MayBegin
<1>8. NoWorkView.count = 0
  BY DEF NoWorkView
<1>9. CursorInv'
  <2>1. CASE verdict = "Ready"
    <3>1. /\ begun' = "Ready" /\ active' /\ work' = view /\ asked' = view
          /\ nextAddress' = view.start /\ remaining' = view.count
      BY <1>1, <2>1
    <3>2. /\ view.count # 0 /\ view.start + view.count <= AddressSpace
          /\ options'.maxQuantity # 0 /\ Routable(view)'
      BY <1>1, <1>3, <1>6, <1>7, <2>1
    <3>3. 0 + view.count = view.count /\ view.start = view.start + 0
      BY <1>3
    <3>4. Sent(Len(fragments))' = 0
      BY <1>5
    <3>5. Routable(work)'
      <4>1. Routable(work)' <=> Routable(view)'
        BY <3>1 DEF Routable, MappedTo
      <4> QED BY <3>2, <4>1
    <3>6. (/\ Len(fragments) <= Sent(Len(fragments))
           /\ \A k \in 1 .. Len(fragments) : Sent(k) <= work.count)'
      BY <1>5
    <3>7. (begun = "Ready" =>
             /\ work = asked /\ work \in Works
             /\ work.count # 0 /\ work.start + work.count <= AddressSpace
             /\ options.maxQuantity # 0
             /\ stable => Routable(work)
             /\ ~active /\ stable => Sent(Len(fragments)) = work.count)'
      BY <3>1, <3>2, <3>5
    <3>8. (active =>
             /\ remaining # 0
             /\ sourceOffset = Sent(Len(fragments))
             /\ nextAddress = work.start + sourceOffset
             /\ fragmentIndex = Len(fragments)
             /\ sourceOffset + remaining = work.count)'
      <4>1. sourceOffset' = 0 /\ fragmentIndex' = 0 /\ Len(fragments)' = 0
        BY <1>1, <1>5
      <4> QED BY <3>1, <3>2, <3>3, <3>4, <4>1
    <3>9. (begun # "Ready" => ~active /\ fragments = <<>> /\ work = NoWorkView)'
      BY <3>1
    <3> QED BY <3>6, <3>7, <3>8, <3>9 DEF CursorInv
  <2>2. CASE verdict # "Ready"
    <3>1. /\ begun' # "Ready" /\ active' = FALSE /\ work' = NoWorkView
          /\ fragments' = <<>>
      BY <1>1, <2>2
    <3>2. (/\ Len(fragments) <= Sent(Len(fragments))
           /\ \A k \in 1 .. Len(fragments) : Sent(k) <= work.count)'
      BY <1>5
    <3> QED BY <3>1, <3>2 DEF CursorInv
  <2> QED BY <2>1, <2>2
<1>10. LocalInv'
  BY <1>1, <1>5 DEF LocalInv
<1>11. FragmentsTile'
  <2>1. Sent(Len(fragments))' = 0
    BY <1>5
  <2>2. work'.count \in Nat /\ (active' => remaining' = work'.count)
    BY <1>1, <1>3, <1>8
  <2>3. 0 <= work'.count /\ (active' => 0 + remaining' = work'.count)
    BY <1>1, <1>3, <2>2
  <2> QED BY <1>1, <1>5, <2>1, <2>3 DEF FragmentsTile
<1>12. ReadyNeverFails'
  BY <1>1 DEF ReadyNeverFails
<1>13. ReadyIsExact'
  <2>1. MayBegin(view)' <=> MayBegin(view)
    BY <1>1, <1>6 DEF MayBegin, SpanPolicy, InOneRoute, MappedTo
  <2>2. ReadyIsExact' <=>
          (verdict # "StaleSession" => (verdict = "Ready" <=> MayBegin(view)'))
    BY <1>1 DEF ReadyIsExact, MayBegin
  <2> QED BY <1>2, <2>1, <2>2
<1> QED BY <1>4, <1>9, <1>10, <1>11, <1>12, <1>13 DEF PlanInv

-----------------------------------------------------------------------------
(* next() *)

(* While the routes are those of begin(), the next address is mapped, and  *)
(* its route has room for at least one value.                              *)
LEMMA NoGapAhead ==
  ASSUME PlanInv, HasMore, stable
  PROVE  Plannable
<1>1. /\ begun = "Ready" /\ Routable(work) /\ options.maxQuantity # 0
      /\ remaining # 0 /\ nextAddress = work.start + sourceOffset
      /\ sourceOffset + remaining = work.count
  BY DEF PlanInv, CursorInv, HasMore
<1>2. /\ {nextAddress, remaining, sourceOffset} \subseteq Nat
      /\ work.start \in Nat /\ work.count \in Nat /\ options.maxQuantity \in Nat
  BY Numbers DEF PlanInv
<1>3. nextAddress \in work.start .. work.start + work.count - 1
  BY <1>1, <1>2
<1>4. PICK i \in DOMAIN routes : Contains(routes[i].upstream, nextAddress)
  BY <1>1, <1>3 DEF Routable, MappedTo
<1>5. Located(routes, nextAddress) = i /\ i # NoRoute
  BY <1>2, <1>4, LocatedRoute, RouteShape DEF PlanInv, TypeOK, NoRoute
<1>6. /\ routes[i].upstream.start \in Nat /\ routes[i].upstream.count \in Nat
      /\ routes[i].upstream.start <= nextAddress
      /\ nextAddress < routes[i].upstream.start + routes[i].upstream.count
  BY <1>4, RouteShape DEF PlanInv, TypeOK, Contains, End
<1>7. routes[i].upstream.count - (nextAddress - routes[i].upstream.start) \in Nat \ {0}
  BY <1>2, <1>6
<1>8. Quantity # 0
  BY <1>1, <1>2, <1>5, <1>7 DEF Quantity, Least, Route, RouteOffset
<1> QED BY <1>5, <1>8 DEF Plannable

(* The write that next() plans: its size, its place in its route, and why  *)
(* it is no longer.  No sum of addresses wraps.                            *)
LEMMA FragmentFacts ==
  ASSUME PlanInv, HasMore, Plannable
  PROVE  /\ Quantity \in 1 .. remaining
         /\ Quantity <= options.maxQuantity
         /\ Located(routes, nextAddress) \in DOMAIN routes
         /\ Contains(Route.upstream, nextAddress)
         /\ Contains(Route.upstream, nextAddress + Quantity - 1)
         /\ nextAddress + Quantity <= End(Route.upstream)
         /\ Advance(Route.downstream.start, RouteOffset)
              = Route.downstream.start + (nextAddress - Route.upstream.start)
         /\ Contains(Route.downstream, Route.downstream.start + RouteOffset)
         /\ Contains(Route.downstream,
                     Route.downstream.start + RouteOffset + Quantity - 1)
         /\ PlannedFragment \in PlannedWrite
         /\ \/ Quantity = remaining
            \/ Quantity = options.maxQuantity
            \/ nextAddress + Quantity = End(Route.upstream)
<1> DEFINE i == Located(routes, nextAddress)
           room == Route.upstream.count - RouteOffset
<1>1. /\ AddressSpace \in Nat \ {0}
      /\ nextAddress \in Nat /\ remaining \in Nat \ {0}
      /\ options.maxQuantity \in Nat
      /\ nextAddress \in Address /\ remaining \in Address
      /\ sourceOffset \in Address /\ fragmentIndex \in Address
  <2>1. TypeOK /\ remaining # 0
    BY DEF PlanInv, HasMore
  <2> QED BY <2>1, Numbers DEF TypeOK
<1>2. /\ i \in DOMAIN routes /\ i \in Nat
      /\ Contains(Route.upstream, nextAddress)
  BY <1>1, LocatedRoute, RouteShape DEF PlanInv, TypeOK, Plannable, Route
<1>3. /\ Route.upstream.start \in Nat /\ Route.upstream.count \in Nat
      /\ Route.downstream.start \in Nat
      /\ Route.downstream.count = Route.upstream.count
      /\ End(Route.downstream) <= AddressSpace
  BY <1>2, RouteShape DEF PlanInv, TypeOK, Route, MappingFits
<1>4. /\ Route.upstream.count # 0
      /\ Route.upstream.start <= nextAddress
      /\ nextAddress < Route.upstream.start + Route.upstream.count
      /\ End(Route.upstream) = Route.upstream.start + Route.upstream.count
      /\ End(Route.downstream) = Route.downstream.start + Route.upstream.count
  BY <1>2, <1>3 DEF Contains, End
<1>5. /\ RouteOffset \in Nat /\ RouteOffset < Route.upstream.count
      /\ RouteOffset = nextAddress - Route.upstream.start
      /\ room \in Nat \ {0}
  BY <1>1, <1>3, <1>4 DEF RouteOffset
<1>6. Quantity # 0
  BY DEF Plannable
<1>7. Quantity = Least(Least(remaining, room), options.maxQuantity)
  BY DEF Quantity
<1>8. room = Route.upstream.count - RouteOffset
  OBVIOUS
<1> HIDE DEF i, room
<1>9. /\ Quantity \in Nat \ {0} /\ Quantity <= remaining /\ Quantity <= room
      /\ Quantity <= options.maxQuantity
      /\ Quantity = remaining \/ Quantity = room \/ Quantity = options.maxQuantity
  BY <1>1, <1>5, <1>6, <1>7 DEF Least
<1>10. /\ nextAddress + Quantity <= End(Route.upstream)
       /\ Quantity = room => nextAddress + Quantity = End(Route.upstream)
  BY <1>1, <1>3, <1>4, <1>5, <1>8, <1>9
<1>11. Contains(Route.upstream, nextAddress + Quantity - 1)
  BY <1>1, <1>3, <1>4, <1>9, <1>10 DEF Contains
<1>12. Route.downstream.start + RouteOffset < AddressSpace
  BY <1>1, <1>3, <1>4, <1>5
<1>13. /\ Advance(Route.downstream.start, RouteOffset)
            = Route.downstream.start + RouteOffset
       /\ Advance(Route.downstream.start, RouteOffset) \in Address
  BY <1>3, <1>5, <1>12, AdvanceWraps
<1>14. /\ Contains(Route.downstream, Route.downstream.start + RouteOffset)
       /\ Contains(Route.downstream,
                   Route.downstream.start + RouteOffset + Quantity - 1)
  BY <1>3, <1>4, <1>5, <1>8, <1>9 DEF Contains
<1>15. Quantity \in Address
  BY <1>1, <1>9 DEF Address
<1>16. PlannedFragment \in PlannedWrite
  <2>1. i \in Nat
    BY <1>2
  <2> QED BY <1>1, <1>13, <1>15, <2>1 DEF PlannedFragment, PlannedWrite, i
<1>17. Quantity \in 1 .. remaining
  BY <1>1, <1>9
<1> QED
  BY <1>2, <1>5, <1>9, <1>10, <1>11, <1>13, <1>14, <1>16, <1>17 DEF i

(* What the invariant says of an unchanged verdict. *)
LEMMA VerdictHolds ==
  ASSUME ReadyIsExact, UNCHANGED <<routes, options, begun, asked, stable>>
  PROVE  ReadyIsExact'
<1>1. /\ Routable(asked)' <=> Routable(asked)
      /\ InOneRoute(asked)' <=> InOneRoute(asked)
      /\ SpanPolicy(asked)' = SpanPolicy(asked)
  BY DEF Routable, InOneRoute, MappedTo, SpanPolicy
<1>2. /\ begun' = begun /\ asked' = asked /\ stable' = stable
      /\ options' = options
  OBVIOUS
<1> QED BY <1>1, <1>2 DEF ReadyIsExact

LEMMA FinishKeeps ==
  ASSUME PlanInv, FinishPlan,
         UNCHANGED <<routes, options, begun, asked, stable>>
  PROVE  PlanInv'
<1>1. /\ ~active /\ active' = FALSE /\ planned' = "Complete"
      /\ UNCHANGED <<work, nextAddress, remaining, sourceOffset,
                     fragmentIndex, fragments>>
  BY DEF FinishPlan, HasMore, PlanInv, CursorInv
<1>2. \A k : Sent(k)' = Sent(k)
  BY <1>1 DEF Sent
<1>3. TypeOK'
  BY <1>1 DEF PlanInv, TypeOK, ForwardNextStatus
<1>4. Routable(work)' <=> Routable(work)
  BY <1>1 DEF Routable, MappedTo
<1>5. CursorInv'
  BY <1>1, <1>2, <1>4 DEF PlanInv, CursorInv
<1>6. LocalInv'
  BY <1>1 DEF PlanInv, LocalInv, Local
<1>7. FragmentsTile'
  <2>1. begun = "Ready" /\ stable => Sent(Len(fragments)) = work.count
    BY <1>1 DEF PlanInv, CursorInv
  <2>2. \A k : Tile(k)' <=> Tile(k)
    BY <1>1, <1>2 DEF Tile
  <2>3. Sent(Len(fragments))' = Sent(Len(fragments)) /\ Len(fragments)' = Len(fragments)
    BY <1>1, <1>2
  <2>4. \A k \in 1 .. Len(fragments) : Tile(k)
    BY TilesDef DEF PlanInv
  <2>5. Sent(Len(fragments)) <= work.count
    BY DEF PlanInv, FragmentsTile
  <2>6. (\A k \in 1 .. Len(fragments) : Tile(k))'
    BY <2>2, <2>3, <2>4
  <2> QED BY <1>1, <2>1, <2>3, <2>5, <2>6 DEF FragmentsTile, Tile
<1>8. ReadyNeverFails'
  BY <1>1 DEF ReadyNeverFails
<1>9. ReadyIsExact'
  BY VerdictHolds DEF PlanInv
<1> QED BY <1>3, <1>5, <1>6, <1>7, <1>8, <1>9 DEF PlanInv

LEMMA RefuseKeeps ==
  ASSUME PlanInv, NEW sequence \in {0, 1}, RefuseSequence(sequence),
         UNCHANGED <<routes, options, begun, asked, stable>>
  PROVE  PlanInv'
<1>1. /\ planned' = "InvalidSequence"
      /\ UNCHANGED <<work, nextAddress, remaining, sourceOffset,
                     fragmentIndex, active, fragments>>
  BY DEF RefuseSequence, cursor
<1>2. \A k : Sent(k)' = Sent(k)
  BY <1>1 DEF Sent
<1>3. TypeOK'
  BY <1>1 DEF PlanInv, TypeOK, ForwardNextStatus
<1>4. Routable(work)' <=> Routable(work)
  BY <1>1 DEF Routable, MappedTo
<1>5. CursorInv'
  BY <1>1, <1>2, <1>4 DEF PlanInv, CursorInv
<1>6. LocalInv'
  BY <1>1 DEF PlanInv, LocalInv, Local
<1>7. FragmentsTile'
  BY <1>1, <1>2 DEF PlanInv, FragmentsTile
<1>8. ReadyNeverFails'
  BY <1>1 DEF ReadyNeverFails
<1>9. ReadyIsExact'
  BY VerdictHolds DEF PlanInv
<1> QED BY <1>3, <1>5, <1>6, <1>7, <1>8, <1>9 DEF PlanInv

(* next() fails closed only over routes that begin() did not see. *)
LEMMA FailKeeps ==
  ASSUME PlanInv, NEW sequence \in {0, 1}, FailClosed(sequence),
         UNCHANGED <<routes, options, begun, asked, stable>>
  PROVE  PlanInv'
<1>1. /\ HasMore /\ ~Plannable
      /\ planned' = "TopologyChanged" /\ active' = FALSE /\ remaining' = 0
      /\ UNCHANGED <<work, nextAddress, sourceOffset, fragmentIndex, fragments>>
  BY DEF FailClosed
<1>2. ~stable /\ ~stable'
  BY <1>1, NoGapAhead
<1>3. \A k : Sent(k)' = Sent(k)
  BY <1>1 DEF Sent
<1>4. TypeOK'
  <2>1. 0 \in Address
    BY AddressSpaceAssumption DEF Address
  <2> QED BY <1>1, <2>1 DEF PlanInv, TypeOK, ForwardNextStatus
<1>5. CursorInv'
  BY <1>1, <1>2, <1>3 DEF PlanInv, CursorInv
<1>6. LocalInv'
  BY <1>2 DEF LocalInv
<1>7. FragmentsTile'
  BY <1>1, <1>3 DEF PlanInv, FragmentsTile
<1>8. ReadyNeverFails'
  BY <1>2 DEF ReadyNeverFails
<1>9. ReadyIsExact'
  BY VerdictHolds DEF PlanInv
<1> QED BY <1>4, <1>5, <1>6, <1>7, <1>8, <1>9 DEF PlanInv

LEMMA PlanKeeps ==
  ASSUME PlanInv, NEW sequence \in {0, 1}, PlanFragment(sequence),
         UNCHANGED <<routes, options, begun, asked, stable>>
  PROVE  PlanInv'
<1> DEFINE f == PlannedFragment
           q == Quantity
<1>0. PICK n \in Nat : n = Len(fragments)
  BY Numbers DEF PlanInv
<1>1. /\ HasMore /\ Plannable
      /\ planned' = "Planned"
      /\ fragments' = Append(fragments, f)
      /\ nextAddress' = Advance(nextAddress, q)
      /\ remaining' = remaining - q
      /\ sourceOffset' = Advance(sourceOffset, q)
      /\ fragmentIndex' = Advance(fragmentIndex, 1)
      /\ active' = (remaining # q)
      /\ work' = work
  BY DEF PlanFragment
<1>2. /\ q \in 1 .. remaining /\ f \in PlannedWrite
      /\ f.routeIndex = Located(routes, nextAddress)
      /\ f.routeIndex \in DOMAIN routes
      /\ Contains(Route.upstream, nextAddress)
      /\ nextAddress + q <= End(Route.upstream)
      /\ f.downstreamStart
           = Route.downstream.start + (nextAddress - Route.upstream.start)
      /\ f.upstreamStart = nextAddress /\ f.quantity = q
      /\ f.sourceOffset = sourceOffset /\ f.fragmentIndex = fragmentIndex
      /\ f.finalFragment = (remaining = q)
  BY <1>1, FragmentFacts DEF PlannedFragment
<1>3. /\ begun = "Ready" /\ active /\ remaining # 0
      /\ work = asked /\ work \in Works
      /\ work.count # 0 /\ work.start + work.count <= AddressSpace
      /\ options.maxQuantity # 0
      /\ stable => Routable(work)
      /\ sourceOffset = Sent(n) /\ nextAddress = work.start + sourceOffset
      /\ fragmentIndex = n /\ sourceOffset + remaining = work.count
      /\ n <= Sent(n)
      /\ \A k \in 1 .. n : Sent(k) <= work.count
  BY <1>0, <1>1 DEF PlanInv, CursorInv, HasMore
<1>4. /\ AddressSpace \in Nat \ {0}
      /\ nextAddress \in Nat /\ remaining \in Nat /\ sourceOffset \in Nat
      /\ fragmentIndex \in Nat /\ n \in Nat
      /\ work.start \in Nat /\ work.count \in Nat /\ work.count < AddressSpace
      /\ remaining < AddressSpace
      /\ fragments \in Seq(PlannedWrite)
  <2>1. TypeOK
    BY DEF PlanInv
  <2> QED BY <2>1, Numbers DEF TypeOK, Address
<1> HIDE DEF f, q
<1>5. /\ Len(fragments') = n + 1
      /\ \A k \in 1 .. n : fragments'[k] = fragments[k]
      /\ fragments'[n + 1] = f
      /\ fragments' \in Seq(PlannedWrite)
  BY <1>0, <1>1, <1>2, <1>4
<1>6. /\ \A k \in 0 .. n : Sent(k)' = Sent(k)
      /\ Sent(n + 1)' = sourceOffset + q
  <2>1. ASSUME NEW k \in 0 .. n PROVE Sent(k)' = Sent(k)
    <3>1. k # 0 => fragments'[k] = fragments[k]
      BY <1>4, <1>5
    <3> QED BY <3>1 DEF Sent
  <2>2. n + 1 # 0
    BY <1>4
  <2>3. Sent(n + 1)' = fragments'[n + 1].sourceOffset + fragments'[n + 1].quantity
    BY <2>2 DEF Sent
  <2> QED BY <1>2, <1>5, <2>1, <2>3
<1>7. Sent(Len(fragments))' = sourceOffset + q
  BY <1>5, <1>6
<1>8. /\ q \in Nat \ {0} /\ q <= remaining
      /\ nextAddress + q \in Nat /\ sourceOffset + q \in Nat
      /\ sourceOffset + q <= work.count
      /\ nextAddress + q = work.start + (sourceOffset + q)
      /\ sourceOffset + q < AddressSpace
      /\ fragmentIndex + 1 < AddressSpace
      /\ n + 1 <= sourceOffset + q
      /\ remaining # q => nextAddress + q < AddressSpace
  <2>1. /\ nextAddress = work.start + sourceOffset /\ fragmentIndex = n
        /\ sourceOffset + remaining = work.count /\ n <= sourceOffset
        /\ work.start + work.count <= AddressSpace
    BY <1>3
  <2>2. q \in Nat \ {0} /\ q <= remaining
    BY <1>2, <1>4
  <2>3. /\ nextAddress + q \in Nat /\ sourceOffset + q \in Nat
        /\ sourceOffset + q <= work.count
        /\ nextAddress + q = work.start + (sourceOffset + q)
    BY <1>4, <2>1, <2>2
  <2>4. sourceOffset + q < AddressSpace
    BY <1>4, <2>3
  <2>5. n + 1 <= sourceOffset + q
    BY <1>4, <2>1, <2>2
  <2>6. fragmentIndex + 1 < AddressSpace
    <3>1. fragmentIndex + 1 = n + 1 /\ n + 1 \in Nat
      BY <1>4, <2>1
    <3>2. sourceOffset + q \in Nat /\ AddressSpace \in Nat
      BY <1>4, <2>3
    <3>3. n + 1 < AddressSpace
      BY <2>4, <2>5, <3>1, <3>2
    <3> QED BY <3>1, <3>3
  <2>7. ASSUME remaining # q PROVE nextAddress + q < AddressSpace
    <3>1. q < remaining
      BY <1>4, <2>2, <2>7
    <3>2. sourceOffset + q < work.count
      BY <1>4, <2>1, <2>2, <3>1
    <3>3. work.start + (sourceOffset + q) < AddressSpace
      BY <1>4, <2>1, <2>3, <3>2
    <3> QED BY <2>3, <3>3
  <2> QED BY <2>2, <2>3, <2>4, <2>5, <2>6, <2>7
<1>9. /\ sourceOffset' = sourceOffset + q /\ sourceOffset' \in Address
      /\ fragmentIndex' = n + 1 /\ fragmentIndex' \in Address
      /\ nextAddress' \in Address
      /\ remaining # q => nextAddress' = nextAddress + q
      /\ remaining' \in Address
      /\ remaining' = 0 <=> remaining = q
      /\ remaining' = remaining - q
  <2>1. remaining' \in Nat /\ remaining' < AddressSpace
        /\ (remaining' = 0 <=> remaining = q)
    BY <1>1, <1>4, <1>8
  <2>2. remaining' \in Address
    BY <1>4, <2>1 DEF Address
  <2> QED BY <1>1, <1>3, <1>4, <1>8, <2>1, <2>2, AdvanceWraps
<1>10. TypeOK'
  BY <1>1, <1>5, <1>9 DEF PlanInv, TypeOK, ForwardNextStatus
<1>11. CursorInv'
  <2>1. Routable(work)' <=> Routable(work)
    BY <1>1 DEF Routable, MappedTo
  <2>2. (begun = "Ready" =>
           /\ work = asked /\ work \in Works
           /\ work.count # 0 /\ work.start + work.count <= AddressSpace
           /\ options.maxQuantity # 0
           /\ stable => Routable(work)
           /\ ~active /\ stable => Sent(Len(fragments)) = work.count)'
    <3>1. ~active' => Sent(Len(fragments))' = work'.count
      BY <1>1, <1>3, <1>7
    <3> QED BY <1>1, <1>3, <2>1, <3>1
  <2>3. (begun # "Ready" => ~active /\ fragments = <<>> /\ work = NoWorkView)'
    BY <1>3
  <2>4. (active =>
           /\ remaining # 0
           /\ sourceOffset = Sent(Len(fragments))
           /\ nextAddress = work.start + sourceOffset
           /\ fragmentIndex = Len(fragments)
           /\ sourceOffset + remaining = work.count)'
    <3> SUFFICES ASSUME active'
                 PROVE  (/\ remaining # 0
                         /\ sourceOffset = Sent(Len(fragments))
                         /\ nextAddress = work.start + sourceOffset
                         /\ fragmentIndex = Len(fragments)
                         /\ sourceOffset + remaining = work.count)'
      OBVIOUS
    <3>1. remaining # q /\ work' = work
      BY <1>1
    <3>2. sourceOffset + q + (remaining - q) = work.count
      BY <1>3, <1>4, <1>8
    <3> QED BY <1>5, <1>7, <1>8, <1>9, <3>1, <3>2
  <2>5. (/\ Len(fragments) <= Sent(Len(fragments))
         /\ \A k \in 1 .. Len(fragments) : Sent(k) <= work.count)'
    <3>1. ASSUME NEW k \in 1 .. n + 1 PROVE Sent(k)' <= work.count
      <4>1. k \in 1 .. n \/ k = n + 1
        BY <1>4
      <4> QED BY <1>3, <1>6, <1>8, <4>1
    <3> QED BY <1>1, <1>5, <1>7, <1>8, <3>1
  <2> QED BY <2>2, <2>3, <2>4, <2>5 DEF CursorInv
<1>12. LocalInv'
  <2> SUFFICES ASSUME stable', NEW k \in 1 .. n + 1
               PROVE  Local(fragments[k])'
    BY <1>5 DEF LocalInv
  <2>1. CASE k \in 1 .. n
    <3>1. Local(fragments[k])
      BY <1>0, <2>1 DEF PlanInv, LocalInv
    <3> QED BY <1>5, <2>1, <3>1 DEF Local
  <2>2. CASE k = n + 1
    <3>1. Route = routes[f.routeIndex]
      BY <1>2 DEF Route
    <3>2. Route.upstream.start <= nextAddress
      BY <1>2 DEF Contains
    <3> QED BY <1>2, <1>5, <2>2, <3>1, <3>2 DEF Local
  <2>3. k \in 1 .. n \/ k = n + 1
    BY <1>4
  <2> QED BY <2>1, <2>2, <2>3
<1>13. FragmentsTile'
  <2>1. ASSUME NEW k \in 1 .. n + 1 PROVE Tile(k)'
    <3>1. CASE k \in 1 .. n
      <4>1. Tile(k)
        BY <1>0, <3>1, TilesDef DEF PlanInv
      <4>2. k - 1 \in 0 .. n /\ k \in 0 .. n
        BY <1>4, <3>1
      <4> QED BY <1>1, <1>5, <1>6, <3>1, <4>1, <4>2 DEF Tile
    <3>2. CASE k = n + 1
      <4>1. k - 1 = n /\ n \in 0 .. n
        BY <1>4, <3>2
      <4>2. remaining = q <=> sourceOffset + q = work.count
        <5>1. sourceOffset + remaining = work.count
          BY <1>3
        <5> QED BY <1>4, <1>8, <5>1
      <4>3. Sent(k)' = sourceOffset + q /\ Sent(k - 1)' = sourceOffset
        BY <1>3, <1>6, <3>2, <4>1
      <4>4. fragments'[k] = f
        BY <1>5, <3>2
      <4>5. q > 0
        BY <1>8
      <4> QED BY <1>1, <1>2, <1>3, <4>1, <4>2, <4>3, <4>4, <4>5 DEF Tile
    <3>3. k \in 1 .. n \/ k = n + 1
      BY <1>4
    <3> QED BY <3>1, <3>2, <3>3
  <2>2. sourceOffset + q + (remaining - q) = work.count
    BY <1>3, <1>4, <1>8
  <2>3. /\ Sent(Len(fragments))' <= work'.count
        /\ active' => Sent(Len(fragments))' + remaining' = work'.count
        /\ planned' # "Complete"
    BY <1>1, <1>7, <1>8, <2>2
  <2>4. (\A k \in 1 .. Len(fragments) : Tile(k))'
    BY <1>5, <2>1
  <2> QED BY <2>3, <2>4 DEF FragmentsTile, Tile
<1>14. ReadyNeverFails'
  BY <1>1 DEF ReadyNeverFails
<1>15. ReadyIsExact'
  BY VerdictHolds DEF PlanInv
<1> QED BY <1>10, <1>11, <1>12, <1>13, <1>14, <1>15 DEF PlanInv

LEMMA ReplaceKeeps ==
  ASSUME PlanInv, NEW mappings \in RouteTables, ReplaceRoutes(mappings)
  PROVE  PlanInv'
<1>1. /\ routes' = mappings /\ stable' = FALSE
      /\ UNCHANGED <<options, work, nextAddress, remaining, sourceOffset,
                     fragmentIndex, active, begun, planned, asked, fragments>>
  BY DEF ReplaceRoutes, cursor
<1>2. \A k : Sent(k)' = Sent(k)
  BY <1>1 DEF Sent
<1>3. TypeOK'
  BY <1>1 DEF PlanInv, TypeOK
<1>4. CursorInv'
  BY <1>1, <1>2 DEF PlanInv, CursorInv
<1>5. FragmentsTile'
  BY <1>1, <1>2 DEF PlanInv, FragmentsTile
<1>6. LocalInv' /\ ReadyNeverFails' /\ ReadyIsExact'
  BY <1>1 DEF LocalInv, ReadyNeverFails, ReadyIsExact
<1> QED BY <1>3, <1>4, <1>5, <1>6 DEF PlanInv

LEMMA PlanHolds ==
  ASSUME PlanInv, UNCHANGED plan
  PROVE  PlanInv'
<1>1. UNCHANGED <<routes, options, work, nextAddress, remaining, sourceOffset,
                  fragmentIndex, active, begun, planned, asked, fragments,
                  stable>>
  BY DEF plan, cursor
<1>2. \A k : Sent(k)' = Sent(k)
  BY <1>1 DEF Sent
<1>3. Routable(work)' <=> Routable(work)
  BY <1>1 DEF Routable, MappedTo
<1>4. TypeOK'
  BY <1>1 DEF PlanInv, TypeOK
<1>5. CursorInv'
  BY <1>1, <1>2, <1>3 DEF PlanInv, CursorInv
<1>6. LocalInv'
  BY <1>1 DEF PlanInv, LocalInv, Local
<1>7. FragmentsTile'
  BY <1>1, <1>2 DEF PlanInv, FragmentsTile
<1>8. ReadyNeverFails'
  BY <1>1 DEF PlanInv, ReadyNeverFails
<1>9. ReadyIsExact'
  BY <1>1, VerdictHolds DEF PlanInv
<1> QED BY <1>4, <1>5, <1>6, <1>7, <1>8, <1>9 DEF PlanInv

LEMMA NextKeeps ==
  ASSUME PlanInv, NEW sequence \in {0, 1}, NextFragment(sequence)
  PROVE  PlanInv'
<1>1. UNCHANGED <<routes, options, begun, asked, stable>>
  BY DEF NextFragment
<1>2. CASE FinishPlan
  BY <1>1, <1>2, FinishKeeps
<1>3. CASE RefuseSequence(sequence)
  BY <1>1, <1>3, RefuseKeeps
<1>4. CASE FailClosed(sequence)
  BY <1>1, <1>4, FailKeeps
<1>5. CASE PlanFragment(sequence)
  BY <1>1, <1>5, PlanKeeps
<1> QED BY <1>2, <1>3, <1>4, <1>5 DEF NextFragment

LEMMA PlanStep == PlanInv /\ [ExecutionNext]_allVars => PlanInv'
<1> SUFFICES ASSUME PlanInv, [ExecutionNext]_allVars PROVE PlanInv'
  OBVIOUS
<1>1. ASSUME NEW view \in Works, NEW sessionStale \in BOOLEAN,
             BeginWork(view, sessionStale)
      PROVE  PlanInv'
  BY <1>1, BeginKeeps DEF BeginWork
<1>2. ASSUME NEW sequence \in {0, 1}, PlanNext(sequence)
      PROVE  PlanInv'
  BY <1>2, NextKeeps DEF PlanNext
<1>3. ASSUME NEW response \in Response, NEW acted \in BOOLEAN,
             ExecuteFragment(response, acted)
      PROVE  PlanInv'
  BY <1>3, PlanHolds DEF ExecuteFragment
<1>4. ASSUME NEW request \in OtherRequests, NEW response \in Response,
             NEW acted \in BOOLEAN, ExecuteOther(request, response, acted)
      PROVE  PlanInv'
  BY <1>4, PlanHolds DEF ExecuteOther
<1>5. ASSUME NEW mappings \in RouteTables, NewRoutes(mappings)
      PROVE  PlanInv'
  BY <1>5, ReplaceKeeps DEF NewRoutes
<1>6. CASE UNCHANGED allVars
  BY <1>6, PlanHolds DEF allVars
<1> QED BY <1>1, <1>2, <1>3, <1>4, <1>5, <1>6 DEF ExecutionNext

LEMMA PlanInvariant == ExecutionSpec => []PlanInv
<1>1. ExecutionInit => PlanInv
  BY PlanInit DEF ExecutionInit
<1> QED BY <1>1, PlanStep, PTL DEF ExecutionSpec

(* Every variable of the planner keeps its type. *)
THEOREM PlannerTypes == ExecutionSpec => []TypeOK
<1>1. PlanInv => TypeOK
  BY DEF PlanInv
<1> QED BY <1>1, PlanInvariant, PTL

(* begin() lets a work through exactly when every one of its addresses is  *)
(* mapped and its span policy allows the routes they are on.               *)
THEOREM BeginVerdictExact == ExecutionSpec => []ReadyIsExact
<1>1. PlanInv => ReadyIsExact
  BY DEF PlanInv
<1> QED BY <1>1, PlanInvariant, PTL

(* next() meets a gap only if the caller replaced the routes after begin().*)
THEOREM NoGapAfterReady == ExecutionSpec => []ReadyNeverFails
<1>1. PlanInv => ReadyNeverFails
  BY DEF PlanInv
<1> QED BY <1>1, PlanInvariant, PTL

(* The fragments of a plan tile its payload from the start: no hole, no    *)
(* overlap, and the last one alone is final, whatever the caller does to   *)
(* the routes on the way.                                                  *)
THEOREM PlanTilesPayload == ExecutionSpec => []FragmentsTile
<1>1. PlanInv => FragmentsTile
  BY DEF PlanInv
<1> QED BY <1>1, PlanInvariant, PTL

LEMMA PlannedIsLocal ==
  ASSUME PlanInv, NEW sequence \in {0, 1}, PlanFragment(sequence)
  PROVE  LastIsLocal
<1> DEFINE w == PlannedFragment
           r == Route
           q == Quantity
           d == w.downstreamStart
<1>1. HasMore /\ Plannable /\ fragments' = Append(fragments, PlannedFragment)
  BY DEF PlanFragment
<1>2. fragments \in Seq(PlannedWrite) /\ PlannedFragment \in PlannedWrite
  BY <1>1, FragmentFacts DEF PlanInv, TypeOK
<1>3. fragments'[Len(fragments')] = w
  BY <1>1, <1>2
<1>4. /\ Quantity \in 1 .. remaining
      /\ Quantity <= options.maxQuantity
      /\ Located(routes, nextAddress) \in DOMAIN routes
      /\ Contains(Route.upstream, nextAddress)
      /\ Contains(Route.upstream, nextAddress + Quantity - 1)
      /\ Advance(Route.downstream.start, RouteOffset)
           = Route.downstream.start + (nextAddress - Route.upstream.start)
      /\ Contains(Route.downstream, Route.downstream.start + RouteOffset)
      /\ Contains(Route.downstream,
                  Route.downstream.start + RouteOffset + Quantity - 1)
      /\ \/ Quantity = remaining
         \/ Quantity = options.maxQuantity
         \/ nextAddress + Quantity = End(Route.upstream)
  BY <1>1, FragmentFacts
<1>5. /\ w.routeIndex = Located(routes, nextAddress)
      /\ w.upstreamStart = nextAddress /\ w.quantity = q
      /\ w.downstreamStart = Advance(Route.downstream.start, RouteOffset)
      /\ w.finalFragment = (remaining = Quantity)
      /\ routes[w.routeIndex] = Route
      /\ RouteOffset = nextAddress - Route.upstream.start
  BY DEF PlannedFragment, Route, RouteOffset
<1>6. /\ r.upstream.start \in Nat /\ r.downstream.start \in Nat
      /\ nextAddress \in Nat /\ remaining \in Nat /\ q \in Nat
  BY <1>4, Numbers, RouteShape DEF PlanInv, TypeOK, Route
<1> HIDE DEF w, r, q, d
<1>7. d = r.downstream.start + RouteOffset /\ d = w.downstreamStart
  BY <1>4, <1>5 DEF r, d
<1>8. /\ nextAddress + q - 1 = nextAddress + (q - 1)
      /\ r.downstream.start + RouteOffset + q - 1 = d + (q - 1)
      /\ d - r.downstream.start = nextAddress - r.upstream.start
  BY <1>5, <1>6, <1>7 DEF r
<1>9. /\ routes[w.routeIndex] = r
      /\ Contains(r.upstream, w.upstreamStart)
      /\ Contains(r.upstream, w.upstreamStart + (w.quantity - 1))
      /\ Contains(r.downstream, w.downstreamStart)
      /\ Contains(r.downstream, w.downstreamStart + (w.quantity - 1))
      /\ w.downstreamStart - r.downstream.start
           = w.upstreamStart - r.upstream.start
      /\ w.quantity <= options.maxQuantity
      /\ \/ w.finalFragment
         \/ w.quantity = options.maxQuantity
         \/ w.upstreamStart + w.quantity = End(r.upstream)
  BY <1>4, <1>5, <1>7, <1>8 DEF r, q
<1> QED BY <1>3, <1>9 DEF LastIsLocal

(* Only a planned write makes the list of fragments grow. *)
LEMMA LocalStep ==
  PlanInv /\ [ExecutionNext]_allVars
    => [fragments' # fragments /\ fragments' # <<>> => LastIsLocal]_vars
<1> SUFFICES ASSUME PlanInv, [ExecutionNext]_allVars,
                    fragments' # fragments, fragments' # <<>>
             PROVE  LastIsLocal
  OBVIOUS
<1>1. PICK sequence \in {0, 1} : PlanFragment(sequence)
  BY DEF ExecutionNext, BeginWork, Begin, PlanNext, NextFragment, FinishPlan,
         RefuseSequence, FailClosed, ExecuteFragment, ExecuteOther, NewRoutes,
         ReplaceRoutes, plan, allVars
<1> QED BY <1>1, PlannedIsLocal

(* Every planned write is within one route, at the registers that mirror   *)
(* its addresses, and cut short by nothing but the route or the limit.     *)
THEOREM PlannedWritesLocal == ExecutionSpec => FragmentIsLocal
BY PlanInvariant, LocalStep, PTL DEF ExecutionSpec, FragmentIsLocal

-----------------------------------------------------------------------------
(* downstreamRequestFor() and what reaches the devices.                    *)

ExecutionTypes == width \in Widths /\ executed \in Nat /\ failed \in BOOLEAN

(* Where the value at offset k of the work belongs. *)
Place(k) ==
  LET index == Located(routes, asked.start + k)
      route == routes[index]
  IN  [endpointId |-> index, table |-> width,
       address |-> route.downstream.start + asked.start + k - route.upstream.start,
       value |-> k + 1]

Places(n) == {Place(k) : k \in 0 .. n - 1}

(* What was written is some of what was executed, and all of it if no      *)
(* write failed.                                                           *)
WireInv ==
  /\ executed \in 0 .. Len(fragments)
  /\ begun = "Ready" /\ stable =>
       /\ written \subseteq Places(Sent(executed))
       /\ ~failed => Places(Sent(executed)) \subseteq written

(* The payload of a fragment is the snapshot from its offset on.           *)
LEMMA PayloadValues ==
  ASSUME NEW f, f.sourceOffset \in Nat, work.count \in Nat,
         f.sourceOffset < work.count
  PROVE  /\ Payload(f) \in Seq(Nat)
         /\ Len(Payload(f)) = work.count - f.sourceOffset
         /\ \A i \in 1 .. work.count - f.sourceOffset :
              Payload(f)[i] = f.sourceOffset + i
<1> DEFINE s == Snapshot(work)
           o == f.sourceOffset
<1>1. s \in Seq(Nat) /\ Len(s) = work.count /\ \A i \in 1 .. work.count : s[i] = i
  BY DEF Snapshot
<1>2. Payload(f) = SubSeq(s, o + 1, work.count)
  BY DEF Payload
<1> HIDE DEF s
<1>3. /\ SubSeq(s, o + 1, work.count) \in Seq(Nat)
      /\ Len(SubSeq(s, o + 1, work.count)) = work.count - o
      /\ \A i \in 1 .. work.count - o :
           SubSeq(s, o + 1, work.count)[i] = s[o + i]
  <2>1. o + 1 \in 1 .. Len(s) + 1 /\ work.count \in o .. Len(s)
    BY <1>1
  <2>2. /\ SubSeq(s, o + 1, work.count) \in Seq(Nat)
        /\ Len(SubSeq(s, o + 1, work.count))
             = IF o + 1 <= work.count THEN work.count - (o + 1) + 1 ELSE 0
        /\ \A i \in 1 .. work.count - (o + 1) + 1 :
             SubSeq(s, o + 1, work.count)[i] = s[o + 1 + i - 1]
    BY <1>1, <2>1, SubSeqProperties
  <2>3. work.count - (o + 1) + 1 = work.count - o /\ o + 1 <= work.count
    OBVIOUS
  <2>4. \A i \in 1 .. work.count - o : o + 1 + i - 1 = o + i
    OBVIOUS
  <2> QED BY <2>2, <2>3, <2>4
<1>4. \A i \in 1 .. work.count - o : s[o + i] = o + i
  <2> SUFFICES ASSUME NEW i \in 1 .. work.count - o PROVE s[o + i] = o + i
    OBVIOUS
  <2>1. o + i \in 1 .. work.count
    OBVIOUS
  <2> QED BY <1>1, <2>1
<1> QED BY <1>2, <1>3, <1>4

(* A planned write is a valid request, single or multiple, for its own     *)
(* part of the snapshot.                                                   *)
LEMMA RequestOfFragment ==
  ASSUME ExecutionTypes, NEW f, f.sourceOffset \in Nat, f.quantity \in Nat \ {0},
         work.count \in Nat, f.sourceOffset + f.quantity <= work.count
  PROVE  LET request == DownstreamRequestFor(f)
         IN  /\ Validation(request) = "Valid"
             /\ TableOf(request.operation) = width
             /\ request.endpointId = f.routeIndex
             /\ request.startAddress = f.downstreamStart
             /\ DOMAIN WrittenValues(request) = 1 .. f.quantity
             /\ \A i \in 1 .. f.quantity :
                  WrittenValues(request)[i] = f.sourceOffset + i
<1> DEFINE request == DownstreamRequestFor(f)
           payload == Payload(f)
           o == f.sourceOffset
           q == f.quantity
<1>1. /\ payload \in Seq(Nat) /\ Len(payload) = work.count - o
      /\ \A i \in 1 .. work.count - o : payload[i] = o + i
  BY PayloadValues
<1>2. /\ request.operation = PlannedOperation(q)
      /\ request.endpointId = f.routeIndex
      /\ request.startAddress = f.downstreamStart
      /\ request.quantity = q
      /\ width = "Coils" =>
           request.coilBuffer = payload /\ request.coilValue = payload[1]
      /\ width # "Coils" =>
           request.registerBuffer = payload /\ request.registerValue = payload[1]
  BY DEF DownstreamRequestFor
<1>3. width \in {"Coils", "HoldingRegisters"}
  BY ForwardExecutionAssumption DEF ExecutionTypes
<1>4. /\ 1 \in 1 .. work.count - o
      /\ payload[1] = o + 1
      /\ payload # <<>>
  BY <1>1
<1> HIDE DEF request, payload
<1>5. TableOf(request.operation) = width
  BY <1>2, <1>3 DEF PlannedOperation, TableOf
<1>6. request.operation \in DownstreamOperation \ ReadOperation
  BY <1>2, <1>3 DEF PlannedOperation, DownstreamOperation, ReadOperation
<1>7. CASE q = 1
  <2>1. request.operation \in SingleWrite /\ ValueOf(request) = payload[1]
    BY <1>2, <1>3, <1>7 DEF PlannedOperation, SingleWrite, ValueOf, BitOperation
  <2>2. Validation(request) = "Valid" /\ WrittenValues(request) = <<payload[1]>>
    BY <1>6, <2>1 DEF Validation, WrittenValues
  <2>3. /\ DOMAIN WrittenValues(request) = 1 .. q
        /\ \A i \in 1 .. q : WrittenValues(request)[i] = o + i
    BY <1>4, <1>7, <2>2
  <2> QED BY <1>2, <1>5, <2>2, <2>3 DEF request
<1>8. CASE q # 1
  <2>1. request.operation \notin SingleWrite /\ BufferOf(request) = payload
    BY <1>2, <1>3, <1>8 DEF PlannedOperation, SingleWrite, BufferOf, BitOperation
  <2>2. /\ Validation(request) = "Valid"
        /\ WrittenValues(request) = SubSeq(payload, 1, q)
    BY <1>2, <1>4, <1>6, <2>1 DEF Validation, WrittenValues, NullBuffer
  <2>3. /\ DOMAIN SubSeq(payload, 1, q) = 1 .. q
        /\ \A i \in 1 .. q : SubSeq(payload, 1, q)[i] = payload[i]
    BY <1>1
  <2>4. \A i \in 1 .. q : payload[i] = o + i
    BY <1>1
  <2> QED BY <1>2, <1>5, <2>2, <2>3, <2>4 DEF request
<1> QED BY <1>7, <1>8

(* The i-th register of a write stays in its route, and mirrors its place. *)
LEMMA PlaceArithmetic ==
  ASSUME NEW start \in Nat, NEW o \in Nat, NEW q \in Nat, NEW i \in 1 .. q,
         NEW up \in Nat, NEW end \in Nat, NEW down \in Nat,
         up <= start + o, start + o + q <= end
  PROVE  /\ start + (o + i - 1) \in Nat
         /\ up <= start + (o + i - 1)
         /\ start + (o + i - 1) < end
         /\ (down + ((start + o) - up)) + i - 1 = down + start + (o + i - 1) - up
         /\ o + i = (o + i - 1) + 1
OBVIOUS

(* The k-th planned write adds the places from Sent(k - 1) up to Sent(k).  *)
LEMMA EffectOfFragment ==
  ASSUME PlanInv, ExecutionTypes, begun = "Ready", stable,
         NEW k \in 1 .. Len(fragments)
  PROVE  LET request == DownstreamRequestFor(fragments[k])
         IN  /\ Validation(request) = "Valid"
             /\ Places(Sent(k)) = Places(Sent(k - 1)) \cup Effect(request)
<1> DEFINE f == fragments[k]
           o == f.sourceOffset
           q == f.quantity
           request == DownstreamRequestFor(f)
           values == WrittenValues(request)
<1>1. /\ k \in Nat \ {0} /\ o \in Nat /\ q \in Nat \ {0}
      /\ work.count \in Nat /\ work.start \in Nat
      /\ f.downstreamStart \in Nat /\ f.upstreamStart \in Nat
      /\ Sent(k - 1) = o /\ Sent(k) = o + q
      /\ o + q <= work.count
      /\ f.upstreamStart = work.start + o
      /\ work = asked
  <2>1. Tile(k) /\ TypeOK
    BY TilesDef DEF PlanInv
  <2>2. Sent(k) = o + q /\ Sent(k) <= work.count /\ work = asked
    BY DEF Sent, PlanInv, CursorInv
  <2> QED BY <2>1, <2>2, Numbers DEF Tile
<1>2. /\ f.routeIndex \in DOMAIN routes
      /\ routes[f.routeIndex].upstream.start <= f.upstreamStart
      /\ f.upstreamStart + q <= End(routes[f.routeIndex].upstream)
      /\ f.downstreamStart
           = routes[f.routeIndex].downstream.start
               + (f.upstreamStart - routes[f.routeIndex].upstream.start)
  BY DEF PlanInv, LocalInv, Local
<1>3. /\ Validation(request) = "Valid"
      /\ TableOf(request.operation) = width
      /\ request.endpointId = f.routeIndex
      /\ request.startAddress = f.downstreamStart
      /\ DOMAIN values = 1 .. q
      /\ \A i \in 1 .. q : values[i] = o + i
  BY <1>1, RequestOfFragment
<1> DEFINE route == routes[f.routeIndex]
           Written(i) == [endpointId |-> request.endpointId,
                          table |-> TableOf(request.operation),
                          address |-> request.startAddress + i - 1,
                          value |-> values[i]]
<1>4. Effect(request) = {Written(i) : i \in 1 .. q}
  BY <1>3 DEF Effect
<1>5. ASSUME NEW i \in 1 .. q PROVE Written(i) = Place(o + i - 1)
  <2> DEFINE address == asked.start + (o + i - 1)
             mirrored == route.downstream.start + asked.start + (o + i - 1)
                           - route.upstream.start
  <2>1. /\ route.upstream.start \in Nat /\ End(route.upstream) \in Nat
        /\ route.upstream.count \in Nat /\ route.downstream.start \in Nat
        /\ End(route.upstream) = route.upstream.start + route.upstream.count
    BY <1>2, RouteShape DEF PlanInv, TypeOK, End
  <2>2. /\ asked.start \in Nat /\ asked.start + o = f.upstreamStart
        /\ o \in Nat /\ q \in Nat
        /\ route.upstream.start <= f.upstreamStart
        /\ f.upstreamStart + q <= End(route.upstream)
    BY <1>1, <1>2
  <2> HIDE DEF route, f, q, o
  <2>3. /\ address \in Nat
        /\ route.upstream.start <= address
        /\ address < End(route.upstream)
        /\ (route.downstream.start + (f.upstreamStart - route.upstream.start))
             + i - 1 = mirrored
        /\ o + i = (o + i - 1) + 1
    <3> DEFINE start == asked.start
               up == route.upstream.start
               end == End(route.upstream)
               down == route.downstream.start
    <3>1. /\ start \in Nat /\ up \in Nat /\ end \in Nat /\ down \in Nat
          /\ o \in Nat /\ q \in Nat
          /\ up <= start + o /\ start + o + q <= end
          /\ f.upstreamStart = start + o
      BY <2>1, <2>2
    <3> HIDE DEF start, up, end, down
    <3>2. /\ start + (o + i - 1) \in Nat
          /\ up <= start + (o + i - 1)
          /\ start + (o + i - 1) < end
          /\ (down + ((start + o) - up)) + i - 1 = down + start + (o + i - 1) - up
          /\ o + i = (o + i - 1) + 1
      BY <3>1, PlaceArithmetic
    <3> QED BY <3>1, <3>2 DEF start, up, end, down
  <2> HIDE DEF address, mirrored
  <2>4. Contains(route.upstream, address)
    <3>1. route.upstream.count # 0
      BY <2>1, <2>3
    <3> QED BY <2>3, <3>1 DEF Contains
  <2>5. Located(routes, address) = f.routeIndex
    BY <1>2, <2>3, <2>4, LocatedRoute DEF PlanInv, TypeOK, route
  <2>6. /\ request.startAddress + i - 1 = mirrored
        /\ values[i] = (o + i - 1) + 1
    BY <1>2, <1>3, <2>3 DEF route
  <2>7. Place(o + i - 1) = [endpointId |-> f.routeIndex, table |-> width,
                            address |-> mirrored, value |-> (o + i - 1) + 1]
    BY <2>5 DEF Place, address, mirrored, route
  <2> QED BY <1>3, <2>6, <2>7
<1> HIDE DEF f, o, q, request, values, Written
<1>6. Places(o + q) = Places(o) \cup {Place(o + i - 1) : i \in 1 .. q}
  <2>1. ASSUME NEW j \in 0 .. (o + q) - 1
        PROVE  j \in 0 .. o - 1 \/ \E i \in 1 .. q : j = o + i - 1
    <3>1. CASE j < o
      BY <1>1, <3>1
    <3>2. CASE ~(j < o)
      <4>1. j - o + 1 \in 1 .. q /\ j = o + (j - o + 1) - 1
        BY <1>1, <3>2
      <4> QED BY <4>1
    <3> QED BY <3>1, <3>2
  <2>2. \A j \in 0 .. o - 1 : j \in 0 .. (o + q) - 1
    BY <1>1
  <2>3. \A i \in 1 .. q : o + i - 1 \in 0 .. (o + q) - 1
    BY <1>1
  <2> QED BY <2>1, <2>2, <2>3 DEF Places
<1>7. {Written(i) : i \in 1 .. q} = {Place(o + i - 1) : i \in 1 .. q}
  BY <1>5
<1> QED BY <1>1, <1>3, <1>4, <1>6, <1>7 DEF f, request

LEMMA TypesStep ==
  ExecutionTypes /\ [ExecutionNext]_allVars => ExecutionTypes'
<1> SUFFICES ASSUME ExecutionTypes, [ExecutionNext]_allVars
             PROVE  ExecutionTypes'
  OBVIOUS
<1>1. width' = width
  BY DEF ExecutionNext, BeginWork, PlanNext, ExecuteFragment, ExecuteOther,
         NewRoutes, allVars
<1>2. executed' \in Nat
  BY DEF ExecutionTypes, ExecutionNext, BeginWork, PlanNext, ExecuteFragment,
         ExecuteOther, NewRoutes, allVars, execution
<1>3. failed' \in BOOLEAN
  BY DEF ExecutionTypes, ExecutionNext, BeginWork, PlanNext, ExecuteFragment,
         ExecuteOther, NewRoutes, allVars, execution
<1> QED BY <1>1, <1>2, <1>3 DEF ExecutionTypes

(* The places of a work depend on its begin(), its routes and its width.   *)
LEMMA PlacesHold ==
  ASSUME UNCHANGED <<routes, asked, width>>
  PROVE  \A n : Places(n)' = Places(n)
<1>1. ASSUME NEW k PROVE Place(k)' = Place(k)
  BY DEF Place
<1> QED BY <1>1 DEF Places

(* A request of the caller's own writes nothing.                           *)
LEMMA OthersWriteNothing ==
  ASSUME NEW request \in OtherRequests, NEW response \in Response,
         NEW acted \in BOOLEAN, Execute(request, response, acted)
  PROVE  written' = written
<1>1. CASE Validation(request) # "Valid"
  BY <1>1 DEF Execute
<1>2. CASE Validation(request) = "Valid"
  <2>1. request.operation \in ReadOperation
    BY <1>2, ForwardExecutionAssumption
  <2>2. WrittenValues(request) = <<>> /\ DOMAIN <<>> = {}
    BY <2>1 DEF WrittenValues
  <2>3. Effect(request) = {}
    BY <2>2 DEF Effect
  <2>4. written' = IF acted THEN written \cup Effect(request) ELSE written
    BY <1>2 DEF Execute, Transaction
  <2> QED BY <2>3, <2>4
<1> QED BY <1>1, <1>2

(* Planning, or replacing the routes, changes nothing of what was sent.    *)
LEMMA PlanNextKeepsWire ==
  ASSUME PlanInv, WireInv, NEW sequence \in {0, 1}, PlanNext(sequence)
  PROVE  WireInv'
<1>1. /\ UNCHANGED <<routes, begun, asked, stable, width, executed, failed, written>>
      /\ \/ fragments' = fragments
         \/ fragments' = Append(fragments, PlannedFragment)
  BY DEF PlanNext, NextFragment, FinishPlan, RefuseSequence, FailClosed,
         PlanFragment, execution
<1>2. executed \in 0 .. Len(fragments) /\ Len(fragments) \in Nat
  BY Numbers DEF WireInv, PlanInv
<1>3. /\ Len(fragments) <= Len(fragments') /\ Len(fragments') \in Nat
      /\ \A k \in 1 .. Len(fragments) : fragments'[k] = fragments[k]
  <2>1. fragments \in Seq(PlannedWrite)
    BY DEF PlanInv, TypeOK
  <2>2. CASE fragments' = fragments
    BY <1>2, <2>2
  <2>3. CASE fragments' = Append(fragments, PlannedFragment)
    <3>1. /\ Len(fragments') = Len(fragments) + 1
          /\ \A k \in 1 .. Len(fragments) : fragments'[k] = fragments[k]
      BY <2>1, <2>3, AppendProperties
    <3> QED BY <1>2, <3>1
  <2> QED BY <1>1, <2>2, <2>3
<1>4. Sent(executed)' = Sent(executed)
  BY <1>1, <1>2, <1>3 DEF Sent
<1>5. Places(Sent(executed))' = Places(Sent(executed))
  BY <1>1, <1>4, PlacesHold
<1>6. executed' \in 0 .. Len(fragments')
  BY <1>1, <1>2, <1>3
<1> QED BY <1>1, <1>5, <1>6 DEF WireInv

LEMMA ExecuteKeepsWire ==
  ASSUME PlanInv, WireInv, ExecutionTypes, NEW response \in Response,
         NEW acted \in BOOLEAN, ExecuteFragment(response, acted)
  PROVE  WireInv'
<1> DEFINE request == DownstreamRequestFor(fragments[executed + 1])
<1>1. /\ executed < Len(fragments)
      /\ Execute(request, response, acted)
      /\ executed' = executed + 1
      /\ failed' = (failed \/ completion'.result # "Done")
      /\ UNCHANGED <<routes, begun, asked, stable, fragments, width>>
  BY DEF ExecuteFragment, plan
<1>2. /\ executed \in Nat /\ Len(fragments) \in Nat
      /\ executed + 1 \in 1 .. Len(fragments)
  BY <1>1, Numbers DEF ExecutionTypes, PlanInv
<1>3. executed' \in 0 .. Len(fragments)'
  BY <1>1, <1>2
<1>4. ASSUME begun = "Ready", stable
      PROVE  /\ written' \subseteq Places(Sent(executed + 1))
             /\ ~failed' => Places(Sent(executed + 1)) \subseteq written'
  <2>1. /\ Validation(request) = "Valid"
        /\ Places(Sent(executed + 1))
             = Places(Sent(executed + 1 - 1)) \cup Effect(request)
    BY <1>2, <1>4, EffectOfFragment
  <2>2. executed + 1 - 1 = executed
    BY <1>2
  <2>3. /\ written \subseteq Places(Sent(executed))
        /\ ~failed => Places(Sent(executed)) \subseteq written
    BY <1>4 DEF WireInv
  <2> HIDE DEF request
  <2>4. /\ response = "Done" => acted
        /\ written' = IF acted THEN written \cup Effect(request) ELSE written
        /\ completion'.result = response
    BY <1>1, <2>1 DEF Execute, Transaction
  <2>5. ~failed' => ~failed /\ acted
    BY <1>1, <2>4
  <2> QED BY <2>1, <2>2, <2>3, <2>4, <2>5
<1>5. Sent(executed)' = Sent(executed + 1)
  BY <1>1 DEF Sent
<1>6. Places(Sent(executed))' = Places(Sent(executed + 1))
  BY <1>1, <1>5, PlacesHold
<1> QED BY <1>1, <1>3, <1>4, <1>6 DEF WireInv

LEMMA WireStep ==
  PlanInv /\ ExecutionTypes /\ WireInv /\ [ExecutionNext]_allVars => WireInv'
<1> SUFFICES ASSUME PlanInv, ExecutionTypes, WireInv, [ExecutionNext]_allVars
             PROVE  WireInv'
  OBVIOUS
<1>1. ASSUME UNCHANGED <<plan, width, executed, failed, written>>
      PROVE  WireInv'
  <2>1. UNCHANGED <<routes, begun, asked, stable, fragments>>
    BY <1>1 DEF plan
  <2>2. Sent(executed)' = Sent(executed)
    BY <1>1, <2>1 DEF Sent
  <2>3. Places(Sent(executed))' = Places(Sent(executed))
    BY <1>1, <2>1, <2>2, PlacesHold
  <2> QED BY <1>1, <2>1, <2>3 DEF WireInv
<1>2. ASSUME NEW view \in Works, NEW sessionStale \in BOOLEAN,
             BeginWork(view, sessionStale)
      PROVE  WireInv'
  <2>1. executed' = 0 /\ written' = {} /\ fragments' = <<>>
    BY <1>2 DEF BeginWork, Begin
  <2>2. Sent(executed)' = 0
    BY <2>1 DEF Sent
  <2>3. Places(Sent(executed))' = {}
    BY <2>2 DEF Places
  <2>4. executed' \in 0 .. Len(fragments)'
    BY <2>1
  <2> QED BY <2>1, <2>3, <2>4 DEF WireInv
<1>3. ASSUME NEW sequence \in {0, 1}, PlanNext(sequence)
      PROVE  WireInv'
  BY <1>3, PlanNextKeepsWire
<1>4. ASSUME NEW response \in Response, NEW acted \in BOOLEAN,
             ExecuteFragment(response, acted)
      PROVE  WireInv'
  BY <1>4, ExecuteKeepsWire
<1>5. ASSUME NEW request \in OtherRequests, NEW response \in Response,
             NEW acted \in BOOLEAN, ExecuteOther(request, response, acted)
      PROVE  WireInv'
  <2>1. written' = written
    BY <1>5, OthersWriteNothing DEF ExecuteOther
  <2> QED BY <1>1, <1>5, <2>1 DEF ExecuteOther
<1>6. ASSUME NEW mappings \in RouteTables, NewRoutes(mappings)
      PROVE  WireInv'
  BY <1>6 DEF NewRoutes, ReplaceRoutes, execution, WireInv
<1>7. CASE UNCHANGED allVars
  BY <1>1, <1>7 DEF allVars, execution
<1> QED BY <1>2, <1>3, <1>4, <1>5, <1>6, <1>7 DEF ExecutionNext

LEMMA ExecutionInvariant == ExecutionSpec => [](PlanInv /\ ExecutionTypes /\ WireInv)
<1>1. ExecutionInit => PlanInv /\ ExecutionTypes /\ WireInv
  <2> SUFFICES ASSUME ExecutionInit PROVE PlanInv /\ ExecutionTypes /\ WireInv
    OBVIOUS
  <2>1. PlanInv /\ ExecutionTypes
    BY PlanInit DEF ExecutionInit, ExecutionTypes
  <2>2. executed \in 0 .. Len(fragments) /\ begun # "Ready"
    BY DEF ExecutionInit, Init
  <2> QED BY <2>1, <2>2 DEF WireInv
<1>2. PlanInv /\ ExecutionTypes /\ WireInv /\ [ExecutionNext]_allVars
        => (PlanInv /\ ExecutionTypes /\ WireInv)'
  BY PlanStep, TypesStep, WireStep
<1> QED BY <1>1, <1>2, PTL DEF ExecutionSpec

(* What the devices receive of a work is its snapshot: no value in another *)
(* place, all of it once every planned write is done, and no planned write *)
(* refused before it reaches the master.                                   *)
THEOREM SnapshotMirrored == ExecutionSpec => []DevicesMirrorSnapshot
<1>1. ASSUME PlanInv, ExecutionTypes, WireInv
      PROVE  DevicesMirrorSnapshot
  <2> SUFFICES ASSUME begun = "Ready", stable
               PROVE  /\ written \subseteq Mirror(asked)
                      /\ planned = "Complete" /\ executed = Len(fragments) /\ ~failed =>
                           written = Mirror(asked)
                      /\ \A k \in 1 .. Len(fragments) :
                           Validation(DownstreamRequestFor(fragments[k])) = "Valid"
    BY DEF DevicesMirrorSnapshot
  <2>1. Mirror(asked) = Places(asked.count)
    BY DEF Mirror, Places, Place
  <2>2. /\ asked.count \in Nat /\ executed \in 0 .. Len(fragments)
        /\ Len(fragments) \in Nat
        /\ Sent(executed) \in Nat /\ Sent(executed) <= asked.count
    <3>1. work = asked /\ \A k \in 1 .. Len(fragments) : Sent(k) <= work.count
      BY <1>1 DEF PlanInv, CursorInv
    <3>2. executed \in 0 .. Len(fragments)
      BY <1>1 DEF WireInv
    <3>3. /\ work.count \in Nat /\ Len(fragments) \in Nat
          /\ Sent(executed) \in Nat
      BY <1>1, <3>2, Numbers DEF PlanInv
    <3>4. CASE executed = 0
      BY <3>1, <3>2, <3>3, <3>4 DEF Sent
    <3>5. CASE executed # 0
      BY <3>1, <3>2, <3>3, <3>5
    <3> QED BY <3>4, <3>5
  <2>3. Places(Sent(executed)) \subseteq Places(asked.count)
    <3>1. \A k \in 0 .. Sent(executed) - 1 : k \in 0 .. asked.count - 1
      BY <2>2
    <3> QED BY <3>1 DEF Places
  <2>4. /\ written \subseteq Places(Sent(executed))
        /\ ~failed => Places(Sent(executed)) \subseteq written
    BY <1>1 DEF WireInv
  <2>5. planned = "Complete" => Sent(Len(fragments)) = asked.count
    BY <1>1 DEF PlanInv, CursorInv, FragmentsTile
  <2>6. \A k \in 1 .. Len(fragments) :
          Validation(DownstreamRequestFor(fragments[k])) = "Valid"
    BY <1>1, EffectOfFragment
  <2>7. planned = "Complete" /\ executed = Len(fragments) /\ ~failed =>
          written = Places(asked.count)
    BY <2>3, <2>4, <2>5
  <2> QED BY <2>1, <2>3, <2>4, <2>6, <2>7
<1> QED BY <1>1, ExecutionInvariant, PTL
=============================================================================
