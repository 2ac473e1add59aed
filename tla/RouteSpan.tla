------------------------------ MODULE RouteSpan ------------------------------
(***************************************************************************)
(* RouteTableView::inspectSpan, beginSpan and next for one register table: *)
(* a span is first walked from route to route, one lookup per step, and    *)
(* only if all of it is mapped cut into endpoint-local segments.  The      *)
(* cursor is the caller's; the route array is too, and may be replaced     *)
(* under a begun span although the guide forbids it.                       *)
(***************************************************************************)
EXTENDS RouteTable, Sequences

CONSTANTS
  MaxRoutes,      \* a route array has at most this many routes
  RouteTables     \* valid route arrays: functions from positions to mappings

ASSUME RouteSpanAssumption ==
  /\ MaxRoutes \in Nat
  /\ \A mappings \in RouteTables :
       \E n \in 0 .. MaxRoutes : /\ mappings \in [0 .. n - 1 -> Mapping]
                                 /\ Searchable(mappings, n)

VARIABLES
  routes,
  status, current, unwalked,             \* inspectSpan()
  nextAddress, remaining, sourceOffset,  \* RouteCursor
  answered,       \* what the last next() returned, if it was after that
  (* Auxiliary: the span asked for, its segments so far, and whether the   *)
  (* routes are still those it was begun with.                             *)
  asked, segments, stable

walk == <<status, current, unwalked>>
cursor == <<nextAddress, remaining, sourceOffset>>
vars == <<routes, walk, cursor, answered, asked, segments, stable>>

RoutedSpanStatus == {"Complete", "Empty", "AddressOverflow", "Gap"}

RouteSegment ==
  [routeIndex : Nat, upstreamStart : Address, downstreamStart : Address,
   count : Address, sourceOffset : Address]

Init ==
  /\ routes \in RouteTables
  /\ status = "Empty"
  /\ current = 0 /\ unwalked = 0
  /\ nextAddress = 0 /\ remaining = 0 /\ sourceOffset = 0
  /\ answered = "NotAsked"
  /\ asked = [start |-> 0, count |-> 0]
  /\ segments = <<>>
  /\ stable = TRUE

-----------------------------------------------------------------------------
(* static_cast<uint16_t> of a sum. *)
Advance(counter, step) == (counter + step) % AddressSpace

Least(a, b) == IF a < b THEN a ELSE b

(* The route at an address, and how much of it is left from there. *)
RouteAt(address) == routes[Located(routes, address)]

Available(address) == End(RouteAt(address).upstream) - address

(* A slip: what the route has left is not looked at. *)
ChunkAcrossRoutes(address, wanted) == wanted

Chunk(address, wanted) == Least(wanted, Available(address))

-----------------------------------------------------------------------------
(* inspectSpan(), and the cursor beginSpan() makes of its verdict. *)

SetCursor(start, count) ==
  /\ nextAddress' = start
  /\ remaining' = count
  /\ sourceOffset' = 0

(* A slip: the end of the span is computed in 16 bits. *)
FirstVerdictWrapping(start, count) ==
  IF count = 0 THEN "Empty"
  ELSE IF (start + count) % AddressSpace > AddressSpace THEN "AddressOverflow"
  ELSE "Walking"

FirstVerdict(start, count) ==
  IF count = 0 THEN "Empty"
  ELSE IF start + count > AddressSpace THEN "AddressOverflow"
  ELSE "Walking"

BeginSpan(start, count) ==
  /\ status # "Walking"
  /\ status' = FirstVerdict(start, count)
  /\ current' = start
  /\ unwalked' = count
  /\ SetCursor(0, 0)
  /\ answered' = "NotAsked"
  /\ asked' = [start |-> start, count |-> count]
  /\ segments' = <<>>
  /\ stable' = TRUE
  /\ UNCHANGED routes

WalkRoute ==
  /\ status = "Walking"
  /\ unwalked # 0
  /\ Located(routes, current) # NoRoute
  /\ LET chunk == Chunk(current, unwalked)
     IN  /\ current' = Advance(current, chunk)
         /\ unwalked' = unwalked - chunk
  /\ UNCHANGED <<status, cursor>>

MeetGap ==
  /\ status = "Walking"
  /\ unwalked # 0
  /\ Located(routes, current) = NoRoute
  /\ status' = "Gap"
  /\ UNCHANGED <<current, unwalked, cursor>>

FinishWalk ==
  /\ status = "Walking"
  /\ unwalked = 0
  /\ status' = "Complete"
  /\ SetCursor(asked.start, asked.count)
  /\ UNCHANGED <<current, unwalked>>

Inspect ==
  /\ WalkRoute \/ MeetGap \/ FinishWalk
  /\ UNCHANGED <<routes, answered, asked, segments, stable>>

-----------------------------------------------------------------------------
(* next() *)

(* A slip: the segment's place in the snapshot is its upstream address. *)
SegmentAtAddress(chunk) ==
  [routeIndex |-> Located(routes, nextAddress),
   upstreamStart |-> nextAddress,
   downstreamStart |-> Advance(RouteAt(nextAddress).downstream.start,
                         nextAddress - RouteAt(nextAddress).upstream.start),
   count |-> chunk,
   sourceOffset |-> nextAddress]

Segment(chunk) ==
  [routeIndex |-> Located(routes, nextAddress),
   upstreamStart |-> nextAddress,
   downstreamStart |-> Advance(RouteAt(nextAddress).downstream.start,
                         nextAddress - RouteAt(nextAddress).upstream.start),
   count |-> chunk,
   sourceOffset |-> sourceOffset]

EmitSegment ==
  /\ remaining # 0
  /\ Located(routes, nextAddress) # NoRoute
  /\ LET chunk == Chunk(nextAddress, remaining)
     IN  /\ segments' = Append(segments, Segment(chunk))
         /\ nextAddress' = Advance(nextAddress, chunk)
         /\ remaining' = remaining - chunk
         /\ sourceOffset' = Advance(sourceOffset, chunk)
  /\ answered' = "Segment"

EndSpan ==
  /\ remaining = 0
  /\ answered' = "Ended"
  /\ UNCHANGED <<cursor, segments>>

FailClosed ==
  /\ remaining # 0
  /\ Located(routes, nextAddress) = NoRoute
  /\ remaining' = 0
  /\ answered' = "Ended"
  /\ UNCHANGED <<nextAddress, sourceOffset, segments>>

NextSegment ==
  /\ status # "Walking"
  /\ EmitSegment \/ EndSpan \/ FailClosed
  /\ UNCHANGED <<routes, walk, asked, stable>>

-----------------------------------------------------------------------------
ReplaceRoutes(mappings) ==
  /\ status # "Walking"
  /\ mappings # routes
  /\ routes' = mappings
  /\ stable' = FALSE
  /\ UNCHANGED <<walk, cursor, answered, asked, segments>>

Next ==
  \/ \E start \in Address, count \in Address : BeginSpan(start, count)
  \/ Inspect
  \/ NextSegment
  \/ \E mappings \in RouteTables : ReplaceRoutes(mappings)

Spec == Init /\ [][Next]_vars

-----------------------------------------------------------------------------
TypeOK ==
  /\ routes \in RouteTables
  /\ status \in RoutedSpanStatus \cup {"Walking"}
  /\ {current, unwalked} \subseteq Address
  /\ {nextAddress, remaining, sourceOffset} \subseteq Address
  /\ answered \in {"NotAsked", "Segment", "Ended"}
  /\ asked \in [start : Address, count : Address]
  /\ segments \in Seq(RouteSegment)
  /\ stable \in BOOLEAN

Mapped(address) == \E i \in DOMAIN routes : Contains(routes[i].upstream, address)

(* The walk, which looks up one address per route only, tells a span that  *)
(* is mapped without a hole from one that is not, also where the span ends *)
(* at the last address of all; and it is told from a span of nothing and   *)
(* from one that goes on past the last address, mapped or not.             *)
InspectionIsExact ==
  LET span == asked.start .. asked.start + asked.count - 1
  IN  /\ status = "Empty" <=> span = {}
      /\ status = "AddressOverflow" <=> ~(span \subseteq Address)
      /\ stable /\ status = "Complete" => \A address \in span : Mapped(address)
      /\ stable /\ status = "Gap" => \E address \in span : ~Mapped(address)

CutTo(k) == IF k = 0 THEN 0 ELSE segments[k].sourceOffset + segments[k].count

(* The segments of a span tile it from its start without a hole or an      *)
(* overlap, whatever happens to the routes; and while those stay, next()   *)
(* answers false only at the end of the span.                              *)
SegmentsTile ==
  /\ \A k \in 1 .. Len(segments) :
       /\ segments[k].count > 0
       /\ segments[k].sourceOffset = CutTo(k - 1)
       /\ segments[k].upstreamStart = asked.start + segments[k].sourceOffset
  /\ CutTo(Len(segments)) <= asked.count
  /\ remaining # 0 => CutTo(Len(segments)) + remaining = asked.count
  /\ answered = "Ended" /\ status = "Complete" /\ stable =>
       CutTo(Len(segments)) = asked.count

(* The segment cut last lies in one route, at the registers of the         *)
(* endpoint that mirror its upstream addresses, and takes all there is.    *)
LastIsLocal ==
  LET s == segments'[Len(segments')]
      route == routes[s.routeIndex]
      last == s.count - 1
  IN  /\ Contains(route.upstream, s.upstreamStart)
      /\ Contains(route.upstream, s.upstreamStart + last)
      /\ Contains(route.downstream, s.downstreamStart)
      /\ Contains(route.downstream, s.downstreamStart + last)
      /\ s.downstreamStart - route.downstream.start
           = s.upstreamStart - route.upstream.start
      /\ \/ s.upstreamStart + s.count = End(route.upstream)
         \/ remaining' = 0

(* next() never answers a segment that crosses into another endpoint, that *)
(* is written to the wrong registers, or that is split without need.       *)
SegmentIsLocal ==
  [][segments' # segments /\ segments' # <<>> => LastIsLocal]_vars
=============================================================================
