--------------------------- MODULE RouteSpanProofs ---------------------------
(***************************************************************************)
(* A span is inspected exactly and cut into segments that tile it, for     *)
(* every size of the address space and every set of searchable route       *)
(* arrays, the end of the address space included.                          *)
(***************************************************************************)
EXTENDS RouteSpan, TLAPS

-----------------------------------------------------------------------------
(* Arithmetic of addresses, and what one lookup says of its route. *)

LEMMA AdvanceWraps ==
  ASSUME NEW a \in Nat, NEW b \in Nat
  PROVE  /\ Advance(a, b) \in Address
         /\ a + b < AddressSpace => Advance(a, b) = a + b
<1>1. a + b \in Nat /\ AddressSpace \in Nat \ {0}
  BY AddressSpaceAssumption
<1>2. (a + b) % AddressSpace \in 0 .. AddressSpace - 1
  BY <1>1
<1>3. a + b < AddressSpace => (a + b) % AddressSpace = a + b
  BY <1>1
<1> QED BY <1>2, <1>3 DEF Advance, Address

LEMMA TableShape ==
  ASSUME NEW mappings \in RouteTables, NEW i \in DOMAIN mappings
  PROVE  i \in Nat /\ mappings[i] \in Mapping /\ MappingFits(mappings[i])
<1>1. PICK n \in 0 .. MaxRoutes : /\ mappings \in [0 .. n - 1 -> Mapping]
                                  /\ Searchable(mappings, n)
  BY RouteSpanAssumption
<1>2. n \in Nat /\ i \in 0 .. n - 1
  BY <1>1, RouteSpanAssumption
<1> QED BY <1>1, <1>2 DEF Searchable

(* locate() finds a route that contains the address, or there is none. *)
LEMMA LocatedRoute ==
  ASSUME routes \in RouteTables, NEW address \in Address
  PROVE  /\ Located(routes, address) = NoRoute => ~Mapped(address)
         /\ Located(routes, address) # NoRoute =>
              /\ Located(routes, address) \in DOMAIN routes
              /\ Located(routes, address) \in Nat
              /\ RouteAt(address) \in Mapping
              /\ MappingFits(RouteAt(address))
              /\ Contains(RouteAt(address).upstream, address)
<1> DEFINE containing == {i \in DOMAIN routes : Contains(routes[i].upstream, address)}
<1>1. CASE containing = {}
  <2>1. Located(routes, address) = NoRoute
    BY <1>1 DEF Located
  <2> QED BY <1>1, <2>1 DEF Mapped
<1>2. CASE containing # {}
  <2>1. Located(routes, address) \in containing
    BY <1>2 DEF Located
  <2>2. /\ Located(routes, address) \in DOMAIN routes
        /\ Contains(RouteAt(address).upstream, address)
    BY <2>1 DEF RouteAt
  <2>3. /\ Located(routes, address) \in Nat
        /\ RouteAt(address) \in Mapping
        /\ MappingFits(RouteAt(address))
    BY <2>2, TableShape DEF RouteAt
  <2>4. Located(routes, address) # NoRoute
    BY <2>3 DEF NoRoute
  <2> QED BY <2>2, <2>3, <2>4
<1> QED BY <1>1, <1>2

(* A chunk is not empty, stays in the span, its route and the address      *)
(* space, and is all mapped.                                               *)
LEMMA ChunkStays ==
  ASSUME routes \in RouteTables, NEW address \in Address,
         NEW wanted \in Address \ {0}, Located(routes, address) # NoRoute
  PROVE  /\ Chunk(address, wanted) \in 1 .. wanted
         /\ address + Chunk(address, wanted) <= End(RouteAt(address).upstream)
         /\ End(RouteAt(address).upstream) <= AddressSpace
         /\ address + Chunk(address, wanted) <= AddressSpace
         /\ \/ Chunk(address, wanted) = wanted
            \/ address + Chunk(address, wanted) = End(RouteAt(address).upstream)
         /\ \A a \in address .. address + Chunk(address, wanted) - 1 : Mapped(a)
<1> DEFINE route == RouteAt(address)
           chunk == Chunk(address, wanted)
<1>1. /\ route \in Mapping
      /\ MappingFits(route)
      /\ Contains(route.upstream, address)
      /\ Located(routes, address) \in DOMAIN routes
      /\ route = routes[Located(routes, address)]
  BY LocatedRoute DEF RouteAt
<1>2. /\ route.upstream.start \in Nat
      /\ route.upstream.count \in Nat
      /\ address \in Nat /\ wanted \in Nat \ {0} /\ AddressSpace \in Nat
  BY <1>1, AddressSpaceAssumption DEF Mapping, AddressRange, Address
<1>3. /\ End(route.upstream) \in Nat
      /\ End(route.upstream) <= AddressSpace
      /\ route.upstream.start <= address
      /\ address < End(route.upstream)
  BY <1>1, <1>2 DEF MappingFits, Contains, End
<1>4. chunk = Least(wanted, End(route.upstream) - address)
  BY DEF Chunk, Available
<1>5. /\ chunk \in 1 .. wanted
      /\ address + chunk <= End(route.upstream)
      /\ chunk = wanted \/ address + chunk = End(route.upstream)
  BY <1>2, <1>3, <1>4 DEF Least
<1>6. ASSUME NEW a \in address .. address + chunk - 1
      PROVE  Mapped(a)
  <2>1. route.upstream.start <= a /\ a < End(route.upstream)
    BY <1>2, <1>3, <1>5
  <2>2. Contains(route.upstream, a)
    BY <1>1, <2>1 DEF Contains
  <2> QED BY <1>1, <2>2 DEF Mapped
<1>7. address + chunk <= AddressSpace
  BY <1>2, <1>3, <1>5
<1> QED BY <1>3, <1>5, <1>6, <1>7

-----------------------------------------------------------------------------
(* The inductive invariant: where the walk stands and what it has seen,    *)
(* and where the cursor stands beside the segments cut so far.             *)

Walked == asked.start .. asked.start + asked.count - unwalked - 1

WalkInv ==
  status = "Walking" =>
    /\ stable
    /\ asked.count # 0
    /\ asked.start + asked.count <= AddressSpace
    /\ unwalked <= asked.count
    /\ unwalked # 0 => current = asked.start + asked.count - unwalked
    /\ \A address \in Walked : Mapped(address)

SpanInv ==
  /\ status # "Complete" => remaining = 0 /\ segments = <<>>
  /\ status = "Walking" => answered = "NotAsked"
  /\ status = "Complete" =>
       /\ asked.count # 0
       /\ asked.start + asked.count <= AddressSpace
       /\ stable => CutTo(Len(segments)) + remaining = asked.count
  /\ remaining # 0 =>
       /\ sourceOffset = CutTo(Len(segments))
       /\ nextAddress = asked.start + sourceOffset

IInv == TypeOK /\ InspectionIsExact /\ SegmentsTile /\ WalkInv /\ SpanInv

LEMMA Numbers ==
  ASSUME TypeOK
  PROVE  /\ AddressSpace \in Nat \ {0}
         /\ {current, unwalked, nextAddress, remaining, sourceOffset} \subseteq Nat
         /\ asked.start \in Nat /\ asked.count \in Nat
         /\ Len(segments) \in Nat
         /\ CutTo(Len(segments)) \in Nat
<1>1. /\ AddressSpace \in Nat \ {0}
      /\ {current, unwalked, nextAddress, remaining, sourceOffset} \subseteq Nat
      /\ asked.start \in Nat /\ asked.count \in Nat
      /\ Len(segments) \in Nat
  BY AddressSpaceAssumption DEF TypeOK, Address
<1>2. \A k \in 1 .. Len(segments) : segments[k] \in RouteSegment
  BY DEF TypeOK
<1>3. \A k \in 1 .. Len(segments) : /\ segments[k].sourceOffset \in Nat
                                    /\ segments[k].count \in Nat
  BY <1>1, <1>2 DEF RouteSegment, Address
<1>4. CutTo(Len(segments)) \in Nat
  BY <1>1, <1>3 DEF CutTo
<1> QED BY <1>1, <1>4

(* A span of nothing, and one that stays inside the address space. *)
LEMMA SpanBounds ==
  ASSUME NEW start \in Nat, NEW count \in Nat
  PROVE  LET span == start .. start + count - 1
         IN  /\ span = {} <=> count = 0
             /\ count # 0 =>
                  (span \subseteq Address <=> start + count <= AddressSpace)
<1> DEFINE span == start .. start + count - 1
<1>1. AddressSpace \in Nat
  BY AddressSpaceAssumption
<1>2. CASE count = 0
  BY <1>2
<1>3. CASE count # 0
  <2>1. start \in span /\ start + count - 1 \in span
    BY <1>3
  <2>2. ASSUME start + count <= AddressSpace
        PROVE  span \subseteq Address
    BY <1>1, <2>2 DEF Address
  <2>3. ASSUME span \subseteq Address
        PROVE  start + count <= AddressSpace
    <3>1. start + count - 1 \in Address
      BY <2>1, <2>3
    <3> QED BY <1>1, <3>1 DEF Address
  <2> QED BY <1>3, <2>1, <2>2, <2>3
<1> QED BY <1>2, <1>3

LEMMA SpanInit == Init => IInv
<1> SUFFICES ASSUME Init PROVE IInv
  OBVIOUS
<1>1. 0 \in Address
  BY AddressSpaceAssumption DEF Address
<1>2. TypeOK
  BY <1>1 DEF Init, TypeOK, RoutedSpanStatus
<1>3. InspectionIsExact
  <2>1. asked.start .. asked.start + asked.count - 1 = {}
    BY DEF Init
  <2> QED BY <2>1 DEF Init, InspectionIsExact
<1> QED
  BY <1>2, <1>3 DEF Init, IInv, SegmentsTile, WalkInv, SpanInv, CutTo

-----------------------------------------------------------------------------
(* inspectSpan() *)

LEMMA BeginKeeps ==
  ASSUME IInv, NEW start \in Address, NEW count \in Address,
         BeginSpan(start, count)
  PROVE  IInv'
<1>1. /\ status' = FirstVerdict(start, count)
      /\ current' = start /\ unwalked' = count
      /\ nextAddress' = 0 /\ remaining' = 0 /\ sourceOffset' = 0
      /\ answered' = "NotAsked"
      /\ asked' = [start |-> start, count |-> count]
      /\ segments' = <<>> /\ stable' = TRUE /\ routes' = routes
  BY DEF BeginSpan, SetCursor
<1>2. /\ start \in Nat /\ count \in Nat /\ 0 \in Address /\ AddressSpace \in Nat
  BY AddressSpaceAssumption DEF Address
<1>3. /\ status' \in {"Empty", "AddressOverflow", "Walking"}
      /\ status' = "Walking" => count # 0 /\ start + count <= AddressSpace
      /\ status' = "Empty" <=> count = 0
      /\ status' = "AddressOverflow" <=>
           count # 0 /\ ~(start + count <= AddressSpace)
  BY <1>1, <1>2 DEF FirstVerdict
<1>4. asked'.start = start /\ asked'.count = count
  BY <1>1
<1>5. TypeOK'
  <2>1. routes' \in RouteTables /\ segments' \in Seq(RouteSegment)
    BY <1>1 DEF IInv, TypeOK
  <2>2. status' \in RoutedSpanStatus \cup {"Walking"}
    BY <1>3 DEF RoutedSpanStatus
  <2>3. asked' \in [start : Address, count : Address]
    BY <1>1
  <2> QED BY <1>1, <1>2, <2>1, <2>2, <2>3 DEF TypeOK
<1>6. InspectionIsExact'
  <2> DEFINE span == start .. start + count - 1
  <2>1. /\ span = {} <=> count = 0
        /\ count # 0 => (span \subseteq Address <=> start + count <= AddressSpace)
    BY <1>2, SpanBounds
  <2>2. asked'.start .. asked'.start + asked'.count - 1 = span
    BY <1>4
  <2> HIDE DEF span
  <2>3. /\ status' = "Empty" <=> span = {}
        /\ status' = "AddressOverflow" <=> ~(span \subseteq Address)
    BY <1>3, <2>1
  <2> QED BY <1>3, <2>2, <2>3 DEF InspectionIsExact
<1>9. SegmentsTile'
  BY <1>1, <1>2, <1>3, <1>4 DEF SegmentsTile, CutTo
<1>7. WalkInv'
  BY <1>1, <1>2, <1>3, <1>4 DEF WalkInv, Walked
<1>8. SpanInv'
  BY <1>1, <1>3 DEF SpanInv, CutTo
<1> QED BY <1>5, <1>6, <1>7, <1>8, <1>9 DEF IInv

LEMMA WalkKeeps ==
  ASSUME IInv, WalkRoute,
         UNCHANGED <<routes, answered, asked, segments, stable>>
  PROVE  IInv'
<1> DEFINE chunk == Chunk(current, unwalked)
<1>1. /\ status = "Walking" /\ status' = status /\ unwalked # 0
      /\ Located(routes, current) # NoRoute
      /\ current' = Advance(current, chunk)
      /\ unwalked' = unwalked - chunk
      /\ UNCHANGED <<nextAddress, remaining, sourceOffset>>
  BY DEF WalkRoute, cursor
<1>2. /\ routes \in RouteTables /\ current \in Address
      /\ unwalked \in Address \ {0}
  BY <1>1 DEF IInv, TypeOK
<1>3. /\ chunk \in 1 .. unwalked
      /\ current + chunk <= AddressSpace
      /\ \A a \in current .. current + chunk - 1 : Mapped(a)
  BY <1>1, <1>2, ChunkStays
<1>4. /\ current \in Nat /\ unwalked \in Nat /\ chunk \in Nat
      /\ asked.start \in Nat /\ asked.count \in Nat /\ AddressSpace \in Nat
  BY <1>2, <1>3, Numbers DEF IInv
<1>5. /\ stable /\ asked.count # 0
      /\ asked.start + asked.count <= AddressSpace
      /\ unwalked <= asked.count
      /\ current = asked.start + asked.count - unwalked
      /\ \A a \in Walked : Mapped(a)
  BY <1>1 DEF IInv, WalkInv
<1>6. current' \in Address /\ unwalked' \in Address
  <2>1. current' \in Address
    BY <1>1, <1>4, AdvanceWraps
  <2>2. unwalked' \in 0 .. AddressSpace - 1
    BY <1>1, <1>2, <1>3, <1>4 DEF Address
  <2> QED BY <2>1, <2>2 DEF Address
<1>7. TypeOK'
  BY <1>1, <1>6 DEF IInv, TypeOK
<1>8. unwalked' # 0 => current' = asked.start + asked.count - unwalked'
  <2> SUFFICES ASSUME unwalked' # 0
               PROVE  current' = asked.start + asked.count - unwalked'
    OBVIOUS
  <2>1. current + chunk < AddressSpace
    BY <1>1, <1>3, <1>4, <1>5
  <2>2. current' = current + chunk
    BY <1>1, <1>4, <2>1, AdvanceWraps
  <2> QED BY <1>1, <1>4, <1>5, <2>2
<1>9. \A a \in asked.start .. asked.start + asked.count - unwalked' - 1 : Mapped(a)
  <2> SUFFICES ASSUME NEW a \in asked.start .. asked.start + asked.count - unwalked' - 1
               PROVE  Mapped(a)
    OBVIOUS
  <2>1. a \in Walked \/ a \in current .. current + chunk - 1
    BY <1>1, <1>4, <1>5 DEF Walked
  <2> QED BY <1>3, <1>5, <2>1
<1>10. WalkInv'
  <2>1. \A a : Mapped(a)' = Mapped(a)
    BY DEF Mapped
  <2>2. unwalked' <= asked.count
    BY <1>1, <1>3, <1>4, <1>5
  <2> QED BY <1>5, <1>8, <1>9, <2>1, <2>2 DEF WalkInv, Walked
<1>11. InspectionIsExact'
  BY <1>1 DEF IInv, InspectionIsExact
<1>12. SegmentsTile' /\ SpanInv'
  BY <1>1 DEF IInv, SegmentsTile, SpanInv, CutTo
<1> QED BY <1>7, <1>10, <1>11, <1>12 DEF IInv

LEMMA GapKeeps ==
  ASSUME IInv, MeetGap,
         UNCHANGED <<routes, answered, asked, segments, stable>>
  PROVE  IInv'
<1>1. /\ status = "Walking" /\ status' = "Gap" /\ unwalked # 0
      /\ Located(routes, current) = NoRoute
      /\ UNCHANGED <<current, unwalked, nextAddress, remaining, sourceOffset>>
  BY DEF MeetGap, cursor
<1>2. routes \in RouteTables /\ current \in Address
  BY DEF IInv, TypeOK
<1>3. ~Mapped(current)
  BY <1>1, <1>2, LocatedRoute
<1>4. current \in asked.start .. asked.start + asked.count - 1
  BY <1>1, Numbers DEF IInv, WalkInv
<1>5. TypeOK'
  BY <1>1 DEF IInv, TypeOK, RoutedSpanStatus
<1>6. InspectionIsExact'
  BY <1>1, <1>3, <1>4 DEF IInv, InspectionIsExact, Mapped
<1>7. SegmentsTile' /\ SpanInv'
  BY <1>1 DEF IInv, SegmentsTile, SpanInv, CutTo
<1>8. WalkInv'
  BY <1>1 DEF WalkInv
<1> QED BY <1>5, <1>6, <1>7, <1>8 DEF IInv

LEMMA FinishKeeps ==
  ASSUME IInv, FinishWalk,
         UNCHANGED <<routes, answered, asked, segments, stable>>
  PROVE  IInv'
<1>1. /\ status = "Walking" /\ status' = "Complete" /\ unwalked = 0
      /\ nextAddress' = asked.start /\ remaining' = asked.count
      /\ sourceOffset' = 0
      /\ UNCHANGED <<current, unwalked>>
  BY DEF FinishWalk, SetCursor
<1>2. /\ stable /\ asked.count # 0
      /\ asked.start + asked.count <= AddressSpace
      /\ \A a \in Walked : Mapped(a)
      /\ segments = <<>> /\ answered = "NotAsked"
  BY <1>1 DEF IInv, WalkInv, SpanInv
<1>3. /\ asked.start \in Nat /\ asked.count \in Nat /\ AddressSpace \in Nat
  BY Numbers DEF IInv
<1>4. TypeOK'
  <2>1. 0 \in Address /\ asked.start \in Address /\ asked.count \in Address
    BY AddressSpaceAssumption DEF IInv, TypeOK, Address
  <2> QED BY <1>1, <2>1 DEF IInv, TypeOK, RoutedSpanStatus
<1>5. InspectionIsExact'
  <2>1. \A a \in asked.start .. asked.start + asked.count - 1 :
          Mapped(a)
    BY <1>1, <1>2, <1>3 DEF Walked
  <2>2. \A a : Mapped(a)' = Mapped(a)
    BY DEF Mapped
  <2> QED BY <1>1, <2>1, <2>2 DEF IInv, InspectionIsExact
<1>6. CutTo(Len(segments))' = 0
  BY <1>2 DEF CutTo
<1>7. SegmentsTile'
  BY <1>1, <1>2, <1>3, <1>6 DEF SegmentsTile
<1>8. WalkInv' /\ SpanInv'
  BY <1>1, <1>2, <1>3, <1>6 DEF WalkInv, SpanInv
<1> QED BY <1>4, <1>5, <1>7, <1>8 DEF IInv

-----------------------------------------------------------------------------
(* next() *)

(* What has been cut so far, seen after one more segment. *)
LEMMA CutAppend ==
  ASSUME TypeOK, NEW segment, segment \in RouteSegment,
         segments' = Append(segments, segment)
  PROVE  /\ Len(segments') = Len(segments) + 1
         /\ segments'[Len(segments')] = segment
         /\ \A k \in 1 .. Len(segments) : segments'[k] = segments[k]
         /\ \A k \in 0 .. Len(segments) : CutTo(k)' = CutTo(k)
         /\ CutTo(Len(segments))' = segment.sourceOffset + segment.count
<1>1. segments \in Seq(RouteSegment) /\ Len(segments) \in Nat
  BY DEF TypeOK
<1>2. /\ Len(segments') = Len(segments) + 1
      /\ segments'[Len(segments')] = segment
      /\ \A k \in 1 .. Len(segments) : segments'[k] = segments[k]
  BY <1>1
<1>3. \A k \in 0 .. Len(segments) : CutTo(k)' = CutTo(k)
  BY <1>1, <1>2 DEF CutTo
<1>4. CutTo(Len(segments))' = segment.sourceOffset + segment.count
  BY <1>1, <1>2 DEF CutTo
<1> QED BY <1>2, <1>3, <1>4

(* The segment next() cuts, and where it leaves the cursor. *)
LEMMA EmittedSegment ==
  ASSUME IInv, EmitSegment
  PROVE  LET chunk == Chunk(nextAddress, remaining)
         IN  /\ nextAddress \in Address
             /\ remaining \in Address \ {0}
             /\ Located(routes, nextAddress) # NoRoute
             /\ chunk \in 1 .. remaining
             /\ chunk \in Address
             /\ segments' = Append(segments, Segment(chunk))
             /\ Segment(chunk) \in RouteSegment
             /\ nextAddress' = Advance(nextAddress, chunk)
             /\ remaining' = remaining - chunk
             /\ sourceOffset' = Advance(sourceOffset, chunk)
             /\ answered' = "Segment"
<1> DEFINE chunk == Chunk(nextAddress, remaining)
           route == RouteAt(nextAddress)
<1>1. /\ remaining # 0
      /\ Located(routes, nextAddress) # NoRoute
      /\ segments' = Append(segments, Segment(chunk))
      /\ nextAddress' = Advance(nextAddress, chunk)
      /\ remaining' = remaining - chunk
      /\ sourceOffset' = Advance(sourceOffset, chunk)
      /\ answered' = "Segment"
  BY DEF EmitSegment
<1>2. /\ routes \in RouteTables /\ nextAddress \in Address
      /\ remaining \in Address \ {0} /\ sourceOffset \in Address
  BY <1>1 DEF IInv, TypeOK
<1>3. chunk \in 1 .. remaining
  BY <1>1, <1>2, ChunkStays
<1>4. chunk \in Address
  BY <1>2, <1>3, AddressSpaceAssumption DEF Address
<1>5. /\ Located(routes, nextAddress) \in Nat
      /\ route.downstream.start \in Nat
      /\ nextAddress - route.upstream.start \in Nat
  <2>1. /\ Located(routes, nextAddress) \in Nat
        /\ route \in Mapping
        /\ Contains(route.upstream, nextAddress)
    BY <1>1, <1>2, LocatedRoute
  <2>2. /\ nextAddress \in Nat /\ route.upstream.start \in Nat
        /\ route.downstream.start \in Nat
    BY <1>2, <2>1, AddressSpaceAssumption DEF Mapping, AddressRange, Address
  <2> QED BY <2>1, <2>2 DEF Contains
<1>6. Advance(route.downstream.start, nextAddress - route.upstream.start) \in Address
  BY <1>5, AdvanceWraps
<1>7. Segment(chunk) \in RouteSegment
  BY <1>2, <1>4, <1>5, <1>6 DEF Segment, RouteSegment
<1> QED BY <1>1, <1>2, <1>3, <1>4, <1>7

LEMMA EmitKeeps ==
  ASSUME IInv, EmitSegment, status # "Walking",
         UNCHANGED <<routes, walk, asked, stable>>
  PROVE  IInv'
<1> DEFINE chunk == Chunk(nextAddress, remaining)
           segment == Segment(chunk)
           cut == CutTo(Len(segments))
<1>1. /\ nextAddress \in Address
      /\ remaining \in Address \ {0}
      /\ chunk \in 1 .. remaining
      /\ chunk \in Address
      /\ segments' = Append(segments, segment)
      /\ segment \in RouteSegment
      /\ nextAddress' = Advance(nextAddress, chunk)
      /\ remaining' = remaining - chunk
      /\ sourceOffset' = Advance(sourceOffset, chunk)
      /\ answered' = "Segment"
  BY EmittedSegment
<1>2. /\ segment.upstreamStart = nextAddress
      /\ segment.count = chunk
      /\ segment.sourceOffset = sourceOffset
  BY DEF Segment
<1>3. /\ status = "Complete"
      /\ asked.count # 0
      /\ asked.start + asked.count <= AddressSpace
      /\ sourceOffset = cut
      /\ nextAddress = asked.start + sourceOffset
      /\ cut + remaining = asked.count
  BY <1>1 DEF IInv, SpanInv, SegmentsTile
<1>4. /\ AddressSpace \in Nat /\ asked.start \in Nat /\ asked.count \in Nat
      /\ cut \in Nat /\ Len(segments) \in Nat /\ sourceOffset \in Nat
      /\ remaining \in Nat /\ nextAddress \in Nat /\ chunk \in Nat
  BY <1>1, Numbers DEF IInv
<1>5. /\ status' = status /\ asked' = asked /\ stable' = stable
      /\ routes' = routes /\ current' = current /\ unwalked' = unwalked
  BY DEF walk
<1>6. TypeOK /\ asked.count \in Address
  BY DEF IInv, TypeOK
<1>7. /\ Len(segments') = Len(segments) + 1
      /\ segments'[Len(segments')] = segment
      /\ \A k \in 1 .. Len(segments) : segments'[k] = segments[k]
      /\ \A k \in 0 .. Len(segments) : CutTo(k)' = CutTo(k)
      /\ CutTo(Len(segments))' = cut + chunk
  BY <1>1, <1>2, <1>3, <1>6, CutAppend
<1>8. sourceOffset' = sourceOffset + chunk
  BY <1>1, <1>3, <1>4, <1>6, AdvanceWraps DEF Address
<1>9. remaining' # 0 => nextAddress' = nextAddress + chunk
  <2> HIDE DEF chunk, segment, cut
  <2>1. remaining' # 0 => nextAddress + chunk < AddressSpace
    BY <1>1, <1>3, <1>4
  <2>2. nextAddress + chunk < AddressSpace => nextAddress' = nextAddress + chunk
    BY <1>1, <1>4, AdvanceWraps
  <2> QED BY <2>1, <2>2
<1>10. TypeOK'
  <2>1. nextAddress' \in Address /\ sourceOffset' \in Address
    BY <1>1, <1>4, AdvanceWraps
  <2>2. remaining' \in Address
    BY <1>1, <1>4 DEF Address
  <2>3. segments' \in Seq(RouteSegment)
    BY <1>1, <1>6 DEF TypeOK
  <2>4. current' \in Address /\ unwalked' \in Address
    BY <1>5, <1>6 DEF TypeOK
  <2>5. /\ routes' \in RouteTables
        /\ status' \in RoutedSpanStatus \cup {"Walking"}
        /\ asked' \in [start : Address, count : Address]
        /\ stable' \in BOOLEAN
    BY <1>5, <1>6 DEF TypeOK
  <2> QED BY <1>1, <2>1, <2>2, <2>3, <2>4, <2>5 DEF TypeOK
<1>11. InspectionIsExact'
  <2>1. \A a : Mapped(a)' = Mapped(a)
    BY <1>5 DEF Mapped
  <2> QED BY <1>5, <2>1 DEF IInv, InspectionIsExact
<1>12. SegmentsTile'
  <2>1. ASSUME NEW k \in 1 .. Len(segments')
        PROVE  /\ segments'[k].count > 0
               /\ segments'[k].sourceOffset = CutTo(k - 1)'
               /\ segments'[k].upstreamStart = asked.start + segments'[k].sourceOffset
    <3>1. CASE k \in 1 .. Len(segments)
      <4>1. k - 1 \in 0 .. Len(segments)
        BY <1>4, <3>1
      <4>2. segments'[k] = segments[k] /\ CutTo(k - 1)' = CutTo(k - 1)
        BY <1>7, <3>1, <4>1
      <4> QED BY <3>1, <4>2 DEF IInv, SegmentsTile
    <3>2. CASE k = Len(segments')
      <4>1. k - 1 = Len(segments) /\ Len(segments) \in 0 .. Len(segments)
        BY <1>4, <1>7, <3>2
      <4>2. CutTo(k - 1)' = cut
        BY <1>7, <4>1
      <4>3. segments'[k] = segment
        BY <1>7, <3>2
      <4> HIDE DEF segment, cut, chunk
      <4> QED BY <1>1, <1>2, <1>3, <1>4, <4>2, <4>3
    <3>3. k \in 1 .. Len(segments) \/ k = Len(segments')
      BY <1>4, <1>7
    <3> QED BY <3>1, <3>2, <3>3
  <2>2. /\ CutTo(Len(segments))' <= asked.count
        /\ CutTo(Len(segments))' + remaining' = asked.count
    <3> HIDE DEF chunk, segment, cut
    <3>1. chunk <= remaining
      BY <1>1, <1>4
    <3> QED BY <1>1, <1>3, <1>4, <1>7, <3>1
  <2> QED BY <1>1, <1>5, <2>1, <2>2 DEF SegmentsTile
<1>13. WalkInv'
  BY <1>5 DEF WalkInv
<1>14. SpanInv'
  <2>1. CutTo(Len(segments))' + remaining' = asked.count
    BY <1>1, <1>3, <1>4, <1>7
  <2>2. remaining' # 0 => /\ sourceOffset' = CutTo(Len(segments))'
                          /\ nextAddress' = asked.start + sourceOffset'
    BY <1>3, <1>4, <1>7, <1>8, <1>9
  <2> QED BY <1>3, <1>5, <2>1, <2>2 DEF SpanInv
<1> QED BY <1>10, <1>11, <1>12, <1>13, <1>14 DEF IInv

LEMMA EndKeeps ==
  ASSUME IInv, EndSpan, status # "Walking",
         UNCHANGED <<routes, walk, asked, stable>>
  PROVE  IInv'
<1>1. /\ remaining = 0 /\ answered' = "Ended"
      /\ UNCHANGED <<nextAddress, remaining, sourceOffset, segments>>
      /\ UNCHANGED <<routes, status, current, unwalked, asked, stable>>
  BY DEF EndSpan, cursor, walk
<1>2. TypeOK'
  BY <1>1 DEF IInv, TypeOK
<1>3. InspectionIsExact'
  BY <1>1 DEF IInv, InspectionIsExact, Mapped
<1>4. status = "Complete" /\ stable => CutTo(Len(segments)) = asked.count
  BY <1>1, Numbers DEF IInv, SpanInv
<1>5. SegmentsTile'
  BY <1>1, <1>4 DEF IInv, SegmentsTile, CutTo
<1>6. WalkInv' /\ SpanInv'
  BY <1>1 DEF IInv, WalkInv, SpanInv, CutTo
<1> QED BY <1>2, <1>3, <1>5, <1>6 DEF IInv

(* Only replaced routes make next() give up: while they stay, all of an    *)
(* inspected span is mapped.                                               *)
LEMMA FailKeeps ==
  ASSUME IInv, FailClosed, status # "Walking",
         UNCHANGED <<routes, walk, asked, stable>>
  PROVE  IInv'
<1>1. /\ remaining # 0 /\ remaining' = 0 /\ answered' = "Ended"
      /\ Located(routes, nextAddress) = NoRoute
      /\ UNCHANGED <<nextAddress, sourceOffset, segments>>
      /\ UNCHANGED <<routes, status, current, unwalked, asked, stable>>
  BY DEF FailClosed, walk
<1>2. ~Mapped(nextAddress)
  <2>1. routes \in RouteTables /\ nextAddress \in Address
    BY DEF IInv, TypeOK
  <2> QED BY <1>1, <2>1, LocatedRoute
<1>3. nextAddress \in asked.start .. asked.start + asked.count - 1
  BY <1>1, Numbers DEF IInv, SpanInv, SegmentsTile
<1>4. ~stable
  BY <1>1, <1>2, <1>3 DEF IInv, SpanInv, InspectionIsExact
<1>5. 0 \in Address
  BY AddressSpaceAssumption DEF Address
<1>6. TypeOK'
  BY <1>1, <1>5 DEF IInv, TypeOK
<1>7. InspectionIsExact'
  BY <1>1 DEF IInv, InspectionIsExact, Mapped
<1>8. SegmentsTile'
  BY <1>1, <1>4 DEF IInv, SegmentsTile, CutTo
<1>9. WalkInv' /\ SpanInv'
  BY <1>1, <1>4 DEF IInv, WalkInv, SpanInv, CutTo
<1> QED BY <1>6, <1>7, <1>8, <1>9 DEF IInv

-----------------------------------------------------------------------------
LEMMA ReplaceKeeps ==
  ASSUME IInv, NEW mappings \in RouteTables, ReplaceRoutes(mappings)
  PROVE  IInv'
<1>1. /\ routes' = mappings /\ stable' = FALSE /\ status # "Walking"
      /\ UNCHANGED <<status, current, unwalked, nextAddress, remaining>>
      /\ UNCHANGED <<sourceOffset, answered, asked, segments>>
  BY DEF ReplaceRoutes, walk, cursor
<1>2. TypeOK'
  BY <1>1 DEF IInv, TypeOK
<1>3. InspectionIsExact' /\ WalkInv'
  BY <1>1 DEF IInv, InspectionIsExact, WalkInv
<1>4. SegmentsTile' /\ SpanInv'
  BY <1>1 DEF IInv, SegmentsTile, SpanInv, CutTo
<1> QED BY <1>2, <1>3, <1>4 DEF IInv

LEMMA StutterKeeps == IInv /\ UNCHANGED vars => IInv'
BY DEF IInv, TypeOK, InspectionIsExact, SegmentsTile, WalkInv, SpanInv, Walked,
       Mapped, CutTo, vars, walk, cursor

LEMMA SpanStep == IInv /\ [Next]_vars => IInv'
<1> SUFFICES ASSUME IInv, [Next]_vars PROVE IInv'
  OBVIOUS
<1>1. ASSUME NEW start \in Address, NEW count \in Address,
             BeginSpan(start, count)
      PROVE  IInv'
  BY <1>1, BeginKeeps
<1>2. CASE Inspect
  BY <1>2, WalkKeeps, GapKeeps, FinishKeeps DEF Inspect
<1>3. CASE NextSegment
  BY <1>3, EmitKeeps, EndKeeps, FailKeeps DEF NextSegment
<1>4. ASSUME NEW mappings \in RouteTables, ReplaceRoutes(mappings)
      PROVE  IInv'
  BY <1>4, ReplaceKeeps
<1>5. CASE UNCHANGED vars
  BY <1>5, StutterKeeps
<1> QED BY <1>1, <1>2, <1>3, <1>4, <1>5 DEF Next

LEMMA SpanInvariant == Spec => []IInv
BY SpanInit, SpanStep, PTL DEF Spec

(* The state of a walk and of a cursor keeps its types.                    *)
THEOREM SpanTypes == Spec => []TypeOK
<1>1. IInv => TypeOK
  BY DEF IInv
<1> QED BY <1>1, SpanInvariant, PTL

(* inspectSpan() tells mapped spans from those with a hole.                *)
THEOREM InspectionExact == Spec => []InspectionIsExact
<1>1. IInv => InspectionIsExact
  BY DEF IInv
<1> QED BY <1>1, SpanInvariant, PTL

(* The segments next() answers tile the span, also when the routes are     *)
(* replaced under it.                                                      *)
THEOREM SegmentsTileSpan == Spec => []SegmentsTile
<1>1. IInv => SegmentsTile
  BY DEF IInv
<1> QED BY <1>1, SpanInvariant, PTL

-----------------------------------------------------------------------------
LEMMA EmittedIsLocal ==
  ASSUME IInv, EmitSegment
  PROVE  LastIsLocal
<1> DEFINE chunk == Chunk(nextAddress, remaining)
           segment == Segment(chunk)
           route == RouteAt(nextAddress)
           offset == nextAddress - route.upstream.start
<1>1. /\ nextAddress \in Address
      /\ remaining \in Address \ {0}
      /\ Located(routes, nextAddress) # NoRoute
      /\ chunk \in 1 .. remaining
      /\ segments' = Append(segments, segment)
      /\ segment \in RouteSegment
      /\ remaining' = remaining - chunk
  BY EmittedSegment
<1>2. segments'[Len(segments')] = segment
  BY <1>1, CutAppend DEF IInv
<1>3. /\ segment.routeIndex = Located(routes, nextAddress)
      /\ routes[segment.routeIndex] = route
      /\ segment.upstreamStart = nextAddress
      /\ segment.count = chunk
      /\ segment.downstreamStart = Advance(route.downstream.start, offset)
  BY DEF Segment, RouteAt
<1>4. /\ route \in Mapping
      /\ MappingFits(route)
      /\ Contains(route.upstream, nextAddress)
      /\ nextAddress + chunk <= End(route.upstream)
      /\ chunk = remaining \/ nextAddress + chunk = End(route.upstream)
  BY <1>1, LocatedRoute, ChunkStays DEF IInv, TypeOK
<1>5. /\ route.upstream.start \in Nat /\ route.downstream.start \in Nat
      /\ route.upstream.count \in Nat /\ nextAddress \in Nat
      /\ remaining \in Nat /\ chunk \in Nat \ {0} /\ AddressSpace \in Nat
  BY <1>1, <1>4, AddressSpaceAssumption DEF Mapping, AddressRange, Address
<1> HIDE DEF chunk, segment, route
<1>6. /\ route.upstream.start <= nextAddress
      /\ nextAddress + chunk <= route.upstream.start + route.upstream.count
      /\ route.upstream.count # 0
      /\ route.downstream.count = route.upstream.count
      /\ route.downstream.start + route.downstream.count <= AddressSpace
  BY <1>4 DEF MappingFits, Contains, End
<1>7. /\ offset \in Nat
      /\ offset + chunk <= route.downstream.count
      /\ route.downstream.start + offset < AddressSpace
  BY <1>5, <1>6
<1>8. Advance(route.downstream.start, offset) = route.downstream.start + offset
  BY <1>5, <1>7, AdvanceWraps
<1>9. /\ Contains(route.upstream, nextAddress)
      /\ Contains(route.upstream, nextAddress + (chunk - 1))
  BY <1>5, <1>6 DEF Contains, End
<1>10. /\ Contains(route.downstream, route.downstream.start + offset)
       /\ Contains(route.downstream, route.downstream.start + offset + (chunk - 1))
  BY <1>5, <1>6, <1>7 DEF Contains, End
<1>11. nextAddress + chunk = End(route.upstream) \/ remaining' = 0
  BY <1>1, <1>4, <1>5
<1>12. (route.downstream.start + offset) - route.downstream.start
         = nextAddress - route.upstream.start
  BY <1>5, <1>7
<1> QED
  BY <1>2, <1>3, <1>8, <1>9, <1>10, <1>11, <1>12 DEF LastIsLocal

(* Only an emitted segment makes the list of segments grow.                *)
LEMMA LocalStep ==
  IInv /\ [Next]_vars
    => [segments' # segments /\ segments' # <<>> => LastIsLocal]_vars
<1> SUFFICES ASSUME IInv, [Next]_vars, segments' # segments, segments' # <<>>
             PROVE  LastIsLocal
  OBVIOUS
<1>1. EmitSegment
  BY DEF Next, BeginSpan, Inspect, NextSegment, EndSpan, FailClosed,
         ReplaceRoutes, vars
<1> QED BY <1>1, EmittedIsLocal

(* Every segment stays inside one route and is written to the registers    *)
(* that mirror it.                                                         *)
THEOREM SegmentsLocal == Spec => SegmentIsLocal
BY SpanInvariant, LocalStep, PTL DEF Spec, SegmentIsLocal
=============================================================================
