----------------------------- MODULE RouteSearch -----------------------------
(***************************************************************************)
(* RouteTableView::validate and RouteTableView::locate, one iteration of   *)
(* their loops per step.  The caller builds a route array, validates it    *)
(* and, once it is valid, looks addresses up by a binary search whose      *)
(* bounds are signed integers as wide as the unsigned route count.         *)
(***************************************************************************)
EXTENDS RouteTable

CONSTANTS
  HalfIndex,      \* indices are 0 .. 2 * HalfIndex - 1; 0x8000 in the code
  TableCount,     \* register tables per route; 4 in the code
  RouteCounts,    \* the lengths of route array the caller may build
  Mappings        \* the mappings it may put into them

ASSUME RouteSearchAssumption ==
  /\ HalfIndex \in Nat \ {0}
  /\ TableCount \in Nat
  /\ RouteCounts \subseteq 0 .. 2 * HalfIndex - 1
  /\ Mappings \subseteq Mapping

VARIABLES
  (* The view: never changed while it is in use. *)
  hasStorage, routeCount, routes,
  (* validate() *)
  status, tableIndex, routeIndex,
  havePreviousRoute, previousStart, havePreviousPopulated, previousPopulatedEnd,
  (* locate() *)
  search, table, upstreamAddress, low, high, routeIndexOut,
  (* Auxiliary: the iterations of the current search. *)
  probes

view == <<hasStorage, routeCount, routes>>
scan == <<status, tableIndex, routeIndex, havePreviousRoute, previousStart,
          havePreviousPopulated, previousPopulatedEnd>>
lookup == <<search, table, upstreamAddress, low, high, routeIndexOut, probes>>
vars == <<view, scan, lookup>>

Tables == 0 .. TableCount - 1

Rejections == {"NullStorage", "RangeOverflow", "CountMismatch", "Unsorted",
               "Overlap"}

RouteTableStatus == {"Scanning", "Valid"} \cup Rejections

SearchStatus == {"Idle", "Running", "Found", "NotFound", "Undefined"}

SignedIndex == -HalfIndex .. HalfIndex - 1

TypeOK ==
  /\ hasStorage \in BOOLEAN
  /\ routeCount \in RouteCounts
  /\ hasStorage => routes \in [Tables -> [0 .. routeCount - 1 -> Mappings]]
  /\ status \in RouteTableStatus
  /\ tableIndex \in 0 .. TableCount
  /\ routeIndex \in 0 .. routeCount
  /\ havePreviousRoute \in BOOLEAN
  /\ previousStart \in Nat
  /\ havePreviousPopulated \in BOOLEAN
  /\ previousPopulatedEnd \in Nat
  /\ search \in SearchStatus
  /\ table \in Nat
  /\ upstreamAddress \in Address
  /\ low \in SignedIndex
  /\ high \in SignedIndex
  /\ routeIndexOut \in Nat
  /\ probes \in Nat

Init ==
  /\ hasStorage \in BOOLEAN
  /\ routeCount \in RouteCounts
  /\ routes \in IF hasStorage THEN [Tables -> [0 .. routeCount - 1 -> Mappings]]
                              ELSE {<<>>}
  /\ status = "Scanning"
  /\ tableIndex = 0
  /\ routeIndex = 0
  /\ havePreviousRoute = FALSE
  /\ previousStart = 0
  /\ havePreviousPopulated = FALSE
  /\ previousPopulatedEnd = 0
  /\ search = "Idle"
  /\ table = 0
  /\ upstreamAddress = 0
  /\ low = 0
  /\ high = 0
  /\ routeIndexOut = 0
  /\ probes = 0

-----------------------------------------------------------------------------
(* validate() *)

Returned(verdict) ==
  /\ status' = verdict
  /\ UNCHANGED <<tableIndex, routeIndex, havePreviousRoute, previousStart,
                 havePreviousPopulated, previousPopulatedEnd, view, lookup>>

NullStorage == routeCount # 0 /\ ~hasStorage

RejectNullStorage ==
  /\ status = "Scanning"
  /\ NullStorage
  /\ Returned("NullStorage")

(* A slip: only the route just before is compared, empty or not. *)
VerdictOfNeighbours(mapping) ==
  LET start == mapping.upstream.start
  IN  IF mapping.upstream.count # mapping.downstream.count THEN "CountMismatch"
      ELSE IF ~MappingFits(mapping) THEN "RangeOverflow"
      ELSE IF havePreviousRoute /\ start < previousStart THEN "Unsorted"
      ELSE "Valid"

(* What the scan says of one mapping, given those it has passed. *)
Verdict(mapping) ==
  LET start == mapping.upstream.start
  IN  IF mapping.upstream.count # mapping.downstream.count THEN "CountMismatch"
      ELSE IF ~MappingFits(mapping) THEN "RangeOverflow"
      ELSE IF havePreviousRoute /\ start < previousStart THEN "Unsorted"
      ELSE IF havePreviousPopulated /\ start < previousPopulatedEnd
           THEN IF mapping.upstream.count = 0 THEN "Unsorted" ELSE "Overlap"
      ELSE "Valid"

Scanning ==
  status = "Scanning" /\ ~NullStorage /\ tableIndex < TableCount

RejectRoute ==
  /\ Scanning
  /\ routeIndex < routeCount
  /\ Verdict(routes[tableIndex][routeIndex]) # "Valid"
  /\ Returned(Verdict(routes[tableIndex][routeIndex]))

AcceptRoute ==
  /\ Scanning
  /\ routeIndex < routeCount
  /\ LET mapping == routes[tableIndex][routeIndex]
     IN  /\ Verdict(mapping) = "Valid"
         /\ havePreviousRoute' = TRUE
         /\ previousStart' = mapping.upstream.start
         /\ IF mapping.upstream.count = 0
            THEN UNCHANGED <<havePreviousPopulated, previousPopulatedEnd>>
            ELSE /\ havePreviousPopulated' = TRUE
                 /\ previousPopulatedEnd' = End(mapping.upstream)
  /\ routeIndex' = routeIndex + 1
  /\ UNCHANGED <<status, tableIndex, view, lookup>>

(* A slip: the next table is compared with the end of the last one. *)
NextTableKeepingEnd ==
  /\ Scanning
  /\ routeIndex = routeCount
  /\ tableIndex' = tableIndex + 1
  /\ routeIndex' = 0
  /\ havePreviousRoute' = FALSE
  /\ previousStart' = 0
  /\ UNCHANGED <<status, havePreviousPopulated, previousPopulatedEnd, view,
                 lookup>>

NextTable ==
  /\ Scanning
  /\ routeIndex = routeCount
  /\ tableIndex' = tableIndex + 1
  /\ routeIndex' = 0
  /\ havePreviousRoute' = FALSE
  /\ previousStart' = 0
  /\ havePreviousPopulated' = FALSE
  /\ previousPopulatedEnd' = 0
  /\ UNCHANGED <<status, view, lookup>>

AcceptTable ==
  /\ status = "Scanning" /\ ~NullStorage /\ tableIndex = TableCount
  /\ Returned("Valid")

-----------------------------------------------------------------------------
(* locate() *)

(* static_cast<int16_t> of a value at most one wrap away. *)
ToSigned(n) ==
  IF n < -HalfIndex THEN n + 2 * HalfIndex
  ELSE IF n >= HalfIndex THEN n - 2 * HalfIndex
  ELSE n

(* static_cast<uint16_t> of a signed index. *)
ToUnsigned(n) == IF n < 0 THEN n + 2 * HalfIndex ELSE n

(* The caller looks up one address; the guide allows it on a valid table   *)
(* only.  A table number past the last one is answered without a search.   *)
Locate(wanted, address) ==
  /\ status = "Valid"
  /\ search \in {"Idle", "Found", "NotFound"}
  /\ table' = wanted
  /\ upstreamAddress' = address
  /\ probes' = 0
  /\ IF hasStorage /\ wanted \in Tables
     THEN /\ search' = "Running"
          /\ low' = 0
          /\ high' = ToSigned(ToSigned(routeCount) - 1)
     ELSE search' = "NotFound" /\ UNCHANGED <<low, high>>
  /\ UNCHANGED <<routeIndexOut, view, scan>>

(* A slip: the midpoint is rounded past a short interval's upper bound. *)
MiddleAbove == ToSigned(low + ((high - low + 2) \div 2))

Middle == ToSigned(low + ((high - low) \div 2))

Probed == routes[table][ToUnsigned(Middle)].upstream

InsideRoutes == ToUnsigned(Middle) < routeCount

Probing ==
  search = "Running" /\ low <= high /\ InsideRoutes /\ probes' = probes + 1

(* A slip: the probed route stays in the interval. *)
GoLowerKeepingMiddle ==
  /\ Probing
  /\ upstreamAddress < Probed.start
  /\ high' = Middle
  /\ UNCHANGED <<search, table, upstreamAddress, low, routeIndexOut, view, scan>>

GoLower ==
  /\ Probing
  /\ upstreamAddress < Probed.start
  /\ high' = ToSigned(Middle - 1)
  /\ UNCHANGED <<search, table, upstreamAddress, low, routeIndexOut, view, scan>>

(* Past the end of the probed range, an empty one included. *)
GoHigher ==
  /\ Probing
  /\ Probed.start <= upstreamAddress
  /\ ~Contains(Probed, upstreamAddress)
  /\ low' = ToSigned(Middle + 1)
  /\ UNCHANGED <<search, table, upstreamAddress, high, routeIndexOut, view, scan>>

(* A slip: a range is taken to contain the address just past its end. *)
HitPastEnd ==
  /\ Probing
  /\ Probed.start <= upstreamAddress /\ upstreamAddress <= End(Probed)
  /\ search' = "Found"
  /\ routeIndexOut' = ToUnsigned(Middle)
  /\ UNCHANGED <<table, upstreamAddress, low, high, view, scan>>

Hit ==
  /\ Probing
  /\ Contains(Probed, upstreamAddress)
  /\ search' = "Found"
  /\ routeIndexOut' = ToUnsigned(Middle)
  /\ UNCHANGED <<table, upstreamAddress, low, high, view, scan>>

(* No route is left between the bounds, or the probe reads a record past   *)
(* the caller's array: nothing is known of what follows.                   *)
EndSearch ==
  /\ search = "Running"
  /\ low > high \/ ~InsideRoutes
  /\ search' = IF low > high THEN "NotFound" ELSE "Undefined"
  /\ UNCHANGED <<table, upstreamAddress, low, high, routeIndexOut, probes, view,
                 scan>>

-----------------------------------------------------------------------------
Next ==
  \/ RejectNullStorage
  \/ RejectRoute
  \/ AcceptRoute
  \/ NextTable
  \/ AcceptTable
  \/ \E wanted \in 0 .. TableCount, address \in Address : Locate(wanted, address)
  \/ GoLower
  \/ GoHigher
  \/ Hit
  \/ EndSearch

Spec == Init /\ [][Next]_vars

-----------------------------------------------------------------------------
(* What validation promises the search, and the search its callers. *)

(* validate() accepts an array exactly when a binary search may rely on    *)
(* each of its tables: comparing every range with the last populated one   *)
(* alone is enough to order all of them, empty ranges included.            *)
ValidationIsExact ==
  LET searchable == \A t \in Tables : Searchable(routes[t], routeCount)
  IN  /\ status = "Valid" => ~NullStorage /\ (hasStorage => searchable)
      /\ status \in Rejections => NullStorage \/ (hasStorage /\ ~searchable)

(* locate() reads no record outside the caller's array. *)
SearchStaysInside == search # "Undefined"

Mapped(t, address) ==
  /\ hasStorage /\ t \in Tables
  /\ \E i \in 0 .. routeCount - 1 : Contains(routes[t][i].upstream, address)

(* locate() answers with a route that contains the address, and it fails   *)
(* only on an address that no route of a valid table contains: sparse      *)
(* mappings never steer it past the populated range it looks for.          *)
LocateIsExact ==
  /\ search = "Found" =>
       /\ routeIndexOut < routeCount
       /\ Contains(routes[table][routeIndexOut].upstream, upstreamAddress)
  /\ search = "NotFound" => ~Mapped(table, upstreamAddress)

(* However sparse the table, each probe of locate() halves what is left of *)
(* it: a search ends, after at most 1 + log2(routeCount) probes.           *)
LogarithmicSearch == probes > 0 => 2 ^ (probes - 1) <= routeCount
=============================================================================
