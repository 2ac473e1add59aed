-------------------------- MODULE RouteSearchProofs --------------------------
(***************************************************************************)
(* Validation accepts exactly the searchable route arrays, whatever their  *)
(* length, and the search finds every mapped address of a valid array that *)
(* is short enough for a signed index.                                     *)
(***************************************************************************)
EXTENDS RouteSearch, FiniteSetTheorems, TLAPS

-----------------------------------------------------------------------------
(* Conversions between the signed bounds and the unsigned positions. *)

(* Narrowing to a signed index yields one, and keeps a value that is one:  *)
(* the casts on low, high and middle in locate().                          *)
LEMMA Narrowing ==
  ASSUME NEW n \in -HalfIndex - 1 .. 2 * HalfIndex - 1
  PROVE  /\ ToSigned(n) \in SignedIndex
         /\ n \in SignedIndex => ToSigned(n) = n
BY RouteSearchAssumption DEF ToSigned, SignedIndex

(* The midpoint of a non-empty interval lies in it. *)
LEMMA MiddleInside ==
  ASSUME TypeOK, low <= high
  PROVE  /\ Middle = low + ((high - low) \div 2)
         /\ Middle \in low .. high
         /\ Middle \in SignedIndex
         /\ ToUnsigned(Middle) \in Nat
         /\ Middle >= 0 => ToUnsigned(Middle) = Middle
<1> DEFINE half == (high - low) \div 2
           centre == low + half
<1>1. low \in SignedIndex /\ high \in SignedIndex /\ low \in Int /\ high \in Int
      /\ HalfIndex \in Nat
  BY RouteSearchAssumption DEF TypeOK, SignedIndex
<1>2. half \in 0 .. high - low
  BY <1>1
<1> HIDE DEF half
<1>3. centre \in low .. high /\ centre \in SignedIndex
  BY <1>1, <1>2 DEF SignedIndex
<1>4. Middle = ToSigned(centre)
  BY DEF Middle, centre, half
<1> HIDE DEF centre
<1>5. Middle = centre
  BY <1>1, <1>3, <1>4, Narrowing DEF SignedIndex
<1>6. centre = low + ((high - low) \div 2)
  BY DEF centre, half
<1> QED BY <1>1, <1>3, <1>5, <1>6 DEF ToUnsigned, SignedIndex

(* The initial upper bound is the last position of a route array that is   *)
(* short enough, and a signed index in any case.                           *)
LEMMA UpperBound ==
  ASSUME TypeOK
  PROVE  /\ ToSigned(ToSigned(routeCount) - 1) \in SignedIndex
         /\ routeCount < HalfIndex =>
              ToSigned(ToSigned(routeCount) - 1) = routeCount - 1
<1>1. routeCount \in 0 .. 2 * HalfIndex - 1 /\ HalfIndex \in Nat \ {0}
  BY RouteSearchAssumption DEF TypeOK
<1>2. ToSigned(routeCount) \in SignedIndex
      /\ (routeCount < HalfIndex => ToSigned(routeCount) = routeCount)
  BY <1>1, Narrowing DEF SignedIndex
<1> DEFINE signed == ToSigned(routeCount)
<1> HIDE DEF signed
<1>3. signed \in SignedIndex /\ (routeCount < HalfIndex => signed = routeCount)
  BY <1>2 DEF signed
<1>4. /\ ToSigned(signed - 1) \in SignedIndex
      /\ signed - 1 \in SignedIndex => ToSigned(signed - 1) = signed - 1
  <2>1. signed - 1 \in -HalfIndex - 1 .. 2 * HalfIndex - 1
    BY <1>1, <1>3 DEF SignedIndex
  <2> QED BY <2>1, Narrowing
<1>5. routeCount < HalfIndex => ToSigned(signed - 1) = routeCount - 1
  BY <1>1, <1>3, <1>4 DEF SignedIndex
<1> QED BY <1>4, <1>5 DEF signed

-----------------------------------------------------------------------------
(* Type correctness. *)

(* A mapping read from the array has natural numbers in it. *)
LEMMA RouteType ==
  ASSUME TypeOK, hasStorage, NEW t \in Tables, NEW i \in 0 .. routeCount - 1
  PROVE  /\ routes[t][i].upstream.start \in Nat
         /\ routes[t][i].upstream.count \in Nat
         /\ End(routes[t][i].upstream) \in Nat
         /\ routes[t][i].upstream.start <= End(routes[t][i].upstream)
<1>1. routes[t][i] \in Mapping
  BY RouteSearchAssumption DEF TypeOK
<1>2. routes[t][i].upstream \in [start : Nat, count : Nat]
  BY <1>1, AddressSpaceAssumption DEF Mapping, AddressRange, Address
<1> QED BY <1>2 DEF End

(* The array the scan walks is there. *)
LEMMA ScanningHasStorage ==
  ASSUME TypeOK, Scanning, routeIndex < routeCount
  PROVE  /\ hasStorage
         /\ tableIndex \in Tables
         /\ routeIndex \in 0 .. routeCount - 1
         /\ routeCount \in Nat
BY RouteSearchAssumption DEF TypeOK, Scanning, NullStorage, Tables

(* A route array and its scan start well typed. *)
LEMMA TypeInit == Init => TypeOK
<1> SUFFICES ASSUME Init PROVE TypeOK OBVIOUS
<1>1. routeCount \in Nat /\ HalfIndex \in Nat \ {0} /\ TableCount \in Nat
  BY RouteSearchAssumption DEF Init
<1>2. 0 \in SignedIndex /\ 0 \in Address
  BY <1>1, AddressSpaceAssumption DEF SignedIndex, Address
<1>3. "Scanning" \in RouteTableStatus /\ "Idle" \in SearchStatus
  BY DEF RouteTableStatus, SearchStatus
<1>4. hasStorage => routes \in [Tables -> [0 .. routeCount - 1 -> Mappings]]
  BY Zenon DEF Init
<1>5. /\ tableIndex \in 0 .. TableCount /\ routeIndex \in 0 .. routeCount
      /\ previousStart \in Nat /\ previousPopulatedEnd \in Nat
      /\ table \in Nat /\ routeIndexOut \in Nat /\ probes \in Nat
  BY <1>1 DEF Init
<1> QED BY <1>2, <1>3, <1>4, <1>5, Zenon DEF Init, TypeOK

(* The verdict of a scan is one of the status codes. *)
LEMMA VerdictType == \A mapping : Verdict(mapping) \in RouteTableStatus
BY DEF Verdict, RouteTableStatus, Rejections

(* Every step of validation and of a search keeps the types: in particular *)
(* the bounds stay signed indices, whatever the length of the array.       *)
LEMMA TypeStep == TypeOK /\ [Next]_vars => TypeOK'
<1> SUFFICES ASSUME TypeOK, [Next]_vars PROVE TypeOK' OBVIOUS
<1> USE DEF view, scan, lookup
<1>0. /\ routeCount \in Nat /\ HalfIndex \in Nat \ {0} /\ TableCount \in Nat
      /\ tableIndex \in Nat /\ routeIndex \in Nat /\ probes \in Nat
      /\ 0 \in SignedIndex
  BY RouteSearchAssumption DEF TypeOK, SignedIndex
<1>1. CASE RejectNullStorage
  BY <1>1 DEF RejectNullStorage, Returned, TypeOK, RouteTableStatus, Rejections
<1>2. CASE RejectRoute
  <2>1. status' \in RouteTableStatus
    BY <1>2, VerdictType DEF RejectRoute, Returned
  <2> QED BY <1>2, <2>1 DEF RejectRoute, Returned, TypeOK
<1>3. CASE AcceptRoute
  <2>1. routes[tableIndex][routeIndex].upstream.start \in Nat
        /\ End(routes[tableIndex][routeIndex].upstream) \in Nat
    BY <1>3, ScanningHasStorage, RouteType DEF AcceptRoute
  <2>2. previousStart' \in Nat /\ havePreviousRoute' \in BOOLEAN
    BY <1>3, <2>1 DEF AcceptRoute
  <2>3. previousPopulatedEnd' \in Nat /\ havePreviousPopulated' \in BOOLEAN
    BY <1>3, <2>1 DEF AcceptRoute, TypeOK
  <2>4. routeIndex' \in 0 .. routeCount
    BY <1>3, <1>0 DEF AcceptRoute
  <2> QED BY <1>3, <2>2, <2>3, <2>4 DEF AcceptRoute, TypeOK
<1>4. CASE NextTable
  <2>1. tableIndex' \in 0 .. TableCount /\ routeIndex' \in 0 .. routeCount
    BY <1>4, <1>0 DEF NextTable, Scanning
  <2> QED BY <1>4, <2>1 DEF NextTable, TypeOK
<1>5. CASE AcceptTable
  BY <1>5 DEF AcceptTable, Returned, TypeOK, RouteTableStatus
<1>6. ASSUME NEW wanted \in 0 .. TableCount, NEW address \in Address,
             Locate(wanted, address)
      PROVE  TypeOK'
  <2>1. ToSigned(ToSigned(routeCount) - 1) \in SignedIndex
    BY UpperBound
  <2>2. low' \in SignedIndex /\ high' \in SignedIndex /\ search' \in SearchStatus
    BY <1>6, <1>0, <2>1 DEF Locate, TypeOK, SearchStatus
  <2>3. table' \in Nat /\ probes' \in Nat
    BY <1>6, <1>0 DEF Locate
  <2> QED BY <1>6, <2>2, <2>3 DEF Locate, TypeOK
<1>7. ASSUME Probing
      PROVE  /\ ToSigned(Middle - 1) \in SignedIndex
             /\ ToSigned(Middle + 1) \in SignedIndex
             /\ ToUnsigned(Middle) \in Nat
             /\ probes' \in Nat
  <2>1. Middle \in SignedIndex /\ ToUnsigned(Middle) \in Nat
    BY <1>7, MiddleInside DEF Probing
  <2>2. Middle - 1 \in -HalfIndex - 1 .. 2 * HalfIndex - 1
        /\ Middle + 1 \in -HalfIndex - 1 .. 2 * HalfIndex - 1
    BY <2>1, <1>0 DEF SignedIndex
  <2>3. probes' \in Nat
    BY <1>0, <1>7 DEF Probing
  <2> QED BY <2>1, <2>2, <2>3, Narrowing
<1>8. CASE GoLower
  BY <1>7, <1>8 DEF GoLower, Probing, TypeOK
<1>9. CASE GoHigher
  BY <1>7, <1>9 DEF GoHigher, Probing, TypeOK
<1>10. CASE Hit
  BY <1>7, <1>10 DEF Hit, Probing, TypeOK, SearchStatus
<1>11. CASE EndSearch
  BY <1>11 DEF EndSearch, TypeOK, SearchStatus
<1>12. CASE UNCHANGED vars
  BY <1>12 DEF vars, TypeOK
<1> QED
  BY <1>1, <1>2, <1>3, <1>4, <1>5, <1>6, <1>8, <1>9, <1>10, <1>11, <1>12
     DEF Next

-----------------------------------------------------------------------------
(* Validation. *)

(* What the scan knows of the first n mappings of a table. *)
Scanned(mappings, n) ==
  /\ Searchable(mappings, n)
  /\ havePreviousRoute <=> n > 0
  /\ n > 0 => previousStart = mappings[n - 1].upstream.start
  /\ havePreviousPopulated =>
       \E j \in 0 .. n - 1 : previousPopulatedEnd = End(mappings[j].upstream)
  /\ \A j \in 0 .. n - 1 :
       mappings[j].upstream.count # 0 =>
         havePreviousPopulated /\ End(mappings[j].upstream) <= previousPopulatedEnd

ScanInv ==
  hasStorage /\ status = "Scanning" =>
    /\ \A t \in 0 .. tableIndex - 1 : Searchable(routes[t], routeCount)
    /\ tableIndex < TableCount => Scanned(routes[tableIndex], routeIndex)

(* Comparing with the previous start and the last populated end is enough  *)
(* to order the accepted mapping after all mappings before it.             *)
LEMMA AcceptedInOrder ==
  ASSUME TypeOK, hasStorage, NEW t \in Tables, NEW n \in 0 .. routeCount - 1,
         Scanned(routes[t], n), Verdict(routes[t][n]) = "Valid"
  PROVE  Searchable(routes[t], n + 1)
<1> DEFINE S(i) == routes[t][i].upstream.start
           C(i) == routes[t][i].upstream.count
           E(i) == End(routes[t][i].upstream)
<1>1. \A i \in 0 .. n : S(i) \in Nat /\ C(i) \in Nat /\ E(i) = S(i) + C(i)
  BY RouteType, RouteSearchAssumption DEF End, TypeOK
<1>2. MappingFits(routes[t][n])
  BY DEF Verdict, MappingFits
<1>3. havePreviousRoute => S(n) >= previousStart
  BY <1>1, SMT DEF Verdict, TypeOK
<1>4. havePreviousPopulated => S(n) >= previousPopulatedEnd
  BY <1>1, SMT DEF Verdict, TypeOK
<1>5. /\ \A i \in 0 .. n - 1 : MappingFits(routes[t][i])
      /\ \A i \in 0 .. n - 1 : \A j \in 0 .. i - 1 : E(j) <= S(i)
      /\ n > 0 => havePreviousRoute /\ previousStart = S(n - 1)
      /\ \A j \in 0 .. n - 1 :
           C(j) # 0 => havePreviousPopulated /\ E(j) <= previousPopulatedEnd
  BY DEF Scanned, Searchable
<1>6. n \in Nat /\ previousStart \in Nat /\ previousPopulatedEnd \in Nat
  BY RouteSearchAssumption DEF TypeOK
<1> HIDE DEF S, C, E
<1>7. ASSUME NEW j \in 0 .. n - 1 PROVE E(j) <= S(n)
  <2>1. CASE C(j) # 0
    BY <1>1, <1>4, <1>5, <1>6, <2>1
  <2>2. CASE C(j) = 0
    <3>1. S(j) <= S(n - 1)
      BY <1>1, <1>5, <1>6
    <3>2. S(n - 1) <= S(n)
      BY <1>3, <1>5, <1>6
    <3> QED BY <1>1, <1>6, <2>2, <3>1, <3>2
  <2> QED BY <2>1, <2>2
<1>8. \A i \in 0 .. n : MappingFits(routes[t][i])
  BY <1>2, <1>5, <1>6
<1>9. \A i \in 0 .. n : \A j \in 0 .. i - 1 : E(j) <= S(i)
  BY <1>5, <1>6, <1>7
<1>10. n + 1 - 1 = n
  BY <1>6
<1> QED BY <1>8, <1>9, <1>10 DEF Searchable, S, E

(* A rejected mapping does break the order, or does not fit. *)
LEMMA RejectedBreaksOrder ==
  ASSUME TypeOK, hasStorage, NEW t \in Tables, NEW n \in 0 .. routeCount - 1,
         Scanned(routes[t], n), Verdict(routes[t][n]) # "Valid"
  PROVE  ~Searchable(routes[t], routeCount)
<1> SUFFICES ASSUME Searchable(routes[t], routeCount) PROVE FALSE OBVIOUS
<1> DEFINE S(i) == routes[t][i].upstream.start
           E(i) == End(routes[t][i].upstream)
<1>1. routeCount \in Nat /\ n \in Nat
  BY RouteSearchAssumption DEF TypeOK
<1>2. MappingFits(routes[t][n]) /\ \A j \in 0 .. n - 1 : E(j) <= S(n)
  BY <1>1 DEF Searchable
<1>3. \A i \in 0 .. n : S(i) \in Nat /\ E(i) \in Nat /\ S(i) <= E(i)
  BY <1>1, RouteType
<1>4. ~(havePreviousRoute /\ S(n) < previousStart)
  <2> SUFFICES ASSUME havePreviousRoute PROVE ~(S(n) < previousStart) OBVIOUS
  <2>1. n > 0 /\ previousStart = S(n - 1)
    BY DEF Scanned
  <2>2. S(n - 1) <= E(n - 1) /\ E(n - 1) <= S(n)
    BY <1>1, <1>2, <1>3, <2>1
  <2> HIDE DEF S, E
  <2> QED BY <1>1, <1>3, <2>1, <2>2
<1>5. ~(havePreviousPopulated /\ S(n) < previousPopulatedEnd)
  <2> SUFFICES ASSUME havePreviousPopulated
               PROVE  ~(S(n) < previousPopulatedEnd)
    OBVIOUS
  <2>1. PICK j \in 0 .. n - 1 : previousPopulatedEnd = E(j)
    BY DEF Scanned
  <2> HIDE DEF S, E
  <2> QED BY <1>1, <1>2, <1>3, <2>1
<1>6. routes[t][n].upstream.count = routes[t][n].downstream.count
  BY <1>2 DEF MappingFits
<1> QED BY <1>2, <1>4, <1>5, <1>6 DEF Verdict

(* A scan that has passed no mapping knows nothing, and that is enough. *)
LEMMA NothingScanned ==
  ASSUME NEW mappings, ~havePreviousRoute, ~havePreviousPopulated
  PROVE  Scanned(mappings, 0)
BY DEF Scanned, Searchable

ValidationInv == TypeOK /\ ScanInv /\ ValidationIsExact

(* The scan starts knowing nothing and promising nothing. *)
LEMMA ValidationInit == Init => ValidationInv
<1> SUFFICES ASSUME Init PROVE ScanInv /\ ValidationIsExact
  BY TypeInit DEF ValidationInv
<1>1. ScanInv
  <2>1. Scanned(routes[tableIndex], routeIndex)
    BY NothingScanned DEF Init
  <2>2. 0 .. tableIndex - 1 = {}
    BY DEF Init
  <2> QED BY <2>1, <2>2 DEF ScanInv
<1>2. ValidationIsExact
  BY DEF Init, ValidationIsExact, Rejections
<1> QED BY <1>1, <1>2

(* A step of a search changes nothing that validation is about. *)
LEMMA ValidationFrame ==
  ASSUME ScanInv, ValidationIsExact, UNCHANGED view, UNCHANGED scan
  PROVE  ScanInv' /\ ValidationIsExact'
BY DEF ScanInv, ValidationIsExact, Scanned, view, scan, NullStorage

(* Each iteration of validate() extends what is known by one mapping or    *)
(* one table, and each return is justified by what is known.               *)
LEMMA ValidationStep == ValidationInv /\ [Next]_vars => ValidationInv'
<1> SUFFICES ASSUME TypeOK, ScanInv, ValidationIsExact, [Next]_vars
             PROVE  ScanInv' /\ ValidationIsExact'
  BY TypeStep DEF ValidationInv
<1>0. /\ routeCount \in Nat /\ TableCount \in Nat
      /\ tableIndex \in 0 .. TableCount /\ routeIndex \in 0 .. routeCount
  BY RouteSearchAssumption DEF TypeOK
<1>1. CASE RejectNullStorage
  <2>1. ~hasStorage' /\ status' = "NullStorage" /\ NullStorage'
    BY <1>1 DEF RejectNullStorage, Returned, NullStorage, view
  <2> QED BY <2>1 DEF ScanInv, ValidationIsExact
<1>2. CASE RejectRoute
  <2>1. hasStorage /\ tableIndex \in Tables /\ routeIndex \in 0 .. routeCount - 1
    BY <1>2, ScanningHasStorage DEF RejectRoute
  <2>2. Scanned(routes[tableIndex], routeIndex)
    BY <1>2, <2>1 DEF RejectRoute, Scanning, ScanInv
  <2>3. ~Searchable(routes[tableIndex], routeCount)
    BY <1>2, <2>1, <2>2, RejectedBreaksOrder DEF RejectRoute
  <2>4. status' # "Scanning" /\ status' # "Valid"
    BY <1>2 DEF RejectRoute, Returned, Verdict
  <2>5. hasStorage' = hasStorage /\ routes' = routes /\ routeCount' = routeCount
    BY <1>2 DEF RejectRoute, Returned, view
  <2> QED BY <2>1, <2>3, <2>4, <2>5 DEF ScanInv, ValidationIsExact
<1>3. CASE AcceptRoute
  <2> DEFINE mapping == routes[tableIndex][routeIndex]
  <2>1. hasStorage /\ tableIndex \in Tables /\ routeIndex \in 0 .. routeCount - 1
    BY <1>3, ScanningHasStorage DEF AcceptRoute
  <2>2. /\ hasStorage' = hasStorage /\ routes' = routes /\ routeCount' = routeCount
        /\ status' = status /\ tableIndex' = tableIndex
        /\ routeIndex' = routeIndex + 1
        /\ status = "Scanning"
    BY <1>3 DEF AcceptRoute, view, Scanning
  <2>3. Scanned(routes[tableIndex], routeIndex)
    BY <1>3, <2>1 DEF AcceptRoute, Scanning, ScanInv
  <2>4. Searchable(routes[tableIndex], routeIndex + 1)
    BY <1>3, <2>1, <2>3, AcceptedInOrder DEF AcceptRoute
  <2>5. Scanned(routes[tableIndex], routeIndex)' 
    <3> DEFINE n == routeIndex
               E(i) == End(routes[tableIndex][i].upstream)
               S(i) == routes[tableIndex][i].upstream.start
               C(i) == routes[tableIndex][i].upstream.count
    <3>1. \A i \in 0 .. n : E(i) \in Nat /\ S(i) \in Nat /\ S(i) <= E(i)
      BY <1>0, <2>1, RouteType
    <3>2. havePreviousRoute' = TRUE /\ previousStart' = S(n)
      BY <1>3 DEF AcceptRoute
    <3>3. \A j \in 0 .. n - 1 : E(j) <= S(n)
      BY <1>0, <2>4 DEF Searchable
    <3>4. \/ /\ C(n) = 0
             /\ havePreviousPopulated' = havePreviousPopulated
             /\ previousPopulatedEnd' = previousPopulatedEnd
          \/ /\ C(n) # 0
             /\ havePreviousPopulated'
             /\ previousPopulatedEnd' = E(n)
      BY <1>3 DEF AcceptRoute
    <3>5. /\ havePreviousPopulated =>
               \E j \in 0 .. n - 1 : previousPopulatedEnd = E(j)
          /\ \A j \in 0 .. n - 1 :
               C(j) # 0 => havePreviousPopulated /\ E(j) <= previousPopulatedEnd
      BY <2>3 DEF Scanned
    <3>6. n \in Nat
      BY <1>0
    <3> HIDE DEF E, S, C, n
    <3>7. havePreviousPopulated' =>
            \E j \in 0 .. n : previousPopulatedEnd' = E(j)
      <4>1. CASE previousPopulatedEnd' = E(n)
        BY <3>6, <4>1
      <4>2. CASE /\ havePreviousPopulated' = havePreviousPopulated
                 /\ previousPopulatedEnd' = previousPopulatedEnd
        <5> SUFFICES ASSUME havePreviousPopulated
                     PROVE  \E j \in 0 .. n : previousPopulatedEnd' = E(j)
          BY <4>2
        <5>1. PICK j \in 0 .. n - 1 : previousPopulatedEnd = E(j)
          BY <3>5
        <5>2. j \in 0 .. n
          BY <3>6
        <5> QED BY <4>2, <5>1, <5>2
      <4> QED BY <3>4, <4>1, <4>2
    <3>8. \A j \in 0 .. n :
            C(j) # 0 => havePreviousPopulated' /\ E(j) <= previousPopulatedEnd'
      BY <3>1, <3>3, <3>4, <3>5, <3>6
    <3>9. n + 1 - 1 = n /\ n + 1 > 0
      BY <3>6
    <3>10. Searchable(routes[tableIndex], routeIndex)'
      BY <2>2, <2>4 DEF Searchable
    <3>11. routeIndex' = n + 1 /\ routes'[tableIndex'] = routes[tableIndex]
      BY <2>2 DEF n
    <3>12. /\ routeIndex' > 0
           /\ routeIndex' - 1 = n
           /\ 0 .. routeIndex' - 1 = 0 .. n
      BY <3>6, <3>11
    <3>13. /\ havePreviousRoute' <=> routeIndex' > 0
           /\ routeIndex' > 0 =>
                previousStart' = routes'[tableIndex'][routeIndex' - 1].upstream.start
      BY <3>2, <3>11, <3>12 DEF S
    <3>14. havePreviousPopulated' =>
             \E j \in 0 .. routeIndex' - 1 :
               previousPopulatedEnd' = End(routes'[tableIndex'][j].upstream)
      BY <3>7, <3>11, <3>12 DEF E
    <3>15. \A j \in 0 .. routeIndex' - 1 :
             routes'[tableIndex'][j].upstream.count # 0 =>
               /\ havePreviousPopulated'
               /\ End(routes'[tableIndex'][j].upstream) <= previousPopulatedEnd'
      BY <3>8, <3>11, <3>12 DEF E, C
    <3> QED BY <3>10, <3>13, <3>14, <3>15 DEF Scanned
  <2> QED BY <2>1, <2>2, <2>5 DEF ScanInv, ValidationIsExact, Rejections
<1>4. CASE NextTable
  <2>1. /\ hasStorage' = hasStorage /\ routes' = routes /\ routeCount' = routeCount
        /\ status' = status /\ status = "Scanning"
        /\ tableIndex' = tableIndex + 1 /\ routeIndex' = 0
        /\ ~havePreviousRoute' /\ ~havePreviousPopulated'
        /\ tableIndex < TableCount /\ routeIndex = routeCount
    BY <1>4 DEF NextTable, Scanning, view
  <2>2. Scanned(routes[tableIndex], routeIndex)'
    BY <2>1, NothingScanned DEF Scanned, Searchable
  <2>3. hasStorage => Searchable(routes[tableIndex], routeCount)
    BY <2>1 DEF ScanInv, Scanned
  <2>4. hasStorage => \A t \in 0 .. tableIndex : Searchable(routes[t], routeCount)
    BY <1>0, <2>1, <2>3 DEF ScanInv
  <2>5. hasStorage => \A t \in 0 .. tableIndex' - 1 : Searchable(routes'[t], routeCount')
    <3>1. tableIndex' - 1 = tableIndex
      BY <1>0, <2>1
    <3> QED BY <2>1, <2>4, <3>1
  <2>6. ScanInv'
    BY <2>1, <2>2, <2>5 DEF ScanInv
  <2> QED BY <2>1, <2>6 DEF ValidationIsExact, Rejections
<1>5. CASE AcceptTable
  <2>1. /\ hasStorage' = hasStorage /\ routes' = routes /\ routeCount' = routeCount
        /\ status' = "Valid" /\ status = "Scanning" /\ ~NullStorage
        /\ tableIndex = TableCount
    BY <1>5 DEF AcceptTable, Returned, view
  <2>2. hasStorage => \A t \in Tables : Searchable(routes[t], routeCount)
    BY <2>1 DEF ScanInv, Tables
  <2> QED BY <2>1, <2>2 DEF ScanInv, ValidationIsExact, NullStorage, Rejections
<1>6. CASE \/ \E wanted \in 0 .. TableCount, address \in Address :
               Locate(wanted, address)
           \/ GoLower \/ GoHigher \/ Hit \/ EndSearch
  <2>1. UNCHANGED view /\ UNCHANGED scan
    BY <1>6 DEF Locate, GoLower, GoHigher, Hit, EndSearch
  <2> QED BY <2>1, ValidationFrame
<1>7. CASE UNCHANGED vars
  BY <1>7, ValidationFrame DEF vars
<1> QED BY <1>1, <1>2, <1>3, <1>4, <1>5, <1>6, <1>7 DEF Next

-----------------------------------------------------------------------------
(* The search. *)

(* The caller's arrays are short enough for a signed index. *)
ShortArrays == \A n \in RouteCounts : n < HalfIndex

SearchInv ==
  /\ search # "Undefined"
  /\ search # "Idle" => status = "Valid"
  /\ search = "Running" =>
       /\ hasStorage
       /\ table \in Tables
       /\ low \in 0 .. routeCount
       /\ high \in -1 .. routeCount - 1
       /\ \A i \in 0 .. routeCount - 1 :
            Contains(routes[table][i].upstream, upstreamAddress) =>
              i \in low .. high

IInv == ValidationInv /\ SearchInv /\ LocateIsExact

(* In a running search over a short array the probed route is one of the   *)
(* array, at the midpoint, and both neighbours of the midpoint are bounds. *)
LEMMA ProbeInside ==
  ASSUME ShortArrays, TypeOK, SearchInv, search = "Running", low <= high
  PROVE  /\ Middle \in low .. high
         /\ Middle \in 0 .. routeCount - 1
         /\ ToUnsigned(Middle) = Middle
         /\ InsideRoutes
         /\ ToSigned(Middle - 1) = Middle - 1
         /\ ToSigned(Middle + 1) = Middle + 1
<1>1. routeCount \in Nat /\ routeCount < HalfIndex /\ HalfIndex \in Nat
  BY RouteSearchAssumption DEF TypeOK, ShortArrays
<1>2. low \in 0 .. routeCount /\ high \in -1 .. routeCount - 1
  BY DEF SearchInv
<1>3. Middle \in low .. high /\ (Middle >= 0 => ToUnsigned(Middle) = Middle)
  BY MiddleInside
<1>4. Middle \in 0 .. routeCount - 1
  BY <1>1, <1>2, <1>3
<1>5. /\ Middle - 1 \in SignedIndex /\ Middle - 1 \in -HalfIndex - 1 .. 2 * HalfIndex - 1
      /\ Middle + 1 \in SignedIndex /\ Middle + 1 \in -HalfIndex - 1 .. 2 * HalfIndex - 1
  BY <1>1, <1>4 DEF SignedIndex
<1>6. ToUnsigned(Middle) = Middle
  BY <1>3, <1>4
<1> QED BY <1>1, <1>3, <1>4, <1>5, <1>6, Narrowing DEF InsideRoutes

(* In a searchable table an address before the probed route is in no later *)
(* one, and an address past the probed route is in no earlier one.         *)
LEMMA ProbeDivides ==
  ASSUME TypeOK, hasStorage, NEW t \in Tables, Searchable(routes[t], routeCount),
         NEW m \in 0 .. routeCount - 1, NEW address \in Address,
         NEW i \in 0 .. routeCount - 1,
         Contains(routes[t][i].upstream, address)
  PROVE  /\ address < routes[t][m].upstream.start => i < m
         /\ /\ routes[t][m].upstream.start <= address
            /\ ~Contains(routes[t][m].upstream, address)
            => m < i
<1> DEFINE S(k) == routes[t][k].upstream.start
           C(k) == routes[t][k].upstream.count
           E(k) == End(routes[t][k].upstream)
<1>1. /\ S(i) \in Nat /\ E(i) = S(i) + C(i) /\ C(i) \in Nat /\ E(i) \in Nat
      /\ S(m) \in Nat /\ E(m) = S(m) + C(m) /\ C(m) \in Nat /\ E(m) \in Nat
  BY RouteType DEF End
<1>2. routeCount \in Nat /\ address \in Nat
  BY RouteSearchAssumption, AddressSpaceAssumption DEF TypeOK, Address
<1>3. C(i) # 0 /\ S(i) <= address /\ address < E(i)
  BY DEF Contains
<1>4. /\ i < m => E(i) <= S(m)
      /\ m < i => E(m) <= S(i)
  BY <1>2 DEF Searchable
<1>5. Contains(routes[t][m].upstream, address) <=>
        C(m) # 0 /\ S(m) <= address /\ address < E(m)
  BY DEF Contains
<1>6. i = m => S(i) = S(m) /\ E(i) = E(m) /\ C(i) = C(m)
  OBVIOUS
<1> SUFFICES /\ address < S(m) => i < m
             /\ S(m) <= address /\ ~(C(m) # 0 /\ S(m) <= address /\ address < E(m))
                => m < i
  BY <1>5
<1> HIDE DEF S, C, E
<1> QED BY <1>1, <1>2, <1>3, <1>4, <1>6

(* A running search works on a table that validation has accepted. *)
LEMMA RunningIsValid ==
  ASSUME ValidationInv, SearchInv, search = "Running"
  PROVE  /\ status = "Valid" /\ hasStorage /\ table \in Tables
         /\ Searchable(routes[table], routeCount)
BY DEF ValidationInv, ValidationIsExact, SearchInv

(* Validation never overlaps a search. *)
LEMMA ValidationLeavesSearch ==
  ASSUME SearchInv, LocateIsExact, status = "Scanning", UNCHANGED view,
         UNCHANGED lookup
  PROVE  SearchInv' /\ LocateIsExact'
BY DEF SearchInv, LocateIsExact, view, lookup, Mapped

(* Each probe keeps every route that contains the address within the       *)
(* bounds, so that the search ends on it or without one.                   *)
LEMMA SearchStep ==
  ASSUME ShortArrays, IInv, [Next]_vars
  PROVE  SearchInv' /\ LocateIsExact'
<1> USE DEF IInv
<1>0. TypeOK /\ routeCount \in Nat /\ upstreamAddress \in Address
  BY RouteSearchAssumption DEF ValidationInv, TypeOK
<1>1. CASE RejectNullStorage \/ RejectRoute \/ AcceptRoute \/ NextTable \/ AcceptTable
  <2>1. status = "Scanning" /\ UNCHANGED view /\ UNCHANGED lookup
    BY <1>1 DEF RejectNullStorage, RejectRoute, AcceptRoute, NextTable, AcceptTable,
                Scanning, Returned
  <2> QED BY <2>1, ValidationLeavesSearch
<1>2. ASSUME NEW wanted \in 0 .. TableCount, NEW address \in Address,
             Locate(wanted, address)
      PROVE  SearchInv' /\ LocateIsExact'
  <2>1. /\ status' = "Valid" /\ hasStorage' = hasStorage /\ routes' = routes
        /\ routeCount' = routeCount /\ table' = wanted /\ upstreamAddress' = address
    BY <1>2 DEF Locate, view, scan
  <2>2. CASE hasStorage /\ wanted \in Tables
    <3>1. search' = "Running" /\ low' = 0 /\ high' = routeCount - 1
      BY <1>0, <1>2, <2>2, UpperBound DEF Locate, ShortArrays, TypeOK
    <3>2. low' \in 0 .. routeCount /\ high' \in -1 .. routeCount - 1
      BY <1>0, <3>1
    <3>3. \A i \in 0 .. routeCount - 1 : i \in low' .. high'
      BY <1>0, <3>1
    <3> QED BY <2>1, <2>2, <3>1, <3>2, <3>3 DEF SearchInv, LocateIsExact
  <2>3. CASE ~(hasStorage /\ wanted \in Tables)
    <3>1. search' = "NotFound"
      BY <1>2, <2>3 DEF Locate
    <3> QED BY <2>1, <2>3, <3>1 DEF SearchInv, LocateIsExact, Mapped, Tables
  <2> QED BY <2>2, <2>3
<1>3. ASSUME search = "Running"
      PROVE  /\ status = "Valid" /\ hasStorage /\ table \in Tables
             /\ Searchable(routes[table], routeCount)
             /\ low \in 0 .. routeCount /\ high \in -1 .. routeCount - 1
             /\ \A i \in 0 .. routeCount - 1 :
                  Contains(routes[table][i].upstream, upstreamAddress) =>
                    i \in low .. high
  BY <1>3, RunningIsValid DEF SearchInv
<1>4. ASSUME Probing
      PROVE  /\ search = "Running"
             /\ Middle \in low .. high
             /\ Middle \in 0 .. routeCount - 1
             /\ Probed = routes[table][Middle].upstream
             /\ ToUnsigned(Middle) = Middle
             /\ ToSigned(Middle - 1) = Middle - 1
             /\ ToSigned(Middle + 1) = Middle + 1
  <2>1. search = "Running" /\ low <= high
    BY <1>4 DEF Probing
  <2> QED BY <1>0, <2>1, ProbeInside DEF Probed
<1>5. ASSUME Probing, NEW i \in 0 .. routeCount - 1,
             Contains(routes[table][i].upstream, upstreamAddress)
      PROVE  /\ i \in low .. high
             /\ upstreamAddress < Probed.start => i < Middle
             /\ Probed.start <= upstreamAddress /\ ~Contains(Probed, upstreamAddress)
                => Middle < i
  BY <1>0, <1>3, <1>4, <1>5, ProbeDivides
<1>6. CASE GoLower
  <2>1. Probing /\ upstreamAddress < Probed.start /\ high' = Middle - 1
    BY <1>4, <1>6 DEF GoLower
  <2>2. /\ search' = "Running" /\ status' = status /\ hasStorage' = hasStorage
        /\ routes' = routes /\ routeCount' = routeCount /\ table' = table
        /\ upstreamAddress' = upstreamAddress /\ low' = low
    BY <1>4, <1>6, <2>1 DEF GoLower, view, scan
  <2>3. high' \in -1 .. routeCount - 1
    BY <1>0, <1>4, <2>1
  <2>4. \A i \in 0 .. routeCount - 1 :
          Contains(routes[table][i].upstream, upstreamAddress) => i \in low' .. high'
    BY <1>0, <1>4, <1>5, <2>1, <2>2
  <2> QED BY <1>3, <1>4, <2>1, <2>2, <2>3, <2>4 DEF SearchInv, LocateIsExact
<1>7. CASE GoHigher
  <2>1. /\ Probing /\ Probed.start <= upstreamAddress
        /\ ~Contains(Probed, upstreamAddress) /\ low' = Middle + 1
    BY <1>4, <1>7 DEF GoHigher
  <2>2. /\ search' = "Running" /\ status' = status /\ hasStorage' = hasStorage
        /\ routes' = routes /\ routeCount' = routeCount /\ table' = table
        /\ upstreamAddress' = upstreamAddress /\ high' = high
    BY <1>4, <1>7, <2>1 DEF GoHigher, view, scan
  <2>3. low' \in 0 .. routeCount
    BY <1>0, <1>4, <2>1
  <2>4. \A i \in 0 .. routeCount - 1 :
          Contains(routes[table][i].upstream, upstreamAddress) => i \in low' .. high'
    BY <1>0, <1>4, <1>5, <2>1, <2>2
  <2> QED BY <1>3, <1>4, <2>1, <2>2, <2>3, <2>4 DEF SearchInv, LocateIsExact
<1>8. CASE Hit
  <2>1. /\ search' = "Found" /\ routeIndexOut' = Middle
        /\ Contains(routes[table][Middle].upstream, upstreamAddress)
        /\ Middle \in 0 .. routeCount - 1
    BY <1>4, <1>8 DEF Hit
  <2>2. /\ status' = status /\ routes' = routes /\ routeCount' = routeCount
        /\ table' = table /\ upstreamAddress' = upstreamAddress /\ status = "Valid"
    BY <1>3, <1>4, <1>8 DEF Hit, view, scan
  <2>3. routeIndexOut' < routeCount
    BY <1>0, <2>1
  <2> QED BY <2>1, <2>2, <2>3 DEF SearchInv, LocateIsExact
<1>9. CASE EndSearch
  <2>1. search = "Running" /\ low > high
    BY <1>0, <1>3, <1>9, ProbeInside DEF EndSearch
  <2>2. /\ search' = "NotFound" /\ status' = status /\ routes' = routes
        /\ routeCount' = routeCount /\ table' = table
        /\ upstreamAddress' = upstreamAddress
    BY <1>9, <2>1 DEF EndSearch, view, scan
  <2>3. low .. high = {}
    BY <1>0, <1>3, <2>1
  <2>4. ~Mapped(table, upstreamAddress)
    BY <1>3, <2>1, <2>3 DEF Mapped
  <2> QED BY <1>3, <2>1, <2>2, <2>4 DEF SearchInv, LocateIsExact, Mapped
<1>10. CASE UNCHANGED vars
  BY <1>10 DEF vars, view, scan, lookup, SearchInv, LocateIsExact, Mapped
<1> QED BY <1>1, <1>2, <1>6, <1>7, <1>8, <1>9, <1>10 DEF Next

-----------------------------------------------------------------------------
(* The cost of a search. *)

(* A power of two is a natural number, and each one doubles the one before *)
(* it: the subsets of 0 .. n are those of 0 .. n - 1, with and without n.  *)
LEMMA PowersDouble ==
  ASSUME NEW n \in Nat
  PROVE  2 ^ n \in Nat /\ 2 ^ (n + 1) = 2 ^ n + 2 ^ n
<1> DEFINE before == SUBSET (0 .. n - 1)
           with == {S \cup {n} : S \in before}
           add == [S \in before |-> S \cup {n}]
<1>1. /\ IsFiniteSet(0 .. n - 1) /\ Cardinality(0 .. n - 1) = n
      /\ IsFiniteSet(0 .. n) /\ Cardinality(0 .. n) = n + 1
  BY FS_Interval
<1>2. /\ IsFiniteSet(before) /\ Cardinality(before) = 2 ^ n
      /\ IsFiniteSet(SUBSET (0 .. n)) /\ Cardinality(SUBSET (0 .. n)) = 2 ^ (n + 1)
  BY <1>1, FS_SUBSET
<1>3. IsFiniteSet(with) /\ Cardinality(with) = Cardinality(before)
  <2>1. add \in Bijection(before, with)
    <3>1. ASSUME NEW S \in before, NEW T \in before, S \cup {n} = T \cup {n}
          PROVE  S = T
      <4>1. n \notin S /\ n \notin T
        OBVIOUS
      <4> QED BY <3>1, <4>1
    <3>2. add \in [before -> with]
      OBVIOUS
    <3>3. \A S, T \in before : add[S] = add[T] => S = T
      BY <3>1
    <3>4. DOMAIN add = before
      OBVIOUS
    <3>5. add \in Injection(before, with)
      <4> HIDE DEF add, before, with
      <4> QED BY <3>2, <3>3, <3>4 DEF Injection, IsInjective
    <3>6. add \in Surjection(before, with)
      BY DEF Surjection
    <3> QED BY <3>5, <3>6 DEF Bijection
  <2>2. ExistsBijection(before, with)
    BY <2>1 DEF ExistsBijection
  <2> QED BY <1>2, <2>2, FS_Bijection
<1>4. before \cap with = {}
  <2>1. n \notin 0 .. n - 1
    OBVIOUS
  <2> QED BY <2>1
<1>5. before \cup with = SUBSET (0 .. n)
  <2>1. 0 .. n = (0 .. n - 1) \cup {n}
    OBVIOUS
  <2>2. ASSUME NEW S \in SUBSET (0 .. n) PROVE S \in before \cup with
    <3>1. CASE n \in S
      <4>1. S \ {n} \in before /\ S = (S \ {n}) \cup {n}
        BY <2>1, <3>1
      <4> QED BY <4>1
    <3>2. CASE n \notin S
      BY <2>1, <3>2
    <3> QED BY <3>1, <3>2
  <2>3. ASSUME NEW S \in before PROVE S \in SUBSET (0 .. n) /\ S \cup {n} \in SUBSET (0 .. n)
    BY <2>1
  <2>4. with \subseteq SUBSET (0 .. n)
    BY <2>3
  <2>5. before \subseteq SUBSET (0 .. n)
    BY <2>3
  <2>6. SUBSET (0 .. n) \subseteq before \cup with
    BY <2>2
  <2> HIDE DEF before, with
  <2> QED BY <2>4, <2>5, <2>6
<1>6. Cardinality(before \cap with) = 0
  BY <1>4, FS_EmptySet
<1>7. Cardinality(before \cup with)
        = Cardinality(before) + Cardinality(with) - Cardinality(before \cap with)
  BY <1>2, <1>3, FS_Union
<1>8. Cardinality(before) \in Nat
  BY <1>2, FS_CardinalityType
<1> HIDE DEF before, with, add
<1>9. Cardinality(before \cup with) = Cardinality(before) + Cardinality(before)
  BY <1>3, <1>6, <1>7, <1>8
<1> QED BY <1>2, <1>5, <1>8, <1>9

(* An interval of half the width, against a power twice as large. *)
LEMMA HalfTheWidth ==
  ASSUME NEW width \in Nat, NEW half \in Nat, NEW power \in Nat,
         2 * half <= width
  PROVE  half * (power + power) <= width * power
<1>1. PICK rest \in Nat : width = 2 * half + rest
  <2>1. width - 2 * half \in Nat /\ width = 2 * half + (width - 2 * half)
    OBVIOUS
  <2> QED BY <2>1
<1>2. half * (power + power) = (2 * half) * power
  OBVIOUS
<1>3. width * power = (2 * half) * power + rest * power
  BY <1>1
<1>4. rest * power \in Nat /\ (2 * half) * power \in Nat
  OBVIOUS
<1> DEFINE a == (2 * half) * power
           b == rest * power
<1>5. a \in Nat /\ b \in Nat /\ width * power = a + b /\ half * (power + power) = a
  BY <1>2, <1>3, <1>4
<1> HIDE DEF a, b
<1> QED BY <1>5

(* Each probe has halved the interval it found: together with what is left *)
(* of it, the probes of a search still fit into the array.                 *)
ProbesInv ==
  /\ LogarithmicSearch
  /\ search = "Running" => (high - low + 1) * 2 ^ probes <= routeCount

(* A probe halves the interval, whichever side of its midpoint is kept.    *)
LEMMA ProbeHalves ==
  ASSUME ShortArrays, TypeOK, SearchInv, Probing
  PROVE  /\ 2 * (Middle - low) <= high - low + 1
         /\ 2 * (high - Middle) <= high - low + 1
         /\ Middle - low \in Nat /\ high - Middle \in Nat
         /\ high - low + 1 \in Nat \ {0}
<1>1. low \in Int /\ high \in Int /\ low <= high
  BY RouteSearchAssumption DEF TypeOK, SignedIndex, Probing
<1>2. Middle = low + ((high - low) \div 2)
  BY <1>1, MiddleInside
<1> DEFINE width == high - low
           half == width \div 2
<1>3. width \in Nat
  BY <1>1
<1>4. Middle = low + half
  BY <1>2
<1>5. half \in Nat /\ 2 * half <= width /\ width <= 2 * half + 1
  <2> HIDE DEF width
  <2> QED BY <1>3
<1>6. width = high - low
  OBVIOUS
<1> HIDE DEF half, width
<1> QED BY <1>1, <1>3, <1>4, <1>5, <1>6

(* Every step keeps the account of the probes. *)
LEMMA ProbesStep ==
  ASSUME ShortArrays, IInv, ProbesInv, [Next]_vars
  PROVE  ProbesInv'
<1> USE DEF IInv
<1>0. TypeOK /\ SearchInv /\ routeCount \in Nat /\ probes \in Nat
  BY RouteSearchAssumption DEF ValidationInv, TypeOK
<1>1. CASE RejectNullStorage \/ RejectRoute \/ AcceptRoute \/ NextTable \/ AcceptTable
           \/ UNCHANGED vars
  <2>1. UNCHANGED lookup /\ routeCount' = routeCount
    BY <1>1 DEF RejectNullStorage, RejectRoute, AcceptRoute, NextTable, AcceptTable,
                Returned, view, vars
  <2> QED BY <2>1 DEF ProbesInv, LogarithmicSearch, lookup
<1>2. ASSUME NEW wanted \in 0 .. TableCount, NEW address \in Address,
             Locate(wanted, address)
      PROVE  ProbesInv'
  <2>1. probes' = 0 /\ routeCount' = routeCount
    BY <1>2 DEF Locate, view
  <2>2. search' = "Running" => low' = 0 /\ high' = routeCount - 1
    BY <1>0, <1>2, UpperBound DEF Locate, ShortArrays, TypeOK
  <2>3. 2 ^ 0 = 1
    OBVIOUS
  <2>4. search' = "Running" => (high' - low' + 1) * 2 ^ probes' <= routeCount'
    BY <1>0, <2>1, <2>2, <2>3
  <2> QED BY <2>1, <2>4 DEF ProbesInv, LogarithmicSearch
<1>3. ASSUME Probing
      PROVE  /\ probes' = probes + 1
             /\ 2 ^ probes \in Nat
             /\ 2 ^ probes' = 2 ^ probes + 2 ^ probes
             /\ (high - low + 1) * 2 ^ probes <= routeCount
             /\ 2 ^ probes <= routeCount
             /\ probes' > 0 /\ probes' - 1 = probes
  <2>1. search = "Running" /\ probes' = probes + 1
    BY <1>3 DEF Probing
  <2>2. 2 ^ probes \in Nat /\ 2 ^ probes' = 2 ^ probes + 2 ^ probes
    BY <1>0, <2>1, PowersDouble
  <2>3. (high - low + 1) * 2 ^ probes <= routeCount
    BY <2>1 DEF ProbesInv
  <2>4. high - low + 1 \in Nat \ {0}
    BY <1>0, <1>3, ProbeHalves
  <2>5. 2 ^ probes <= routeCount
    <3> DEFINE width == high - low + 1
               power == 2 ^ probes
    <3>1. width \in Nat \ {0} /\ power \in Nat /\ width * power <= routeCount
      BY <2>2, <2>3, <2>4
    <3> HIDE DEF width, power
    <3>2. power <= width * power
      BY <3>1
    <3> SUFFICES power <= routeCount
      BY DEF power
    <3> QED BY <1>0, <3>1, <3>2
  <2> QED BY <1>0, <2>1, <2>2, <2>3, <2>5
<1>4. ASSUME Probing, routeCount' = routeCount, NEW half \in Nat,
             2 * half <= high - low + 1,
             search' = "Running" => high' - low' + 1 = half
      PROVE  ProbesInv'
  <2>1. LogarithmicSearch'
    BY <1>3, <1>4 DEF LogarithmicSearch
  <2>2. half * 2 ^ probes' <= routeCount
    <3> DEFINE width == high - low + 1
               power == 2 ^ probes
    <3>1. width \in Nat /\ power \in Nat /\ 2 * half <= width
      BY <1>0, <1>3, <1>4, ProbeHalves
    <3>2. width * power <= routeCount /\ 2 ^ probes' = power + power
      BY <1>3, <1>4
    <3> HIDE DEF width, power
    <3>3. half * (power + power) <= width * power
      BY <3>1, HalfTheWidth
    <3>4. half * (power + power) \in Nat /\ width * power \in Nat
      BY <3>1
    <3> QED BY <1>0, <3>2, <3>3, <3>4
  <2>3. search' = "Running" => (high' - low' + 1) * 2 ^ probes' <= routeCount'
    BY <1>4, <2>2
  <2> QED BY <2>1, <2>3 DEF ProbesInv
<1>5. ASSUME Probing
      PROVE  /\ Middle \in Int /\ low \in Int /\ high \in Int
             /\ ToSigned(Middle - 1) = Middle - 1
             /\ ToSigned(Middle + 1) = Middle + 1
             /\ Middle - low \in Nat /\ 2 * (Middle - low) <= high - low + 1
             /\ high - Middle \in Nat /\ 2 * (high - Middle) <= high - low + 1
  BY <1>0, <1>5, ProbeInside, ProbeHalves, RouteSearchAssumption
  DEF Probing, TypeOK, SignedIndex
<1>6. CASE GoLower
  <2>1. Probing /\ high' = Middle - 1 /\ low' = low /\ routeCount' = routeCount
    BY <1>5, <1>6 DEF GoLower, view
  <2>2. high' - low' + 1 = Middle - low
    BY <1>5, <2>1
  <2> QED BY <1>4, <1>5, <2>1, <2>2
<1>7. CASE GoHigher
  <2>1. Probing /\ low' = Middle + 1 /\ high' = high /\ routeCount' = routeCount
    BY <1>5, <1>7 DEF GoHigher, view
  <2>2. high' - low' + 1 = high - Middle
    BY <1>5, <2>1
  <2> QED BY <1>4, <1>5, <2>1, <2>2
<1>8. CASE Hit
  <2>1. Probing /\ search' = "Found" /\ routeCount' = routeCount
    BY <1>8 DEF Hit, view
  <2> QED BY <1>3, <2>1 DEF ProbesInv, LogarithmicSearch
<1>9. CASE EndSearch
  <2>1. probes' = probes /\ search' # "Running" /\ routeCount' = routeCount
    BY <1>9 DEF EndSearch, view
  <2> QED BY <2>1 DEF ProbesInv, LogarithmicSearch
<1> QED BY <1>1, <1>2, <1>6, <1>7, <1>8, <1>9 DEF Next

-----------------------------------------------------------------------------
(* The theorems. *)

(* The variables of validate() and locate() keep their types, the search   *)
(* bounds those of signed indices, for route arrays of every length.       *)
THEOREM TypeCorrect == Spec => []TypeOK
BY TypeInit, TypeStep, PTL DEF Spec

(* validate() accepts exactly the arrays a binary search may rely on,      *)
(* whatever the number of routes and register tables.                      *)
THEOREM ValidationExact == Spec => []ValidationIsExact
<1>1. Spec => []ValidationInv
  BY ValidationInit, ValidationStep, PTL DEF Spec
<1> QED BY <1>1, PTL DEF ValidationInv

(* The invariant of a search over arrays with at most HalfIndex - 1 routes. *)
LEMMA SearchInvariant == ASSUME ShortArrays PROVE Spec => []IInv
<1>1. Init => IInv
  <2>1. Init => SearchInv /\ LocateIsExact
    BY DEF Init, SearchInv, LocateIsExact
  <2> QED BY <2>1, ValidationInit DEF IInv
<1>2. IInv /\ [Next]_vars => IInv'
  <2>1. IInv /\ [Next]_vars => SearchInv' /\ LocateIsExact'
    BY SearchStep
  <2>2. IInv /\ [Next]_vars => ValidationInv'
    BY ValidationStep DEF IInv
  <2> QED BY <2>1, <2>2 DEF IInv
<1> QED BY <1>1, <1>2, PTL DEF Spec

(* locate() never reads outside an array of at most HalfIndex - 1 routes.  *)
THEOREM SearchInBounds == ASSUME ShortArrays PROVE Spec => []SearchStaysInside
<1>1. IInv => SearchStaysInside
  BY DEF IInv, SearchInv, SearchStaysInside
<1> QED BY <1>1, SearchInvariant, PTL

(* locate() finds the route of every address that a valid array of at most *)
(* HalfIndex - 1 routes maps, and fails on every other address.            *)
THEOREM LocateExact == ASSUME ShortArrays PROVE Spec => []LocateIsExact
BY SearchInvariant, PTL DEF IInv

(* locate() takes at most 1 + log2(routeCount) probes, whatever the gaps    *)
(* and the empty ranges of a valid array of at most HalfIndex - 1 routes.  *)
THEOREM SearchIsLogarithmic ==
  ASSUME ShortArrays PROVE Spec => []LogarithmicSearch
<1>1. Init => ProbesInv
  BY DEF Init, ProbesInv, LogarithmicSearch
<1>2. IInv /\ ProbesInv /\ [Next]_vars => ProbesInv'
  BY ProbesStep
<1>3. Spec => []ProbesInv
  BY <1>1, <1>2, SearchInvariant, PTL DEF Spec
<1> QED BY <1>3, PTL DEF ProbesInv

-----------------------------------------------------------------------------
(* The answer, as the modules above the search have it. *)

(* A search that ran has had a table to run in. *)
SearchedInv ==
  search \in {"Running", "Found"} => hasStorage /\ table \in Tables

LEMMA SearchedStep == SearchedInv /\ [Next]_vars => SearchedInv'
<1> SUFFICES ASSUME SearchedInv, [Next]_vars PROVE SearchedInv'
  OBVIOUS
<1>1. CASE UNCHANGED lookup /\ UNCHANGED view
  BY <1>1 DEF SearchedInv, lookup, view, Tables
<1>2. ASSUME NEW wanted \in 0 .. TableCount, NEW address \in Address,
             Locate(wanted, address)
      PROVE  SearchedInv'
  BY <1>2 DEF Locate, SearchedInv, view, Tables
<1>3. CASE GoLower \/ GoHigher \/ Hit \/ EndSearch
  BY <1>3
  DEF GoLower, GoHigher, Hit, EndSearch, Probing, SearchedInv, view, Tables
<1>4. CASE \/ RejectNullStorage \/ RejectRoute \/ AcceptRoute \/ NextTable
           \/ AcceptTable
  BY <1>1, <1>4
  DEF RejectNullStorage, RejectRoute, AcceptRoute, NextTable, AcceptTable,
      Returned
<1>5. CASE UNCHANGED vars
  BY <1>1, <1>5 DEF vars
<1> QED BY <1>2, <1>3, <1>4, <1>5 DEF Next

(* What Located() means to those who look a route up. *)
AnswersLocated ==
  /\ search = "Found" => routeIndexOut = Located(routes[table], upstreamAddress)
  /\ search = "NotFound" /\ hasStorage /\ table \in Tables =>
       Located(routes[table], upstreamAddress) = NoRoute

(* No address is in two ranges of a searchable table. *)
LEMMA OneRoute ==
  ASSUME TypeOK, hasStorage, NEW t \in Tables, Searchable(routes[t], routeCount),
         NEW address \in Address,
         NEW i \in 0 .. routeCount - 1, NEW j \in 0 .. routeCount - 1,
         Contains(routes[t][i].upstream, address),
         Contains(routes[t][j].upstream, address)
  PROVE  i = j
<1>1. routeCount \in Nat
  BY RouteSearchAssumption DEF TypeOK
<1>2. ASSUME NEW k \in 0 .. routeCount - 1, NEW l \in 0 .. routeCount - 1, k < l,
             Contains(routes[t][k].upstream, address)
      PROVE  ~Contains(routes[t][l].upstream, address)
  <2>1. PICK a, b : a = routes[t][k].upstream /\ b = routes[t][l].upstream
    OBVIOUS
  <2>2. End(a) \in Nat /\ b.start \in Nat /\ address \in Nat
    BY <2>1, RouteType, AddressSpaceAssumption DEF Address
  <2>3. k \in 0 .. l - 1
    BY <1>1, <1>2
  <2>4. End(a) <= b.start
    BY <2>1, <2>3 DEF Searchable
  <2>5. address < End(a)
    BY <1>2, <2>1 DEF Contains
  <2>6. address < b.start
    BY <2>2, <2>4, <2>5
  <2> QED BY <2>1, <2>2, <2>6 DEF Contains
<1>3. ~(i < j) /\ ~(j < i)
  BY <1>2
<1> QED BY <1>1, <1>3

(* The loop of locate() computes Located(), which is how ForwardPlan and   *)
(* RouteSpan look a route up: of a valid array of at most HalfIndex - 1    *)
(* routes it finds the one that contains the address, or that there is     *)
(* none.                                                                   *)
THEOREM SearchIsLocated == ASSUME ShortArrays PROVE Spec => []AnswersLocated
<1>1. Init => SearchedInv
  BY DEF Init, SearchedInv
<1>2. Spec => []SearchedInv
  BY <1>1, SearchedStep, PTL DEF Spec
<1>3. ASSUME IInv, SearchedInv PROVE AnswersLocated
  <2>1. /\ TypeOK /\ ValidationIsExact /\ LocateIsExact
        /\ search # "Idle" => status = "Valid"
    BY <1>3 DEF IInv, ValidationInv, SearchInv
  <2>2. PICK t, address : t = table /\ address = upstreamAddress
    OBVIOUS
  <2>3. address \in Address
    BY <2>1, <2>2 DEF TypeOK
  <2>4. ASSUME hasStorage, t \in Tables
        PROVE  DOMAIN routes[t] = 0 .. routeCount - 1
    BY <2>1, <2>4 DEF TypeOK
  <2> DEFINE containing ==
        {i \in DOMAIN routes[t] : Contains(routes[t][i].upstream, address)}
  <2>5. CASE search = "Found"
    <3>1. hasStorage /\ t \in Tables
      BY <1>3, <2>2, <2>5 DEF SearchedInv
    <3>2. Searchable(routes[t], routeCount)
      BY <2>1, <2>5, <3>1 DEF ValidationIsExact
    <3>3. /\ routeIndexOut \in 0 .. routeCount - 1
          /\ Contains(routes[t][routeIndexOut].upstream, address)
      <4>1. routeCount \in Nat /\ routeIndexOut \in Nat
        BY <2>1, RouteSearchAssumption DEF TypeOK
      <4> QED BY <2>1, <2>2, <2>5, <4>1 DEF LocateIsExact
    <3>4. routeIndexOut \in containing
      BY <2>4, <3>1, <3>3
    <3>5. ASSUME NEW i \in containing PROVE i = routeIndexOut
      <4>1. i \in 0 .. routeCount - 1 /\ Contains(routes[t][i].upstream, address)
        BY <2>4, <3>1
      <4> QED BY <2>1, <2>3, <3>1, <3>2, <3>3, <4>1, OneRoute
    <3>6. containing = {routeIndexOut}
      BY <3>4, <3>5
    <3>7. Located(routes[t], address) = routeIndexOut
      BY <3>6 DEF Located
    <3> QED BY <2>2, <2>5, <3>7 DEF AnswersLocated
  <2>6. CASE search = "NotFound" /\ hasStorage /\ table \in Tables
    <3>1. ~Mapped(t, address)
      BY <2>1, <2>2, <2>6 DEF LocateIsExact
    <3>2. containing = {}
      BY <2>2, <2>4, <2>6, <3>1 DEF Mapped
    <3>3. Located(routes[t], address) = NoRoute
      BY <3>2 DEF Located
    <3> QED BY <2>2, <2>6, <3>3 DEF AnswersLocated
  <2> QED BY <2>5, <2>6 DEF AnswersLocated
<1> QED BY <1>2, <1>3, SearchInvariant, PTL
=============================================================================
