------------------------------ MODULE RouteTable ------------------------------
(***************************************************************************)
(* The vocabulary of include/modbus_rtu_bridge/RouteTable.h for one        *)
(* register table: half-open ranges of the flattened upstream image, and   *)
(* the mapping of each onto an endpoint.  An endpoint is known by its      *)
(* position in the caller's array, which starts at zero as in the code.    *)
(***************************************************************************)
EXTENDS Integers

CONSTANT AddressSpace   \* 0x10000 in the code

ASSUME AddressSpaceAssumption == AddressSpace \in Nat \ {0}

Address == 0 .. AddressSpace - 1

AddressRange == [start : Address, count : Address]

(* A range may end at AddressSpace, which is no address: the code computes *)
(* the end in 32 bits.                                                     *)
End(range) == range.start + range.count

Contains(range, address) ==
  /\ range.count # 0
  /\ range.start <= address
  /\ address < End(range)

Mapping == [upstream : AddressRange, downstream : AddressRange]

MappingFits(mapping) ==
  /\ mapping.upstream.count = mapping.downstream.count
  /\ End(mapping.upstream) <= AddressSpace
  /\ End(mapping.downstream) <= AddressSpace

(* The order a sparse binary search depends on: of the first n mappings    *)
(* each one, empty or not, starts where all those before it have ended.    *)
Searchable(mappings, n) ==
  /\ \A i \in 0 .. n - 1 : MappingFits(mappings[i])
  /\ \A i \in 0 .. n - 1 : \A j \in 0 .. i - 1 :
       End(mappings[j].upstream) <= mappings[i].upstream.start

-----------------------------------------------------------------------------
(* What locate() answers on a searchable table: RouteSearch shows that its *)
(* search does.                                                            *)
NoRoute == -1

Located(mappings, address) ==
  LET containing == {i \in DOMAIN mappings : Contains(mappings[i].upstream, address)}
  IN  IF containing = {} THEN NoRoute ELSE CHOOSE i \in containing : TRUE

(* A slip: the walk goes on from the end of a route as if it were mapped.  *)
CoveredAtStart(mappings, start, count) ==
  Located(mappings, start) # NoRoute

(* The walk of inspectSpan() from route to route: with remaining addresses *)
(* to go it stands count - remaining past the start.                       *)
Covered(mappings, start, count) ==
  LET walk[remaining \in 0 .. count] ==
        LET current == start + count - remaining
            route == Located(mappings, current)
        IN  \/ remaining = 0
            \/ /\ route # NoRoute
               /\ LET available == End(mappings[route].upstream) - current
                  IN  remaining <= available \/ walk[remaining - available]
  IN  walk[count]

InspectSpan(mappings, start, count) ==
  IF count = 0 THEN "Empty"
  ELSE IF start + count > AddressSpace THEN "AddressOverflow"
  ELSE IF Covered(mappings, start, count) THEN "Complete"
  ELSE "Gap"
=============================================================================
