----------------------------- MODULE MCRouteSpan -----------------------------
(* Constants for model-checking RouteSpan with TLC. *)
EXTENDS RouteSpan

MapTo(start, count, downstreamStart) ==
  [upstream |-> [start |-> start, count |-> count],
   downstream |-> [start |-> downstreamStart, count |-> count]]

Few == {MapTo(0, 1, 3), MapTo(0, 2, 1), MapTo(1, 0, 0), MapTo(1, 2, 0),
        MapTo(2, 3, 2), MapTo(3, 1, 0), MapTo(4, 1, 4)}

(* Every searchable array of at most three of these, with gaps, adjacent   *)
(* routes, empty routes and routes that end at the last address.           *)
MCRouteTables ==
  UNION {{mappings \in [0 .. n - 1 -> Few] : Searchable(mappings, n)} : n \in 0 .. 3}
=============================================================================
