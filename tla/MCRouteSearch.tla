--------------------------- MODULE MCRouteSearch ---------------------------
(* Constants for model-checking RouteSearch with TLC. *)
EXTENDS RouteSearch

MapTo(start, count, downstreamStart, downstreamCount) ==
  [upstream |-> [start |-> start, count |-> count],
   downstream |-> [start |-> downstreamStart, count |-> downstreamCount]]

(* Empty, single and double ranges that fit, two of which overlap; one     *)
(* that passes the end of the image, and one whose endpoint range is       *)
(* longer.                                                                 *)
MCMappings ==
  {MapTo(0, 1, 0, 1), MapTo(0, 2, 0, 2), MapTo(1, 0, 0, 0), MapTo(3, 1, 0, 1),
   MapTo(3, 2, 0, 2), MapTo(2, 1, 0, 2)}
=============================================================================
