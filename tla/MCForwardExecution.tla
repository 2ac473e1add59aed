------------------------- MODULE MCForwardExecution -------------------------
(* Constants for model-checking ForwardExecution with TLC. *)
EXTENDS ForwardExecution

MapTo(start, count, downstreamStart) ==
  [upstream |-> [start |-> start, count |-> count],
   downstream |-> [start |-> downstreamStart, count |-> count]]

(* Adjacent routes up to the last address, single registers and a gap     *)
(* between, an empty route among populated ones, and no route at all.      *)
MCRouteTables ==
  {[i \in 0 .. 1 |-> <<MapTo(0, 2, 1), MapTo(2, 3, 2)>>[i + 1]],
   [i \in 0 .. 2 |-> <<MapTo(0, 1, 3), MapTo(1, 2, 0), MapTo(3, 1, 0)>>[i + 1]],
   [i \in 0 .. 1 |-> <<MapTo(0, 2, 1), MapTo(3, 1, 0)>>[i + 1]],
   [i \in 0 .. 2 |-> <<MapTo(0, 2, 1), MapTo(2, 0, 0), MapTo(2, 3, 2)>>[i + 1]],
   [i \in {} |-> MapTo(0, 0, 0)]}

View(start, count, delivery, identified, fits) ==
  [start |-> start, count |-> count, delivery |-> delivery,
   identified |-> identified, snapshotFits |-> fits]

(* Works of every extent, and one that fails each other check. *)
MCWorks ==
  {View(start, count, "Tracked", TRUE, TRUE) : start \in {0, 1}, count \in 1 .. 4}
    \cup {View(0, 4, "LatestState", FALSE, TRUE), View(2, 3, "LatestState", TRUE, TRUE),
          View(2, 4, "Tracked", TRUE, TRUE), View(1, 0, "Tracked", TRUE, TRUE),
          View(0, 1, "Rejected", TRUE, TRUE), View(0, 1, "SilentOrdered", TRUE, FALSE)}

Limit(maxQuantity, ordered, latest) ==
  [maxQuantity |-> maxQuantity, orderedSpanPolicy |-> ordered,
   latestStateSpanPolicy |-> latest]

MCPlanOptions ==
  {Limit(0, "PreflightAndSplit", "PreflightAndSplit"),
   Limit(2, "PreflightAndSplit", "Unknown"),
   Limit(4, "SingleEndpoint", "PreflightAndSplit")}

MCWidths == {"Coils", "HoldingRegisters"}

Request(operation, quantity, coils, registers) ==
  [sequence |-> 9, operation |-> operation, endpointId |-> 0,
   startAddress |-> 0, quantity |-> quantity, coilBuffer |-> coils,
   registerBuffer |-> registers, coilValue |-> 0, registerValue |-> 0]

(* A good read, one into the buffer of the other width, one of nothing, a  *)
(* write without a payload, and no operation at all.                       *)
MCOtherRequests ==
  {Request("ReadInputRegisters", 1, NullBuffer, <<0>>),
   Request("ReadCoils", 1, NullBuffer, <<0>>),
   Request("ReadHoldingRegisters", 0, NullBuffer, <<0>>),
   Request("WriteMultipleCoils", 2, NullBuffer, <<1, 2>>),
   Request("Unknown", 1, <<1>>, <<1>>)}
=============================================================================
