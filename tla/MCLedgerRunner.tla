---------------------------- MODULE MCLedgerRunner ----------------------------
(***************************************************************************)
(* Small instances of LedgerRunner: the same token in two generations and  *)
(* a second token, in a lifecycle that rolls over and back to a phase that *)
(* admits nothing.                                                         *)
(***************************************************************************)
EXTENDS LedgerRunner

MCWork(token, generation) ==
  [sourceToken |-> token, sessionGeneration |-> generation]

MCWorks == {MCWork(1, 1), MCWork(1, 2), MCWork(2, 1)}

MCView(generation, phase) ==
  [active |-> TRUE, currentGeneration |-> generation,
   appliedGeneration |-> generation, phase |-> phase]

MCFirstSession == MCView(1, "Ready")

MCSessions ==
  {MCFirstSession, MCView(1, "Teardown"), MCView(2, "Ready")}
=============================================================================
