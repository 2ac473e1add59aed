----------------------------- MODULE MCLedgerSlots -----------------------------
(***************************************************************************)
(* Three identities (and an invalid one) for two slots; requests of two    *)
(* fragments, the second final.                                            *)
(***************************************************************************)
EXTENDS LedgerSlots

MCWork(token, generation) ==
  [sourceToken |-> token, sessionGeneration |-> generation]

MCWorks == {NoWork, MCWork(1, 1), MCWork(1, 2), MCWork(2, 1)}

MCRequest(work, index) ==
  [work |-> work, requestSequence |-> index + 1, fragmentIndex |-> index,
   delivery |-> "Tracked", finalFragment |-> index = 1]

MCRequests == {MCRequest(work, index) : work \in MCWorks, index \in {0, 1}}

MCView(generation, phase) ==
  [active |-> TRUE, currentGeneration |-> generation,
   appliedGeneration |-> generation, phase |-> phase]

MCSessions == {MCView(1, "Ready"), MCView(2, "Ready"), MCView(2, "Teardown")}
=============================================================================
