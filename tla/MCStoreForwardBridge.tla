------------------------ MODULE MCStoreForwardBridge ------------------------
(* Constants for model-checking StoreForwardBridge with TLC. *)
EXTENDS StoreForwardBridge

CONSTANTS readA, readB, badRead, noRead

Identity(token, generation) ==
  [sourceToken |-> token, sessionGeneration |-> generation]

MCOneToken == {Identity(1, 1), Identity(1, 2)}
MCTwoTokens == {Identity(1, 1), Identity(2, 1), Identity(1, 2)}

View(current, applied, phase) ==
  [active |-> TRUE, currentGeneration |-> current,
   appliedGeneration |-> applied, phase |-> phase]

(* Two sessions and the teardown between them. *)
MCFirstSession == View(1, 1, "Ready")
MCSessions ==
  {View(1, 1, "Ready"), View(1, 1, "Teardown"), View(2, 1, "Initializing"),
   View(2, 2, "Ready")}

(* The sessions without the restart between them, for runs about polls. *)
MCTwoSessions == {View(1, 1, "Ready"), View(2, 2, "Ready")}

Candidate(request, dueAt, enabled, dispatch) ==
  [request |-> request, dueAt |-> dueAt, enabled |-> enabled,
   requiresDispatch |-> dispatch]

MCNoPolls == {<<>>}

(* A growing and shrinking table, a gated phase, an ill-formed request, a  *)
(* disabled candidate and a deadline half the tick space away.             *)
MCPollTables ==
  {<<>>,
   <<Candidate(readA, 0, TRUE, TRUE)>>,
   <<Candidate(readA, 0, FALSE, TRUE), Candidate(readB, 1, TRUE, TRUE)>>,
   <<Candidate(readA, 0, TRUE, FALSE), Candidate(badRead, 1, TRUE, TRUE)>>}

(* One well-formed candidate that is always due. *)
MCAlwaysDue == {<<Candidate(readA, 0, TRUE, TRUE)>>}

MCReads == {readA, readB, badRead}
MCValidReads == {readA, readB}
=============================================================================
