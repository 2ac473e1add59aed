------------------------- MODULE MCCachedForwarding -------------------------
(* Constants for model-checking CachedForwarding with TLC. *)
EXTENDS CachedForwarding

Identity(token, generation) ==
  [sourceToken |-> token, sessionGeneration |-> generation]

View(current, applied, phase) ==
  [active |-> TRUE, currentGeneration |-> current,
   appliedGeneration |-> applied, phase |-> phase]

MCWorks == {Identity(1, 1), Identity(2, 1), Identity(1, 2)}

MCFirstSession == View(1, 1, "Ready")
MCSessions ==
  {View(1, 1, "Ready"), View(2, 1, "Initializing"), View(2, 2, "Ready")}
=============================================================================
