----------------------------- MODULE IngressWork -----------------------------
(***************************************************************************)
(* The vocabulary of include/modbus_rtu_bridge/IngressWork.h: how accepted *)
(* upstream work is delivered, how it is identified, and when the caller's *)
(* session lets it take effect.  Everything here is a constant operator.   *)
(***************************************************************************)
EXTENDS Integers

-----------------------------------------------------------------------------
(* Delivery classes. *)

IngressDelivery == {"Tracked", "SilentOrdered", "LatestState", "Rejected"}

IsAccepted(delivery) == delivery \in {"Tracked", "SilentOrdered", "LatestState"}

TracksPublicCompletion(delivery) == delivery = "Tracked"

-----------------------------------------------------------------------------
(* Wrapping counters that reserve zero: tokens and generations (16 bits),  *)
(* request sequences and proposal revisions (32 bits).                     *)

(* A slip: the reserved zero is not skipped. *)
NextWithZero(value, modulus) == (value + 1) % modulus

NextNonZero(value, modulus) ==
  LET next == (value + 1) % modulus
  IN  IF next = 0 THEN 1 ELSE next

-----------------------------------------------------------------------------
(* Work identities.  Zero marks the absent half of an identity. *)

WorkIdentity == [sourceToken : Nat, sessionGeneration : Nat]

NoWork == [sourceToken |-> 0, sessionGeneration |-> 0]

ValidWork(work) == work.sourceToken # 0 /\ work.sessionGeneration # 0

-----------------------------------------------------------------------------
(* The borrowed view of the caller's lifecycle. *)

SessionPhase == {"Closed", "Teardown", "Initializing", "Ready"}

SessionStateView ==
  [active : BOOLEAN, currentGeneration : Nat, appliedGeneration : Nat,
   phase : SessionPhase]

WorkCurrent(work, session) ==
  /\ ValidWork(work)
  /\ session.active
  /\ work.sessionGeneration = session.currentGeneration
  /\ session.currentGeneration = session.appliedGeneration
  /\ session.phase = "Ready"
=============================================================================
