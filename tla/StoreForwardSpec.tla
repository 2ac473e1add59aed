-------------------------- MODULE StoreForwardSpec --------------------------
(***************************************************************************)
(* What the facade promises, told without its ledger, planner, revisions   *)
(* and sequences: a bounded FIFO of works served front first, one          *)
(* downstream action at a time, whose fragments go out one after another,  *)
(* and a report to the caller for every call.                              *)
(*                                                                         *)
(* StoreForwardBridge implements it; CachedForwarding builds on it.        *)
(***************************************************************************)
EXTENDS CompletionTransition, Sequences

CONSTANTS Works, Deliveries, Extents, QueueCapacity, Sessions, InitialSession

VARIABLES
  queue,     \* works in order of admission; `left' fragments are unsent
  busy,      \* what the one downstream action is, if any
  session,   \* the caller's lifecycle
  told       \* what the last call reported

specVars == <<queue, busy, session, told>>

Told == [notice : CompletionNotice, applied : BOOLEAN,
         reclaimed : SUBSET Works]

Nothing == [notice |-> "None", applied |-> FALSE, reclaimed |-> {}]

Queue == {queue[i].work : i \in DOMAIN queue}

First == Head(queue)

SpecInit ==
  /\ queue = <<>>
  /\ busy = "No"
  /\ session = InitialSession
  /\ told = Nothing

-----------------------------------------------------------------------------
Accept(work, delivery, extent) ==
  /\ Len(queue) < QueueCapacity
  /\ WorkCurrent(work, session)
  /\ IsAccepted(delivery)
  /\ extent > 0
  /\ work \notin Queue
  /\ queue' = Append(queue, [work |-> work, delivery |-> delivery,
                             extent |-> extent, left |-> extent])
  /\ told' = Nothing
  /\ UNCHANGED <<busy, session>>

(* The front work's next fragment goes out. *)
StartWrite ==
  /\ busy = "No"
  /\ queue # <<>>
  /\ WorkCurrent(First.work, session)
  /\ First.left > 0
  /\ queue' = [queue EXCEPT ![1].left = @ - 1]
  /\ busy' = "Write"
  /\ told' = Nothing
  /\ UNCHANGED session

StartPoll ==
  /\ busy = "No"
  /\ busy' = "Poll"
  /\ told' = Nothing
  /\ UNCHANGED <<queue, session>>

FinishPoll ==
  /\ busy = "Poll"
  /\ busy' = "No"
  /\ told' = Nothing
  /\ UNCHANGED <<queue, session>>

(* A fragment ends: the work goes on, or leaves with its last fragment or  *)
(* its first failure, which is when it is announced.                       *)
FinishWrite(outcome) ==
  LET leaves == First.left = 0 \/ outcome # "Applied"
  IN  /\ busy = "Write"
      /\ WorkCurrent(First.work, session)
      /\ busy' = "No"
      /\ queue' = IF leaves THEN Tail(queue) ELSE queue
      /\ told' =
           [notice |-> IF ~leaves \/ ~TracksPublicCompletion(First.delivery)
                         THEN "None"
                       ELSE IF outcome = "Applied" THEN "WorkSucceeded"
                       ELSE "WorkFailed",
            applied |-> outcome = "Applied",
            reclaimed |-> IF leaves THEN {First.work} ELSE {}]
      /\ UNCHANGED session

Retire ==
  /\ queue' = Tail(queue)
  /\ told' = [Nothing EXCEPT !.reclaimed = {First.work}]
  /\ UNCHANGED session

(* A result that comes back into another session. *)
FinishStale ==
  /\ busy = "Write"
  /\ ~WorkCurrent(First.work, session)
  /\ busy' = "No"
  /\ Retire

(* The caller gives the front work up, or discards it as stale. *)
GiveUp ==
  /\ busy = "No"
  /\ queue # <<>>
  /\ UNCHANGED busy
  /\ Retire

Clear ==
  /\ busy = "No"
  /\ queue' = <<>>
  /\ told' = [Nothing EXCEPT !.reclaimed = Queue]
  /\ UNCHANGED <<busy, session>>

ChangeLifecycle(view) ==
  /\ view.currentGeneration >= session.currentGeneration
  /\ session' = view
  /\ told' = Nothing
  /\ UNCHANGED <<queue, busy>>

(* A call that only looks, or consumes a poll phase nothing is due in. *)
Look ==
  /\ told' = Nothing
  /\ UNCHANGED <<queue, busy, session>>

-----------------------------------------------------------------------------
SpecNext ==
  \/ \E work \in Works, delivery \in Deliveries, extent \in Extents :
       Accept(work, delivery, extent)
  \/ StartWrite
  \/ StartPoll
  \/ FinishPoll
  \/ \E outcome \in DownstreamOutcome : FinishWrite(outcome)
  \/ FinishStale
  \/ GiveUp
  \/ Clear
  \/ \E view \in Sessions : ChangeLifecycle(view)
  \/ Look

ServiceSpec == SpecInit /\ [][SpecNext]_specVars
=============================================================================
