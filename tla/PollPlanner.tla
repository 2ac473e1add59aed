----------------------------- MODULE PollPlanner -----------------------------
(***************************************************************************)
(* include/modbus_rtu_bridge/PollPlanner.h: round-robin poll selection     *)
(* with a bounded burst of forward writes.  select() reads; commit()       *)
(* advances the fairness state.                                            *)
(*                                                                         *)
(* A candidate table is a sequence; candidate indices count from zero as   *)
(* in the code.  A candidate's request is an abstract value.               *)
(***************************************************************************)
EXTENDS Integers, Sequences

CONSTANTS
  MaxConsecutiveForwards,   \* PollPlannerOptions
  CounterLimit,             \* 0xFFFF: forwardsSincePoll saturates here
  TickModulus               \* 2^32: tick counters wrap here

ASSUME PollPlannerAssumption ==
  /\ CounterLimit \in Nat
  /\ MaxConsecutiveForwards \in 0..CounterLimit
  /\ TickModulus \in Nat \ {0}

-----------------------------------------------------------------------------

ScheduledActionKind == {"None", "ForwardWrite", "Poll"}

PollSelection ==
  [kind : ScheduledActionKind, pollIndex : Nat, originatingPollCount : Nat]

NoSelection == [kind |-> "None", pollIndex |-> 0, originatingPollCount |-> 0]

PollPlannerState ==
  [nextPollIndex : Nat, forwardsSincePoll : 0..CounterLimit,
   lastPollAt : Nat, hasConsumedPoll : BOOLEAN]

InitialPollState ==
  [nextPollIndex |-> 0, forwardsSincePoll |-> 0, lastPollAt |-> 0,
   hasConsumedPoll |-> FALSE]

-----------------------------------------------------------------------------
(* select() *)

(* A slip: the counters are compared as they are. *)
DeadlineReachedUnwrapped(now, dueAt) == now >= dueAt

(* Half-range modular deadline comparison. *)
DeadlineReached(now, dueAt) ==
  2 * ((now - dueAt) % TickModulus) < TickModulus

IsDue(now, candidate) ==
  candidate.enabled /\ DeadlineReached(now, candidate.dueAt)

(* Where a scan starts: beginPollScan() restarts at zero when the table    *)
(* shrank below the round-robin index.                                     *)
ScanStart(polls, state) ==
  IF state.nextPollIndex < Len(polls) THEN state.nextPollIndex ELSE 0

(* The scan visits each index once, from ScanStart around the table.       *)
ScanIndex(polls, state, offset) ==
  (ScanStart(polls, state) + offset) % Len(polls)

DueOffsets(now, polls, state) ==
  {offset \in 0..(Len(polls) - 1) :
     IsDue(now, polls[ScanIndex(polls, state, offset) + 1])}

FirstDue(now, polls, state) ==
  LET offsets == DueOffsets(now, polls, state)
      first == CHOOSE o \in offsets : \A p \in offsets : o <= p
  IN  ScanIndex(polls, state, first)

Select(now, forwardReady, polls, state) ==
  LET due == DueOffsets(now, polls, state) # {}
      Selected(kind, index) ==
        [kind |-> kind, pollIndex |-> index,
         originatingPollCount |-> Len(polls)]
  IN  IF /\ forwardReady
         /\ ~due \/ state.forwardsSincePoll < MaxConsecutiveForwards
        THEN Selected("ForwardWrite", 0)
      ELSE IF due THEN Selected("Poll", FirstDue(now, polls, state))
      ELSE NoSelection

-----------------------------------------------------------------------------
(* The scan one handler pass makes: beginPollScan(), nextIndex() and       *)
(* nextDue(), which is nextIndex() repeated until a candidate is due.      *)

PollScanCursor ==
  [nextIndex : Nat, remaining : Nat, candidateCount : Nat, active : BOOLEAN]

NoCursor ==
  [nextIndex |-> 0, remaining |-> 0, candidateCount |-> 0, active |-> FALSE]

BeginPollScan(polls, state) ==
  IF polls = <<>> THEN NoCursor
  ELSE [nextIndex |-> ScanStart(polls, state), remaining |-> Len(polls),
        candidateCount |-> Len(polls), active |-> TRUE]

(* The index that the call after `skipped' calls of nextIndex() yields. *)
IndexAhead(cursor, skipped) ==
  (cursor.nextIndex + skipped) % cursor.candidateCount

(* A slip: a wrap forgets how many candidates are left. *)
AfterCallsRestarting(cursor, calls) ==
  LET wraps == cursor.nextIndex + calls >= cursor.candidateCount
      left == IF wraps THEN cursor.candidateCount - 1
              ELSE cursor.remaining - calls
  IN  [cursor EXCEPT !.nextIndex = (@ + calls) % cursor.candidateCount,
                     !.remaining = left,
                     !.active = left > 0]

(* The cursor after that many successful calls of nextIndex(). *)
AfterCalls(cursor, calls) ==
  [cursor EXCEPT !.nextIndex = (@ + calls) % cursor.candidateCount,
                 !.remaining = @ - calls,
                 !.active = cursor.remaining > calls]

(* A slip: the last candidate of the scan is left out. *)
DueAheadButLast(now, polls, cursor) ==
  {skipped \in 0..cursor.remaining - 2 :
     /\ cursor.active
     /\ IsDue(now, polls[IndexAhead(cursor, skipped) + 1])}

(* How many candidates nextDue() may skip to find a due one. *)
DueAhead(now, polls, cursor) ==
  {skipped \in 0..cursor.remaining - 1 :
     /\ cursor.active
     /\ IsDue(now, polls[IndexAhead(cursor, skipped) + 1])}

FirstAhead(now, polls, cursor) ==
  CHOOSE skipped \in DueAhead(now, polls, cursor) :
    \A other \in DueAhead(now, polls, cursor) : skipped <= other

NextDueStatus(now, polls, cursor) ==
  IF cursor.candidateCount # Len(polls) THEN "CandidateCountChanged"
  ELSE IF DueAhead(now, polls, cursor) = {} THEN "Complete"
  ELSE "Due"

PollSelectionOf(polls, index) ==
  [kind |-> "Poll", pollIndex |-> index, originatingPollCount |-> Len(polls)]

NextDueSelection(now, polls, cursor) ==
  IF NextDueStatus(now, polls, cursor) = "Due"
    THEN PollSelectionOf(polls,
           IndexAhead(cursor, FirstAhead(now, polls, cursor)))
    ELSE NoSelection

NextDueCursor(now, polls, cursor) ==
  LET status == NextDueStatus(now, polls, cursor)
  IN  IF status = "CandidateCountChanged" THEN NoCursor
      ELSE IF status = "Due"
        THEN AfterCalls(cursor, FirstAhead(now, polls, cursor) + 1)
      ELSE IF cursor.active THEN AfterCalls(cursor, cursor.remaining)
      ELSE cursor

-----------------------------------------------------------------------------
(* commit() *)

CommitAccepts(selection, pollCount) ==
  /\ selection.originatingPollCount = pollCount
  /\ \/ selection.kind = "ForwardWrite"
     \/ selection.kind = "Poll" /\ selection.pollIndex < pollCount

(* A slip: the burst is not counted. *)
CommitForwardUncounted(state) == state

(* A slip: the burst counter wraps, which grants a second burst. *)
CommitForwardWrapping(state) ==
  [state EXCEPT !.forwardsSincePoll = (@ + 1) % (CounterLimit + 1)]

CommitForward(state) ==
  [state EXCEPT
     !.forwardsSincePoll = IF @ = CounterLimit THEN @ ELSE @ + 1]

(* A slip: a poll leaves the burst counter at its bound. *)
CommitPollAfterBurst(selection, pollCount, now) ==
  [nextPollIndex |-> (selection.pollIndex + 1) % pollCount,
   forwardsSincePoll |-> MaxConsecutiveForwards,
   lastPollAt |-> now,
   hasConsumedPoll |-> TRUE]

(* A slip: the next scan begins at the consumed candidate. *)
CommitPollSameIndex(selection, pollCount, now) ==
  [nextPollIndex |-> selection.pollIndex,
   forwardsSincePoll |-> 0,
   lastPollAt |-> now,
   hasConsumedPoll |-> TRUE]

CommitPoll(selection, pollCount, now) ==
  [nextPollIndex |-> (selection.pollIndex + 1) % pollCount,
   forwardsSincePoll |-> 0,
   lastPollAt |-> now,
   hasConsumedPoll |-> TRUE]

Commit(selection, pollCount, now, state) ==
  IF selection.kind = "ForwardWrite"
    THEN CommitForward(state)
    ELSE CommitPoll(selection, pollCount, now)
=============================================================================
