------------------------------ MODULE PollRounds ------------------------------
(***************************************************************************)
(* Handler passes over a poll table: a pass begins a scan, inspects the    *)
(* candidates it yields, declines some, has one consumed or rejected, or   *)
(* leaves the choice between a poll and a queued write to select().  The   *)
(* persistent state moves only with commit(); meanwhile time passes,       *)
(* candidates come due or are disabled, and the table is replaced, also    *)
(* between an offer and its commit.                                        *)
(*                                                                         *)
(* The low-RAM forms differ in who stores what: an index scan asks for     *)
(* indices one at a time (InspectIndex) and PollIndexScan publishes the    *)
(* index and the time only with a successful commit, which is the step     *)
(* ConsumePoll.                                                            *)
(*                                                                         *)
(* Caller assumptions, from the header: one pass at a time; a consumed     *)
(* candidate gets a new deadline (or is disabled) before the next          *)
(* selection; deadlines stay less than half the tick range from now.       *)
(***************************************************************************)
EXTENDS PollPlanner

CONSTANT TableSizes         \* numbers of candidates the table may have

ASSUME TableSizesAssumption ==
  /\ TableSizes \subseteq Nat
  /\ TableSizes # {}

HalfRange == TickModulus \div 2

(* True distances from now to a deadline; negative when it has passed. *)
Distances == 1 - HalfRange .. HalfRange - 1

VARIABLES
  now,        \* caller: the wrapping tick counter
  polls,      \* caller: the candidate table
  state,      \* PollPlannerState
  cursor,     \* PollScanCursor of the current pass
  selection,  \* caller: what the pass was last offered
  dueIn,      \* history: true distance to each deadline
  offered,    \* history: candidates offered in this pass, in order
  unseen,     \* history: due ever since the pass began, not offered yet
  passed,     \* history: passed[k][j], polls of j while k was left waiting
  burst       \* history: writes since the last poll, to one past the bound

vars == <<now, polls, state, cursor, selection, dueIn, offered, unseen,
          passed, burst>>

Indices(table) == 0..Len(table) - 1

Candidate(enabled, distance) ==
  [enabled |-> enabled, dueAt |-> (now + distance) % TickModulus]

Scanning == cursor.active \/ selection # NoSelection

(* What the caller knows to be due, whatever the counter says. *)
TrulyDue(table, distances) ==
  {k \in Indices(table) : table[k + 1].enabled /\ distances[k] <= 0}

Due == TrulyDue(polls, dueIn)

NobodyPassed(table) ==
  [k \in Indices(table) |-> [j \in Indices(table) |-> 0]]

(* The candidates that do not wait any longer forget who passed them. *)
Waiting(still) ==
  [k \in DOMAIN passed |->
     IF k \in still THEN passed[k] ELSE [j \in DOMAIN passed[k] |-> 0]]

-----------------------------------------------------------------------------
Init ==
  \E size \in TableSizes :
    /\ now = 0
    /\ dueIn = [k \in 0..size - 1 |-> 0]
    /\ polls = [i \in 1..size |-> [enabled |-> TRUE, dueAt |-> 0]]
    /\ state = InitialPollState
    /\ cursor = NoCursor
    /\ selection = NoSelection
    /\ offered = <<>>
    /\ unseen = {}
    /\ passed = NobodyPassed(polls)
    /\ burst = 0

BeginPass ==
  /\ ~Scanning
  /\ cursor' = BeginPollScan(polls, state)
  /\ offered' = <<>>
  /\ unseen' = Due
  /\ UNCHANGED <<now, polls, state, selection, dueIn, passed, burst>>

(* Moving on from an offered candidate declines it. *)
Offer(index) ==
  /\ offered' = Append(offered, index)
  /\ unseen' = unseen \ {index}

Decline ==
  passed' = IF selection = NoSelection THEN passed
            ELSE Waiting(Due \ {selection.pollIndex})

InspectDue ==
  /\ Scanning
  /\ cursor' = NextDueCursor(now, polls, cursor)
  /\ selection' = NextDueSelection(now, polls, cursor)
  /\ IF selection' # NoSelection THEN Offer(selection'.pollIndex)
     ELSE /\ UNCHANGED offered
          /\ unseen' = IF cursor' = NoCursor THEN {} ELSE unseen
  /\ Decline
  /\ UNCHANGED <<now, polls, state, dueIn, burst>>

(* One nextIndex() and the handler's own look at that candidate.           *)
InspectIndex ==
  /\ cursor.active
  /\ cursor.candidateCount = Len(polls)
  /\ LET index == IndexAhead(cursor, 0)
     IN  IF IsDue(now, polls[index + 1])
           THEN /\ selection' = PollSelectionOf(polls, index)
                /\ Offer(index)
           ELSE /\ selection' = NoSelection
                /\ UNCHANGED <<offered, unseen>>
  /\ cursor' = AfterCalls(cursor, 1)
  /\ Decline
  /\ UNCHANGED <<now, polls, state, dueIn, burst>>

(* The queue is full: the pass ends, nothing is committed. *)
AbandonPass ==
  /\ Scanning
  /\ cursor' = NoCursor
  /\ selection' = NoSelection
  /\ unseen' = {}
  /\ UNCHANGED <<now, polls, state, dueIn, offered, passed, burst>>

(* The commit of a consumed poll, and the deadline the caller gives its    *)
(* candidate.                                                              *)
CommitConsumed(chosen, distance) ==
  LET index == chosen.pollIndex
  IN  /\ CommitAccepts(chosen, Len(polls))
      /\ state' = Commit(chosen, Len(polls), now, state)
      /\ dueIn' = [dueIn EXCEPT ![index] = distance]
      /\ polls' = [polls EXCEPT ![index + 1] = Candidate(TRUE, distance)]
      /\ passed' = [k \in DOMAIN passed |->
                      [j \in DOMAIN passed |->
                         IF k = index \/ k \notin Due THEN 0
                         ELSE IF j = index /\ passed[k][j] < 2
                           THEN passed[k][j] + 1
                         ELSE passed[k][j]]]
      /\ cursor' = NoCursor
      /\ selection' = NoSelection
      /\ unseen' = {}
      /\ burst' = 0
      /\ UNCHANGED <<now, offered>>

ConsumePoll(distance) ==
  /\ selection # NoSelection
  /\ CommitConsumed(selection, distance)

(* select() and commit() without a pass, as the facade uses them.          *)
SelectPoll(forwardReady, distance) ==
  LET chosen == Select(now, forwardReady, polls, state)
  IN  /\ ~Scanning
      /\ chosen.kind = "Poll"
      /\ CommitConsumed(chosen, distance)

SelectForward ==
  LET chosen == Select(now, TRUE, polls, state)
  IN  /\ ~Scanning
      /\ chosen.kind = "ForwardWrite"
      /\ state' = Commit(chosen, Len(polls), now, state)
      /\ burst' = IF burst > MaxConsecutiveForwards THEN burst ELSE burst + 1
      /\ UNCHANGED <<now, polls, cursor, selection, dueIn, offered, unseen,
                     passed>>

(* The environment. *)

Tick ==
  /\ \A k \in DOMAIN dueIn : dueIn[k] - 1 \in Distances
  /\ now' = (now + 1) % TickModulus
  /\ dueIn' = [k \in DOMAIN dueIn |-> dueIn[k] - 1]
  /\ UNCHANGED <<polls, state, cursor, selection, offered, unseen, passed,
                 burst>>

Disable(index) ==
  /\ polls' = [polls EXCEPT ![index + 1].enabled = FALSE]
  /\ passed' = Waiting(Due \ {index})
  /\ unseen' = unseen \ {index}
  /\ UNCHANGED <<now, state, cursor, selection, dueIn, offered, burst>>

ReplaceTable(size, distance) ==
  /\ dueIn' = [k \in 0..size - 1 |-> distance]
  /\ polls' = [i \in 1..size |-> Candidate(TRUE, distance)]
  /\ passed' = NobodyPassed(polls')
  /\ unseen' = {}
  /\ UNCHANGED <<now, state, cursor, selection, offered, burst>>

Next ==
  \/ BeginPass
  \/ InspectDue
  \/ InspectIndex
  \/ AbandonPass
  \/ \E distance \in Distances :
       \/ ConsumePoll(distance)
       \/ \E forwardReady \in BOOLEAN : SelectPoll(forwardReady, distance)
       \/ \E size \in TableSizes : ReplaceTable(size, distance)
  \/ SelectForward
  \/ Tick
  \/ \E index \in Indices(polls) : Disable(index)

Spec == Init /\ [][Next]_vars

-----------------------------------------------------------------------------
(* Properties. *)

(* Cursors stay inside the table they were begun for, and the round-robin  *)
(* index inside some table the caller had.                                 *)
TypeOK ==
  /\ now \in 0..TickModulus - 1
  /\ Len(polls) \in TableSizes
  /\ \A i \in DOMAIN polls :
       /\ polls[i].enabled \in BOOLEAN
       /\ polls[i].dueAt \in 0..TickModulus - 1
  /\ state \in PollPlannerState
  /\ \E size \in TableSizes : state.nextPollIndex \in {0} \cup 0..size - 1
  /\ cursor \in PollScanCursor
  /\ cursor.remaining <= cursor.candidateCount
  /\ cursor.candidateCount > 0 => cursor.nextIndex < cursor.candidateCount
  /\ cursor.active <=> cursor.remaining > 0
  /\ selection \in PollSelection
  /\ dueIn \in [Indices(polls) -> Distances]
  /\ unseen \subseteq Indices(polls)
  /\ passed \in [Indices(polls) -> [Indices(polls) -> 0..2]]
  /\ burst \in 0..MaxConsecutiveForwards + 1

(* pollDeadlineReached32(): through any number of wraps of the counter, a  *)
(* deadline counts as reached exactly when it is, while the two stay less  *)
(* than half the range apart.                                              *)
DeadlinesAreExact ==
  \A k \in Indices(polls) :
    DeadlineReached(now, polls[k + 1].dueAt) <=> dueIn[k] <= 0

(* beginPollScan() to Complete: no candidate is offered twice in a pass,   *)
(* wherever the scan began and wherever it wrapped, and a pass that runs   *)
(* to its end has offered every candidate that was due all along, also     *)
(* after the table shrank below the round-robin index.                     *)
PassOffersEachOnce ==
  /\ \A i, j \in DOMAIN offered : offered[i] = offered[j] => i = j
  /\ cursor.candidateCount > 0 /\ ~cursor.active => unseen = {}

(* commit(), the new round-robin index: while a candidate is due and not   *)
(* declined, no other one is polled twice, however scans and selections    *)
(* mix and whatever deadlines the polled ones are given.                   *)
NobodyPassedTwice ==
  \A k, j \in Indices(polls) : passed[k][j] <= 1

(* PollPlannerOptions: no write goes ahead of a due poll once              *)
(* maxConsecutiveForwards were admitted since the last poll, whether the   *)
(* poll was due all the while or comes due only after many more writes     *)
(* than the counter can count.                                             *)
BurstIsBounded ==
  [][SelectForward /\ Due # {} => burst < MaxConsecutiveForwards]_vars
=============================================================================
