--------------------------- MODULE PollRoundsProofs ---------------------------
(***************************************************************************)
(* The promises of the poll planner over any number of passes: for every   *)
(* width of the tick counter and of the burst counter, every burst limit   *)
(* and every sequence of candidate tables.                                 *)
(***************************************************************************)
EXTENDS PollRounds, FiniteSetTheorems, SequenceTheorems, TLAPS

-----------------------------------------------------------------------------
(* Arithmetic round a table and round the tick counter. *)

LEMMA WrapsOnce ==
  ASSUME NEW n \in Nat \ {0}, NEW a \in 0 .. 2 * n - 1
  PROVE  a % n = IF a < n THEN a ELSE a - n
<1>1. CASE a < n
  BY <1>1
<1>2. CASE ~(a < n)
  BY <1>2
<1> QED BY <1>1, <1>2

(* Going round once from any place meets every place once. *)
LEMMA RoundOnce ==
  ASSUME NEW n \in Nat \ {0}, NEW a \in 0 .. n - 1,
         NEW s \in 0 .. n - 1, NEW t \in 0 .. n - 1,
         (IF a + s < n THEN a + s ELSE a + s - n)
           = (IF a + t < n THEN a + t ELSE a + t - n)
  PROVE  s = t
OBVIOUS

LEMMA RoundWraps ==
  ASSUME NEW n \in Nat \ {0}, NEW a \in 0 .. n - 1, NEW s \in 0 .. n
  PROVE  (a + s) % n = IF a + s < n THEN a + s ELSE a + s - n
<1>1. CASE a + s < n
  BY <1>1
<1>2. CASE ~(a + s < n)
  BY <1>2
<1> QED BY <1>1, <1>2

(* The place s + c ahead is the place s ahead of the one c ahead. *)
LEMMA RoundAgain ==
  ASSUME NEW n \in Nat \ {0}, NEW a \in 0 .. n - 1, NEW c \in 0 .. n,
         NEW s \in 0 .. n - c - 1
  PROVE  (((a + c) % n) + s) % n = (a + (s + c)) % n
<1>1. (a + c) % n = IF a + c < n THEN a + c ELSE a + c - n
  BY RoundWraps
<1>2. s + c \in 0 .. n
  OBVIOUS
<1>3. (a + (s + c)) % n = IF a + (s + c) < n THEN a + (s + c) ELSE a + (s + c) - n
  BY <1>2, RoundWraps
<1>4. CASE a + c < n
  BY <1>1, <1>4
<1>5. CASE ~(a + c < n)
  <2>1. a + c - n \in 0 .. n - 1 /\ a + c - n + s \in 0 .. n - 1
    BY <1>5
  <2>2. (a + c - n + s) % n = a + c - n + s
    BY <2>1
  <2> QED BY <1>1, <1>3, <1>5, <2>2
<1> QED BY <1>4, <1>5

(* A remainder is the only one. *)
LEMMA OneRemainder ==
  ASSUME NEW n \in Nat \ {0}, NEW k \in Int, NEW r \in 0 .. n - 1
  PROVE  (n * k + r) % n = r
OBVIOUS

(* A non-empty set of natural numbers has a least element.  The initial    *)
(* segments up to its members are finite sets; a minimal one under strict  *)
(* inclusion ends in the least member.                                     *)
LEMMA LeastNatural ==
  ASSUME NEW S \in SUBSET Nat, S # {}
  PROVE  \E n \in S : \A m \in S : n <= m
<1> DEFINE Segments == {0..n : n \in S}
<1>1. Segments \subseteq FiniteSubsetsOf(Nat)
  <2>1. ASSUME NEW n \in S PROVE 0..n \in FiniteSubsetsOf(Nat)
    BY FS_Interval DEF FiniteSubsetsOf
  <2> QED BY <2>1
<1>2. Segments # {}
  OBVIOUS
<1>3. PICK I \in Segments :
        \A J \in Segments : <<J, I>> \notin StrictSubsetOrdering(Nat)
  BY <1>1, <1>2, WFMin, FS_StrictSubsetOrderingWellFounded
<1>4. PICK n \in S : I = 0..n
  OBVIOUS
<1>5. ASSUME NEW m \in S, m < n PROVE FALSE
  <2>1. 0..m \in Segments /\ 0..m \subseteq 0..n /\ n \notin 0..m /\ n \in 0..n
    BY <1>5
  <2>2. <<0..m, I>> \in StrictSubsetOrdering(Nat)
    BY <1>4, <2>1 DEF StrictSubsetOrdering
  <2> QED BY <1>3, <2>1, <2>2
<1> QED BY <1>5

-----------------------------------------------------------------------------
(* The inductive invariant. *)

Count == Len(polls)
Start == ScanStart(polls, state)
Ticks == 0 .. TickModulus - 1

RoundTypes ==
  /\ now \in Ticks
  /\ polls \in Seq([enabled : BOOLEAN, dueAt : Ticks])
  /\ dueIn \in [Indices(polls) -> Distances \cup {0}]
  /\ state \in PollPlannerState
  /\ cursor \in PollScanCursor
  /\ cursor.remaining <= cursor.candidateCount
  /\ cursor.candidateCount > 0 => cursor.nextIndex < cursor.candidateCount
  /\ cursor.active <=> cursor.remaining > 0
  /\ selection # NoSelection =>
       selection \in PollSelection /\ selection.kind = "Poll"
  /\ offered \in Seq(Nat)
  /\ passed \in [Indices(polls) -> [Indices(polls) -> 0 .. 2]]
  /\ burst \in Nat

(* Each stored deadline is the true distance from now, wrapped once. *)
DeadlinesInv ==
  \A k \in Indices(polls) :
    \/ polls[k + 1].dueAt = now + dueIn[k]
    \/ polls[k + 1].dueAt = now + dueIn[k] + TickModulus
    \/ polls[k + 1].dueAt = now + dueIn[k] - TickModulus

(* The burst counter tells how many writes there were since the last poll, *)
(* or that there were too many.                                            *)
BurstInv ==
  /\ burst <= MaxConsecutiveForwards + 1
  /\ \/ burst <= state.forwardsSincePoll
     \/ MaxConsecutiveForwards <= state.forwardsSincePoll

(* The indices the scan has still to yield. *)
Ahead == {IndexAhead(cursor, s) : s \in 0 .. cursor.remaining - 1}

(* What was offered lies behind the scan, what was due all along ahead.    *)
ScanInv ==
  /\ unseen \subseteq Due
  /\ unseen # {} => cursor.candidateCount = Count
  /\ unseen \subseteq Ahead
  /\ \A i \in DOMAIN offered : offered[i] \notin Ahead
  /\ \A i, j \in DOMAIN offered : offered[i] = offered[j] => i = j

(* How far round the table a candidate is from the round-robin index. *)
TurnFrom(start, count, k) ==
  IF k >= start THEN k - start ELSE k - start + count

Turn(k) == TurnFrom(Start, Count, k)

(* The scan yields the candidates in the order of their turns, the one on  *)
(* offer before those ahead.                                               *)
Aligned ==
  /\ \A s \in 0 .. cursor.remaining - 1 :
       Turn(IndexAhead(cursor, s)) = Count - cursor.remaining + s
  /\ selection # NoSelection =>
       /\ selection.pollIndex < Count
       /\ Turn(selection.pollIndex) < Count - cursor.remaining

(* A candidate j that was polled while k was kept waiting is now later in  *)
(* turn than k, and the pass under way, if any, has not gone past k.       *)
TurnInv ==
  \A k, j \in Indices(polls) :
    passed[k][j] # 0 =>
      /\ passed[k][j] = 1
      /\ k \in Due
      /\ Turn(k) < Turn(j)
      /\ Scanning =>
           /\ cursor.candidateCount = Count
           /\ \/ k \in Ahead
              \/ selection # NoSelection /\ k = selection.pollIndex
           /\ Aligned

RoundInv == RoundTypes /\ DeadlinesInv /\ BurstInv /\ ScanInv /\ TurnInv

-----------------------------------------------------------------------------
(* Deadlines. *)

LEMMA Ranges ==
  /\ TickModulus \in Nat \ {0}
  /\ HalfRange \in Nat /\ 2 * HalfRange <= TickModulus
  /\ \A d \in Distances \cup {0} :
       d \in Int /\ 2 * d < TickModulus /\ -TickModulus < 2 * d
<1>1. TickModulus \in Nat \ {0} /\ HalfRange \in Nat /\ 2 * HalfRange <= TickModulus
  BY PollPlannerAssumption DEF HalfRange
<1> QED BY <1>1 DEF Distances

(* pollDeadlineReached32() takes the distance from now modulo the counter: *)
(* less than half of it exactly when the deadline is not ahead.            *)
LEMMA HalfRangeExact ==
  ASSUME NEW t \in Ticks, NEW d \in Distances \cup {0}, NEW due \in Ticks,
         \/ due = t + d
         \/ due = t + d + TickModulus
         \/ due = t + d - TickModulus
  PROVE  DeadlineReached(t, due) <=> d <= 0
<1>1. /\ TickModulus \in Nat \ {0} /\ d \in Int /\ t \in Int /\ due \in Int
      /\ 2 * d < TickModulus /\ -TickModulus < 2 * d
  BY Ranges DEF Ticks
<1> DEFINE r == IF d <= 0 THEN -d ELSE TickModulus - d
<1>2. r \in 0 .. TickModulus - 1
  BY <1>1
<1>3. \E k \in Int : t - due = TickModulus * k + r
  <2>1. \/ t - due = -d \/ t - due = -d - TickModulus \/ t - due = -d + TickModulus
    BY <1>1
  <2>2. \/ t - due = TickModulus * 0 + r
        \/ t - due = TickModulus * 1 + r
        \/ t - due = TickModulus * (-1) + r
        \/ t - due = TickModulus * (-2) + r
    BY <1>1, <2>1
  <2> QED BY <2>2
<1>4. (t - due) % TickModulus = r
  <2> HIDE DEF r
  <2> QED BY <1>1, <1>2, <1>3, OneRemainder
<1>5. 2 * r < TickModulus <=> d <= 0
  BY <1>1
<1> QED BY <1>4, <1>5 DEF DeadlineReached

(* A candidate of the table. *)
LEMMA CandidateShape ==
  ASSUME RoundTypes
  PROVE  /\ Count \in Nat /\ Len(polls) = Count
         /\ Indices(polls) = 0 .. Count - 1
         /\ \A k \in Indices(polls) :
              /\ polls[k + 1] \in [enabled : BOOLEAN, dueAt : Ticks]
              /\ dueIn[k] \in Distances \cup {0} /\ dueIn[k] \in Int
         /\ Start \in Nat /\ (Count > 0 => Start < Count)
<1>1. polls \in Seq([enabled : BOOLEAN, dueAt : Ticks])
  BY DEF RoundTypes
<1>2. Count \in Nat /\ Len(polls) = Count /\ Indices(polls) = 0 .. Count - 1
  BY <1>1 DEF Count, Indices
<1>3. ASSUME NEW k \in Indices(polls)
      PROVE  /\ polls[k + 1] \in [enabled : BOOLEAN, dueAt : Ticks]
             /\ dueIn[k] \in Distances \cup {0} /\ dueIn[k] \in Int
  <2>1. k + 1 \in 1 .. Len(polls)
    BY <1>2
  <2>2. dueIn[k] \in Distances \cup {0}
    BY DEF RoundTypes
  <2>3. dueIn[k] \in Int
    BY <2>2, Ranges
  <2>4. polls[k + 1] \in [enabled : BOOLEAN, dueAt : Ticks]
    <3> DEFINE C == [enabled : BOOLEAN, dueAt : Ticks]
    <3>1. polls \in Seq(C)
      BY <1>1
    <3> HIDE DEF C
    <3>2. polls[k + 1] \in C
      BY <2>1, <3>1
    <3> QED BY <3>2 DEF C
  <2> QED BY <2>2, <2>3, <2>4
<1>4. Start \in Nat /\ (Count > 0 => Start < Count)
  <2>1. state.nextPollIndex \in Nat
    BY DEF RoundTypes, PollPlannerState
  <2> QED BY <1>2, <2>1 DEF Start, ScanStart
<1> QED BY <1>2, <1>3, <1>4

(* What the counter says to be due is. *)
LEMMA DueIsKnown ==
  ASSUME RoundTypes, DeadlinesInv, NEW k \in Indices(polls)
  PROVE  /\ DeadlineReached(now, polls[k + 1].dueAt) <=> dueIn[k] <= 0
         /\ IsDue(now, polls[k + 1]) <=> k \in Due
<1>1. /\ polls[k + 1].dueAt \in Ticks
      /\ now \in Ticks /\ dueIn[k] \in Distances \cup {0}
  BY CandidateShape DEF RoundTypes
<1>2. \/ polls[k + 1].dueAt = now + dueIn[k]
      \/ polls[k + 1].dueAt = now + dueIn[k] + TickModulus
      \/ polls[k + 1].dueAt = now + dueIn[k] - TickModulus
  BY DEF DeadlinesInv
<1>3. DeadlineReached(now, polls[k + 1].dueAt) <=> dueIn[k] <= 0
  BY <1>1, <1>2, HalfRangeExact
<1> QED BY <1>3 DEF IsDue, Due, TrulyDue

-----------------------------------------------------------------------------
(* The scan. *)

(* The index that lies s ahead, the table wrapped at most once. *)
LEMMA AheadWraps ==
  ASSUME RoundTypes, cursor.candidateCount > 0,
         NEW s \in 0 .. cursor.candidateCount
  PROVE  /\ cursor.candidateCount \in Nat \ {0} /\ cursor.nextIndex \in Nat
         /\ cursor.nextIndex < cursor.candidateCount
         /\ IndexAhead(cursor, s) \in 0 .. cursor.candidateCount - 1
         /\ IndexAhead(cursor, s)
              = IF cursor.nextIndex + s < cursor.candidateCount
                  THEN cursor.nextIndex + s
                  ELSE cursor.nextIndex + s - cursor.candidateCount
<1> DEFINE n == cursor.candidateCount
           a == cursor.nextIndex + s
<1>1. n \in Nat \ {0} /\ cursor.nextIndex \in Nat /\ cursor.nextIndex < n
  BY DEF RoundTypes, PollScanCursor
<1>2. a \in 0 .. 2 * n - 1 /\ s \in Nat
  BY <1>1
<1>3. IndexAhead(cursor, s) = a % n
  BY DEF IndexAhead
<1> HIDE DEF n, a
<1>4. a % n = IF a < n THEN a ELSE a - n
  BY <1>1, <1>2, WrapsOnce
<1>5. a % n \in 0 .. n - 1
  BY <1>1, <1>2, <1>4
<1> QED BY <1>1, <1>3, <1>4, <1>5 DEF n, a

(* No index is yielded twice. *)
LEMMA AheadOnce ==
  ASSUME RoundTypes, NEW s \in 0 .. cursor.remaining - 1,
         NEW t \in 0 .. cursor.remaining - 1,
         IndexAhead(cursor, s) = IndexAhead(cursor, t)
  PROVE  s = t
<1>1. /\ cursor.remaining \in Nat /\ cursor.candidateCount \in Nat
      /\ cursor.remaining <= cursor.candidateCount
  BY DEF RoundTypes, PollScanCursor
<1>2. /\ cursor.candidateCount > 0
      /\ s \in 0 .. cursor.candidateCount /\ t \in 0 .. cursor.candidateCount
      /\ s < cursor.candidateCount /\ t < cursor.candidateCount
  BY <1>1
<1> DEFINE n == cursor.candidateCount
           a == cursor.nextIndex
<1>3. /\ n \in Nat \ {0} /\ a \in Nat /\ a < n
      /\ IndexAhead(cursor, s) = IF a + s < n THEN a + s ELSE a + s - n
      /\ IndexAhead(cursor, t) = IF a + t < n THEN a + t ELSE a + t - n
  BY <1>2, AheadWraps
<1>4. s \in Nat /\ t \in Nat /\ s < n /\ t < n
  BY <1>2
<1>5. /\ a \in 0 .. n - 1 /\ s \in 0 .. n - 1 /\ t \in 0 .. n - 1
      /\ (IF a + s < n THEN a + s ELSE a + s - n)
           = (IF a + t < n THEN a + t ELSE a + t - n)
  <2>1. a \in 0 .. n - 1 /\ s \in 0 .. n - 1 /\ t \in 0 .. n - 1
    BY <1>3, <1>4
  <2> DEFINE x == IF a + s < n THEN a + s ELSE a + s - n
             y == IF a + t < n THEN a + t ELSE a + t - n
  <2>2. IndexAhead(cursor, s) = x /\ IndexAhead(cursor, t) = y
    BY <1>3
  <2> HIDE DEF x, y
  <2>3. x = y
    BY <2>2
  <2> QED BY <2>1, <2>3 DEF x, y
<1> HIDE DEF n, a
<1> QED BY <1>3, <1>5, RoundOnce

(* The cursor c indices further. *)
Moves(c) ==
  /\ cursor' \in PollScanCursor
  /\ cursor'.candidateCount = cursor.candidateCount
  /\ cursor'.remaining = cursor.remaining - c
  /\ cursor.candidateCount > 0 => cursor'.nextIndex < cursor.candidateCount
  /\ cursor'.active <=> cursor'.remaining > 0
  /\ \A s \in 0 .. cursor.remaining - c - 1 :
       IndexAhead(cursor', s) = IndexAhead(cursor, s + c)

LEMMA AfterCallsMoves ==
  ASSUME RoundTypes, cursor.active, NEW c \in 0 .. cursor.remaining,
         cursor' = AfterCalls(cursor, c)
  PROVE  Moves(c)
<1> DEFINE n == cursor.candidateCount
           a == cursor.nextIndex
           r == cursor.remaining
<1>1. /\ r \in Nat \ {0} /\ n \in Nat \ {0} /\ r <= n
      /\ a \in Nat /\ a < n /\ c \in Nat /\ c <= r
      /\ cursor \in PollScanCursor
  BY DEF RoundTypes, PollScanCursor
<1>2. (a + c) % n = IF a + c < n THEN a + c ELSE a + c - n
  <2>1. a \in 0 .. n - 1 /\ c \in 0 .. n
    BY <1>1
  <2> HIDE DEF a, n
  <2> QED BY <1>1, <2>1, RoundWraps
<1>3. /\ cursor'.nextIndex = (a + c) % n
      /\ cursor'.candidateCount = n
      /\ cursor'.remaining = r - c
      /\ cursor'.active = (r > c)
      /\ cursor' \in [nextIndex : {(a + c) % n}, remaining : {r - c},
                      candidateCount : {n}, active : {r > c}]
  BY <1>1 DEF AfterCalls, PollScanCursor
<1>4. (a + c) % n \in Nat /\ (a + c) % n < n
  <2> HIDE DEF a, n
  <2> QED BY <1>1, <1>2
<1>5. r - c \in Nat /\ (r > c <=> r - c > 0) /\ (r > c) \in BOOLEAN
  BY <1>1
<1>6. cursor' \in PollScanCursor
  BY <1>1, <1>3, <1>4, <1>5 DEF PollScanCursor
<1>7. ASSUME NEW s \in 0 .. r - c - 1
      PROVE  IndexAhead(cursor', s) = IndexAhead(cursor, s + c)
  <2>1. /\ IndexAhead(cursor', s) = (((a + c) % n) + s) % n
        /\ IndexAhead(cursor, s + c) = (a + (s + c)) % n
    BY <1>3 DEF IndexAhead
  <2>2. a \in 0 .. n - 1 /\ c \in 0 .. n /\ s \in 0 .. n - c - 1
    BY <1>1
  <2> HIDE DEF a, n, r
  <2>3. (((a + c) % n) + s) % n = (a + (s + c)) % n
    BY <1>1, <2>2, RoundAgain
  <2> QED BY <2>1, <2>3
<1> QED BY <1>1, <1>3, <1>4, <1>5, <1>6, <1>7 DEF Moves

(* A step of the pass skips candidates that are not due, or offers the     *)
(* first one that is, or finds the table changed.                          *)
Skips(c) ==
  /\ Moves(c)
  /\ \A s \in 0 .. c - 1 : IndexAhead(cursor, s) \notin Due
  /\ selection' = NoSelection
  /\ offered' = offered
  /\ unseen' = unseen \/ unseen' = {}

Offers(c) ==
  /\ Moves(c)
  /\ \A s \in 0 .. c - 2 : IndexAhead(cursor, s) \notin Due
  /\ IndexAhead(cursor, c - 1) \in Due
  /\ selection' = PollSelectionOf(polls, IndexAhead(cursor, c - 1))
  /\ offered' = Append(offered, IndexAhead(cursor, c - 1))
  /\ unseen' = unseen \ {IndexAhead(cursor, c - 1)}

Loses ==
  /\ cursor' = NoCursor
  /\ selection' = NoSelection
  /\ offered' = offered
  /\ unseen' = {}

Inspects ==
  \/ Loses
  \/ /\ cursor.candidateCount = Count
     /\ \/ \E c \in 0 .. cursor.remaining : Skips(c)
        \/ \E c \in 1 .. cursor.remaining : Offers(c)

(* What the scan skips or offers is a candidate, due or not. *)
LEMMA AheadCandidate ==
  ASSUME RoundTypes, DeadlinesInv, cursor.candidateCount = Count,
         NEW s \in 0 .. cursor.remaining - 1
  PROVE  /\ IndexAhead(cursor, s) \in Indices(polls)
         /\ IsDue(now, polls[IndexAhead(cursor, s) + 1])
              <=> IndexAhead(cursor, s) \in Due
<1>1. /\ cursor.remaining \in Nat /\ cursor.candidateCount \in Nat
      /\ cursor.remaining <= cursor.candidateCount
  BY DEF RoundTypes, PollScanCursor
<1>2. cursor.candidateCount > 0 /\ s \in 0 .. cursor.candidateCount
  BY <1>1
<1>3. IndexAhead(cursor, s) \in Indices(polls)
  BY <1>2, AheadWraps, CandidateShape
<1> QED BY <1>3, DueIsKnown

LEMMA DueAheadLeast ==
  ASSUME RoundTypes, DueAhead(now, polls, cursor) # {}
  PROVE  /\ FirstAhead(now, polls, cursor) \in DueAhead(now, polls, cursor)
         /\ \A other \in DueAhead(now, polls, cursor) :
              FirstAhead(now, polls, cursor) <= other
<1> DEFINE D == DueAhead(now, polls, cursor)
<1>1. D \subseteq Nat
  BY DEF DueAhead
<1> HIDE DEF D
<1>2. \E n \in D : \A m \in D : n <= m
  BY <1>1, LeastNatural DEF D
<1> QED BY <1>2 DEF FirstAhead, D

LEMMA InspectDueCases ==
  ASSUME RoundTypes, DeadlinesInv, InspectDue
  PROVE  Inspects
<1> DEFINE status == NextDueStatus(now, polls, cursor)
           first == FirstAhead(now, polls, cursor)
<1>1. /\ cursor' = NextDueCursor(now, polls, cursor)
      /\ selection' = NextDueSelection(now, polls, cursor)
      /\ IF selection' # NoSelection THEN Offer(selection'.pollIndex)
         ELSE /\ UNCHANGED offered
              /\ unseen' = IF cursor' = NoCursor THEN {} ELSE unseen
  BY DEF InspectDue
<1>2. /\ cursor.remaining \in Nat /\ cursor.candidateCount \in Nat
      /\ cursor.remaining <= cursor.candidateCount
      /\ (cursor.active <=> cursor.remaining > 0)
      /\ cursor \in PollScanCursor
  BY DEF RoundTypes, PollScanCursor
<1>3. CASE cursor.candidateCount # Count
  <2>1. status = "CandidateCountChanged"
    BY <1>3 DEF NextDueStatus, Count
  <2>2. cursor' = NoCursor /\ selection' = NoSelection
    BY <1>1, <2>1 DEF NextDueCursor, NextDueSelection
  <2> QED BY <1>1, <2>2 DEF Inspects, Loses
<1>4. CASE cursor.candidateCount = Count /\ DueAhead(now, polls, cursor) = {}
  <2>1. status = "Complete"
    BY <1>4 DEF NextDueStatus, Count
  <2>2. /\ selection' = NoSelection /\ offered' = offered
        /\ unseen' = unseen \/ unseen' = {}
    BY <1>1, <2>1 DEF NextDueSelection
  <2>3. ASSUME NEW s \in 0 .. cursor.remaining - 1
        PROVE  IndexAhead(cursor, s) \notin Due
    <3>1. cursor.active /\ s \notin DueAhead(now, polls, cursor)
      BY <1>2, <1>4
    <3>2. ~IsDue(now, polls[IndexAhead(cursor, s) + 1])
      BY <3>1 DEF DueAhead
    <3> QED BY <1>4, <3>2, AheadCandidate
  <2>4. Moves(cursor.remaining)
    <3>1. CASE cursor.active
      <4>1. cursor' = AfterCalls(cursor, cursor.remaining)
        BY <1>1, <2>1, <3>1 DEF NextDueCursor
      <4>2. cursor.remaining \in 0 .. cursor.remaining
        BY <1>2
      <4> QED BY <3>1, <4>1, <4>2, AfterCallsMoves
    <3>2. CASE ~cursor.active
      <4>1. cursor' = cursor /\ cursor.remaining = 0
        BY <1>1, <1>2, <2>1, <3>2 DEF NextDueCursor
      <4>2. /\ cursor'.remaining = cursor.remaining - cursor.remaining
            /\ 0 .. cursor.remaining - cursor.remaining - 1 = {}
        BY <4>1
      <4>3. cursor.candidateCount > 0 => cursor.nextIndex < cursor.candidateCount
        BY DEF RoundTypes
      <4> QED BY <1>2, <4>1, <4>2, <4>3 DEF Moves
    <3> QED BY <3>1, <3>2
  <2>5. Skips(cursor.remaining) /\ cursor.remaining \in 0 .. cursor.remaining
    BY <1>2, <2>2, <2>3, <2>4 DEF Skips
  <2> QED BY <1>4, <2>5 DEF Inspects
<1>5. CASE cursor.candidateCount = Count /\ DueAhead(now, polls, cursor) # {}
  <2>1. status = "Due"
    BY <1>5 DEF NextDueStatus, Count
  <2>2. /\ cursor' = AfterCalls(cursor, first + 1)
        /\ selection' = PollSelectionOf(polls, IndexAhead(cursor, first))
    BY <1>1, <2>1 DEF NextDueCursor, NextDueSelection
  <2>3. /\ first \in DueAhead(now, polls, cursor)
        /\ \A other \in DueAhead(now, polls, cursor) : first <= other
    BY <1>5, DueAheadLeast
  <2> HIDE DEF first
  <2>4. /\ first \in 0 .. cursor.remaining - 1 /\ cursor.active
        /\ IsDue(now, polls[IndexAhead(cursor, first) + 1])
    BY <2>3 DEF DueAhead
  <2>5. /\ first + 1 \in 1 .. cursor.remaining
        /\ first + 1 \in 0 .. cursor.remaining
        /\ first + 1 - 1 = first /\ first + 1 - 2 = first - 1
    BY <1>2, <2>4
  <2>6. Moves(first + 1)
    BY <2>2, <2>4, <2>5, AfterCallsMoves
  <2>7. ASSUME NEW s \in 0 .. first - 1
        PROVE  IndexAhead(cursor, s) \notin Due
    <3>1. s \in 0 .. cursor.remaining - 1 /\ ~(first <= s)
      BY <1>2, <2>4
    <3>2. s \notin DueAhead(now, polls, cursor)
      BY <2>3, <3>1
    <3>3. ~IsDue(now, polls[IndexAhead(cursor, s) + 1])
      BY <2>4, <3>1, <3>2 DEF DueAhead
    <3> QED BY <1>5, <3>1, <3>3, AheadCandidate
  <2>8. IndexAhead(cursor, first) \in Due
    BY <1>5, <2>4, AheadCandidate
  <2>9. selection' # NoSelection
        /\ selection'.pollIndex = IndexAhead(cursor, first)
    BY <2>2 DEF PollSelectionOf, NoSelection
  <2>10. /\ offered' = Append(offered, IndexAhead(cursor, first))
         /\ unseen' = unseen \ {IndexAhead(cursor, first)}
    BY <1>1, <2>9 DEF Offer
  <2>11. \E c \in 1 .. cursor.remaining : Offers(c)
    <3> DEFINE c == first + 1
    <3>1. /\ c \in 1 .. cursor.remaining /\ Moves(c)
          /\ c - 1 = first /\ c - 2 = first - 1
      <4>1. c \in 1 .. cursor.remaining /\ c - 1 = first /\ c - 2 = first - 1
        BY <1>2, <2>4, <2>5
      <4>2. Moves(c)
        BY <2>6
      <4> QED BY <4>1, <4>2
    <3> HIDE DEF c
    <3>2. IndexAhead(cursor, c - 1) = IndexAhead(cursor, first)
      BY <3>1
    <3>3. \A s \in 0 .. c - 2 : IndexAhead(cursor, s) \notin Due
      BY <2>7, <3>1
    <3>4. /\ IndexAhead(cursor, c - 1) \in Due
          /\ selection' = PollSelectionOf(polls, IndexAhead(cursor, c - 1))
          /\ offered' = Append(offered, IndexAhead(cursor, c - 1))
          /\ unseen' = unseen \ {IndexAhead(cursor, c - 1)}
      BY <2>2, <2>8, <2>10, <3>2
    <3>5. Offers(c)
      BY <3>1, <3>3, <3>4 DEF Offers
    <3> QED BY <3>1, <3>5
  <2> QED BY <1>5, <2>11 DEF Inspects
<1> QED BY <1>3, <1>4, <1>5

LEMMA InspectIndexCases ==
  ASSUME RoundTypes, DeadlinesInv, InspectIndex
  PROVE  Inspects
<1> DEFINE index == IndexAhead(cursor, 0)
<1>1. /\ cursor.active /\ cursor.candidateCount = Count
      /\ cursor' = AfterCalls(cursor, 1)
      /\ IF IsDue(now, polls[index + 1])
           THEN /\ selection' = PollSelectionOf(polls, index)
                /\ Offer(index)
           ELSE /\ selection' = NoSelection
                /\ UNCHANGED <<offered, unseen>>
  BY DEF InspectIndex, Count
<1>2. /\ 0 \in 0 .. cursor.remaining - 1
      /\ 1 \in 0 .. cursor.remaining /\ 1 \in 1 .. cursor.remaining
  BY <1>1 DEF RoundTypes, PollScanCursor
<1>3. Moves(1)
  BY <1>1, <1>2, AfterCallsMoves
<1>4. IsDue(now, polls[index + 1]) <=> index \in Due
  BY <1>1, <1>2, AheadCandidate
<1>5. CASE index \in Due
  <2>1. 1 - 1 = 0 /\ 0 .. 1 - 2 = {}
    OBVIOUS
  <2>2. Offers(1)
    BY <1>1, <1>3, <1>4, <1>5, <2>1 DEF Offers, Offer
  <2> QED BY <1>1, <1>2, <2>2 DEF Inspects
<1>6. CASE index \notin Due
  <2>1. \A s \in 0 .. 1 - 1 : s = 0
    OBVIOUS
  <2>2. Skips(1)
    BY <1>1, <1>3, <1>4, <1>6, <2>1 DEF Skips
  <2> QED BY <1>1, <1>2, <2>2 DEF Inspects
<1> QED BY <1>5, <1>6

-----------------------------------------------------------------------------
(* Turns: where a candidate lies in the order a selection looks at them.   *)

LEMMA TurnOrder ==
  ASSUME RoundTypes
  PROVE  /\ \A o \in 0 .. Count - 1 :
              /\ ScanIndex(polls, state, o) \in Indices(polls)
              /\ Turn(ScanIndex(polls, state, o)) = o
         /\ \A k \in Indices(polls) :
              /\ Turn(k) \in 0 .. Count - 1
              /\ ScanIndex(polls, state, Turn(k)) = k
<1>1. /\ Count \in Nat /\ Len(polls) = Count /\ Indices(polls) = 0 .. Count - 1
      /\ Start \in Nat /\ (Count > 0 => Start < Count)
  BY CandidateShape
<1>2. ASSUME NEW o \in 0 .. Count - 1
      PROVE  /\ Count \in Nat \ {0}
             /\ ScanIndex(polls, state, o)
                  = IF Start + o < Count THEN Start + o ELSE Start + o - Count
  <2>1. Count \in Nat \ {0} /\ Start \in 0 .. Count - 1 /\ o \in 0 .. Count
    BY <1>1
  <2>2. ScanIndex(polls, state, o) = (Start + o) % Count
    BY <1>1 DEF ScanIndex, Start
  <2>3. (Start + o) % Count
          = IF Start + o < Count THEN Start + o ELSE Start + o - Count
    BY <2>1, RoundWraps
  <2> QED BY <2>1, <2>2, <2>3
<1>3. ASSUME NEW o \in 0 .. Count - 1
      PROVE  /\ ScanIndex(polls, state, o) \in Indices(polls)
             /\ Turn(ScanIndex(polls, state, o)) = o
  <2>1. PICK i : i = ScanIndex(polls, state, o)
    OBVIOUS
  <2>2. i = IF Start + o < Count THEN Start + o ELSE Start + o - Count
    BY <1>2, <2>1
  <2>3. i \in 0 .. Count - 1
    BY <1>1, <1>2, <2>2
  <2>4. (IF i >= Start THEN i - Start ELSE i - Start + Count) = o
    BY <1>1, <1>2, <2>2
  <2> QED BY <1>1, <2>1, <2>3, <2>4 DEF Turn, TurnFrom
<1>4. ASSUME NEW k \in Indices(polls)
      PROVE  /\ Turn(k) \in 0 .. Count - 1
             /\ ScanIndex(polls, state, Turn(k)) = k
  <2>1. PICK t : t = Turn(k)
    OBVIOUS
  <2>2. t = IF k >= Start THEN k - Start ELSE k - Start + Count
    BY <2>1 DEF Turn, TurnFrom
  <2>3. k \in 0 .. Count - 1 /\ Start < Count
    BY <1>1
  <2>4. t \in 0 .. Count - 1
    BY <1>1, <2>2, <2>3
  <2>5. ScanIndex(polls, state, t)
          = IF Start + t < Count THEN Start + t ELSE Start + t - Count
    BY <1>2, <2>4
  <2>6. (IF Start + t < Count THEN Start + t ELSE Start + t - Count) = k
    BY <1>1, <2>2, <2>3
  <2> QED BY <2>1, <2>4, <2>5, <2>6
<1> QED BY <1>3, <1>4

(* A due poll is found, and the one that is found has the first turn. *)
LEMMA SelectFinds ==
  ASSUME RoundTypes, DeadlinesInv
  PROVE  /\ DueOffsets(now, polls, state) # {} <=> Due # {}
         /\ Due # {} =>
              /\ FirstDue(now, polls, state) \in Due
              /\ \A k \in Due :
                   Turn(FirstDue(now, polls, state)) <= Turn(k)
<1>1. /\ Count \in Nat /\ Len(polls) = Count /\ Indices(polls) = 0 .. Count - 1
      /\ Due \subseteq Indices(polls)
  BY CandidateShape DEF Due, TrulyDue
<1>2. ASSUME NEW o \in 0 .. Count - 1
      PROVE  o \in DueOffsets(now, polls, state)
               <=> ScanIndex(polls, state, o) \in Due
  BY <1>1, TurnOrder, DueIsKnown DEF DueOffsets
<1>3. \A o \in DueOffsets(now, polls, state) : o \in 0 .. Count - 1
  BY <1>1 DEF DueOffsets
<1>4. ASSUME NEW k \in Due
      PROVE  Turn(k) \in DueOffsets(now, polls, state)
  BY <1>1, <1>2, TurnOrder
<1>5. DueOffsets(now, polls, state) # {} <=> Due # {}
  BY <1>2, <1>3, <1>4
<1>6. ASSUME Due # {}
      PROVE  /\ FirstDue(now, polls, state) \in Due
             /\ \A k \in Due : Turn(FirstDue(now, polls, state)) <= Turn(k)
  <2> DEFINE D == DueOffsets(now, polls, state)
             first == CHOOSE o \in D : \A p \in D : o <= p
  <2>1. D \subseteq Nat /\ D # {}
    BY <1>3, <1>5, <1>6
  <2>2. \E o \in D : \A p \in D : o <= p
    <3> HIDE DEF D
    <3> QED BY <2>1, LeastNatural
  <2>3. first \in D /\ \A p \in D : first <= p
    <3> HIDE DEF D
    <3> QED BY <2>2
  <2>4. FirstDue(now, polls, state) = ScanIndex(polls, state, first)
    BY DEF FirstDue
  <2> HIDE DEF first
  <2>5. /\ ScanIndex(polls, state, first) \in Due
        /\ Turn(ScanIndex(polls, state, first)) = first
    BY <1>2, <1>3, <2>3, TurnOrder
  <2> QED BY <1>4, <2>3, <2>4, <2>5
<1> QED BY <1>5, <1>6

-----------------------------------------------------------------------------
(* Types, step by step. *)

LEMMA CursorAtBegin ==
  ASSUME RoundTypes, BeginPass
  PROVE  /\ cursor' \in PollScanCursor
         /\ cursor'.candidateCount = Count /\ cursor'.remaining = Count
         /\ Count > 0 => cursor'.nextIndex = Start
         /\ cursor'.active <=> cursor'.remaining > 0
<1>1. Count \in Nat /\ Start \in Nat /\ (polls = <<>> <=> Count = 0)
  BY CandidateShape DEF Count, RoundTypes
<1>2. cursor' = BeginPollScan(polls, state)
  BY DEF BeginPass
<1>3. CASE polls = <<>>
  BY <1>1, <1>2, <1>3 DEF BeginPollScan, NoCursor, PollScanCursor
<1>4. CASE polls # <<>>
  <2>1. cursor' = [nextIndex |-> Start, remaining |-> Count,
                   candidateCount |-> Count, active |-> TRUE]
    BY <1>2, <1>4 DEF BeginPollScan, Start, Count
  <2> QED BY <1>1, <1>4, <2>1 DEF PollScanCursor
<1> QED BY <1>3, <1>4

LEMMA WaitingRows ==
  ASSUME RoundTypes, NEW still
  PROVE  /\ Waiting(still) \in [Indices(polls) -> [Indices(polls) -> 0 .. 2]]
         /\ \A k, j \in Indices(polls) :
              Waiting(still)[k][j] = IF k \in still THEN passed[k][j] ELSE 0
BY DEF RoundTypes, Waiting

LEMMA InspectFrame ==
  ASSUME RoundTypes, InspectDue \/ InspectIndex
  PROVE  /\ UNCHANGED <<now, polls, state, dueIn, burst>>
         /\ Scanning
         /\ passed' = IF selection = NoSelection THEN passed
                      ELSE Waiting(Due \ {selection.pollIndex})
BY DEF InspectDue, InspectIndex, Decline, Scanning

LEMMA InspectTypes ==
  ASSUME RoundTypes, DeadlinesInv, InspectDue \/ InspectIndex
  PROVE  RoundTypes'
<1>1. /\ UNCHANGED <<now, polls, state, dueIn, burst>>
      /\ passed' \in [Indices(polls) -> [Indices(polls) -> 0 .. 2]]
  BY InspectFrame, WaitingRows DEF RoundTypes
<1>2. Inspects
  BY InspectDueCases, InspectIndexCases
<1>3. /\ cursor' \in PollScanCursor
      /\ cursor'.remaining <= cursor'.candidateCount
      /\ cursor'.candidateCount > 0 => cursor'.nextIndex < cursor'.candidateCount
      /\ cursor'.active <=> cursor'.remaining > 0
  <2>1. CASE Loses
    BY <2>1 DEF Loses, NoCursor, PollScanCursor
  <2>2. ASSUME NEW c \in 0 .. cursor.remaining, Moves(c)
        PROVE  /\ cursor' \in PollScanCursor
               /\ cursor'.remaining <= cursor'.candidateCount
               /\ cursor'.candidateCount > 0 => cursor'.nextIndex < cursor'.candidateCount
               /\ cursor'.active <=> cursor'.remaining > 0
    <3>1. /\ cursor.remaining \in Nat /\ cursor.candidateCount \in Nat
          /\ cursor.remaining <= cursor.candidateCount
      BY DEF RoundTypes, PollScanCursor
    <3>2. cursor.remaining - c <= cursor.candidateCount
      BY <3>1
    <3> QED BY <2>2, <3>2 DEF Moves
  <2>3. \A c \in 1 .. cursor.remaining : c \in 0 .. cursor.remaining
    BY DEF RoundTypes, PollScanCursor
  <2> QED BY <1>2, <2>1, <2>2, <2>3 DEF Inspects, Skips, Offers
<1>4. /\ selection' # NoSelection =>
           selection' \in PollSelection /\ selection'.kind = "Poll"
      /\ offered' \in Seq(Nat)
  <2>1. CASE selection' = NoSelection /\ offered' = offered
    BY <2>1 DEF RoundTypes
  <2>2. ASSUME cursor.candidateCount = Count,
               NEW c \in 1 .. cursor.remaining, Offers(c)
        PROVE  /\ selection' \in PollSelection /\ selection'.kind = "Poll"
               /\ offered' \in Seq(Nat)
    <3> DEFINE index == IndexAhead(cursor, c - 1)
    <3>1. c - 1 \in 0 .. cursor.remaining - 1
      BY DEF RoundTypes, PollScanCursor
    <3>2. index \in Indices(polls)
      BY <2>2, <3>1, AheadCandidate
    <3>3. index \in Nat /\ Len(polls) \in Nat
      BY <3>2, CandidateShape
    <3>4. /\ selection' = PollSelectionOf(polls, index)
          /\ offered' = Append(offered, index)
          /\ offered \in Seq(Nat)
      BY <2>2 DEF Offers, RoundTypes
    <3> HIDE DEF index
    <3> QED
      BY <3>3, <3>4 DEF PollSelectionOf, PollSelection, ScheduledActionKind
  <2> QED BY <1>2, <2>1, <2>2 DEF Inspects, Loses, Skips
<1> QED BY <1>1, <1>3, <1>4 DEF RoundTypes

(* A poll that is consumed was on offer, or is the first that select() saw.*)
LEMMA ConsumedShape ==
  ASSUME RoundTypes, NEW chosen \in PollSelection, NEW distance \in Distances,
         chosen.kind = "Poll", CommitConsumed(chosen, distance)
  PROVE  LET index == chosen.pollIndex
         IN  /\ index \in Indices(polls) /\ index < Count /\ Count > 0
             /\ state' = CommitPoll(chosen, Len(polls), now)
             /\ state'.forwardsSincePoll = 0
             /\ state'.nextPollIndex = IF index + 1 < Count THEN index + 1 ELSE 0
             /\ state' \in PollPlannerState
             /\ Len(polls') = Count /\ Indices(polls') = Indices(polls)
             /\ polls' \in Seq([enabled : BOOLEAN, dueAt : Ticks])
             /\ polls'[index + 1] = Candidate(TRUE, distance)
             /\ \A k \in Indices(polls) \ {index} : polls'[k + 1] = polls[k + 1]
             /\ dueIn' \in [Indices(polls) -> Distances \cup {0}]
             /\ dueIn'[index] = distance
             /\ \A k \in Indices(polls) \ {index} : dueIn'[k] = dueIn[k]
             /\ passed' \in [Indices(polls) -> [Indices(polls) -> 0 .. 2]]
             /\ \A k, j \in Indices(polls) :
                  passed'[k][j] =
                    IF k = index \/ k \notin Due THEN 0
                    ELSE IF j = index /\ passed[k][j] < 2 THEN passed[k][j] + 1
                    ELSE passed[k][j]
             /\ cursor' = NoCursor /\ selection' = NoSelection
             /\ unseen' = {} /\ burst' = 0
             /\ UNCHANGED <<now, offered>>
<1> DEFINE index == chosen.pollIndex
           C == [enabled : BOOLEAN, dueAt : Ticks]
<1>1. /\ Count \in Nat /\ Len(polls) = Count /\ Indices(polls) = 0 .. Count - 1
      /\ polls \in Seq(C) /\ now \in Ticks /\ TickModulus \in Nat \ {0}
  BY CandidateShape, Ranges DEF RoundTypes
<1>2. index \in Nat /\ index < Count
  BY <1>1 DEF CommitConsumed, CommitAccepts, PollSelection
<1>3. /\ state' = CommitPoll(chosen, Len(polls), now)
      /\ cursor' = NoCursor /\ selection' = NoSelection
      /\ unseen' = {} /\ burst' = 0
      /\ UNCHANGED <<now, offered>>
      /\ dueIn' = [dueIn EXCEPT ![index] = distance]
      /\ polls' = [polls EXCEPT ![index + 1] = Candidate(TRUE, distance)]
      /\ passed' = [k \in DOMAIN passed |->
                      [j \in DOMAIN passed |->
                         IF k = index \/ k \notin Due THEN 0
                         ELSE IF j = index /\ passed[k][j] < 2
                           THEN passed[k][j] + 1
                         ELSE passed[k][j]]]
  BY DEF CommitConsumed, Commit
<1> HIDE DEF index
<1>4. index \in Indices(polls) /\ Count > 0 /\ index + 1 \in 1 .. Len(polls)
  BY <1>1, <1>2
<1>5. (index + 1) % Count = IF index + 1 < Count THEN index + 1 ELSE 0
  <2>1. Count \in Nat \ {0} /\ index \in 0 .. Count - 1 /\ 1 \in 0 .. Count
    BY <1>1, <1>2
  <2>2. (index + 1) % Count
          = IF index + 1 < Count THEN index + 1 ELSE index + 1 - Count
    BY <2>1, RoundWraps
  <2>3. ~(index + 1 < Count) => index + 1 - Count = 0
    BY <2>1
  <2> QED BY <2>2, <2>3
<1>6. /\ state' = [nextPollIndex |-> (index + 1) % Count,
                   forwardsSincePoll |-> 0, lastPollAt |-> now,
                   hasConsumedPoll |-> TRUE]
  BY <1>1, <1>3 DEF CommitPoll, index
<1>7. state' \in PollPlannerState
  <2>1. (index + 1) % Count \in Nat /\ now \in Nat /\ 0 \in 0 .. CounterLimit
    BY <1>1, <1>2, <1>5, PollPlannerAssumption DEF Ticks
  <2> QED BY <1>6, <2>1 DEF PollPlannerState
<1>8. Candidate(TRUE, distance) \in C
  <2>1. distance \in Int /\ now \in Int
    BY <1>1, Ranges DEF Ticks
  <2>2. (now + distance) % TickModulus \in Ticks
    BY <1>1, <2>1 DEF Ticks
  <2> QED BY <2>2 DEF Candidate
<1>9. /\ Len(polls') = Count /\ polls' \in Seq(C)
      /\ polls'[index + 1] = Candidate(TRUE, distance)
      /\ \A k \in Indices(polls) \ {index} : polls'[k + 1] = polls[k + 1]
  <2> HIDE DEF C
  <2>1. /\ Len(polls') = Count /\ polls' \in Seq(C)
        /\ polls'[index + 1] = Candidate(TRUE, distance)
    <3> DEFINE new == Candidate(TRUE, distance)
               i == index + 1
    <3>1. /\ polls' = [polls EXCEPT ![i] = new] /\ new \in C
          /\ i \in 1 .. Len(polls) /\ Len(polls) = Count
          /\ polls \in Seq(C)
      BY <1>1, <1>3, <1>4, <1>8
    <3> HIDE DEF new, i
    <3>2. /\ polls' \in Seq(C) /\ Len(polls') = Len(polls)
          /\ polls'[i] = new
      BY <3>1
    <3> QED BY <3>1, <3>2 DEF new, i
  <2>2. ASSUME NEW k \in Indices(polls) \ {index}
        PROVE  polls'[k + 1] = polls[k + 1]
    <3>1. k + 1 \in 1 .. Len(polls) /\ k + 1 # index + 1
      BY <1>1, <1>2
    <3> QED BY <1>1, <1>3, <3>1
  <2> QED BY <2>1, <2>2
<1>10. Indices(polls') = Indices(polls)
  BY <1>1, <1>9 DEF Indices
<1>11. /\ dueIn' \in [Indices(polls) -> Distances \cup {0}]
       /\ dueIn'[index] = distance
       /\ \A k \in Indices(polls) \ {index} : dueIn'[k] = dueIn[k]
  BY <1>3, <1>4 DEF RoundTypes
<1>12. /\ \A k, j \in Indices(polls) :
            passed'[k][j] =
              IF k = index \/ k \notin Due THEN 0
              ELSE IF j = index /\ passed[k][j] < 2 THEN passed[k][j] + 1
              ELSE passed[k][j]
       /\ passed' \in [Indices(polls) -> [Indices(polls) -> 0 .. 2]]
  <2>1. passed \in [Indices(polls) -> [Indices(polls) -> 0 .. 2]]
    BY DEF RoundTypes
  <2>2. ASSUME NEW k \in Indices(polls), NEW j \in Indices(polls)
        PROVE  (IF k = index \/ k \notin Due THEN 0
                ELSE IF j = index /\ passed[k][j] < 2 THEN passed[k][j] + 1
                ELSE passed[k][j]) \in 0 .. 2
    <3>1. passed[k][j] \in 0 .. 2
      BY <2>1
    <3> QED BY <3>1
  <2> QED BY <1>3, <2>1, <2>2
<1>13. /\ state'.forwardsSincePoll = 0
       /\ state'.nextPollIndex = IF index + 1 < Count THEN index + 1 ELSE 0
  BY <1>5, <1>6
<1>14. /\ index \in Indices(polls) /\ index < Count /\ Count > 0
       /\ state' = CommitPoll(chosen, Len(polls), now)
       /\ cursor' = NoCursor /\ selection' = NoSelection
       /\ unseen' = {} /\ burst' = 0
       /\ UNCHANGED <<now, offered>>
  BY <1>2, <1>3, <1>4
<1> HIDE DEF C
<1> QED
  BY <1>7, <1>9, <1>10, <1>11, <1>12, <1>13, <1>14, Zenon DEF index, C

LEMMA SelectShape ==
  ASSUME RoundTypes, DeadlinesInv, NEW ready \in BOOLEAN
  PROVE  Select(now, ready, polls, state) \in PollSelection
<1>1. Len(polls) \in Nat
  BY CandidateShape
<1>2. DueOffsets(now, polls, state) # {} => FirstDue(now, polls, state) \in Nat
  BY SelectFinds, CandidateShape DEF Due, TrulyDue
<1> QED
  BY <1>1, <1>2 DEF Select, PollSelection, ScheduledActionKind, NoSelection

LEMMA TickShape ==
  ASSUME RoundTypes, Tick
  PROVE  /\ now' \in Ticks
         /\ now' = IF now + 1 < TickModulus THEN now + 1 ELSE 0
         /\ dueIn' \in [Indices(polls) -> Distances \cup {0}]
         /\ \A k \in Indices(polls) : dueIn'[k] = dueIn[k] - 1
         /\ UNCHANGED <<polls, state, cursor, selection, offered, unseen,
                        passed, burst>>
<1>1. /\ now' = (now + 1) % TickModulus
      /\ dueIn' = [k \in DOMAIN dueIn |-> dueIn[k] - 1]
      /\ \A k \in DOMAIN dueIn : dueIn[k] - 1 \in Distances
      /\ DOMAIN dueIn = Indices(polls)
      /\ UNCHANGED <<polls, state, cursor, selection, offered, unseen,
                     passed, burst>>
  BY DEF Tick, RoundTypes
<1>2. /\ TickModulus \in Nat \ {0} /\ now \in 0 .. TickModulus - 1
      /\ 1 \in 0 .. TickModulus
  BY Ranges DEF RoundTypes, Ticks
<1>3. (now + 1) % TickModulus
        = IF now + 1 < TickModulus THEN now + 1 ELSE now + 1 - TickModulus
  BY <1>2, RoundWraps
<1>4. now' \in Ticks /\ now' = IF now + 1 < TickModulus THEN now + 1 ELSE 0
  BY <1>1, <1>2, <1>3 DEF Ticks
<1> QED BY <1>1, <1>4

LEMMA DisableShape ==
  ASSUME RoundTypes, NEW index \in Indices(polls), Disable(index)
  PROVE  /\ Len(polls') = Count /\ Indices(polls') = Indices(polls)
         /\ polls' \in Seq([enabled : BOOLEAN, dueAt : Ticks])
         /\ \A k \in Indices(polls) : polls'[k + 1].dueAt = polls[k + 1].dueAt
         /\ \A k \in Indices(polls) : polls'[k + 1].enabled
                                        = (k # index /\ polls[k + 1].enabled)
         /\ passed' = Waiting(Due \ {index})
         /\ unseen' = unseen \ {index}
         /\ UNCHANGED <<now, state, cursor, selection, dueIn, offered, burst>>
<1> DEFINE C == [enabled : BOOLEAN, dueAt : Ticks]
           i == index + 1
           new == [polls[i] EXCEPT !.enabled = FALSE]
<1>1. /\ Count \in Nat /\ Len(polls) = Count /\ Indices(polls) = 0 .. Count - 1
      /\ polls \in Seq(C) /\ polls[i] \in C
  BY CandidateShape DEF RoundTypes
<1>2. /\ polls' = [polls EXCEPT ![i] = new]
      /\ passed' = Waiting(Due \ {index})
      /\ unseen' = unseen \ {index}
      /\ UNCHANGED <<now, state, cursor, selection, dueIn, offered, burst>>
  BY DEF Disable
<1>3. /\ new \in C /\ new.enabled = FALSE /\ new.dueAt = polls[i].dueAt
  BY <1>1
<1>4. i \in 1 .. Len(polls)
  BY <1>1
<1>5. /\ Len(polls') = Count /\ polls' \in Seq(C) /\ polls'[i] = new
  <2> HIDE DEF C, i, new
  <2> QED BY <1>1, <1>2, <1>3, <1>4
<1>6. ASSUME NEW k \in Indices(polls), k # index
      PROVE  polls'[k + 1] = polls[k + 1]
  <2>1. k + 1 \in 1 .. Len(polls) /\ k + 1 # i
    BY <1>1, <1>6
  <2> HIDE DEF C, i, new
  <2> QED BY <1>1, <1>2, <2>1
<1>7. \A k \in Indices(polls) : polls[k + 1] \in C
  BY CandidateShape
<1>8. /\ \A k \in Indices(polls) : polls'[k + 1].dueAt = polls[k + 1].dueAt
      /\ \A k \in Indices(polls) : polls'[k + 1].enabled
                                     = (k # index /\ polls[k + 1].enabled)
  <2> SUFFICES ASSUME NEW k \in Indices(polls)
               PROVE  /\ polls'[k + 1].dueAt = polls[k + 1].dueAt
                      /\ polls'[k + 1].enabled = (k # index /\ polls[k + 1].enabled)
    OBVIOUS
  <2>1. CASE k = index
    BY <1>3, <1>5, <2>1
  <2>2. CASE k # index
    BY <1>6, <1>7, <2>2
  <2> QED BY <2>1, <2>2
<1>9. Indices(polls') = Indices(polls)
  BY <1>1, <1>5 DEF Indices
<1> QED BY <1>2, <1>5, <1>8, <1>9

LEMMA ReplaceShape ==
  ASSUME RoundTypes, NEW size \in TableSizes, NEW distance \in Distances,
         ReplaceTable(size, distance)
  PROVE  /\ polls' \in Seq([enabled : BOOLEAN, dueAt : Ticks])
         /\ dueIn' \in [Indices(polls') -> Distances \cup {0}]
         /\ \A k \in Indices(polls') : /\ polls'[k + 1] = Candidate(TRUE, distance)
                                       /\ dueIn'[k] = distance
         /\ passed' \in [Indices(polls') -> [Indices(polls') -> 0 .. 2]]
         /\ \A k, j \in Indices(polls') : passed'[k][j] = 0
         /\ unseen' = {}
         /\ UNCHANGED <<now, state, cursor, selection, offered, burst>>
<1> DEFINE C == [enabled : BOOLEAN, dueAt : Ticks]
           new == Candidate(TRUE, distance)
<1>1. /\ polls' = [i \in 1 .. size |-> new]
      /\ dueIn' = [k \in 0 .. size - 1 |-> distance]
      /\ passed' = NobodyPassed(polls')
      /\ unseen' = {}
      /\ UNCHANGED <<now, state, cursor, selection, offered, burst>>
      /\ size \in Nat
  BY TableSizesAssumption DEF ReplaceTable
<1>2. new \in C
  <2>1. distance \in Int /\ now \in Int /\ TickModulus \in Nat \ {0}
    BY Ranges DEF RoundTypes, Ticks
  <2>2. (now + distance) % TickModulus \in Ticks
    BY <2>1 DEF Ticks
  <2> QED BY <2>2 DEF Candidate
<1> HIDE DEF C, new
<1>3. polls' \in Seq(C) /\ Len(polls') = size
  BY <1>1, <1>2
<1>4. Indices(polls') = 0 .. size - 1
  BY <1>3 DEF Indices
<1>5. \A k \in Indices(polls') : polls'[k + 1] = new /\ dueIn'[k] = distance
  <2>1. \A k \in 0 .. size - 1 : k + 1 \in 1 .. size
    BY <1>1
  <2> QED BY <1>1, <1>4, <2>1
<1>6. dueIn' \in [Indices(polls') -> Distances \cup {0}]
  BY <1>1, <1>4
<1>7. /\ passed' \in [Indices(polls') -> [Indices(polls') -> 0 .. 2]]
      /\ \A k, j \in Indices(polls') : passed'[k][j] = 0
  BY <1>1 DEF NobodyPassed
<1> QED BY <1>1, <1>3, <1>5, <1>6, <1>7 DEF C, new

(* A deadline given now is its distance from now, wrapped at most once. *)
LEMMA NewDeadline ==
  ASSUME RoundTypes, NEW distance \in Distances
  PROVE  LET dueAt == Candidate(TRUE, distance).dueAt
         IN  \/ dueAt = now + distance
             \/ dueAt = now + distance + TickModulus
             \/ dueAt = now + distance - TickModulus
<1> DEFINE a == now + distance
           T == TickModulus
<1>1. T \in Nat \ {0} /\ a \in Int /\ -T < a /\ a < 2 * T
  <2>1. /\ T \in Nat \ {0} /\ now \in Int /\ 0 <= now /\ now < T
        /\ distance \in Int /\ 2 * distance < T /\ -T < 2 * distance
    BY Ranges DEF RoundTypes, Ticks
  <2> HIDE DEF T
  <2> QED BY <2>1
<1>2. /\ a + T = now + distance + TickModulus
      /\ a - T = now + distance - TickModulus
  BY Ranges DEF RoundTypes, Ticks
<1>3. Candidate(TRUE, distance).dueAt = a % T
  BY DEF Candidate
<1> HIDE DEF a, T
<1>4. CASE 0 <= a /\ a < T
  <2>1. a % T = a
    BY <1>1, <1>4
  <2> QED BY <1>3, <2>1 DEF a, T
<1>5. CASE T <= a
  <2>1. a % T = a - T
    BY <1>1, <1>5
  <2> QED BY <1>3, <1>2, <2>1
<1>6. CASE a < 0
  <2>1. a % T = a + T
    <3>1. a \in (1 - T) .. -1
      BY <1>1, <1>6
    <3> QED BY <1>1, <3>1
  <2> QED BY <1>3, <1>2, <2>1
<1>7. (0 <= a /\ a < T) \/ T <= a \/ a < 0
  BY <1>1
<1> QED BY <1>4, <1>5, <1>6, <1>7

(* select() prefers a write. *)
LEMMA ForwardShape ==
  ASSUME RoundTypes, SelectForward
  PROVE  /\ state' \in PollPlannerState
         /\ state'.nextPollIndex = state.nextPollIndex
         /\ state'.forwardsSincePoll
              = IF state.forwardsSincePoll = CounterLimit THEN CounterLimit
                ELSE state.forwardsSincePoll + 1
         /\ burst' = IF burst > MaxConsecutiveForwards THEN burst ELSE burst + 1
         /\ DueOffsets(now, polls, state) # {} =>
              state.forwardsSincePoll < MaxConsecutiveForwards
         /\ cursor.remaining = 0
         /\ selection = NoSelection
         /\ UNCHANGED <<now, polls, cursor, selection, dueIn, offered, unseen,
                        passed>>
<1>1. /\ Select(now, TRUE, polls, state).kind = "ForwardWrite"
      /\ state' = Commit(Select(now, TRUE, polls, state), Len(polls), now, state)
      /\ burst' = IF burst > MaxConsecutiveForwards THEN burst ELSE burst + 1
      /\ ~Scanning
      /\ UNCHANGED <<now, polls, cursor, selection, dueIn, offered, unseen,
                     passed>>
  BY DEF SelectForward
<1>2. state' = CommitForward(state)
  BY <1>1 DEF Commit
<1>3. state \in PollPlannerState /\ CounterLimit \in Nat
  BY PollPlannerAssumption DEF RoundTypes
<1>4. /\ state' \in PollPlannerState
      /\ state'.nextPollIndex = state.nextPollIndex
      /\ state'.forwardsSincePoll
           = IF state.forwardsSincePoll = CounterLimit THEN CounterLimit
             ELSE state.forwardsSincePoll + 1
  BY <1>2, <1>3 DEF CommitForward, PollPlannerState
<1>5. DueOffsets(now, polls, state) # {} =>
        state.forwardsSincePoll < MaxConsecutiveForwards
  BY <1>1 DEF Select, NoSelection
<1>6. cursor.remaining = 0 /\ selection = NoSelection
  BY <1>1 DEF Scanning, RoundTypes, PollScanCursor
<1> QED BY <1>1, <1>4, <1>5, <1>6

(* What a consumed poll comes from. *)
LEMMA ConsumedFrom ==
  ASSUME RoundTypes, DeadlinesInv, NEW distance \in Distances,
         \/ ConsumePoll(distance)
         \/ \E ready \in BOOLEAN : SelectPoll(ready, distance)
  PROVE  \E chosen \in PollSelection :
           /\ chosen.kind = "Poll"
           /\ CommitConsumed(chosen, distance)
           /\ \/ selection # NoSelection /\ chosen = selection
              \/ /\ ~Scanning
                 /\ \E ready \in BOOLEAN :
                      chosen = Select(now, ready, polls, state)
<1>1. CASE ConsumePoll(distance)
  BY <1>1 DEF ConsumePoll, RoundTypes
<1>2. ASSUME NEW ready \in BOOLEAN, SelectPoll(ready, distance)
      PROVE  LET chosen == Select(now, ready, polls, state)
             IN  /\ chosen \in PollSelection /\ chosen.kind = "Poll"
                 /\ CommitConsumed(chosen, distance)
                 /\ ~Scanning
  BY <1>2, SelectShape DEF SelectPoll
<1> QED BY <1>1, <1>2

LEMMA TypesInit == Init => RoundTypes
<1> SUFFICES ASSUME Init PROVE RoundTypes
  OBVIOUS
<1> DEFINE C == [enabled : BOOLEAN, dueAt : Ticks]
<1>1. PICK size \in TableSizes :
        /\ now = 0
        /\ dueIn = [k \in 0 .. size - 1 |-> 0]
        /\ polls = [i \in 1 .. size |-> [enabled |-> TRUE, dueAt |-> 0]]
        /\ state = InitialPollState
        /\ cursor = NoCursor
        /\ selection = NoSelection
        /\ offered = <<>>
        /\ passed = NobodyPassed(polls)
        /\ burst = 0
  BY DEF Init
<1>2. size \in Nat /\ 0 \in Ticks
  BY TableSizesAssumption, Ranges DEF Ticks
<1>3. [enabled |-> TRUE, dueAt |-> 0] \in C
  BY <1>2
<1> HIDE DEF C
<1>4. polls \in Seq(C) /\ Len(polls) = size
  BY <1>1, <1>2, <1>3
<1>5. Indices(polls) = 0 .. size - 1
  BY <1>4 DEF Indices
<1>6. dueIn \in [Indices(polls) -> Distances \cup {0}]
  BY <1>1, <1>5
<1>7. state \in PollPlannerState
  BY <1>1, PollPlannerAssumption DEF InitialPollState, PollPlannerState
<1>8. /\ cursor \in PollScanCursor
      /\ cursor.remaining <= cursor.candidateCount
      /\ cursor.candidateCount > 0 => cursor.nextIndex < cursor.candidateCount
      /\ cursor.active <=> cursor.remaining > 0
  BY <1>1 DEF NoCursor, PollScanCursor
<1>9. now \in Ticks /\ offered \in Seq(Nat) /\ burst \in Nat
  BY <1>1, <1>2
<1>10. passed \in [Indices(polls) -> [Indices(polls) -> 0 .. 2]]
  BY <1>1 DEF NobodyPassed
<1>11. polls \in Seq([enabled : BOOLEAN, dueAt : Ticks])
  BY <1>4 DEF C
<1> QED BY <1>1, <1>6, <1>7, <1>8, <1>9, <1>10, <1>11, Zenon DEF RoundTypes

LEMMA TypesStep ==
  ASSUME RoundTypes, DeadlinesInv, [Next]_vars
  PROVE  RoundTypes'
<1>1. CASE BeginPass
  <2>1. /\ offered' = <<>>
        /\ UNCHANGED <<now, polls, state, selection, dueIn, passed, burst>>
    BY <1>1 DEF BeginPass
  <2>2. /\ cursor' \in PollScanCursor
        /\ cursor'.remaining <= cursor'.candidateCount
        /\ cursor'.candidateCount > 0 => cursor'.nextIndex < cursor'.candidateCount
        /\ cursor'.active <=> cursor'.remaining > 0
    BY <1>1, CursorAtBegin, CandidateShape
  <2> QED BY <2>1, <2>2 DEF RoundTypes
<1>2. CASE InspectDue \/ InspectIndex
  BY <1>2, InspectTypes
<1>3. CASE AbandonPass
  BY <1>3 DEF AbandonPass, RoundTypes, NoCursor, PollScanCursor
<1>4. ASSUME NEW distance \in Distances,
             \/ ConsumePoll(distance)
             \/ \E ready \in BOOLEAN : SelectPoll(ready, distance)
      PROVE  RoundTypes'
  <2>1. PICK chosen \in PollSelection :
          chosen.kind = "Poll" /\ CommitConsumed(chosen, distance)
    BY <1>4, ConsumedFrom
  <2>2. /\ state' \in PollPlannerState
        /\ Indices(polls') = Indices(polls)
        /\ polls' \in Seq([enabled : BOOLEAN, dueAt : Ticks])
        /\ dueIn' \in [Indices(polls) -> Distances \cup {0}]
        /\ passed' \in [Indices(polls) -> [Indices(polls) -> 0 .. 2]]
        /\ cursor' = NoCursor /\ selection' = NoSelection /\ burst' = 0
        /\ UNCHANGED <<now, offered>>
    BY <2>1, ConsumedShape
  <2> QED BY <2>2 DEF RoundTypes, NoCursor, PollScanCursor
<1>5. ASSUME NEW distance \in Distances, NEW size \in TableSizes,
             ReplaceTable(size, distance)
      PROVE  RoundTypes'
  <2>1. /\ polls' \in Seq([enabled : BOOLEAN, dueAt : Ticks])
        /\ dueIn' \in [Indices(polls') -> Distances \cup {0}]
        /\ passed' \in [Indices(polls') -> [Indices(polls') -> 0 .. 2]]
        /\ UNCHANGED <<now, state, cursor, selection, offered, burst>>
    BY <1>5, ReplaceShape
  <2> QED BY <2>1 DEF RoundTypes
<1>6. CASE SelectForward
  BY <1>6, ForwardShape DEF RoundTypes
<1>7. CASE Tick
  BY <1>7, TickShape DEF RoundTypes
<1>8. ASSUME NEW index \in Indices(polls), Disable(index)
      PROVE  RoundTypes'
  <2>1. /\ Indices(polls') = Indices(polls)
        /\ polls' \in Seq([enabled : BOOLEAN, dueAt : Ticks])
        /\ passed' = Waiting(Due \ {index})
        /\ UNCHANGED <<now, state, cursor, selection, dueIn, offered, burst>>
    BY <1>8, DisableShape
  <2> QED BY <2>1, WaitingRows DEF RoundTypes
<1>9. CASE UNCHANGED vars
  BY <1>9 DEF vars, RoundTypes, Indices
<1> QED
  BY <1>1, <1>2, <1>3, <1>4, <1>5, <1>6, <1>7, <1>8, <1>9 DEF Next

-----------------------------------------------------------------------------
(* Deadlines, step by step. *)

LEMMA DeadlinesInit == Init => DeadlinesInv
<1> SUFFICES ASSUME Init PROVE DeadlinesInv
  OBVIOUS
<1>1. PICK size \in TableSizes :
        /\ now = 0
        /\ dueIn = [k \in 0 .. size - 1 |-> 0]
        /\ polls = [i \in 1 .. size |-> [enabled |-> TRUE, dueAt |-> 0]]
  BY DEF Init
<1>2. size \in Nat
  BY TableSizesAssumption
<1>3. Indices(polls) = 0 .. size - 1
  BY <1>1, <1>2 DEF Indices
<1>4. ASSUME NEW k \in Indices(polls)
      PROVE  polls[k + 1].dueAt = now + dueIn[k]
  <2>1. k \in 0 .. size - 1 /\ k + 1 \in 1 .. size
    BY <1>2, <1>3
  <2> QED BY <1>1, <2>1
<1> QED BY <1>4 DEF DeadlinesInv

LEMMA DeadlinesStep ==
  ASSUME RoundTypes, DeadlinesInv, [Next]_vars
  PROVE  DeadlinesInv'
<1>1. CASE UNCHANGED <<now, polls, dueIn>>
  BY <1>1 DEF DeadlinesInv, Indices
<1>2. CASE \/ BeginPass \/ InspectDue \/ InspectIndex \/ AbandonPass
           \/ SelectForward \/ UNCHANGED vars
  BY <1>1, <1>2 DEF BeginPass, InspectDue, InspectIndex, AbandonPass,
                    SelectForward, vars
<1>3. ASSUME NEW distance \in Distances,
             \/ ConsumePoll(distance)
             \/ \E ready \in BOOLEAN : SelectPoll(ready, distance)
      PROVE  DeadlinesInv'
  <2>1. PICK chosen \in PollSelection :
          chosen.kind = "Poll" /\ CommitConsumed(chosen, distance)
    BY <1>3, ConsumedFrom
  <2> DEFINE index == chosen.pollIndex
  <2>2. /\ Indices(polls') = Indices(polls)
        /\ polls'[index + 1] = Candidate(TRUE, distance)
        /\ \A k \in Indices(polls) \ {index} : polls'[k + 1] = polls[k + 1]
        /\ dueIn'[index] = distance
        /\ \A k \in Indices(polls) \ {index} : dueIn'[k] = dueIn[k]
        /\ now' = now
    BY <2>1, ConsumedShape
  <2> HIDE DEF index
  <2>3. \/ polls'[index + 1].dueAt = now' + dueIn'[index]
        \/ polls'[index + 1].dueAt = now' + dueIn'[index] + TickModulus
        \/ polls'[index + 1].dueAt = now' + dueIn'[index] - TickModulus
    BY <2>2, NewDeadline
  <2>4. ASSUME NEW k \in Indices(polls) \ {index}
        PROVE  \/ polls'[k + 1].dueAt = now' + dueIn'[k]
               \/ polls'[k + 1].dueAt = now' + dueIn'[k] + TickModulus
               \/ polls'[k + 1].dueAt = now' + dueIn'[k] - TickModulus
    <3>1. /\ polls'[k + 1] = polls[k + 1] /\ dueIn'[k] = dueIn[k] /\ now' = now
      BY <2>2
    <3>2. \/ polls[k + 1].dueAt = now + dueIn[k]
          \/ polls[k + 1].dueAt = now + dueIn[k] + TickModulus
          \/ polls[k + 1].dueAt = now + dueIn[k] - TickModulus
      BY DEF DeadlinesInv
    <3> QED BY <3>1, <3>2
  <2> QED BY <2>2, <2>3, <2>4 DEF DeadlinesInv
<1>4. ASSUME NEW distance \in Distances, NEW size \in TableSizes,
             ReplaceTable(size, distance)
      PROVE  DeadlinesInv'
  <2>1. /\ \A k \in Indices(polls') : /\ polls'[k + 1] = Candidate(TRUE, distance)
                                      /\ dueIn'[k] = distance
        /\ now' = now
    BY <1>4, ReplaceShape
  <2> QED BY <2>1, NewDeadline DEF DeadlinesInv
<1>5. CASE Tick
  <2>1. /\ now' = IF now + 1 < TickModulus THEN now + 1 ELSE 0
        /\ \A k \in Indices(polls) : dueIn'[k] = dueIn[k] - 1
        /\ polls' = polls
    BY <1>5, TickShape
  <2>2. now \in Ticks /\ TickModulus \in Nat \ {0}
    BY Ranges DEF RoundTypes
  <2>3. ASSUME NEW k \in Indices(polls)
        PROVE  \/ polls'[k + 1].dueAt = now' + dueIn'[k]
               \/ polls'[k + 1].dueAt = now' + dueIn'[k] + TickModulus
               \/ polls'[k + 1].dueAt = now' + dueIn'[k] - TickModulus
    <3>1. /\ polls[k + 1].dueAt \in Ticks /\ dueIn[k] \in Distances \cup {0}
      BY CandidateShape
    <3>2. PICK due \in Ticks, d \in Distances \cup {0} :
            due = polls[k + 1].dueAt /\ d = dueIn[k]
      BY <3>1
    <3>3. \/ due = now + d
          \/ due = now + d + TickModulus
          \/ due = now + d - TickModulus
      BY <3>2 DEF DeadlinesInv
    <3>4. /\ polls'[k + 1].dueAt = due /\ dueIn'[k] = d - 1
      BY <2>1, <3>2
    <3>5. d \in Int /\ 2 * d < TickModulus /\ -TickModulus < 2 * d /\ due \in Int
      BY Ranges DEF Ticks
    <3>6. CASE now + 1 < TickModulus
      <4>1. now' = now + 1
        BY <2>1, <3>6
      <4> QED BY <2>2, <3>3, <3>4, <3>5, <4>1 DEF Ticks
    <3>7. CASE ~(now + 1 < TickModulus)
      <4>1. now' = 0 /\ now = TickModulus - 1
        BY <2>1, <2>2, <3>7 DEF Ticks
      <4>2. due = now + d \/ due = now + d - TickModulus
        BY <2>2, <3>3, <3>5, <4>1 DEF Ticks
      <4> QED BY <2>2, <3>4, <3>5, <4>1, <4>2 DEF Ticks
    <3> QED BY <3>6, <3>7
  <2>4. Indices(polls') = Indices(polls)
    BY <2>1
  <2> QED BY <2>3, <2>4 DEF DeadlinesInv
<1>6. ASSUME NEW index \in Indices(polls), Disable(index)
      PROVE  DeadlinesInv'
  <2>1. /\ Indices(polls') = Indices(polls)
        /\ \A k \in Indices(polls) : polls'[k + 1].dueAt = polls[k + 1].dueAt
        /\ UNCHANGED <<now, dueIn>>
    BY <1>6, DisableShape
  <2> QED BY <2>1 DEF DeadlinesInv
<1> QED
  BY <1>2, <1>3, <1>4, <1>5, <1>6 DEF Next

(* pollDeadlineReached32(): through any number of wraps of a counter of    *)
(* any width, a deadline less than half the range away counts as reached   *)
(* exactly when it is.                                                     *)
THEOREM DeadlinesExact == Spec => []DeadlinesAreExact
<1>1. Init => RoundTypes /\ DeadlinesInv
  BY TypesInit, DeadlinesInit
<1>2. RoundTypes /\ DeadlinesInv /\ [Next]_vars => (RoundTypes /\ DeadlinesInv)'
  BY TypesStep, DeadlinesStep
<1>3. RoundTypes /\ DeadlinesInv => DeadlinesAreExact
  BY DueIsKnown DEF DeadlinesAreExact
<1> QED BY <1>1, <1>2, <1>3, PTL DEF Spec

-----------------------------------------------------------------------------
(* The burst of writes. *)

LEMMA BurstStep ==
  ASSUME RoundTypes, DeadlinesInv, BurstInv, [Next]_vars
  PROVE  BurstInv'
<1>1. /\ burst \in Nat /\ state.forwardsSincePoll \in 0 .. CounterLimit
      /\ CounterLimit \in Nat /\ MaxConsecutiveForwards \in 0 .. CounterLimit
      /\ burst <= MaxConsecutiveForwards + 1
      /\ \/ burst <= state.forwardsSincePoll
         \/ MaxConsecutiveForwards <= state.forwardsSincePoll
  BY PollPlannerAssumption DEF RoundTypes, PollPlannerState, BurstInv
<1>2. CASE (burst' = burst \/ burst' = 0) /\ state' = state
  BY <1>1, <1>2 DEF BurstInv
<1>3. CASE \/ BeginPass \/ InspectDue \/ InspectIndex \/ AbandonPass
           \/ Tick \/ UNCHANGED vars
  BY <1>2, <1>3 DEF BeginPass, InspectDue, InspectIndex, AbandonPass,
                    Tick, vars
<1>4. ASSUME NEW distance \in Distances,
             \/ ConsumePoll(distance)
             \/ \E ready \in BOOLEAN : SelectPoll(ready, distance)
      PROVE  BurstInv'
  <2>1. burst' = 0 /\ state'.forwardsSincePoll = 0
    BY <1>4, ConsumedFrom, ConsumedShape
  <2> QED BY <1>1, <2>1 DEF BurstInv
<1>5. ASSUME NEW distance \in Distances, NEW size \in TableSizes,
             ReplaceTable(size, distance)
      PROVE  BurstInv'
  BY <1>2, <1>5 DEF ReplaceTable
<1>6. ASSUME NEW index \in Indices(polls), Disable(index)
      PROVE  BurstInv'
  BY <1>2, <1>6 DEF Disable
<1>7. CASE SelectForward
  <2>1. /\ state'.forwardsSincePoll
             = IF state.forwardsSincePoll = CounterLimit THEN CounterLimit
               ELSE state.forwardsSincePoll + 1
        /\ burst' = IF burst > MaxConsecutiveForwards THEN burst ELSE burst + 1
        /\ state'.forwardsSincePoll \in Nat
    BY <1>7, ForwardShape DEF PollPlannerState
  <2>2. /\ burst' <= MaxConsecutiveForwards + 1
        /\ \/ burst' <= state'.forwardsSincePoll
           \/ MaxConsecutiveForwards <= state'.forwardsSincePoll
    BY <1>1, <2>1
  <2> QED BY <2>2 DEF BurstInv
<1> QED
  BY <1>3, <1>4, <1>5, <1>6, <1>7 DEF Next

(* PollPlannerOptions: no write goes ahead of a due poll once              *)
(* maxConsecutiveForwards were admitted since the last poll, also at a     *)
(* limit where forwardsSincePoll saturates.                                *)
THEOREM BurstBounded == Spec => BurstIsBounded
<1> DEFINE I == RoundTypes /\ DeadlinesInv /\ BurstInv
<1>1. Init => I
  <2>1. Init => BurstInv
    BY PollPlannerAssumption DEF Init, BurstInv, InitialPollState
  <2> QED BY <2>1, TypesInit, DeadlinesInit
<1>2. I /\ [Next]_vars => I'
  BY TypesStep, DeadlinesStep, BurstStep
<1>3. ASSUME I, SelectForward, Due # {}
      PROVE  burst < MaxConsecutiveForwards
  <2>1. state.forwardsSincePoll < MaxConsecutiveForwards
    BY <1>3, ForwardShape, SelectFinds
  <2>2. /\ burst \in Nat /\ state.forwardsSincePoll \in Nat
        /\ MaxConsecutiveForwards \in Nat
    BY <1>3, PollPlannerAssumption DEF RoundTypes, PollPlannerState
  <2>3. \/ burst <= state.forwardsSincePoll
        \/ MaxConsecutiveForwards <= state.forwardsSincePoll
    BY <1>3 DEF BurstInv
  <2> QED BY <2>1, <2>2, <2>3
<1>4. I /\ [Next]_vars => [SelectForward /\ Due # {} =>
                             burst < MaxConsecutiveForwards]_vars
  BY <1>3
<1> HIDE DEF I
<1> QED BY <1>1, <1>2, <1>4, PTL DEF Spec, BurstIsBounded

-----------------------------------------------------------------------------
(* The pass. *)

LEMMA AheadMoves ==
  ASSUME RoundTypes, NEW c \in 0 .. cursor.remaining, Moves(c)
  PROVE  /\ Ahead' \subseteq Ahead
         /\ \A k \in Ahead :
              k \in Ahead' \/ \E s \in 0 .. c - 1 : k = IndexAhead(cursor, s)
         /\ \A s \in 0 .. c - 1 : /\ IndexAhead(cursor, s) \in Ahead
                                  /\ IndexAhead(cursor, s) \notin Ahead'
<1>1. cursor.remaining \in Nat /\ c \in Nat /\ c <= cursor.remaining
  BY DEF RoundTypes, PollScanCursor
<1>2. /\ cursor'.remaining = cursor.remaining - c
      /\ \A s \in 0 .. cursor.remaining - c - 1 :
           IndexAhead(cursor', s) = IndexAhead(cursor, s + c)
  BY DEF Moves
<1>3. ASSUME NEW k \in Ahead'
      PROVE  \E t \in c .. cursor.remaining - 1 : k = IndexAhead(cursor, t)
  <2>1. PICK s \in 0 .. cursor.remaining - c - 1 : k = IndexAhead(cursor', s)
    BY <1>2 DEF Ahead
  <2>2. k = IndexAhead(cursor, s + c)
    BY <1>2, <2>1
  <2>3. s + c \in c .. cursor.remaining - 1
    BY <1>1
  <2> QED BY <2>2, <2>3
<1>4. ASSUME NEW t \in c .. cursor.remaining - 1
      PROVE  IndexAhead(cursor, t) \in Ahead'
  <2>1. PICK s \in 0 .. cursor.remaining - c - 1 : t = s + c
    <3>1. t - c \in 0 .. cursor.remaining - c - 1 /\ t = t - c + c
      BY <1>1
    <3> QED BY <3>1
  <2>2. IndexAhead(cursor', s) = IndexAhead(cursor, t)
    BY <1>2, <2>1
  <2> QED BY <1>2, <2>2 DEF Ahead
<1>5. Ahead' \subseteq Ahead
  <2>1. \A t \in c .. cursor.remaining - 1 : t \in 0 .. cursor.remaining - 1
    BY <1>1
  <2> QED BY <1>3, <2>1 DEF Ahead
<1>6. ASSUME NEW k \in Ahead
      PROVE  k \in Ahead' \/ \E s \in 0 .. c - 1 : k = IndexAhead(cursor, s)
  <2>1. PICK s \in 0 .. cursor.remaining - 1 : k = IndexAhead(cursor, s)
    BY DEF Ahead
  <2>2. s \in 0 .. c - 1 \/ s \in c .. cursor.remaining - 1
    BY <1>1
  <2> QED BY <1>4, <2>1, <2>2
<1>7. ASSUME NEW s \in 0 .. c - 1
      PROVE  /\ IndexAhead(cursor, s) \in Ahead
             /\ IndexAhead(cursor, s) \notin Ahead'
  <2>1. s \in 0 .. cursor.remaining - 1
    BY <1>1
  <2>2. SUFFICES ASSUME IndexAhead(cursor, s) \in Ahead' PROVE FALSE
    BY <2>1 DEF Ahead
  <2>3. PICK t \in c .. cursor.remaining - 1 :
          IndexAhead(cursor, s) = IndexAhead(cursor, t)
    BY <1>3, <2>2
  <2>4. t \in 0 .. cursor.remaining - 1 /\ s # t
    BY <1>1
  <2> QED BY <2>1, <2>3, <2>4, AheadOnce
<1> QED BY <1>5, <1>6, <1>7

(* A pass begins at the round-robin index and has the whole table ahead. *)
LEMMA BeginAhead ==
  ASSUME RoundTypes, BeginPass
  PROVE  /\ \A s \in 0 .. Count - 1 :
              IndexAhead(cursor', s) = ScanIndex(polls, state, s)
         /\ Ahead' = Indices(polls)
<1>1. /\ Count \in Nat /\ Len(polls) = Count /\ Indices(polls) = 0 .. Count - 1
      /\ cursor'.candidateCount = Count /\ cursor'.remaining = Count
      /\ Count > 0 => cursor'.nextIndex = Start
  BY CandidateShape, CursorAtBegin
<1>2. ASSUME NEW s \in 0 .. Count - 1
      PROVE  IndexAhead(cursor', s) = ScanIndex(polls, state, s)
  <2>1. Count > 0
    BY <1>1
  <2> QED BY <1>1, <2>1 DEF IndexAhead, ScanIndex, Start
<1>3. Ahead' = {IndexAhead(cursor', s) : s \in 0 .. Count - 1}
  BY <1>1 DEF Ahead
<1>4. ASSUME NEW k \in Indices(polls)
      PROVE  k \in Ahead'
  <2>1. PICK s \in 0 .. Count - 1 : ScanIndex(polls, state, s) = k
    BY TurnOrder
  <2> QED BY <1>2, <1>3, <2>1
<1>5. ASSUME NEW k \in Ahead'
      PROVE  k \in Indices(polls)
  <2>1. PICK s \in 0 .. Count - 1 : k = IndexAhead(cursor', s)
    BY <1>3
  <2> QED BY <1>2, <2>1, TurnOrder
<1> QED BY <1>2, <1>4, <1>5

LEMMA AppendedOnce ==
  ASSUME NEW S, NEW s \in Seq(S), NEW e \in S,
         \A i, j \in DOMAIN s : s[i] = s[j] => i = j,
         \A i \in DOMAIN s : s[i] # e
  PROVE  \A i, j \in DOMAIN Append(s, e) :
           Append(s, e)[i] = Append(s, e)[j] => i = j
<1> DEFINE t == Append(s, e)
<1>1. /\ Len(s) \in Nat /\ DOMAIN s = 1 .. Len(s)
      /\ DOMAIN t = 1 .. Len(s) + 1
      /\ t[Len(s) + 1] = e
      /\ \A i \in 1 .. Len(s) : t[i] = s[i]
  BY AppendProperties
<1> HIDE DEF t
<1>2. \A i \in DOMAIN t : i = Len(s) + 1 \/ i \in DOMAIN s
  BY <1>1
<1>3. \A i, j \in DOMAIN t : t[i] = t[j] => i = j
  BY <1>1, <1>2
<1> QED BY <1>3 DEF t

LEMMA ScanInspect ==
  ASSUME RoundTypes, DeadlinesInv, ScanInv, InspectDue \/ InspectIndex
  PROVE  ScanInv'
<1>1. Due' = Due /\ Count' = Count
  BY InspectFrame DEF Due, Count
<1>2. Inspects
  BY InspectDueCases, InspectIndexCases
<1>3. CASE Loses
  <2>1. Ahead' = {}
    BY <1>3 DEF Loses, Ahead, NoCursor
  <2> QED BY <1>3, <2>1 DEF ScanInv, Loses
<1>4. ASSUME cursor.candidateCount = Count,
             NEW c \in 0 .. cursor.remaining, Skips(c)
      PROVE  ScanInv'
  <2>1. /\ Ahead' \subseteq Ahead
        /\ \A k \in Ahead :
             k \in Ahead' \/ \E s \in 0 .. c - 1 : k = IndexAhead(cursor, s)
    BY <1>4, AheadMoves DEF Skips
  <2>2. /\ \A s \in 0 .. c - 1 : IndexAhead(cursor, s) \notin Due
        /\ offered' = offered
        /\ unseen' = unseen \/ unseen' = {}
        /\ cursor'.candidateCount = cursor.candidateCount
    BY <1>4 DEF Skips, Moves
  <2>3. unseen \subseteq Ahead'
    BY <2>1, <2>2 DEF ScanInv
  <2> QED BY <1>1, <1>4, <2>1, <2>2, <2>3 DEF ScanInv
<1>5. ASSUME cursor.candidateCount = Count,
             NEW c \in 1 .. cursor.remaining, Offers(c)
      PROVE  ScanInv'
  <2> DEFINE index == IndexAhead(cursor, c - 1)
  <2>1. /\ c \in 0 .. cursor.remaining /\ c - 1 \in 0 .. c - 1
        /\ c - 1 \in 0 .. cursor.remaining - 1
        /\ \A s \in 0 .. c - 1 : s \in 0 .. c - 2 \/ s = c - 1
    BY DEF RoundTypes, PollScanCursor
  <2>2. /\ Ahead' \subseteq Ahead
        /\ \A k \in Ahead :
             k \in Ahead' \/ \E s \in 0 .. c - 1 : k = IndexAhead(cursor, s)
        /\ index \in Ahead /\ index \notin Ahead'
    BY <1>5, <2>1, AheadMoves DEF Offers
  <2>3. /\ \A s \in 0 .. c - 2 : IndexAhead(cursor, s) \notin Due
        /\ offered' = Append(offered, index)
        /\ unseen' = unseen \ {index}
        /\ cursor'.candidateCount = Count
    BY <1>5 DEF Offers, Moves
  <2>4. index \in Nat
    BY <1>5, <2>1, AheadCandidate, CandidateShape
  <2> HIDE DEF index
  <2>5. ASSUME NEW k \in unseen'
        PROVE  k \in Ahead' /\ k \in Due
    <3>1. k \in Ahead /\ k \in Due /\ k # index
      BY <2>3 DEF ScanInv
    <3>2. \A s \in 0 .. c - 1 : k # IndexAhead(cursor, s)
      BY <2>1, <2>3, <3>1 DEF index
    <3> QED BY <2>2, <3>1, <3>2
  <2>6. /\ offered \in Seq(Nat) /\ \A i \in DOMAIN offered : offered[i] # index
    BY <2>2 DEF RoundTypes, ScanInv
  <2>7. \A i, j \in DOMAIN offered' : offered'[i] = offered'[j] => i = j
    BY <2>3, <2>4, <2>6, AppendedOnce DEF ScanInv
  <2>8. ASSUME NEW i \in DOMAIN offered'
        PROVE  offered'[i] \notin Ahead'
    <3>1. \/ offered'[i] = index
          \/ i \in DOMAIN offered /\ offered'[i] = offered[i]
      BY <2>3, <2>4, <2>6, AppendProperties
    <3> QED BY <2>2, <3>1 DEF ScanInv
  <2> QED BY <1>1, <2>3, <2>5, <2>7, <2>8 DEF ScanInv
<1> QED BY <1>2, <1>3, <1>4, <1>5 DEF Inspects

LEMMA DueGrows ==
  ASSUME RoundTypes, Tick
  PROVE  Due \subseteq Due'
<1>1. /\ \A k \in Indices(polls) : dueIn'[k] = dueIn[k] - 1 /\ dueIn[k] \in Int
      /\ polls' = polls
  BY TickShape, CandidateShape
<1> QED BY <1>1 DEF Due, TrulyDue

LEMMA DueLeft ==
  ASSUME RoundTypes, NEW index \in Indices(polls), Disable(index)
  PROVE  Due' = Due \ {index}
BY DisableShape DEF Due, TrulyDue

LEMMA ScanStep ==
  ASSUME RoundTypes, DeadlinesInv, ScanInv, [Next]_vars
  PROVE  ScanInv'
<1>1. CASE BeginPass
  <2>1. /\ cursor'.candidateCount = Count /\ offered' = <<>> /\ unseen' = Due
        /\ UNCHANGED <<polls, dueIn>>
    BY <1>1, CursorAtBegin DEF BeginPass
  <2>2. Ahead' = Indices(polls) /\ Due \subseteq Indices(polls)
    BY <1>1, BeginAhead DEF Due, TrulyDue
  <2>3. Due' = Due /\ Count' = Count
    BY <2>1 DEF Due, Count
  <2> QED BY <2>1, <2>2, <2>3 DEF ScanInv
<1>2. CASE InspectDue \/ InspectIndex
  BY <1>2, ScanInspect
<1>3. CASE AbandonPass
  <2>1. cursor' = NoCursor /\ unseen' = {} /\ offered' = offered
    BY <1>3 DEF AbandonPass
  <2>2. Ahead' = {}
    BY <2>1 DEF Ahead, NoCursor
  <2> QED BY <2>1, <2>2 DEF ScanInv
<1>4. ASSUME NEW distance \in Distances,
             \/ ConsumePoll(distance)
             \/ \E ready \in BOOLEAN : SelectPoll(ready, distance)
      PROVE  ScanInv'
  <2>1. cursor' = NoCursor /\ unseen' = {} /\ offered' = offered
    BY <1>4, ConsumedFrom, ConsumedShape
  <2>2. Ahead' = {}
    BY <2>1 DEF Ahead, NoCursor
  <2> QED BY <2>1, <2>2 DEF ScanInv
<1>5. ASSUME NEW distance \in Distances, NEW size \in TableSizes,
             ReplaceTable(size, distance)
      PROVE  ScanInv'
  <2>1. unseen' = {} /\ offered' = offered /\ cursor' = cursor
    BY <1>5 DEF ReplaceTable
  <2>2. Ahead' = Ahead
    BY <2>1 DEF Ahead
  <2> QED BY <2>1, <2>2 DEF ScanInv
<1>6. ASSUME Due \subseteq Due', UNCHANGED <<polls, cursor, offered, unseen>>
      PROVE  ScanInv'
  <2>1. Ahead' = Ahead /\ Count' = Count
    BY <1>6 DEF Ahead, Count
  <2> QED BY <1>6, <2>1 DEF ScanInv
<1>7. CASE Tick
  BY <1>6, <1>7, DueGrows, TickShape
<1>8. CASE SelectForward \/ UNCHANGED vars
  <2>1. UNCHANGED <<polls, dueIn, cursor, offered, unseen>>
    BY <1>8 DEF SelectForward, vars
  <2>2. Due' = Due
    BY <2>1 DEF Due
  <2> QED BY <1>6, <2>1, <2>2
<1>9. ASSUME NEW index \in Indices(polls), Disable(index)
      PROVE  ScanInv'
  <2>1. /\ Due' = Due \ {index} /\ unseen' = unseen \ {index}
        /\ UNCHANGED <<cursor, offered>> /\ Count' = Count
    BY <1>9, DueLeft, DisableShape DEF Count
  <2>2. Ahead' = Ahead
    BY <2>1 DEF Ahead
  <2> QED BY <2>1, <2>2 DEF ScanInv
<1> QED
  BY <1>1, <1>2, <1>3, <1>4, <1>5, <1>7, <1>8, <1>9 DEF Next

(* beginPollScan() to Complete: no candidate is offered twice in a pass,   *)
(* and a pass that runs to its end has offered every candidate that was    *)
(* due all along, wherever the scan began and wherever it wrapped.         *)
THEOREM PassIsOneRound == Spec => []PassOffersEachOnce
<1> DEFINE I == RoundTypes /\ DeadlinesInv /\ ScanInv
<1>1. Init => I
  <2>1. Init => ScanInv
    BY DEF Init, ScanInv, Ahead, NoCursor
  <2> QED BY <2>1, TypesInit, DeadlinesInit
<1>2. I /\ [Next]_vars => I'
  BY TypesStep, DeadlinesStep, ScanStep
<1>3. I => PassOffersEachOnce
  <2> SUFFICES ASSUME RoundTypes, ScanInv PROVE PassOffersEachOnce
    OBVIOUS
  <2>1. ASSUME ~cursor.active
        PROVE  unseen = {}
    <3>1. 0 .. cursor.remaining - 1 = {}
      BY <2>1 DEF RoundTypes, PollScanCursor
    <3> QED BY <3>1 DEF ScanInv, Ahead
  <2> QED BY <2>1 DEF PassOffersEachOnce, ScanInv
<1> QED BY <1>1, <1>2, <1>3, PTL DEF Spec

-----------------------------------------------------------------------------
(* Turns, step by step. *)

(* When the round-robin index moves just past i, the turns behind that of  *)
(* i move up by one more than it, and i has the last turn.                 *)
LEMMA TurnShift ==
  ASSUME NEW n \in Nat \ {0}, NEW a \in 0 .. n - 1, NEW i \in 0 .. n - 1,
         NEW k \in 0 .. n - 1, NEW b, b = IF i + 1 < n THEN i + 1 ELSE 0
  PROVE  /\ TurnFrom(b, n, i) = n - 1
         /\ k # i => TurnFrom(b, n, k) < n - 1
         /\ TurnFrom(a, n, i) < TurnFrom(a, n, k) =>
              TurnFrom(b, n, k) = TurnFrom(a, n, k) - TurnFrom(a, n, i) - 1
<1>1. b \in 0 .. n - 1
  OBVIOUS
<1>2. TurnFrom(b, n, i) = n - 1
  BY <1>1 DEF TurnFrom
<1>3. k # i => TurnFrom(b, n, k) < n - 1
  BY <1>1 DEF TurnFrom
<1>4. ASSUME TurnFrom(a, n, i) < TurnFrom(a, n, k)
      PROVE  TurnFrom(b, n, k) = TurnFrom(a, n, k) - TurnFrom(a, n, i) - 1
  BY <1>1, <1>4 DEF TurnFrom
<1> QED BY <1>2, <1>3, <1>4

(* A step that moves neither the round-robin index nor the pass. *)
LEMMA TurnFrame ==
  ASSUME RoundTypes, TurnInv, Start' = Start, Count' = Count,
         UNCHANGED <<cursor, selection>>, Indices(polls') = Indices(polls),
         \A k, j \in Indices(polls) :
           passed'[k][j] # 0 => passed'[k][j] = passed[k][j] /\ k \in Due'
  PROVE  TurnInv'
<1>1. Ahead' = Ahead /\ (Scanning' <=> Scanning)
  BY DEF Ahead, Scanning
<1>2. Aligned' <=> Aligned
  BY DEF Aligned, Turn
<1> SUFFICES ASSUME NEW k \in Indices(polls), NEW j \in Indices(polls),
                    passed'[k][j] # 0
             PROVE  /\ passed'[k][j] = 1
                    /\ k \in Due'
                    /\ TurnFrom(Start', Count', k) < TurnFrom(Start', Count', j)
                    /\ Scanning' =>
                         /\ cursor'.candidateCount = Count'
                         /\ \/ k \in Ahead'
                            \/ selection' # NoSelection /\ k = selection'.pollIndex
                         /\ Aligned'
  BY DEF TurnInv, Turn
<1>3. passed'[k][j] = passed[k][j] /\ k \in Due' /\ passed[k][j] # 0
  OBVIOUS
<1>4. /\ passed[k][j] = 1
      /\ TurnFrom(Start, Count, k) < TurnFrom(Start, Count, j)
      /\ Scanning =>
           /\ cursor.candidateCount = Count
           /\ \/ k \in Ahead
              \/ selection # NoSelection /\ k = selection.pollIndex
           /\ Aligned
  BY <1>3 DEF TurnInv, Turn
<1> QED BY <1>1, <1>2, <1>3, <1>4

LEMMA TurnBegin ==
  ASSUME RoundTypes, TurnInv, BeginPass
  PROVE  TurnInv'
<1>1. /\ UNCHANGED <<polls, state, selection, dueIn, passed>> /\ ~Scanning
      /\ selection = NoSelection
  BY DEF BeginPass, Scanning
<1>2. Start' = Start /\ Count' = Count /\ Due' = Due
  BY <1>1 DEF Start, Count, Due
<1>3. Ahead' = Indices(polls) /\ cursor'.candidateCount = Count'
  BY <1>2, BeginAhead, CursorAtBegin
<1>4. Aligned'
  <2>1. cursor'.remaining = Count /\ Count \in Nat
    BY CursorAtBegin, CandidateShape
  <2>2. ASSUME NEW s \in 0 .. Count - 1
        PROVE  TurnFrom(Start, Count, IndexAhead(cursor', s)) = s
    BY BeginAhead, TurnOrder DEF Turn
  <2>3. \A s \in 0 .. Count - 1 : Count - Count + s = s
    BY <2>1
  <2>4. \A s \in 0 .. cursor'.remaining - 1 :
          TurnFrom(Start', Count', IndexAhead(cursor', s))
            = Count' - cursor'.remaining + s
    BY <1>2, <2>1, <2>2, <2>3
  <2> QED BY <1>1, <2>4 DEF Aligned, Turn
<1> QED BY <1>1, <1>2, <1>3, <1>4 DEF TurnInv, Turn

LEMMA AlignedMoves ==
  ASSUME RoundTypes, DeadlinesInv, Aligned, cursor.candidateCount = Count,
         Start' = Start, Count' = Count,
         NEW c \in 0 .. cursor.remaining, Moves(c),
         \/ selection' = NoSelection
         \/ /\ c > 0
            /\ selection'.pollIndex = IndexAhead(cursor, c - 1)
  PROVE  Aligned'
<1>1. /\ cursor.remaining \in Nat /\ Count \in Nat /\ c \in Nat
      /\ c <= cursor.remaining
      /\ cursor'.remaining = cursor.remaining - c
      /\ \A s \in 0 .. cursor.remaining - c - 1 :
           IndexAhead(cursor', s) = IndexAhead(cursor, s + c)
  BY CandidateShape DEF RoundTypes, PollScanCursor, Moves
<1>2. \A s \in 0 .. cursor.remaining - 1 :
        TurnFrom(Start, Count, IndexAhead(cursor, s))
          = Count - cursor.remaining + s
  BY DEF Aligned, Turn
<1>3. ASSUME NEW s \in 0 .. cursor'.remaining - 1
      PROVE  TurnFrom(Start', Count', IndexAhead(cursor', s))
               = Count' - cursor'.remaining + s
  <2>1. s + c \in 0 .. cursor.remaining - 1 /\ s \in 0 .. cursor.remaining - c - 1
    BY <1>1
  <2>2. TurnFrom(Start, Count, IndexAhead(cursor, s + c))
          = Count - cursor.remaining + (s + c)
    BY <1>2, <2>1
  <2>3. Count - cursor.remaining + (s + c) = Count - (cursor.remaining - c) + s
    BY <1>1, <2>1
  <2> QED BY <1>1, <2>1, <2>2, <2>3
<1>4. ASSUME selection' # NoSelection
      PROVE  /\ selection'.pollIndex < Count'
             /\ TurnFrom(Start', Count', selection'.pollIndex)
                  < Count' - cursor'.remaining
  <2>1. /\ c - 1 \in 0 .. cursor.remaining - 1
        /\ selection'.pollIndex = IndexAhead(cursor, c - 1)
    BY <1>1, <1>4
  <2>2. selection'.pollIndex \in Indices(polls)
    BY <2>1, AheadCandidate
  <2>3. TurnFrom(Start, Count, selection'.pollIndex)
          = Count - cursor.remaining + (c - 1)
    BY <1>2, <2>1
  <2>4. Count - cursor.remaining + (c - 1) < Count - (cursor.remaining - c)
    BY <1>1, <2>1
  <2>5. selection'.pollIndex < Count
    BY <2>2, CandidateShape
  <2> QED BY <1>1, <2>3, <2>4, <2>5
<1> QED BY <1>3, <1>4 DEF Aligned, Turn

LEMMA TurnInspect ==
  ASSUME RoundTypes, DeadlinesInv, TurnInv, InspectDue \/ InspectIndex
  PROVE  TurnInv'
<1>1. /\ UNCHANGED <<polls, state, dueIn>> /\ Scanning
      /\ passed' = IF selection = NoSelection THEN passed
                   ELSE Waiting(Due \ {selection.pollIndex})
  BY InspectFrame
<1>2. Start' = Start /\ Count' = Count /\ Due' = Due
  BY <1>1 DEF Start, Count, Due
<1>3. Inspects
  BY InspectDueCases, InspectIndexCases
<1> SUFFICES ASSUME NEW k \in Indices(polls), NEW j \in Indices(polls),
                    passed'[k][j] # 0
             PROVE  /\ passed'[k][j] = 1
                    /\ k \in Due'
                    /\ TurnFrom(Start', Count', k) < TurnFrom(Start', Count', j)
                    /\ Scanning' =>
                         /\ cursor'.candidateCount = Count'
                         /\ \/ k \in Ahead'
                            \/ selection' # NoSelection /\ k = selection'.pollIndex
                         /\ Aligned'
  BY <1>1 DEF TurnInv, Turn
<1>4. /\ passed'[k][j] = passed[k][j] /\ passed[k][j] # 0
      /\ selection # NoSelection => k # selection.pollIndex
  BY <1>1, WaitingRows
<1>5. /\ passed[k][j] = 1 /\ k \in Due
      /\ TurnFrom(Start, Count, k) < TurnFrom(Start, Count, j)
      /\ cursor.candidateCount = Count /\ k \in Ahead /\ Aligned
  BY <1>1, <1>4 DEF TurnInv, Turn
<1>6. ASSUME Scanning'
      PROVE  /\ cursor'.candidateCount = Count'
             /\ \/ k \in Ahead'
                \/ selection' # NoSelection /\ k = selection'.pollIndex
             /\ Aligned'
  <2>1. CASE Loses
    BY <1>6, <2>1 DEF Loses, Scanning, NoCursor
  <2>2. ASSUME NEW c \in 0 .. cursor.remaining, Skips(c)
        PROVE  cursor'.candidateCount = Count' /\ k \in Ahead' /\ Aligned'
    <3>1. Moves(c) /\ selection' = NoSelection
      BY <2>2 DEF Skips
    <3>2. Aligned'
      BY <1>2, <1>5, <3>1, AlignedMoves
    <3>3. k \in Ahead'
      BY <1>5, <2>2, <3>1, AheadMoves DEF Skips
    <3> QED BY <1>2, <1>5, <3>1, <3>2, <3>3 DEF Moves
  <2>3. ASSUME NEW c \in 1 .. cursor.remaining, Offers(c)
        PROVE  /\ cursor'.candidateCount = Count'
               /\ \/ k \in Ahead'
                  \/ selection' # NoSelection /\ k = selection'.pollIndex
               /\ Aligned'
    <3>1. /\ c \in 0 .. cursor.remaining /\ c > 0
          /\ \A s \in 0 .. c - 1 : s \in 0 .. c - 2 \/ s = c - 1
      BY DEF RoundTypes, PollScanCursor
    <3>2. /\ Moves(c)
          /\ selection' # NoSelection
          /\ selection'.pollIndex = IndexAhead(cursor, c - 1)
          /\ \A s \in 0 .. c - 2 : IndexAhead(cursor, s) \notin Due
      BY <2>3 DEF Offers, PollSelectionOf, NoSelection
    <3>3. Aligned'
      BY <1>2, <1>5, <3>1, <3>2, AlignedMoves
    <3>4. k \in Ahead' \/ \E s \in 0 .. c - 1 : k = IndexAhead(cursor, s)
      BY <1>5, <3>1, <3>2, AheadMoves
    <3>5. k \in Ahead' \/ k = selection'.pollIndex
      BY <1>5, <3>1, <3>2, <3>4
    <3> QED BY <1>2, <1>5, <3>2, <3>3, <3>5 DEF Moves
  <2> QED BY <1>3, <2>1, <2>2, <2>3 DEF Inspects
<1> QED BY <1>2, <1>4, <1>5, <1>6

(* Whoever has been passed is not yet, when another is polled, before it.  *)
LEMMA ConsumedIsFirst ==
  ASSUME RoundTypes, DeadlinesInv, TurnInv,
         NEW chosen \in PollSelection, chosen.kind = "Poll",
         chosen.pollIndex \in Indices(polls),
         \/ selection # NoSelection /\ chosen = selection
         \/ /\ ~Scanning
            /\ \E ready \in BOOLEAN : chosen = Select(now, ready, polls, state),
         NEW k \in Indices(polls), NEW j \in Indices(polls),
         passed[k][j] # 0, k # chosen.pollIndex
  PROVE  Turn(chosen.pollIndex) < Turn(k)
<1>1. k \in Due
  BY DEF TurnInv
<1>2. Turn(k) \in Nat /\ Turn(chosen.pollIndex) \in Nat
  BY TurnOrder
<1>3. CASE selection # NoSelection /\ chosen = selection
  <2>1. k \in Ahead /\ Aligned
    BY <1>3 DEF TurnInv, Scanning
  <2>2. PICK s \in 0 .. cursor.remaining - 1 : k = IndexAhead(cursor, s)
    BY <2>1 DEF Ahead
  <2>3. /\ Turn(k) = Count - cursor.remaining + s
        /\ Turn(chosen.pollIndex) < Count - cursor.remaining
    BY <1>3, <2>1, <2>2 DEF Aligned
  <2>4. Count \in Nat /\ cursor.remaining \in Nat
    BY CandidateShape DEF RoundTypes, PollScanCursor
  <2> QED BY <1>2, <2>3, <2>4
<1>4. ASSUME NEW ready \in BOOLEAN, chosen = Select(now, ready, polls, state)
      PROVE  Turn(chosen.pollIndex) < Turn(k)
  <2>1. chosen.pollIndex = FirstDue(now, polls, state)
    BY <1>4 DEF Select, NoSelection
  <2>2. Turn(chosen.pollIndex) <= Turn(k)
    BY <1>1, <2>1, SelectFinds
  <2>3. Turn(chosen.pollIndex) # Turn(k)
    <3>1. /\ ScanIndex(polls, state, Turn(k)) = k
          /\ ScanIndex(polls, state, Turn(chosen.pollIndex)) = chosen.pollIndex
      BY TurnOrder
    <3> QED BY <3>1
  <2> QED BY <1>2, <2>2, <2>3
<1> QED BY <1>3, <1>4

LEMMA TurnConsume ==
  ASSUME RoundTypes, DeadlinesInv, TurnInv, NEW distance \in Distances,
         \/ ConsumePoll(distance)
         \/ \E ready \in BOOLEAN : SelectPoll(ready, distance)
  PROVE  TurnInv'
<1>1. PICK chosen \in PollSelection :
        /\ chosen.kind = "Poll"
        /\ CommitConsumed(chosen, distance)
        /\ \/ selection # NoSelection /\ chosen = selection
           \/ /\ ~Scanning
              /\ \E ready \in BOOLEAN : chosen = Select(now, ready, polls, state)
  BY ConsumedFrom
<1>2. PICK i : i = chosen.pollIndex
  OBVIOUS
<1>3. /\ i \in Indices(polls) /\ Count > 0
      /\ state'.nextPollIndex = IF i + 1 < Count THEN i + 1 ELSE 0
      /\ Len(polls') = Count /\ Indices(polls') = Indices(polls)
      /\ \A k \in Indices(polls) \ {i} : polls'[k + 1] = polls[k + 1]
      /\ \A k \in Indices(polls) \ {i} : dueIn'[k] = dueIn[k]
      /\ \A k, j \in Indices(polls) :
           passed'[k][j] =
             IF k = i \/ k \notin Due THEN 0
             ELSE IF j = i /\ passed[k][j] < 2 THEN passed[k][j] + 1
             ELSE passed[k][j]
      /\ cursor' = NoCursor /\ selection' = NoSelection
  <2>1. chosen.kind = "Poll" /\ CommitConsumed(chosen, distance)
    BY <1>1
  <2> DEFINE index == chosen.pollIndex
  <2>2. /\ index \in Indices(polls) /\ Count > 0
        /\ state'.nextPollIndex = IF index + 1 < Count THEN index + 1 ELSE 0
        /\ Len(polls') = Count /\ Indices(polls') = Indices(polls)
        /\ \A k \in Indices(polls) \ {index} : polls'[k + 1] = polls[k + 1]
        /\ \A k \in Indices(polls) \ {index} : dueIn'[k] = dueIn[k]
        /\ \A k, j \in Indices(polls) :
             passed'[k][j] =
               IF k = index \/ k \notin Due THEN 0
               ELSE IF j = index /\ passed[k][j] < 2 THEN passed[k][j] + 1
               ELSE passed[k][j]
        /\ cursor' = NoCursor /\ selection' = NoSelection
    BY <2>1, ConsumedShape, Zenon
  <2>3. index = i
    BY <1>2
  <2> HIDE DEF index
  <2> QED BY <2>2, <2>3
<1>4. /\ Count \in Nat \ {0} /\ Indices(polls) = 0 .. Count - 1
      /\ Start \in 0 .. Count - 1 /\ i \in 0 .. Count - 1
  BY <1>3, CandidateShape
<1>5. /\ Count' = Count
      /\ Start' = IF i + 1 < Count THEN i + 1 ELSE 0
  BY <1>3, <1>4 DEF Count, Start, ScanStart
<1>6. ~Scanning'
  BY <1>3 DEF Scanning, NoCursor
<1> SUFFICES ASSUME NEW k \in Indices(polls), NEW j \in Indices(polls),
                    passed'[k][j] # 0
             PROVE  /\ passed'[k][j] = 1
                    /\ k \in Due'
                    /\ TurnFrom(Start', Count', k) < TurnFrom(Start', Count', j)
  BY <1>3, <1>6 DEF TurnInv, Turn
<1>7. k # i /\ k \in Due
  BY <1>3
<1>8. k \in Due'
  BY <1>3, <1>7 DEF Due, TrulyDue
<1>9. passed[k][j] \in 0 .. 2
  BY DEF RoundTypes
<1>10. ASSUME NEW m \in Indices(polls), passed[k][m] # 0
       PROVE  /\ passed[k][m] = 1
              /\ TurnFrom(Start, Count, i) < TurnFrom(Start, Count, k)
              /\ TurnFrom(Start, Count, k) < TurnFrom(Start, Count, m)
  BY <1>1, <1>2, <1>3, <1>7, <1>10, ConsumedIsFirst DEF TurnInv, Turn
<1>11. /\ TurnFrom(Start', Count', i) = Count - 1
       /\ TurnFrom(Start', Count', k) < Count - 1
       /\ \A m \in Indices(polls) :
            TurnFrom(Start, Count, i) < TurnFrom(Start, Count, m) =>
              TurnFrom(Start', Count', m)
                = TurnFrom(Start, Count, m) - TurnFrom(Start, Count, i) - 1
  BY <1>4, <1>5, <1>7, TurnShift
<1>12. \A m \in Indices(polls) : TurnFrom(Start, Count, m) \in Nat
  BY TurnOrder DEF Turn
<1>13. CASE j = i
  <2>1. passed[k][j] = 0
    <3>1. SUFFICES ASSUME passed[k][j] # 0 PROVE FALSE
      OBVIOUS
    <3>2. /\ TurnFrom(Start, Count, i) < TurnFrom(Start, Count, k)
          /\ TurnFrom(Start, Count, k) < TurnFrom(Start, Count, i)
      BY <1>10, <1>13, <3>1
    <3> QED BY <1>3, <1>12, <3>2
  <2>2. passed'[k][j] = 1
    BY <1>3, <1>7, <1>13, <2>1
  <2> QED BY <1>8, <1>11, <1>13, <2>2
<1>14. CASE j # i
  <2>1. passed'[k][j] = passed[k][j]
    BY <1>3, <1>7, <1>14
  <2>2. /\ passed[k][j] = 1
        /\ TurnFrom(Start, Count, i) < TurnFrom(Start, Count, k)
        /\ TurnFrom(Start, Count, k) < TurnFrom(Start, Count, j)
    BY <1>10, <2>1
  <2>3. TurnFrom(Start, Count, i) < TurnFrom(Start, Count, j)
    BY <1>3, <1>12, <2>2
  <2>4. /\ TurnFrom(Start', Count', k)
             = TurnFrom(Start, Count, k) - TurnFrom(Start, Count, i) - 1
        /\ TurnFrom(Start', Count', j)
             = TurnFrom(Start, Count, j) - TurnFrom(Start, Count, i) - 1
    BY <1>11, <2>2, <2>3
  <2>5. TurnFrom(Start', Count', k) < TurnFrom(Start', Count', j)
    BY <1>3, <1>12, <2>2, <2>4
  <2> QED BY <1>8, <2>1, <2>2, <2>5
<1> QED BY <1>13, <1>14

LEMMA TurnStep ==
  ASSUME RoundTypes, DeadlinesInv, TurnInv, [Next]_vars
  PROVE  TurnInv'
<1>1. CASE BeginPass
  BY <1>1, TurnBegin
<1>2. CASE InspectDue \/ InspectIndex
  BY <1>2, TurnInspect
<1>3. CASE AbandonPass
  <2>1. /\ UNCHANGED <<polls, state, dueIn, passed>>
        /\ cursor' = NoCursor /\ selection' = NoSelection
    BY <1>3 DEF AbandonPass
  <2>2. ~Scanning'
    BY <2>1 DEF Scanning, NoCursor
  <2>3. Start' = Start /\ Count' = Count /\ Due' = Due
    BY <2>1 DEF Start, Count, Due
  <2> QED BY <2>1, <2>2, <2>3 DEF TurnInv, Turn
<1>4. ASSUME NEW distance \in Distances,
             \/ ConsumePoll(distance)
             \/ \E ready \in BOOLEAN : SelectPoll(ready, distance)
      PROVE  TurnInv'
  BY <1>4, TurnConsume
<1>5. ASSUME NEW distance \in Distances, NEW size \in TableSizes,
             ReplaceTable(size, distance)
      PROVE  TurnInv'
  <2>1. \A k, j \in Indices(polls') : passed'[k][j] = 0
    BY <1>5, ReplaceShape
  <2> QED BY <2>1 DEF TurnInv
<1>6. CASE SelectForward
  <2>1. /\ state'.nextPollIndex = state.nextPollIndex
        /\ UNCHANGED <<polls, cursor, selection, dueIn, passed>>
    BY <1>6, ForwardShape
  <2>2. Start' = Start /\ Count' = Count /\ Due' = Due
    BY <2>1 DEF Start, Count, Due, ScanStart
  <2>3. \A k, j \in Indices(polls) : passed[k][j] # 0 => k \in Due
    BY DEF TurnInv
  <2> QED BY <2>1, <2>2, <2>3, TurnFrame
<1>7. CASE Tick
  <2>1. UNCHANGED <<polls, state, cursor, selection, passed>>
    BY <1>7, TickShape
  <2>2. Start' = Start /\ Count' = Count /\ Due \subseteq Due'
    BY <1>7, <2>1, DueGrows DEF Start, Count
  <2>3. \A k, j \in Indices(polls) : passed[k][j] # 0 => k \in Due
    BY DEF TurnInv
  <2> QED BY <2>1, <2>2, <2>3, TurnFrame
<1>8. ASSUME NEW index \in Indices(polls), Disable(index)
      PROVE  TurnInv'
  <2>1. /\ UNCHANGED <<state, cursor, selection>>
        /\ Len(polls') = Len(polls) /\ Indices(polls') = Indices(polls)
        /\ Due' = Due \ {index}
        /\ passed' = Waiting(Due \ {index})
    BY <1>8, DisableShape, DueLeft DEF Count
  <2>2. Start' = Start /\ Count' = Count
    BY <2>1 DEF Start, Count, ScanStart
  <2>3. \A k, j \in Indices(polls) :
          passed'[k][j] # 0 => passed'[k][j] = passed[k][j] /\ k \in Due'
    BY <2>1, WaitingRows
  <2> QED BY <2>1, <2>2, <2>3, TurnFrame
<1>9. CASE UNCHANGED vars
  <2>1. UNCHANGED <<polls, state, cursor, selection, dueIn, passed>>
    BY <1>9 DEF vars
  <2>2. Start' = Start /\ Count' = Count /\ Due' = Due
    BY <2>1 DEF Start, Count, Due
  <2>3. \A k, j \in Indices(polls) : passed[k][j] # 0 => k \in Due
    BY DEF TurnInv
  <2> QED BY <2>1, <2>2, <2>3, TurnFrame
<1> QED
  BY <1>1, <1>2, <1>3, <1>4, <1>5, <1>6, <1>7, <1>8, <1>9 DEF Next

(* commit(), the new round-robin index: while a candidate is due and not   *)
(* declined, no other one is polled twice, however scans and selections    *)
(* mix and whatever deadlines the polled ones are given.                   *)
THEOREM RoundRobinIsFair == Spec => []NobodyPassedTwice
<1> DEFINE I == RoundTypes /\ DeadlinesInv /\ TurnInv
<1>1. Init => I
  <2>1. Init => TurnInv
    <3>1. Init => \A k, j \in Indices(polls) : passed[k][j] = 0
      BY DEF Init, NobodyPassed
    <3> QED BY <3>1 DEF TurnInv
  <2> QED BY <2>1, TypesInit, DeadlinesInit
<1>2. I /\ [Next]_vars => I'
  BY TypesStep, DeadlinesStep, TurnStep
<1>3. I => NobodyPassedTwice
  <2> SUFFICES ASSUME RoundTypes, TurnInv,
                      NEW k \in Indices(polls), NEW j \in Indices(polls)
               PROVE  passed[k][j] <= 1
    BY DEF NobodyPassedTwice
  <2>1. passed[k][j] \in 0 .. 2 /\ (passed[k][j] # 0 => passed[k][j] = 1)
    BY DEF RoundTypes, TurnInv
  <2> QED BY <2>1
<1> QED BY <1>1, <1>2, <1>3, PTL DEF Spec
=============================================================================
