--------------------------- MODULE LedgerSlotsProofs ---------------------------
(***************************************************************************)
(* The slot array behaves as the ledger it represents, for every number of *)
(* slots and every set of works, requests and sessions: the counter is     *)
(* exact, every call answers from the array what it would answer from the  *)
(* ledger, and every step is a step of the ledger.                         *)
(***************************************************************************)
EXTENDS LedgerSlots, FiniteSetTheorems, TLAPS

-----------------------------------------------------------------------------
(* A non-empty set of natural numbers has a least element.  The initial    *)
(* segments up to its members are finite sets; a minimal one under strict  *)
(* inclusion ends in the least member.                                     *)
LEMMA LeastNatural ==
  ASSUME NEW S \in SUBSET Nat, S # {}
  PROVE  \E n \in S : \A m \in S : n <= m
<1> DEFINE Segments == {0..n : n \in S}
<1>1. Segments \subseteq FiniteSubsetsOf(Nat)
  <2>1. ASSUME NEW n \in S PROVE 0..n \in FiniteSubsetsOf(Nat)
    BY FS_Interval DEF FiniteSubsetsOf
  <2> QED BY <2>1
<1>2. Segments # {}
  OBVIOUS
<1>3. PICK I \in Segments :
        \A J \in Segments : <<J, I>> \notin StrictSubsetOrdering(Nat)
  BY <1>1, <1>2, WFMin, FS_StrictSubsetOrderingWellFounded
<1>4. PICK n \in S : I = 0..n
  OBVIOUS
<1>5. ASSUME NEW m \in S, m < n PROVE FALSE
  <2>1. 0..m \in Segments /\ 0..m \subseteq 0..n /\ n \notin 0..m /\ n \in 0..n
    BY <1>5
  <2>2. <<0..m, I>> \in StrictSubsetOrdering(Nat)
    BY <1>4, <2>1 DEF StrictSubsetOrdering
  <2> QED BY <1>3, <2>1, <2>2
<1> QED BY <1>5

(* find() and firstFree() stop at an index they look for. *)
LEMMA FirstIsOne ==
  ASSUME NEW S \in SUBSET Nat, S # {}
  PROVE  First(S) \in S
BY LeastNatural DEF First

-----------------------------------------------------------------------------
(* The ledger that an array represents: `occ' are the occupied indices,    *)
(* `sl' the slots.                                                         *)

At(sl, i) == sl[i].state.aggregate.work

Find(occ, sl, work) == {i \in occ : ValidWork(work) /\ At(sl, i) = work}

Admitted(occ, sl) == {At(sl, i) : i \in occ}

LedgerOf(occ, sl) ==
  [w \in Admitted(occ, sl) |-> sl[First(Find(occ, sl, w))].state]

Mapping(f) == f = [x \in DOMAIN f |-> f[x]]

(* No identity occupies two slots. *)
Distinct(occ, sl) ==
  /\ occ \in SUBSET Nat
  /\ \A i \in occ : ValidWork(At(sl, i))
  /\ \A i, j \in occ : At(sl, i) = At(sl, j) => i = j

(* find() has at most one index to find, and finds it. *)
LEMMA Found ==
  ASSUME NEW occ, NEW sl, Distinct(occ, sl)
  PROVE  /\ \A i \in occ : /\ Find(occ, sl, At(sl, i)) = {i}
                           /\ First(Find(occ, sl, At(sl, i))) = i
         /\ \A work : Find(occ, sl, work) # {} =>
              /\ First(Find(occ, sl, work)) \in occ
              /\ At(sl, First(Find(occ, sl, work))) = work
              /\ ValidWork(work)
<1>1. ASSUME NEW i \in occ
      PROVE  /\ Find(occ, sl, At(sl, i)) = {i}
             /\ First(Find(occ, sl, At(sl, i))) = i
  <2>1. Find(occ, sl, At(sl, i)) = {i}
    BY DEF Find, Distinct
  <2>2. i \in Nat /\ {i} \in SUBSET Nat
    BY DEF Distinct
  <2>3. First({i}) \in {i}
    BY <2>2, FirstIsOne
  <2> QED BY <2>1, <2>3
<1>2. ASSUME NEW work, Find(occ, sl, work) # {}
      PROVE  /\ First(Find(occ, sl, work)) \in occ
             /\ At(sl, First(Find(occ, sl, work))) = work
             /\ ValidWork(work)
  <2>1. Find(occ, sl, work) \in SUBSET Nat
    BY DEF Find, Distinct
  <2>2. First(Find(occ, sl, work)) \in Find(occ, sl, work)
    BY <1>2, <2>1, FirstIsOne
  <2> QED BY <2>2 DEF Find
<1> QED BY <1>1, <1>2

(* The represented ledger, by its domain and its values. *)
LEMMA Represented ==
  ASSUME NEW occ, NEW sl, Distinct(occ, sl)
  PROVE  /\ Mapping(LedgerOf(occ, sl))
         /\ DOMAIN LedgerOf(occ, sl) = Admitted(occ, sl)
         /\ \A i \in occ : LedgerOf(occ, sl)[At(sl, i)] = sl[i].state
         /\ \A work : work \in DOMAIN LedgerOf(occ, sl)
                        <=> Find(occ, sl, work) # {}
<1>1. /\ DOMAIN LedgerOf(occ, sl) = Admitted(occ, sl)
      /\ Mapping(LedgerOf(occ, sl))
  BY DEF LedgerOf, Mapping
<1>2. \A i \in occ : LedgerOf(occ, sl)[At(sl, i)] = sl[i].state
  BY Found DEF LedgerOf, Admitted
<1>3. \A work : work \in DOMAIN LedgerOf(occ, sl)
                  <=> Find(occ, sl, work) # {}
  BY <1>1 DEF Find, Distinct, Admitted
<1> QED BY <1>1, <1>2, <1>3

(* Two mappings with one domain and the same values are one. *)
LEMMA SameMapping ==
  ASSUME NEW f, NEW g, Mapping(f), Mapping(g), DOMAIN f = DOMAIN g,
         \A x \in DOMAIN f : f[x] = g[x]
  PROVE  f = g
BY DEF Mapping

(* A slot gets a new state of the same work. *)
LEMMA RepresentsUpdate ==
  ASSUME NEW occ, NEW sl, Distinct(occ, sl), NEW tl, NEW p \in occ,
         \A i \in occ \ {p} : tl[i] = sl[i],
         At(tl, p) = At(sl, p)
  PROVE  /\ Distinct(occ, tl)
         /\ LedgerOf(occ, tl)
              = [LedgerOf(occ, sl) EXCEPT ![At(sl, p)] = tl[p].state]
<1>1. \A i \in occ : At(tl, i) = At(sl, i)
  BY DEF At
<1>2. Distinct(occ, tl)
  BY <1>1 DEF Distinct
<1>3. Admitted(occ, tl) = Admitted(occ, sl)
  BY <1>1 DEF Admitted
<1>4. PICK old, new : old = LedgerOf(occ, sl) /\ new = LedgerOf(occ, tl)
  OBVIOUS
<1>5. /\ Mapping(old) /\ DOMAIN old = Admitted(occ, sl)
      /\ \A i \in occ : old[At(sl, i)] = sl[i].state
  BY <1>4, Represented
<1>6. /\ Mapping(new) /\ DOMAIN new = Admitted(occ, sl)
      /\ \A i \in occ : new[At(tl, i)] = tl[i].state
  BY <1>2, <1>3, <1>4, Represented
<1>7. PICK e : e = [old EXCEPT ![At(sl, p)] = tl[p].state]
  OBVIOUS
<1>8. Mapping(e) /\ DOMAIN e = DOMAIN old
  BY <1>7 DEF Mapping
<1>9. ASSUME NEW w \in DOMAIN old
      PROVE  new[w] = e[w]
  <2>1. PICK i \in occ : w = At(sl, i)
    BY <1>5 DEF Admitted
  <2>2. new[w] = tl[i].state /\ old[w] = sl[i].state
    BY <1>1, <1>5, <1>6, <2>1
  <2>3. CASE i = p
    BY <1>7, <2>1, <2>2, <2>3
  <2>4. CASE i # p
    <3>1. w # At(sl, p)
      BY <2>1, <2>4 DEF Distinct
    <3>2. tl[i] = sl[i]
      BY <2>4
    <3> QED BY <1>7, <2>2, <3>1, <3>2
  <2> QED BY <2>3, <2>4
<1>10. new = e
  BY <1>5, <1>6, <1>8, <1>9, SameMapping
<1> QED BY <1>2, <1>4, <1>7, <1>10

(* Slots are emptied. *)
LEMMA RepresentsRelease ==
  ASSUME NEW occ, NEW sl, Distinct(occ, sl), NEW tl, NEW gone \in SUBSET occ,
         \A i \in occ \ gone : tl[i] = sl[i]
  PROVE  /\ Distinct(occ \ gone, tl)
         /\ LedgerOf(occ \ gone, tl)
              = WithoutWorks(LedgerOf(occ, sl), Admitted(gone, sl))
<1>1. \A i \in occ \ gone : At(tl, i) = At(sl, i)
  BY DEF At
<1>2. Distinct(occ \ gone, tl)
  BY <1>1 DEF Distinct
<1>3. PICK old, new :
        old = LedgerOf(occ, sl) /\ new = LedgerOf(occ \ gone, tl)
  OBVIOUS
<1>4. /\ DOMAIN old = Admitted(occ, sl)
      /\ \A i \in occ : old[At(sl, i)] = sl[i].state
  BY <1>3, Represented
<1>5. /\ Mapping(new) /\ DOMAIN new = Admitted(occ \ gone, tl)
      /\ \A i \in occ \ gone : new[At(tl, i)] = tl[i].state
  <2>1. PICK left : left = occ \ gone
    OBVIOUS
  <2>2. /\ Mapping(LedgerOf(left, tl))
        /\ DOMAIN LedgerOf(left, tl) = Admitted(left, tl)
        /\ \A i \in left : LedgerOf(left, tl)[At(tl, i)] = tl[i].state
    <3>1. Distinct(left, tl)
      BY <1>2, <2>1
    <3> QED BY <3>1, Represented
  <2> QED BY <1>3, <2>1, <2>2
<1>6. DOMAIN new = DOMAIN old \ Admitted(gone, sl)
  BY <1>1, <1>4, <1>5 DEF Admitted, Distinct
<1>7. PICK e : e = WithoutWorks(old, Admitted(gone, sl))
  OBVIOUS
<1>8. /\ Mapping(e) /\ DOMAIN e = DOMAIN new
      /\ \A w \in DOMAIN e : e[w] = old[w]
  BY <1>6, <1>7 DEF WithoutWorks, Mapping
<1>9. ASSUME NEW w \in DOMAIN new
      PROVE  new[w] = e[w]
  <2>1. PICK i \in occ \ gone : w = At(tl, i)
    BY <1>5 DEF Admitted
  <2> QED BY <1>1, <1>4, <1>5, <1>8, <2>1
<1>10. new = e
  BY <1>5, <1>8, <1>9, SameMapping
<1> QED BY <1>2, <1>3, <1>7, <1>10

(* A free slot is filled with an unknown work. *)
LEMMA RepresentsReserve ==
  ASSUME NEW occ, NEW sl, Distinct(occ, sl), NEW tl, NEW p \in Nat \ occ,
         \A i \in occ : tl[i] = sl[i],
         ValidWork(At(tl, p)), Find(occ, sl, At(tl, p)) = {}
  PROVE  /\ Distinct(occ \cup {p}, tl)
         /\ LedgerOf(occ \cup {p}, tl)
              = [w \in DOMAIN LedgerOf(occ, sl) \cup {At(tl, p)} |->
                   IF w = At(tl, p) THEN tl[p].state ELSE LedgerOf(occ, sl)[w]]
<1>1. \A i \in occ : At(tl, i) = At(sl, i)
  BY DEF At
<1>2. PICK old, new, work :
        /\ old = LedgerOf(occ, sl) /\ new = LedgerOf(occ \cup {p}, tl)
        /\ work = At(tl, p)
  OBVIOUS
<1>3. \A i \in occ : At(sl, i) # work
  BY <1>2 DEF Find
<1>4. Distinct(occ \cup {p}, tl)
  BY <1>1, <1>2, <1>3 DEF Distinct
<1>5. /\ DOMAIN old = Admitted(occ, sl)
      /\ \A i \in occ : old[At(sl, i)] = sl[i].state
  BY <1>2, Represented
<1>6. /\ Mapping(new) /\ DOMAIN new = Admitted(occ \cup {p}, tl)
      /\ \A i \in occ \cup {p} : new[At(tl, i)] = tl[i].state
  <2>1. PICK more : more = occ \cup {p}
    OBVIOUS
  <2>2. /\ Mapping(LedgerOf(more, tl))
        /\ DOMAIN LedgerOf(more, tl) = Admitted(more, tl)
        /\ \A i \in more : LedgerOf(more, tl)[At(tl, i)] = tl[i].state
    <3>1. Distinct(more, tl)
      BY <1>4, <2>1
    <3> QED BY <3>1, Represented
  <2> QED BY <1>2, <2>1, <2>2
<1>7. DOMAIN new = DOMAIN old \cup {work}
  BY <1>1, <1>2, <1>5, <1>6 DEF Admitted
<1>8. PICK e : e = [w \in DOMAIN old \cup {work} |->
                      IF w = work THEN tl[p].state ELSE old[w]]
  OBVIOUS
<1>9. Mapping(e) /\ DOMAIN e = DOMAIN new
  BY <1>7, <1>8 DEF Mapping
<1>10. ASSUME NEW w \in DOMAIN new
       PROVE  new[w] = e[w]
  <2>1. CASE w = work
    BY <1>2, <1>6, <1>8, <2>1
  <2>2. CASE w # work
    <3>1. PICK i \in occ : w = At(sl, i)
      BY <1>5, <1>7, <2>2 DEF Admitted
    <3>2. new[w] = tl[i].state /\ old[w] = sl[i].state
      BY <1>1, <1>5, <1>6, <3>1
    <3>3. e[w] = old[w]
      BY <1>7, <1>8, <2>2
    <3> QED BY <3>1, <3>2, <3>3
  <2> QED BY <2>1, <2>2
<1>11. new = e
  BY <1>6, <1>9, <1>10, SameMapping
<1> QED BY <1>2, <1>4, <1>8, <1>11

-----------------------------------------------------------------------------
(* What the calls make of one slot. *)

LEMMA NoWriteTyped == NoWrite \in PlannedWriteRequest /\ NoWork \in WorkIdentity
BY DEF NoWrite, PlannedWriteRequest, NoWork, WorkIdentity, IngressDelivery

LEMMA FreshSlot ==
  ASSUME NEW work \in WorkIdentity, NEW delivery \in IngressDelivery
  PROVE  /\ NewSlot(work, delivery) \in LedgerSlot
         /\ NewSlot(work, delivery).aggregate.work = work
BY NoWriteTyped
DEF NewSlot, NewAggregate, LedgerSlot, CompletionAggregate,
    WorkCompletionOutcome

LEMMA SlotAfterIssue ==
  ASSUME NEW slot \in LedgerSlot, NEW request \in PlannedWriteRequest
  PROVE  /\ IssuedSlot(slot, request) \in LedgerSlot
         /\ IssuedSlot(slot, request).aggregate = slot.aggregate
<1> DEFINE closed == slot.planningClosed \/ request.finalFragment
           index == IF request.finalFragment THEN slot.nextIssuedFragment
                    ELSE slot.nextIssuedFragment + 1
           next == IssuedSlot(slot, request)
<1>1. closed \in BOOLEAN
  OBVIOUS
<1>2. index \in Nat
  BY DEF LedgerSlot
<1>3. next = [slot EXCEPT !.issuedRequest = request,
                          !.outstandingRequests = 1,
                          !.planningClosed = closed,
                          !.nextIssuedFragment = index]
  BY Zenon DEF IssuedSlot
<1> SUFFICES next \in LedgerSlot /\ next.aggregate = slot.aggregate
  OBVIOUS
<1> HIDE DEF next, closed, index
<1> QED BY <1>1, <1>2, <1>3 DEF LedgerSlot

LEMMA AggregateAfterResult ==
  ASSUME NEW old \in CompletionAggregate, NEW request \in PlannedWriteRequest,
         NEW outcome \in DownstreamOutcome
  PROVE  /\ ResolvedAggregate(request, outcome, old) \in CompletionAggregate
         /\ ResolvedAggregate(request, outcome, old).work = old.work
<1> DEFINE failed == old.failed \/ outcome # "Applied"
           final == request.finalFragment
           index == IF final THEN old.nextFragmentIndex
                    ELSE old.nextFragmentIndex + 1
           emitted == \/ old.noticeEmitted
                      \/ ResolutionNotice(request, outcome, old) # "None"
           next == ResolvedAggregate(request, outcome, old)
<1>1. failed \in BOOLEAN /\ emitted \in BOOLEAN
  OBVIOUS
<1>2. final \in BOOLEAN
  BY DEF PlannedWriteRequest
<1>3. index \in Nat
  BY DEF CompletionAggregate
<1>4. next = [old EXCEPT !.failed = failed, !.complete = final,
                         !.nextFragmentIndex = index,
                         !.noticeEmitted = emitted]
  BY Zenon DEF ResolvedAggregate
<1> SUFFICES next \in CompletionAggregate /\ next.work = old.work
  OBVIOUS
<1> HIDE DEF failed, final, index, emitted, next
<1> QED BY <1>1, <1>2, <1>3, <1>4 DEF CompletionAggregate

LEMMA SlotAfterResult ==
  ASSUME NEW slot \in LedgerSlot, NEW outcome \in DownstreamOutcome
  PROVE  /\ ResolvedSlot(slot, outcome) \in LedgerSlot
         /\ ResolvedSlot(slot, outcome).aggregate.work = slot.aggregate.work
<1> DEFINE aggregate ==
             ResolvedAggregate(slot.issuedRequest, outcome, slot.aggregate)
           observed == CombineWorkOutcomes(slot.observedOutcome, outcome)
           next == ResolvedSlot(slot, outcome)
<1>1. aggregate \in CompletionAggregate /\ aggregate.work = slot.aggregate.work
  BY AggregateAfterResult DEF LedgerSlot
<1>2. observed \in WorkCompletionOutcome
  BY DEF CombineWorkOutcomes, WorkOutcomeFor, WorkCompletionOutcome
<1>3. next = [slot EXCEPT !.aggregate = aggregate,
                          !.observedOutcome = observed,
                          !.outstandingRequests = 0,
                          !.issuedRequest = NoWrite]
  BY Zenon DEF ResolvedSlot
<1> SUFFICES /\ next \in LedgerSlot
             /\ next.aggregate.work = slot.aggregate.work
  OBVIOUS
<1> HIDE DEF aggregate, observed, next
<1> QED BY <1>1, <1>2, <1>3, NoWriteTyped DEF LedgerSlot

LEMMA SlotAfterClose ==
  ASSUME NEW slot \in LedgerSlot
  PROVE  /\ [slot EXCEPT !.planningClosed = TRUE] \in LedgerSlot
         /\ [slot EXCEPT !.planningClosed = TRUE].aggregate = slot.aggregate
BY DEF LedgerSlot

-----------------------------------------------------------------------------
(* The inductive invariant. *)

SlotsInv ==
  /\ TypeOK
  /\ size = Cardinality(Occupied)
  /\ Distinct(Occupied, slots)

(* The represented ledger, before and after a step. *)
LEMMA LedgerIs ==
  /\ Ledger = LedgerOf(Occupied, slots)
  /\ Ledger' = LedgerOf(Occupied', slots')
  /\ \A work : Positions(work) = Find(Occupied, slots, work)
  /\ \A i : WorkAt(i) = At(slots, i)
BY DEF Ledger, LedgerOf, Admitted, At, Find, Positions, WorkAt

LEMMA IndexRange ==
  ASSUME TypeOK
  PROVE  /\ Indices \in SUBSET Nat /\ IsFiniteSet(Indices)
         /\ Cardinality(Indices) = (IF storage THEN LedgerCapacity ELSE 0)
         /\ Occupied \subseteq Indices /\ IsFiniteSet(Occupied)
         /\ Cardinality(Occupied) \in 0 .. LedgerCapacity
<1>1. LedgerCapacity \in Nat
  BY LedgerCapacityAssumption
<1>2. /\ IsFiniteSet(0 .. LedgerCapacity - 1)
      /\ Cardinality(0 .. LedgerCapacity - 1) = LedgerCapacity
  <2>1. 0 \in Int /\ LedgerCapacity - 1 \in Int
    BY <1>1
  <2>2. /\ IsFiniteSet(0 .. LedgerCapacity - 1)
        /\ Cardinality(0 .. LedgerCapacity - 1)
             = IF 0 > LedgerCapacity - 1 THEN 0 ELSE LedgerCapacity - 1 - 0 + 1
    BY <2>1, FS_Interval
  <2> QED BY <1>1, <2>2
<1>3. /\ Indices \in SUBSET Nat /\ IsFiniteSet(Indices)
      /\ Cardinality(Indices) = (IF storage THEN LedgerCapacity ELSE 0)
  BY <1>1, <1>2, FS_EmptySet DEF Indices
<1>4. Occupied \subseteq Indices
  BY DEF Occupied
<1>5. /\ IsFiniteSet(Occupied)
      /\ Cardinality(Occupied) <= Cardinality(Indices)
  BY <1>3, <1>4, FS_Subset
<1>6. Cardinality(Occupied) \in Nat
  BY <1>5, FS_CardinalityType
<1> QED BY <1>1, <1>3, <1>4, <1>5, <1>6

(* A call sees of its work what the ledger holds. *)
LEMMA SeenIsLedger ==
  ASSUME SlotsInv, NEW work
  PROVE  /\ work \in DOMAIN Seen(work) <=> work \in DOMAIN Ledger
         /\ work \in DOMAIN Ledger <=> Positions(work) # {}
         /\ work \in DOMAIN Ledger =>
              LET p == First(Positions(work))
              IN  /\ p \in Occupied /\ WorkAt(p) = work
                  /\ Ledger[work] = slots[p].state
                  /\ Seen(work)[work] = Ledger[work]
                  /\ Ledger[work] \in LedgerSlot
                  /\ Ledger[work].aggregate.work = work
<1> DEFINE p == First(Positions(work))
<1>1. Distinct(Occupied, slots)
  BY DEF SlotsInv
<1>2. work \in DOMAIN Ledger <=> Positions(work) # {}
  BY <1>1, LedgerIs, Represented
<1>3. work \in DOMAIN Seen(work) <=> Positions(work) # {}
  BY DEF Seen, Positions
<1>4. ASSUME Positions(work) # {}
      PROVE  /\ p \in Occupied /\ WorkAt(p) = work
             /\ Ledger[work] = slots[p].state
             /\ Seen(work)[work] = Ledger[work]
             /\ Ledger[work] \in LedgerSlot
             /\ Ledger[work].aggregate.work = work
  <2>1. p \in Occupied /\ At(slots, p) = work
    BY <1>1, <1>4, LedgerIs, Found
  <2>2. Ledger[work] = slots[p].state
    BY <1>1, <2>1, LedgerIs, Represented
  <2>3. work \in DOMAIN Seen(work)
    BY <1>3, <1>4
  <2>4. Seen(work)[work] = slots[p].state
    BY <2>3 DEF Seen
  <2>5. slots[p].state \in LedgerSlot
    BY <2>1 DEF SlotsInv, TypeOK, Occupied
  <2> QED BY <2>1, <2>2, <2>4, <2>5 DEF At, WorkAt
<1> QED BY <1>2, <1>3, <1>4

-----------------------------------------------------------------------------
(* What the steps do to the array and to the represented ledger. *)

(* A call records the new state of a work it found. *)
LEMMA UpdateStep ==
  ASSUME SlotsInv, NEW work, Positions(work) # {},
         NEW new \in LedgerSlot, new.aggregate.work = work,
         Update(work, new)
  PROVE  SlotsInv' /\ Ledger' = [Ledger EXCEPT ![work] = new]
<1>1. PICK p : p = First(Positions(work))
  OBVIOUS
<1>2. p \in Occupied /\ At(slots, p) = work
  BY <1>1, SeenIsLedger, LedgerIs
<1>3. /\ slots' = [slots EXCEPT ![p].state = new]
      /\ storage' = storage /\ size' = size
  BY <1>1 DEF Update
<1>4. TypeOK /\ size = Cardinality(Occupied) /\ Distinct(Occupied, slots)
  BY DEF SlotsInv
<1>5. slots \in [Indices -> [occupied : BOOLEAN, state : LedgerSlot]]
  BY <1>4 DEF TypeOK
<1>6. p \in Indices /\ slots[p].occupied
  BY <1>2 DEF Occupied
<1>7. Indices' = Indices
  BY <1>3 DEF Indices
<1>8. /\ slots' \in [Indices -> [occupied : BOOLEAN, state : LedgerSlot]]
      /\ slots'[p].occupied /\ slots'[p].state = new
      /\ \A i \in Indices \ {p} : slots'[i] = slots[i]
  <2>1. PICK s : s = slots[p] /\ s \in [occupied : BOOLEAN, state : LedgerSlot]
    BY <1>5, <1>6
  <2>2. PICK t : t = [s EXCEPT !.state = new]
    OBVIOUS
  <2>3. /\ t \in [occupied : BOOLEAN, state : LedgerSlot]
        /\ t.occupied = s.occupied /\ t.state = new
    BY <2>1, <2>2
  <2>4. slots' = [slots EXCEPT ![p] = t]
    BY <1>3, <2>1, <2>2, Zenon
  <2>5. slots'[p] = t
    BY <1>5, <1>6, <2>4
  <2> QED BY <1>5, <1>6, <2>1, <2>3, <2>4, <2>5
<1>9. Occupied' = Occupied
  BY <1>6, <1>7, <1>8 DEF Occupied
<1>10. TypeOK'
  <2>1. \A i \in Indices \ Occupied : slots'[i] = EmptySlot
    BY <1>2, <1>4, <1>8 DEF TypeOK
  <2> QED BY <1>3, <1>4, <1>7, <1>8, <1>9, <2>1 DEF TypeOK
<1>11. At(slots', p) = work
  BY <1>8 DEF At
<1>12. \A i \in Occupied \ {p} : slots'[i] = slots[i]
  BY <1>8 DEF Occupied
<1>13. /\ Distinct(Occupied, slots')
       /\ LedgerOf(Occupied, slots')
            = [LedgerOf(Occupied, slots) EXCEPT ![work] = new]
  <2>1. PICK occ, sl, tl : occ = Occupied /\ sl = slots /\ tl = slots'
    OBVIOUS
  <2>2. /\ Distinct(occ, sl) /\ p \in occ
        /\ \A i \in occ \ {p} : tl[i] = sl[i]
        /\ At(tl, p) = At(sl, p)
    BY <1>2, <1>4, <1>11, <1>12, <2>1
  <2>3. /\ Distinct(occ, tl)
        /\ LedgerOf(occ, tl)
             = [LedgerOf(occ, sl) EXCEPT ![At(sl, p)] = tl[p].state]
    BY <2>2, RepresentsUpdate
  <2>4. At(sl, p) = work /\ tl[p].state = new
    BY <1>2, <1>8, <2>1
  <2> QED BY <2>1, <2>3, <2>4
<1>14. Cardinality(Occupied)' = Cardinality(Occupied)
  BY <1>9
<1>15. SlotsInv'
  BY <1>3, <1>4, <1>9, <1>10, <1>13, <1>14 DEF SlotsInv
<1> QED BY <1>9, <1>13, <1>15, LedgerIs

(* Slots are emptied, whichever they are. *)
LEMMA ReleaseStep ==
  ASSUME SlotsInv, NEW gone \in SUBSET Occupied, ReleaseSlots(gone)
  PROVE  /\ SlotsInv'
         /\ Ledger' = WithoutWorks(Ledger, Admitted(gone, slots))
<1>1. /\ slots' = [i \in Indices |-> IF i \in gone THEN EmptySlot ELSE slots[i]]
      /\ size' = size - Cardinality(gone) /\ storage' = storage
  BY DEF ReleaseSlots
<1>2. TypeOK /\ size = Cardinality(Occupied) /\ Distinct(Occupied, slots)
  BY DEF SlotsInv
<1>3. Indices' = Indices
  BY <1>1 DEF Indices
<1>4. EmptySlot \in [occupied : BOOLEAN, state : LedgerSlot]
      /\ EmptySlot.occupied = FALSE
  <2>1. "Rejected" \in IngressDelivery
    BY DEF IngressDelivery
  <2> QED BY <2>1, FreshSlot, NoWriteTyped DEF EmptySlot
<1>5. /\ slots' \in [Indices -> [occupied : BOOLEAN, state : LedgerSlot]]
      /\ \A i \in gone : slots'[i] = EmptySlot
      /\ \A i \in Indices \ gone : slots'[i] = slots[i]
  BY <1>1, <1>2, <1>4 DEF TypeOK, Occupied
<1>6. Occupied' = Occupied \ gone
  BY <1>3, <1>4, <1>5 DEF Occupied
<1>7. /\ Cardinality(Occupied \ gone) = Cardinality(Occupied) - Cardinality(gone)
      /\ Cardinality(Occupied \ gone) \in 0 .. LedgerCapacity
  <2>1. IsFiniteSet(Occupied) /\ Cardinality(Occupied) \in 0 .. LedgerCapacity
    BY <1>2, IndexRange
  <2>2. Occupied \cap gone = gone
    OBVIOUS
  <2>3. /\ IsFiniteSet(gone) /\ IsFiniteSet(Occupied \ gone)
        /\ Cardinality(Occupied \ gone)
             = Cardinality(Occupied) - Cardinality(gone)
    BY <2>1, <2>2, FS_Difference, FS_Subset
  <2>4. Cardinality(gone) \in Nat /\ Cardinality(Occupied \ gone) \in Nat
    BY <2>3, FS_CardinalityType
  <2> QED BY <2>1, <2>3, <2>4, LedgerCapacityAssumption
<1>8. size' = Cardinality(Occupied \ gone)
  BY <1>1, <1>2, <1>7
<1>9. TypeOK'
  <2>1. \A i \in Indices \ (Occupied \ gone) : slots'[i] = EmptySlot
    BY <1>2, <1>5 DEF TypeOK
  <2>2. storage' \in BOOLEAN
    BY <1>1, <1>2 DEF TypeOK
  <2> QED BY <1>3, <1>5, <1>6, <1>7, <1>8, <2>1, <2>2 DEF TypeOK
<1>10. /\ Distinct(Occupied \ gone, slots')
       /\ LedgerOf(Occupied \ gone, slots')
            = WithoutWorks(LedgerOf(Occupied, slots), Admitted(gone, slots))
  <2>1. PICK occ, sl, tl : occ = Occupied /\ sl = slots /\ tl = slots'
    OBVIOUS
  <2>2. /\ Distinct(occ, sl) /\ gone \in SUBSET occ
        /\ \A i \in occ \ gone : tl[i] = sl[i]
    BY <1>2, <1>5, <2>1 DEF Occupied
  <2>3. /\ Distinct(occ \ gone, tl)
        /\ LedgerOf(occ \ gone, tl)
             = WithoutWorks(LedgerOf(occ, sl), Admitted(gone, sl))
    BY <2>2, RepresentsRelease
  <2> QED BY <2>1, <2>3
<1>11. SlotsInv'
  BY <1>6, <1>8, <1>9, <1>10 DEF SlotsInv
<1> QED BY <1>6, <1>10, <1>11, LedgerIs

(* A free slot is taken. *)
LEMMA ReserveStep ==
  ASSUME SlotsInv, NEW work \in WorkIdentity, NEW delivery \in IngressDelivery,
         ReserveWork(work, delivery)
  PROVE  SlotsInv' /\ Ledger' = Reserve(Ledger, work, delivery)
<1>1. /\ ValidWork(work) /\ Positions(work) = {}
      /\ Indices \ Occupied # {}
  BY DEF ReserveWork, SlotReserveStatus
<1>2. TypeOK /\ size = Cardinality(Occupied) /\ Distinct(Occupied, slots)
  BY DEF SlotsInv
<1>3. PICK p : p = First(Indices \ Occupied)
  OBVIOUS
<1>4. p \in Indices \ Occupied /\ p \in Nat
  BY <1>1, <1>2, <1>3, IndexRange, FirstIsOne
<1>5. PICK fresh : /\ fresh = NewSlot(work, delivery)
                   /\ fresh \in LedgerSlot
                   /\ fresh.aggregate.work = work
  BY FreshSlot
<1>6. /\ slots' = [slots EXCEPT ![p] = OccupiedSlot(fresh)]
      /\ size' = size + 1 /\ storage' = storage
  BY <1>3, <1>5 DEF ReserveWork
<1>7. Indices' = Indices
  BY <1>6 DEF Indices
<1>8. /\ slots' \in [Indices -> [occupied : BOOLEAN, state : LedgerSlot]]
      /\ slots'[p].occupied /\ slots'[p].state = fresh
      /\ \A i \in Indices \ {p} : slots'[i] = slots[i]
  <2>1. /\ OccupiedSlot(fresh) \in [occupied : BOOLEAN, state : LedgerSlot]
        /\ OccupiedSlot(fresh).occupied /\ OccupiedSlot(fresh).state = fresh
    BY <1>5 DEF OccupiedSlot
  <2> QED BY <1>2, <1>4, <1>6, <2>1 DEF TypeOK
<1>9. Occupied' = Occupied \cup {p}
  <2>1. Occupied' = {i \in Indices : slots'[i].occupied}
    BY <1>7 DEF Occupied
  <2>2. \A i \in Indices : slots'[i].occupied <=> (i \in Occupied \/ i = p)
    <3>1. ASSUME NEW i \in Indices, i # p
          PROVE  slots'[i].occupied <=> i \in Occupied
      BY <1>8, <3>1, Zenon DEF Occupied
    <3>2. slots'[p].occupied
      BY <1>8
    <3> QED BY <3>1, <3>2
  <2> QED BY <1>4, <2>1, <2>2 DEF Occupied
<1>10. /\ Cardinality(Occupied \cup {p}) = Cardinality(Occupied) + 1
       /\ Cardinality(Occupied \cup {p}) \in 0 .. LedgerCapacity
  <2>1. /\ IsFiniteSet(Occupied) /\ Cardinality(Occupied) \in Nat
        /\ IsFiniteSet(Indices) /\ Cardinality(Indices) \in Nat
        /\ Cardinality(Indices) <= LedgerCapacity
    BY <1>2, IndexRange, LedgerCapacityAssumption
  <2>2. Cardinality(Occupied \cup {p}) = Cardinality(Occupied) + 1
    BY <1>4, <2>1, FS_AddElement
  <2>3. Occupied \cup {p} \subseteq Indices
    BY <1>4 DEF Occupied
  <2>4. Cardinality(Occupied \cup {p}) <= Cardinality(Indices)
    BY <2>1, <2>3, FS_Subset
  <2> QED BY <2>1, <2>2, <2>4, LedgerCapacityAssumption
<1>11. size' = Cardinality(Occupied \cup {p})
  BY <1>2, <1>6, <1>10
<1>12. TypeOK'
  <2>1. \A i \in Indices \ (Occupied \cup {p}) : slots'[i] = EmptySlot
    BY <1>2, <1>8 DEF TypeOK
  <2>2. storage' \in BOOLEAN
    BY <1>2, <1>6 DEF TypeOK
  <2> QED BY <1>7, <1>8, <1>9, <1>10, <1>11, <2>1, <2>2 DEF TypeOK
<1>13. /\ Distinct(Occupied \cup {p}, slots')
       /\ LedgerOf(Occupied \cup {p}, slots')
            = [w \in DOMAIN LedgerOf(Occupied, slots) \cup {work} |->
                 IF w = work THEN fresh ELSE LedgerOf(Occupied, slots)[w]]
  <2>1. PICK occ, sl, tl : occ = Occupied /\ sl = slots /\ tl = slots'
    OBVIOUS
  <2>2. At(tl, p) = work /\ tl[p].state = fresh
    BY <1>5, <1>8, <2>1 DEF At
  <2>3. /\ Distinct(occ, sl) /\ p \in Nat \ occ
        /\ \A i \in occ : tl[i] = sl[i]
        /\ ValidWork(At(tl, p)) /\ Find(occ, sl, At(tl, p)) = {}
    <3>1. Find(occ, sl, work) = {}
      BY <1>1, <2>1, LedgerIs
    <3>2. \A i \in occ : tl[i] = sl[i]
      BY <1>4, <1>8, <2>1 DEF Occupied
    <3> QED BY <1>1, <1>2, <1>4, <2>1, <2>2, <3>1, <3>2
  <2>4. /\ Distinct(occ \cup {p}, tl)
        /\ LedgerOf(occ \cup {p}, tl)
             = [w \in DOMAIN LedgerOf(occ, sl) \cup {At(tl, p)} |->
                  IF w = At(tl, p) THEN tl[p].state ELSE LedgerOf(occ, sl)[w]]
    BY <2>3, RepresentsReserve
  <2> QED BY <2>1, <2>2, <2>4
<1>14. SlotsInv'
  BY <1>9, <1>11, <1>12, <1>13 DEF SlotsInv
<1> QED BY <1>5, <1>9, <1>13, <1>14, LedgerIs DEF Reserve

-----------------------------------------------------------------------------
(* Each call, on the array and on the represented ledger. *)

LEMMA IssueStep ==
  ASSUME SlotsInv, NEW request \in Requests, RecordIssue(request)
  PROVE  /\ SlotsInv'
         /\ Ledger' = RecordIssued(Ledger, request)
<1>1. PICK work : work = request.work
  OBVIOUS
<1>2. request \in PlannedWriteRequest
  BY SlotsAssumption
<1>3. work \in DOMAIN Seen(work)
  BY <1>1 DEF RecordIssue, IssueStatus
<1>4. /\ Positions(work) # {} /\ Seen(work)[work] = Ledger[work]
      /\ Ledger[work] \in LedgerSlot /\ Ledger[work].aggregate.work = work
  BY <1>3, SeenIsLedger
<1>5. PICK new : new = IssuedSlot(Ledger[work], request)
  OBVIOUS
<1>6. new \in LedgerSlot /\ new.aggregate.work = work
  BY <1>2, <1>4, <1>5, SlotAfterIssue
<1>7. Update(work, new)
  BY <1>1, <1>4, <1>5 DEF RecordIssue
<1>8. SlotsInv' /\ Ledger' = [Ledger EXCEPT ![work] = new]
  BY <1>4, <1>6, <1>7, UpdateStep
<1> QED BY <1>1, <1>5, <1>8 DEF RecordIssued

LEMMA ResolveStep ==
  ASSUME SlotsInv, NEW request \in Requests, NEW outcome \in DownstreamOutcome,
         NEW session \in Sessions, ResolveRequest(request, outcome, session)
  PROVE  /\ SlotsInv'
         /\ Ledger' = Resolve(Ledger, request, outcome)
<1>1. PICK work : work = request.work
  OBVIOUS
<1>2. work \in DOMAIN Seen(work)
  BY <1>1 DEF ResolveRequest, ResolveStatus
<1>3. /\ Positions(work) # {} /\ Seen(work)[work] = Ledger[work]
      /\ Ledger[work] \in LedgerSlot /\ Ledger[work].aggregate.work = work
  BY <1>2, SeenIsLedger
<1>4. PICK new : new = ResolvedSlot(Ledger[work], outcome)
  OBVIOUS
<1>5. new \in LedgerSlot /\ new.aggregate.work = work
  BY <1>3, <1>4, SlotAfterResult
<1>6. Update(work, new)
  BY <1>1, <1>3, <1>4 DEF ResolveRequest
<1>7. SlotsInv' /\ Ledger' = [Ledger EXCEPT ![work] = new]
  BY <1>3, <1>5, <1>6, UpdateStep
<1> QED BY <1>1, <1>4, <1>7 DEF Resolve

LEMMA CloseStep ==
  ASSUME SlotsInv, NEW work \in Works, ClosePlanning(work)
  PROVE  /\ SlotsInv'
         /\ Ledger' = ClosePlanningAfterFailure(Ledger, work)
<1>1. /\ Positions(work) # {} /\ Failed(Seen(work)[work])
      /\ Update(work, [Seen(work)[work] EXCEPT !.planningClosed = TRUE])
  BY DEF ClosePlanning
<1>2. /\ work \in DOMAIN Ledger /\ Seen(work)[work] = Ledger[work]
      /\ Ledger[work] \in LedgerSlot /\ Ledger[work].aggregate.work = work
  BY <1>1, SeenIsLedger
<1>3. PICK new : new = [Ledger[work] EXCEPT !.planningClosed = TRUE]
  OBVIOUS
<1>4. new \in LedgerSlot /\ new.aggregate.work = work
  BY <1>2, <1>3, SlotAfterClose
<1>5. Update(work, new)
  BY <1>1, <1>2, <1>3
<1>6. SlotsInv' /\ Ledger' = [Ledger EXCEPT ![work] = new]
  BY <1>1, <1>4, <1>5, UpdateStep
<1> QED BY <1>1, <1>2, <1>3, <1>6 DEF ClosePlanningAfterFailure

(* One work is released or abandoned. *)
LEMMA LeaveStep ==
  ASSUME SlotsInv, NEW work, Positions(work) # {},
         ReleaseSlots({First(Positions(work))})
  PROVE  /\ SlotsInv'
         /\ Ledger' = WithoutWorks(Ledger, {work})
<1>1. PICK gone : gone = {First(Positions(work))}
  OBVIOUS
<1>2. gone \in SUBSET Occupied /\ \A i \in gone : At(slots, i) = work
  BY <1>1, SeenIsLedger, LedgerIs
<1>3. SlotsInv' /\ Ledger' = WithoutWorks(Ledger, Admitted(gone, slots))
  BY <1>1, <1>2, ReleaseStep
<1>4. Admitted(gone, slots) = {work}
  BY <1>1, <1>2 DEF Admitted
<1> QED BY <1>3, <1>4

(* The works in the occupied slots are those of the ledger. *)
LEMMA AdmittedWorks ==
  ASSUME SlotsInv
  PROVE  /\ DOMAIN Ledger = Admitted(Occupied, slots)
         /\ \A i \in Occupied : WorkAt(i) \in DOMAIN Ledger
<1>1. Distinct(Occupied, slots)
  BY DEF SlotsInv
<1>2. DOMAIN Ledger = Admitted(Occupied, slots)
  BY <1>1, LedgerIs, Represented
<1>3. \A i \in Occupied : WorkAt(i) \in Admitted(Occupied, slots)
  BY DEF Admitted, At, WorkAt
<1> QED BY <1>2, <1>3

(* The works that a condition on their identities selects leave together. *)
LEMMA LeaveTogether ==
  ASSUME SlotsInv, NEW leaving, NEW gone,
         gone = {i \in Occupied : WorkAt(i) \in leaving},
         ReleaseSlots(gone)
  PROVE  /\ SlotsInv'
         /\ Ledger' = WithoutWorks(Ledger, DOMAIN Ledger \cap leaving)
<1>1. SlotsInv' /\ Ledger' = WithoutWorks(Ledger, Admitted(gone, slots))
  BY ReleaseStep
<1>2. DOMAIN Ledger = Admitted(Occupied, slots)
  BY AdmittedWorks
<1>3. Admitted(gone, slots) = DOMAIN Ledger \cap leaving
  BY <1>2, LedgerIs DEF Admitted
<1> QED BY <1>1, <1>3

LEMMA GenerationStep ==
  ASSUME SlotsInv, NEW generation, AbandonOneGeneration(generation)
  PROVE  /\ SlotsInv'
         /\ Ledger' = AbandonGeneration(Ledger, generation)
<1>1. PICK gone :
        gone = {i \in Occupied : WorkAt(i).sessionGeneration = generation}
  OBVIOUS
<1>2. PICK leaving :
        leaving = {w \in DOMAIN Ledger :
                     generation # 0 /\ w.sessionGeneration = generation}
  OBVIOUS
<1>3. ReleaseSlots(gone) /\ generation # 0
  BY <1>1 DEF AbandonOneGeneration
<1>4. \A i \in Occupied : WorkAt(i) \in DOMAIN Ledger
  BY AdmittedWorks
<1>5. gone = {i \in Occupied : WorkAt(i) \in leaving}
  BY <1>1, <1>2, <1>3, <1>4
<1>6. SlotsInv' /\ Ledger' = WithoutWorks(Ledger, DOMAIN Ledger \cap leaving)
  BY <1>3, <1>5, LeaveTogether
<1>7. DOMAIN Ledger \cap leaving = leaving
  BY <1>2
<1> QED BY <1>2, <1>6, <1>7 DEF AbandonGeneration

LEMMA StaleStep ==
  ASSUME SlotsInv, NEW session, AbandonStale(session)
  PROVE  /\ SlotsInv'
         /\ Ledger' = AbandonNotCurrent(Ledger, session)
<1>1. PICK gone :
        gone = {i \in Occupied : ~WorkCurrent(WorkAt(i), session)}
  OBVIOUS
<1>2. PICK leaving :
        leaving = {w \in DOMAIN Ledger : ~WorkCurrent(w, session)}
  OBVIOUS
<1>3. ReleaseSlots(gone)
  BY <1>1 DEF AbandonStale
<1>4. \A i \in Occupied : WorkAt(i) \in DOMAIN Ledger
  BY AdmittedWorks
<1>5. gone = {i \in Occupied : WorkAt(i) \in leaving}
  BY <1>1, <1>2, <1>4
<1>6. SlotsInv' /\ Ledger' = WithoutWorks(Ledger, DOMAIN Ledger \cap leaving)
  BY <1>3, <1>5, LeaveTogether
<1>7. DOMAIN Ledger \cap leaving = leaving
  BY <1>2
<1> QED BY <1>2, <1>6, <1>7 DEF AbandonNotCurrent

LEMMA ClearStep ==
  ASSUME SlotsInv, Clear
  PROVE  /\ SlotsInv'
         /\ Ledger' = WithoutWorks(Ledger, DOMAIN Ledger)
<1>1. PICK gone : gone = Occupied
  OBVIOUS
<1>2. /\ slots' = [i \in Indices |-> EmptySlot] /\ size' = 0
      /\ storage' = storage
  BY DEF Clear
<1>3. TypeOK /\ size = Cardinality(Occupied)
  BY DEF SlotsInv
<1>4. slots' = [i \in Indices |-> IF i \in gone THEN EmptySlot ELSE slots[i]]
  BY <1>1, <1>2, <1>3 DEF TypeOK
<1>5. size' = size - Cardinality(gone)
  BY <1>1, <1>2, <1>3, IndexRange
<1>6. ReleaseSlots(gone)
  BY <1>2, <1>4, <1>5 DEF ReleaseSlots
<1>7. PICK leaving : leaving = DOMAIN Ledger
  OBVIOUS
<1>8. \A i \in Occupied : WorkAt(i) \in DOMAIN Ledger
  BY AdmittedWorks
<1>9. gone = {i \in Occupied : WorkAt(i) \in leaving}
  BY <1>1, <1>7, <1>8
<1>10. SlotsInv' /\ Ledger' = WithoutWorks(Ledger, DOMAIN Ledger \cap leaving)
  BY <1>6, <1>9, LeaveTogether
<1> QED BY <1>7, <1>10

-----------------------------------------------------------------------------
(* The operators of the specification are those of the array's module. *)

LEMMA SameStatuses ==
  /\ \A work, delivery :
       Calls!ReserveStatus(Ledger, work, delivery)
         = ReserveStatus(Ledger, work, delivery)
  /\ \A request :
       Calls!IssueStatus(Ledger, request) = IssueStatus(Ledger, request)
  /\ \A request, observed, session :
       Calls!ResolveStatus(Ledger, request, observed, session)
         = ResolveStatus(Ledger, request, observed, session)
  /\ \A request, outcome :
       Calls!Observed(request, outcome) = Observed(request, outcome)
<1>1. \A work : Calls!ValidWork(work) = ValidWork(work)
  BY DEF Calls!ValidWork, ValidWork
<1>2. \A delivery : Calls!IsAccepted(delivery) = IsAccepted(delivery)
  BY DEF Calls!IsAccepted, IsAccepted
<1>3. \A request : Calls!ValidRequest(request) = ValidRequest(request)
  BY <1>1 DEF Calls!ValidRequest, ValidRequest
<1>4. \A aggregate : Calls!ValidAggregate(aggregate) = ValidAggregate(aggregate)
  BY <1>1, <1>2 DEF Calls!ValidAggregate, ValidAggregate
<1>5. \A work, session :
        Calls!WorkCurrent(work, session) = WorkCurrent(work, session)
  BY <1>1 DEF Calls!WorkCurrent, WorkCurrent
<1>6. \A a, b : Calls!SameRequestIdentity(a, b) = SameRequestIdentity(a, b)
  BY DEF Calls!SameRequestIdentity, SameRequestIdentity
<1>7. Calls!DownstreamOutcome = DownstreamOutcome
  BY DEF Calls!DownstreamOutcome, DownstreamOutcome
<1>8. \A expected, observed, session, aggregate :
        Calls!ResolutionStatus(expected, observed, session, aggregate)
          = ResolutionStatus(expected, observed, session, aggregate)
  BY <1>3, <1>4, <1>5, <1>6, <1>7
  DEF Calls!ResolutionStatus, ResolutionStatus
<1>9. \A work, delivery :
        Calls!ReserveStatus(Ledger, work, delivery)
          = ReserveStatus(Ledger, work, delivery)
  <2>1. \A S : Calls!Cardinality(S) = Cardinality(S)
    BY Zenon DEF Calls!Cardinality, Cardinality
  <2> QED BY <1>1, <1>2, <2>1 DEF Calls!ReserveStatus, ReserveStatus
<1>10. \A request :
         Calls!IssueStatus(Ledger, request) = IssueStatus(Ledger, request)
  BY <1>2, <1>3, Zenon DEF Calls!IssueStatus, IssueStatus
<1>11. \A request, observed, session :
         Calls!ResolveStatus(Ledger, request, observed, session)
           = ResolveStatus(Ledger, request, observed, session)
  BY <1>7, <1>8, Zenon DEF Calls!ResolveStatus, ResolveStatus
<1>12. \A request, outcome :
         Calls!Observed(request, outcome) = Observed(request, outcome)
  BY Zenon DEF Calls!Observed, Observed
<1> QED BY <1>9, <1>10, <1>11, <1>12

LEMMA SameEffects ==
  /\ \A work, delivery :
       Calls!Reserve(Ledger, work, delivery) = Reserve(Ledger, work, delivery)
  /\ \A request :
       Calls!RecordIssued(Ledger, request) = RecordIssued(Ledger, request)
  /\ \A request, outcome :
       Calls!Resolve(Ledger, request, outcome)
         = Resolve(Ledger, request, outcome)
  /\ \A work :
       /\ Calls!ClosePlanningAfterFailure(Ledger, work)
            = ClosePlanningAfterFailure(Ledger, work)
       /\ Calls!Release(Ledger, work) = Release(Ledger, work)
       /\ Calls!Abandon(Ledger, work) = Abandon(Ledger, work)
  /\ \A works :
       Calls!WithoutWorks(Ledger, works) = WithoutWorks(Ledger, works)
  /\ \A generation :
       Calls!AbandonGeneration(Ledger, generation)
         = AbandonGeneration(Ledger, generation)
  /\ \A session :
       Calls!AbandonNotCurrent(Ledger, session)
         = AbandonNotCurrent(Ledger, session)
<1>1. \A work, delivery : Calls!NewSlot(work, delivery) = NewSlot(work, delivery)
  BY Zenon DEF Calls!NewSlot, NewSlot, Calls!NewAggregate, NewAggregate,
               Calls!NoWrite, NoWrite, Calls!NoWork, NoWork
<1>2. \A slot, request : Calls!IssuedSlot(slot, request) = IssuedSlot(slot, request)
  BY Zenon DEF Calls!IssuedSlot, IssuedSlot
<1>3. \A slot, outcome :
        Calls!ResolvedSlot(slot, outcome) = ResolvedSlot(slot, outcome)
  BY Zenon DEF Calls!ResolvedSlot, ResolvedSlot, Calls!NoWrite, NoWrite,
               Calls!NoWork, NoWork, Calls!ResolvedAggregate, ResolvedAggregate,
               Calls!ResolutionNotice, ResolutionNotice,
               Calls!TracksPublicCompletion, TracksPublicCompletion,
               Calls!CombineWorkOutcomes, CombineWorkOutcomes,
               Calls!WorkOutcomeFor, WorkOutcomeFor
<1>4. \A works : Calls!WithoutWorks(Ledger, works) = WithoutWorks(Ledger, works)
  BY Zenon DEF Calls!WithoutWorks, WithoutWorks
<1>5. \A slot : /\ Calls!Failed(slot) = Failed(slot)
                /\ Calls!Drained(slot) = Drained(slot)
  BY Zenon DEF Calls!Failed, Failed, Calls!Drained, Drained
<1>6. \A work, session :
        Calls!WorkCurrent(work, session) = WorkCurrent(work, session)
  BY Zenon DEF Calls!WorkCurrent, WorkCurrent, Calls!ValidWork, ValidWork
<1>7. \A work, delivery :
        Calls!Reserve(Ledger, work, delivery) = Reserve(Ledger, work, delivery)
  BY <1>1, Zenon DEF Calls!Reserve, Reserve
<1>8. \A request :
        Calls!RecordIssued(Ledger, request) = RecordIssued(Ledger, request)
  BY <1>2, Zenon DEF Calls!RecordIssued, RecordIssued
<1>9. \A request, outcome :
        Calls!Resolve(Ledger, request, outcome)
          = Resolve(Ledger, request, outcome)
  BY <1>3, Zenon DEF Calls!Resolve, Resolve
<1>10. \A work :
         /\ Calls!ClosePlanningAfterFailure(Ledger, work)
              = ClosePlanningAfterFailure(Ledger, work)
         /\ Calls!Release(Ledger, work) = Release(Ledger, work)
         /\ Calls!Abandon(Ledger, work) = Abandon(Ledger, work)
  BY <1>4, <1>5, Zenon
  DEF Calls!ClosePlanningAfterFailure, ClosePlanningAfterFailure,
      Calls!Release, Release, Calls!Abandon, Abandon
<1>11. \A generation :
         Calls!AbandonGeneration(Ledger, generation)
           = AbandonGeneration(Ledger, generation)
  BY <1>4, Zenon DEF Calls!AbandonGeneration, AbandonGeneration
<1>12. \A session :
         Calls!AbandonNotCurrent(Ledger, session)
           = AbandonNotCurrent(Ledger, session)
  BY <1>4, <1>6, Zenon DEF Calls!AbandonNotCurrent, AbandonNotCurrent
<1> QED BY <1>4, <1>7, <1>8, <1>9, <1>10, <1>11, <1>12

-----------------------------------------------------------------------------
(* The invariant. *)

LEMMA InitSlots ==
  ASSUME Init
  PROVE  SlotsInv /\ Calls!Init
<1>1. /\ EmptySlot \in [occupied : BOOLEAN, state : LedgerSlot]
      /\ EmptySlot.occupied = FALSE
  <2>1. "Rejected" \in IngressDelivery
    BY DEF IngressDelivery
  <2> QED BY <2>1, FreshSlot, NoWriteTyped DEF EmptySlot
<1>2. /\ slots \in [Indices -> [occupied : BOOLEAN, state : LedgerSlot]]
      /\ \A i \in Indices : slots[i] = EmptySlot
  BY <1>1 DEF Init
<1>3. Occupied = {}
  BY <1>1, <1>2 DEF Occupied
<1>4. SlotsInv
  BY <1>2, <1>3, FS_EmptySet, LedgerCapacityAssumption
  DEF SlotsInv, TypeOK, Init, Distinct
<1>5. Ledger = [w \in {} |-> NewSlot(NoWork, "Rejected")]
  <2>1. DOMAIN Ledger = {} /\ Mapping(Ledger)
    <3>1. Distinct(Occupied, slots)
      BY <1>4 DEF SlotsInv
    <3>2. Mapping(LedgerOf(Occupied, slots))
      BY <3>1, Represented
    <3>3. DOMAIN Ledger = Admitted(Occupied, slots)
      BY <1>4, AdmittedWorks
    <3>4. Admitted(Occupied, slots) = {}
      BY <1>3 DEF Admitted
    <3> QED BY <3>2, <3>3, <3>4, LedgerIs
  <2>2. PICK none : none = [w \in {} |-> NewSlot(NoWork, "Rejected")]
    OBVIOUS
  <2>3. Mapping(none) /\ DOMAIN none = {}
    BY <2>2 DEF Mapping
  <2>4. Ledger = none
    BY <2>1, <2>3, SameMapping
  <2> QED BY <2>2, <2>4
<1>6. [w \in {} |-> NewSlot(NoWork, "Rejected")]
        = [w \in {} |-> Calls!NewSlot(Calls!NoWork, "Rejected")]
  OBVIOUS
<1> QED BY <1>4, <1>5, <1>6 DEF Calls!Init

LEMMA StutterSlots ==
  ASSUME SlotsInv, UNCHANGED vars
  PROVE  SlotsInv' /\ Ledger' = Ledger
<1>1. storage' = storage /\ slots' = slots /\ size' = size
  BY DEF vars
<1>2. Indices' = Indices /\ Occupied' = Occupied
  BY <1>1 DEF Indices, Occupied
<1>3. Cardinality(Occupied)' = Cardinality(Occupied)
  BY <1>2
<1>4. TypeOK'
  BY <1>1, <1>2 DEF SlotsInv, TypeOK
<1>5. Distinct(Occupied, slots)'
  BY <1>1, <1>2 DEF SlotsInv, Distinct, At
<1> QED BY <1>1, <1>2, <1>3, <1>4, <1>5, LedgerIs DEF SlotsInv

(* A successful call answers from the ledger as it does from the array. *)
LEMMA SameAnswers ==
  ASSUME SlotsInv
  PROVE  AnswersFromArray
<1>1. ASSUME NEW work \in Works, NEW delivery \in Deliveries
      PROVE  SlotReserveStatus(work, delivery) =
               IF ~storage /\ LedgerCapacity # 0 THEN "InvalidStorage"
               ELSE ReserveStatus(Ledger, work, delivery)
  <2>1. ASSUME storage \/ LedgerCapacity = 0
        PROVE  Indices \ Occupied = {}
                 <=> Cardinality(DOMAIN Ledger) >= LedgerCapacity
    <3>1. /\ IsFiniteSet(Indices) /\ Cardinality(Indices) = LedgerCapacity
          /\ Occupied \in SUBSET Indices /\ IsFiniteSet(Occupied)
          /\ Cardinality(Occupied) \in 0 .. LedgerCapacity
      <4>1. TypeOK
        BY DEF SlotsInv
      <4>2. storage \in BOOLEAN
        BY <4>1 DEF TypeOK
      <4> QED BY <2>1, <4>1, <4>2, IndexRange
    <3>2. Cardinality(DOMAIN Ledger) = Cardinality(Occupied)
      <4>1. PICK occ, sl : occ = Occupied /\ sl = slots
        OBVIOUS
      <4>2. Distinct(occ, sl) /\ DOMAIN Ledger = Admitted(occ, sl)
        BY <4>1, AdmittedWorks DEF SlotsInv
      <4>3. PICK f : f = [i \in occ |-> At(sl, i)]
        OBVIOUS
      <4>4. f \in Surjection(occ, Admitted(occ, sl))
        BY <4>3 DEF Admitted, Surjection
      <4>5. f \in Injection(occ, Admitted(occ, sl))
        BY <4>2, <4>3 DEF Admitted, Injection, IsInjective, Distinct
      <4> QED BY <3>1, <4>1, <4>2, <4>4, <4>5, FS_Surjection
    <3>3. Cardinality(Occupied) >= LedgerCapacity
            => Cardinality(Occupied) = Cardinality(Indices)
      BY <3>1, LedgerCapacityAssumption
    <3>4. Cardinality(Occupied) = Cardinality(Indices) => Occupied = Indices
      BY <3>1, FS_Subset
    <3>5. Indices \ Occupied = {} => Occupied = Indices
      BY <3>1
    <3>6. Cardinality(Occupied) = Cardinality(Indices)
            => Cardinality(Occupied) >= LedgerCapacity
      BY <3>1, LedgerCapacityAssumption
    <3> QED BY <3>2, <3>3, <3>4, <3>5, <3>6
  <2>2. Positions(work) # {} <=> work \in DOMAIN Ledger
    BY SeenIsLedger
  <2> QED BY <2>1, <2>2 DEF SlotReserveStatus, ReserveStatus
<1>2. ASSUME NEW request \in Requests
      PROVE  /\ IssueStatus(Seen(request.work), request)
                  = IssueStatus(Ledger, request)
             /\ \A outcome \in DownstreamOutcome, session \in Sessions :
                  ResolveStatus(Seen(request.work), request,
                                Observed(request, outcome), session)
                  = ResolveStatus(Ledger, request, Observed(request, outcome),
                                  session)
  <2>1. PICK work, seen, all :
          work = request.work /\ seen = Seen(work) /\ all = Ledger
    OBVIOUS
  <2>2. /\ work \in DOMAIN seen <=> work \in DOMAIN all
        /\ work \in DOMAIN all => seen[work] = all[work]
    BY <2>1, SeenIsLedger
  <2>3. IssueStatus(seen, request) = IssueStatus(all, request)
    BY <2>1, <2>2 DEF IssueStatus
  <2>4. \A observed, session :
          ResolveStatus(seen, request, observed, session)
            = ResolveStatus(all, request, observed, session)
    BY <2>1, <2>2 DEF ResolveStatus
  <2> QED BY <2>1, <2>3, <2>4
<1> QED BY <1>1, <1>2 DEF AnswersFromArray

(* Every step keeps the invariant and is a step of the ledger. *)
LEMMA NextSlots ==
  ASSUME SlotsInv, Next
  PROVE  SlotsInv' /\ Calls!Next
<1>1. ASSUME NEW work \in Works, NEW delivery \in Deliveries,
             ReserveWork(work, delivery)
      PROVE  SlotsInv' /\ Calls!ReserveWork(work, delivery)
  <2>1. work \in WorkIdentity /\ delivery \in IngressDelivery
    BY SlotsAssumption
  <2>2. SlotsInv' /\ Ledger' = Reserve(Ledger, work, delivery)
    BY <1>1, <2>1, ReserveStep
  <2>3. SlotReserveStatus(work, delivery) = "Reserved"
    BY <1>1 DEF ReserveWork
  <2>4. SlotReserveStatus(work, delivery) =
          IF ~storage /\ LedgerCapacity # 0 THEN "InvalidStorage"
          ELSE ReserveStatus(Ledger, work, delivery)
    BY SameAnswers DEF AnswersFromArray
  <2>5. ReserveStatus(Ledger, work, delivery) = "Reserved"
    BY <2>3, <2>4
  <2>6. Calls!ReserveStatus(Ledger, work, delivery) = "Reserved"
    BY <2>5, SameStatuses
  <2> QED BY <2>2, <2>6, SameEffects DEF Calls!ReserveWork
<1>2. ASSUME NEW work \in Works, ClosePlanning(work)
      PROVE  /\ SlotsInv'
             /\ Ledger' = Calls!ClosePlanningAfterFailure(Ledger, work)
  BY <1>2, CloseStep, SameEffects
<1>3. ASSUME NEW work \in Works, ReleaseWork(work)
      PROVE  SlotsInv' /\ Ledger' = Calls!Release(Ledger, work)
  <2>1. /\ Positions(work) # {} /\ Drained(Seen(work)[work])
        /\ ReleaseSlots({First(Positions(work))})
    BY <1>3 DEF ReleaseWork
  <2>2. work \in DOMAIN Ledger /\ Drained(Ledger[work])
    BY <2>1, SeenIsLedger
  <2>3. SlotsInv' /\ Ledger' = WithoutWorks(Ledger, {work})
    BY <2>1, LeaveStep
  <2>4. Ledger' = Release(Ledger, work)
    BY <2>2, <2>3 DEF Release
  <2> QED BY <2>3, <2>4, SameEffects
<1>4. ASSUME NEW work \in Works, AbandonWork(work)
      PROVE  SlotsInv' /\ Ledger' = Calls!Abandon(Ledger, work)
  <2>1. Positions(work) # {} /\ ReleaseSlots({First(Positions(work))})
    BY <1>4 DEF AbandonWork
  <2>2. SlotsInv' /\ Ledger' = WithoutWorks(Ledger, {work})
    BY <2>1, LeaveStep
  <2>3. Ledger' = Abandon(Ledger, work)
    BY <2>2 DEF Abandon
  <2> QED BY <2>2, <2>3, SameEffects
<1>5. ASSUME NEW work \in Works, AbandonOneGeneration(work.sessionGeneration)
      PROVE  /\ SlotsInv'
             /\ Ledger' = Calls!AbandonGeneration(Ledger, work.sessionGeneration)
  BY <1>5, GenerationStep, SameEffects
<1>6. ASSUME NEW request \in Requests, RecordIssue(request)
      PROVE  SlotsInv' /\ Calls!RecordIssue(request)
  <2>1. SlotsInv' /\ Ledger' = RecordIssued(Ledger, request)
    BY <1>6, IssueStep
  <2>2. IssueStatus(Seen(request.work), request) = "Recorded"
    BY <1>6 DEF RecordIssue
  <2>3. IssueStatus(Ledger, request) = "Recorded"
    BY <2>2, SameAnswers DEF AnswersFromArray
  <2>4. Calls!IssueStatus(Ledger, request) = "Recorded"
    BY <2>3, SameStatuses
  <2> QED BY <2>1, <2>4, SameEffects DEF Calls!RecordIssue
<1>7. ASSUME NEW request \in Requests, NEW outcome \in DownstreamOutcome,
             NEW session \in Sessions, ResolveRequest(request, outcome, session)
      PROVE  SlotsInv' /\ Calls!ResolveRequest(request, outcome, session)
  <2>1. SlotsInv' /\ Ledger' = Resolve(Ledger, request, outcome)
    BY <1>7, ResolveStep
  <2>2. PICK observed : observed = Observed(request, outcome)
    OBVIOUS
  <2>3. ResolveStatus(Seen(request.work), request, observed, session)
          = "Resolved"
    BY <1>7, <2>2 DEF ResolveRequest
  <2>4. ResolveStatus(Ledger, request, observed, session) = "Resolved"
    BY <2>2, <2>3, SameAnswers DEF AnswersFromArray
  <2>5. /\ Calls!ResolveStatus(Ledger, request, observed, session) = "Resolved"
        /\ observed = Calls!Observed(request, outcome)
    BY <2>2, <2>4, SameStatuses
  <2> QED BY <2>1, <2>5, SameEffects DEF Calls!ResolveRequest
<1>8. ASSUME NEW session \in Sessions, AbandonStale(session)
      PROVE  SlotsInv' /\ Ledger' = Calls!AbandonNotCurrent(Ledger, session)
  BY <1>8, StaleStep, SameEffects
<1>9. ASSUME Clear
      PROVE  /\ SlotsInv'
             /\ Ledger' = Calls!WithoutWorks(Ledger, DOMAIN Ledger)
  BY <1>9, ClearStep, SameEffects
<1>10. Calls!DownstreamOutcome = DownstreamOutcome
  BY DEF Calls!DownstreamOutcome, DownstreamOutcome
<1>11. CASE \E work \in Works :
              \/ \E delivery \in Deliveries : ReserveWork(work, delivery)
              \/ ClosePlanning(work)
              \/ ReleaseWork(work)
              \/ AbandonWork(work)
              \/ AbandonOneGeneration(work.sessionGeneration)
  BY <1>1, <1>2, <1>3, <1>4, <1>5, <1>11, Zenon DEF Calls!Next
<1>12. CASE \E request \in Requests :
              \/ RecordIssue(request)
              \/ \E outcome \in DownstreamOutcome, session \in Sessions :
                   ResolveRequest(request, outcome, session)
  BY <1>6, <1>7, <1>10, <1>12, Zenon DEF Calls!Next
<1>13. CASE \E session \in Sessions : AbandonStale(session)
  BY <1>8, <1>13, Zenon DEF Calls!Next
<1>14. CASE Clear
  BY <1>9, <1>14, Zenon DEF Calls!Next
<1> QED BY <1>11, <1>12, <1>13, <1>14, Zenon DEF Next

LEMMA SlotsInvariant == Spec => []SlotsInv
<1>1. Init => SlotsInv
  BY InitSlots
<1>2. SlotsInv /\ [Next]_vars => SlotsInv'
  BY NextSlots, StutterSlots
<1> QED BY <1>1, <1>2, PTL DEF Spec

(* Every slot of the array holds a completion state, and a free one holds  *)
(* none, after any sequence of calls: reserve() overwrites nothing and     *)
(* releaseSlot() leaves nothing behind.                                    *)
THEOREM SlotTypes == Spec => []TypeOK
<1>1. SlotsInv => TypeOK
  BY DEF SlotsInv
<1> QED BY <1>1, SlotsInvariant, PTL

(* size_, which reserve(), releaseSlot() and clear() maintain by hand,     *)
(* always counts the occupied slots, and no identity occupies two.         *)
THEOREM CounterExact == Spec => []SizeCountsWorks
<1>1. SlotsInv => SizeCountsWorks
  BY LedgerIs DEF SlotsInv, SizeCountsWorks, Distinct
<1> QED BY <1>1, SlotsInvariant, PTL

(* With usable storage reserve(), recordIssued() and resolve() answer from *)
(* the array, searched by find() and firstFree(), what they would answer   *)
(* from the ledger it represents; without it no reservation succeeds.      *)
THEOREM AnswersExact == Spec => []AnswersFromArray
<1>1. SlotsInv => AnswersFromArray
  BY SameAnswers
<1> QED BY <1>1, SlotsInvariant, PTL

(* Every call of the array, the lifecycle teardowns and clear() included,  *)
(* is the same call of the partial function it represents: the facade and  *)
(* the runner, modelled over that function, lose nothing by it.            *)
THEOREM ArrayImplementsLedger == Spec => ImplementsLedger
<1>1. Init => Calls!Init
  BY InitSlots
<1>2. SlotsInv /\ [Next]_vars => [Calls!Next]_Ledger
  BY NextSlots, StutterSlots
<1> QED BY <1>1, <1>2, SlotsInvariant, PTL DEF Spec, ImplementsLedger, Calls!Spec
=============================================================================
