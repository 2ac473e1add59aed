------------------------- MODULE CachedForwardingProofs -------------------------
(***************************************************************************)
(* The cached image over the store-forward service, for every set of       *)
(* works, sessions and values, every image size and queue capacity: the    *)
(* applied image is what the devices hold, what a reader sees is the       *)
(* newest value owed to a register, and an announced success is complete.  *)
(***************************************************************************)
EXTENDS CachedForwarding, FiniteSetTheorems, TLAPS

-----------------------------------------------------------------------------
(* The range helpers of an image. *)

Addresses == 0 .. (Registers - 1)

Caches == [visible : Image, applied : Image]

LEMMA SizeIs ==
  ASSUME NEW image, DOMAIN image = Addresses
  PROVE  Size(image) = Registers
<1>1. Registers \in Nat /\ Registers \in 0 .. AddressModulus
  <2>1. Registers \in Nat /\ Registers < AddressModulus
    BY CachedAssumption
  <2>2. AddressModulus \in Nat
    BY CachedAssumption
  <2> QED BY <2>1, <2>2
<1>2. ASSUME NEW n \in 0 .. AddressModulus, Addresses = 0 .. (n - 1)
      PROVE  n = Registers
  <2>1. n \in Nat
    BY <1>2
  <2>2. CASE n < Registers
    <3>1. n \in Addresses
      BY <1>1, <2>1, <2>2 DEF Addresses
    <3> QED BY <1>2, <2>1, <3>1
  <2>3. CASE Registers < n
    <3>1. Registers \in 0 .. (n - 1)
      BY <1>1, <2>1, <2>3
    <3> QED BY <1>1, <1>2, <3>1 DEF Addresses
  <2> QED BY <1>1, <2>1, <2>2, <2>3
<1> QED BY <1>1, <1>2 DEF Size, Addresses

Copied(image, start, source, copy) ==
  /\ image \in Image /\ start \in Nat /\ source \in Seq(Values)
  /\ copy = CopyFrom(image, start, source)

(* CopyFrom() writes the range, or nothing. *)
LEMMA CopyIs ==
  ASSUME NEW image, NEW start, NEW source, NEW copy,
         Copied(image, start, source, copy)
  PROVE  /\ copy.ok <=> /\ Len(source) > 0
                        /\ start + Len(source) <= Registers
         /\ copy.image \in Image
         /\ copy.ok => \A a \in Addresses :
              copy.image[a] = IF a \in Span(start, Len(source))
                              THEN source[a - start + 1] ELSE image[a]
         /\ ~copy.ok => copy.image = image
<1> USE DEF Copied
<1>1. Registers \in Nat /\ Len(source) \in Nat
  BY CachedAssumption
<1>2. DOMAIN image = Addresses
  BY DEF Image, Addresses
<1>3. Contains(image, start, Len(source))
        <=> Len(source) > 0 /\ start + Len(source) <= Registers
  BY <1>1, <1>2, SizeIs DEF Contains
<1>4. CASE ~Contains(image, start, Len(source))
  BY <1>3, <1>4 DEF CopyFrom
<1>5. CASE Contains(image, start, Len(source))
  <2>1. Span(start, Len(source)) \subseteq Addresses
    BY <1>1, <1>3, <1>5 DEF Span, Addresses
  <2>2. PICK over :
          over = [a \in Addresses |-> IF a \in Span(start, Len(source))
                                      THEN source[a - start + 1] ELSE image[a]]
    OBVIOUS
  <2>3. copy = [ok |-> TRUE, image |-> over]
    BY <1>2, <1>5, <2>1, <2>2 DEF CopyFrom
  <2>4. \A a \in Span(start, Len(source)) : source[a - start + 1] \in Values
    BY <1>1 DEF Span
  <2>5. over \in Image
    BY <2>2, <2>4 DEF Image, Addresses
  <2> QED BY <1>3, <1>5, <2>2, <2>3, <2>5
<1> QED BY <1>4, <1>5

(* CopyTo() and CopyFrom() of one register bring back its applied value. *)
LEMMA RestoreIs ==
  ASSUME NEW image \in Caches, NEW a \in Addresses
  PROVE  Restore(image, a, 1).cache.visible[a] = image.applied[a]
<1>1. Registers \in Nat /\ a \in Nat /\ a + 1 <= Registers
  BY CachedAssumption DEF Addresses
<1>2. /\ image.applied \in Image /\ DOMAIN image.applied = Addresses
      /\ image.visible \in Image
  BY DEF Caches, Image, Addresses
<1>3. Contains(image.applied, a, 1)
  BY <1>1, <1>2, SizeIs DEF Contains
<1>4. PICK good : good = CopyTo(image.applied, a, 1)
  OBVIOUS
<1>5. good = [ok |-> TRUE, values |-> [i \in 1 .. 1 |-> image.applied[a + i - 1]]]
  BY <1>3, <1>4 DEF CopyTo
<1>6. PICK values : values = [i \in 1 .. 1 |-> image.applied[a + i - 1]]
  OBVIOUS
<1>7. values \in Seq(Values) /\ Len(values) = 1
  <2>1. \A i \in 1 .. 1 : image.applied[a + i - 1] \in Values
    BY <1>1, <1>2 DEF Image, Addresses
  <2> QED BY <1>6, <2>1
<1>8. values[1] = image.applied[a]
  BY <1>1, <1>6
<1>9. PICK copy : copy = CopyFrom(image.visible, a, values)
  OBVIOUS
<1>10. copy.image[a] = image.applied[a]
  <2> PICK seen : seen = image.visible
    OBVIOUS
  <2>0. Copied(seen, a, values, copy)
    BY <1>1, <1>2, <1>7, <1>9 DEF Copied
  <2>1. copy.ok
    <3>1. Len(values) > 0 /\ a + Len(values) <= Registers
      BY <1>1, <1>7
    <3> QED BY <2>0, <3>1, CopyIs, Zenon
  <2>2. \A b \in Addresses :
          copy.image[b] = IF b \in Span(a, Len(values)) THEN values[b - a + 1]
                          ELSE seen[b]
    BY <2>0, <2>1, CopyIs
  <2>3. a \in Span(a, Len(values)) /\ a - a + 1 = 1
    BY <1>1, <1>7 DEF Span
  <2> QED BY <1>8, <2>2, <2>3
<1>11. PICK back : back = [image EXCEPT !.visible = copy.image]
  OBVIOUS
<1>12. back.visible = copy.image
  BY <1>11 DEF Caches
<1>13. Restore(image, a, 1).cache = back
  BY <1>4, <1>5, <1>6, <1>9, <1>11 DEF Restore
<1> QED BY <1>10, <1>12, <1>13

(* The applied transition moves one register of the applied image, on an   *)
(* applied outcome only.                                                   *)
LEMMA TransitionIs ==
  ASSUME NEW image \in Caches, NEW a \in Addresses, NEW value \in Values,
         NEW outcome \in DownstreamOutcome, NEW marked,
         marked = AppliedTransition(image, "Current", outcome, a, <<value>>)
  PROVE  /\ marked.cache \in Caches
         /\ marked.cache.visible = image.visible
         /\ \A b \in Addresses :
              marked.cache.applied[b] =
                IF outcome = "Applied" /\ b = a THEN value
                ELSE image.applied[b]
<1>1. Registers \in Nat /\ a \in Nat /\ a + 1 <= Registers
  BY CachedAssumption DEF Addresses
<1>2. image.applied \in Image /\ image.visible \in Image
  BY DEF Caches
<1>3. CASE outcome # "Applied"
  BY <1>3 DEF AppliedTransition, MarksApplied
<1>4. CASE outcome = "Applied"
  <2>1. PICK source : source = <<value>>
    OBVIOUS
  <2>2. source \in Seq(Values) /\ Len(source) = 1 /\ source[1] = value
    BY <2>1
  <2>3. PICK copy, old : copy = CopyFrom(old, a, source) /\ old = image.applied
    OBVIOUS
  <2> Copied(old, a, source, copy)
    BY <1>1, <1>2, <2>2, <2>3 DEF Copied
  <2>4. copy.ok /\ copy.image \in Image
    <3>1. Len(source) > 0 /\ a + Len(source) <= Registers
      BY <1>1, <2>2
    <3> QED BY <3>1, CopyIs, Zenon
  <2>5. \A b \in Addresses :
          copy.image[b] = IF b \in Span(a, Len(source)) THEN source[b - a + 1]
                          ELSE old[b]
    BY <2>4, CopyIs
  <2>6. \A b \in Addresses : b \in Span(a, Len(source)) <=> b = a
    BY <1>1, <2>2 DEF Span, Addresses
  <2>7. a - a + 1 = 1
    BY <1>1
  <2>8. \A b \in Addresses :
          copy.image[b] = IF b = a THEN value ELSE image.applied[b]
    BY <2>2, <2>3, <2>5, <2>6, <2>7
  <2>9. PICK after : after = [image EXCEPT !.applied = copy.image]
    OBVIOUS
  <2>10. /\ after \in Caches /\ after.visible = image.visible
         /\ after.applied = copy.image
    BY <2>4, <2>9 DEF Caches
  <2>11. marked.cache = after
    BY <1>4, <2>1, <2>3, <2>9
    DEF AppliedTransition, MarksApplied, MarkApplied
  <2>12. \A b \in Addresses : after.applied[b] = IF b = a THEN value
                                               ELSE image.applied[b]
    BY <2>3, <2>8, <2>10
  <2> QED BY <1>4, <2>10, <2>11, <2>12
<1> QED BY <1>3, <1>4

-----------------------------------------------------------------------------
(* The coupling of queue, snapshots, images and devices, over arguments:   *)
(* `q' the queue, `b' what is busy, `s' the snapshots, `c' the cache, `d'  *)
(* the devices, `r' whether the request in flight was acted on, `t' the    *)
(* registers in doubt.                                                     *)

Entry == [work : Works, delivery : IngressDelivery, extent : Nat, left : Nat]

Snap == [start : Nat, values : Seq(Values)]

Demand(e, snap) ==
  /\ snap \in Snap /\ Len(snap.values) = e.extent
  /\ e.extent > 0 /\ snap.start + e.extent <= Registers
  /\ e.left <= e.extent

Mapping(f) == f = [x \in DOMAIN f |-> f[x]]

(* Each queued work has a snapshot, and only the front one has started. *)
QueueGood(q, b, s) ==
  /\ q \in Seq(Entry)
  /\ b \in {"No", "Write"}
  /\ Mapping(s)
  /\ DOMAIN s = {q[i].work : i \in 1 .. Len(q)}
  /\ \A i \in 1 .. Len(q) : Demand(q[i], s[q[i].work])
  /\ \A i \in 2 .. Len(q) : q[i].left = q[i].extent
  /\ \A i, j \in 1 .. Len(q) : q[i].work = q[j].work => i = j
  /\ b = "Write" => Len(q) > 0 /\ q[1].left < q[1].extent

(* Where the front work stands, and what it sends there. *)
At(q, s) == s[q[1].work].start + q[1].extent - q[1].left - 1

Sent(q, s) == Wanted(s[q[1].work], At(q, s))

ImagesGood(c, d, r, t) ==
  /\ c \in Caches
  /\ d \in Image
  /\ r \in BOOLEAN
  /\ t \in SUBSET Addresses

(* AppliedIsReal, and what an answer adds to it. *)
RealGood(q, b, s, c, d, r, t) ==
  /\ r => b = "Write" /\ d[At(q, s)] = Sent(q, s)
  /\ \A a \in Addresses \ t :
       d[a] = c.applied[a] \/ (b = "Write" /\ r /\ a = At(q, s))

(* The front work's answered fragments are on the devices and in the image. *)
DoneGood(q, b, s, c, d) ==
  Len(q) > 0 =>
    \A a \in Addresses :
      /\ s[q[1].work].start <= a
      /\ a <= At(q, s)
      /\ ~(b = "Write" /\ a = At(q, s))
      => /\ d[a] = Wanted(s[q[1].work], a)
         /\ c.applied[a] = Wanted(s[q[1].work], a)

Wants(q, s, a) == {i \in 1 .. Len(q) : a \in Covers(s[q[i].work])}

(* The newest queued work that wants a register. *)
Newest(q, s, a, i) ==
  i \in Wants(q, s, a) /\ \A j \in Wants(q, s, a) : j <= i

(* VisibleIsNewest, without choosing. *)
VisibleGood(q, s, c) ==
  \A a \in Addresses :
    /\ Wants(q, s, a) = {} => c.visible[a] = c.applied[a]
    /\ \A i \in 1 .. Len(q) :
         Newest(q, s, a, i) => c.visible[a] = Wanted(s[q[i].work], a)

(* The rollback, with the snapshots as an argument. *)
RollBack(image, entries, works, s) ==
  LET back == UNION {Covers(s[w]) : w \in works}
  IN  [image EXCEPT !.visible =
         [a \in DOMAIN @ |->
            IF a \in back /\ {i \in DOMAIN entries :
                                a \in Covers(s[entries[i].work])} = {}
            THEN Restore(image, a, 1).cache.visible[a] ELSE @[a]]]

RolledIs(image, q, works, s, back) ==
  /\ image \in Caches /\ DOMAIN q = 1 .. Len(q)
  /\ back = RollBack(image, q, works, s)

RolledTo(image, q, works, s, back) ==
  /\ back \in Caches
  /\ back.applied = image.applied
  /\ \A a \in Addresses :
       back.visible[a] =
         IF (\E w \in works : a \in Covers(s[w])) /\ Wants(q, s, a) = {}
         THEN image.applied[a] ELSE image.visible[a]

LEMMA RollBackIs ==
  ASSUME NEW image, NEW q, NEW works, NEW s, NEW back,
         RolledIs(image, q, works, s, back)
  PROVE  RolledTo(image, q, works, s, back)
<1> USE DEF RolledIs
<1> DEFINE covered == UNION {Covers(s[w]) : w \in works}
<1>1. PICK seen :
        seen = [a \in Addresses |->
                  IF a \in covered /\ Wants(q, s, a) = {}
                  THEN Restore(image, a, 1).cache.visible[a]
                  ELSE image.visible[a]]
  OBVIOUS
<1>2. DOMAIN q = 1 .. Len(q) /\ DOMAIN image.visible = Addresses
  BY DEF Caches, Image, Addresses
<1>3. back = [image EXCEPT !.visible = seen]
  BY <1>1, <1>2, Zenon DEF RollBack, Wants
<1>4. \A a \in Addresses :
        seen[a] = IF a \in covered /\ Wants(q, s, a) = {}
                  THEN image.applied[a] ELSE image.visible[a]
  BY <1>1, RestoreIs
<1>5. seen \in Image
  <2>1. \A a \in Addresses : image.applied[a] \in Values /\ image.visible[a] \in Values
    BY DEF Caches, Image, Addresses
  <2>2. \A a \in Addresses : seen[a] \in Values
    BY <1>4, <2>1
  <2> QED BY <1>1, <2>2 DEF Image, Addresses
<1>6. back \in Caches /\ back.applied = image.applied /\ back.visible = seen
  BY <1>3, <1>5 DEF Caches
<1>7. \A a : a \in covered <=> \E w \in works : a \in Covers(s[w])
  OBVIOUS
<1> HIDE DEF covered
<1> QED BY <1>4, <1>6, <1>7 DEF RolledTo

(* The request in flight is for a register of the front work. *)
LEMMA SentInside ==
  ASSUME NEW q, NEW b, NEW s, QueueGood(q, b, s), Len(q) > 0,
         q[1].left < q[1].extent
  PROVE  /\ At(q, s) \in Addresses /\ At(q, s) \in Covers(s[q[1].work])
         /\ Sent(q, s) \in Values
<1>1. PICK e, snap : e = q[1] /\ snap = s[e.work]
  OBVIOUS
<1>2. e \in Entry /\ Demand(e, snap) /\ Registers \in Nat
  BY <1>1, CachedAssumption DEF QueueGood
<1>3. PICK start, extent, left :
        start = snap.start /\ extent = e.extent /\ left = e.left
  OBVIOUS
<1>4. /\ start \in Nat /\ extent \in Nat /\ left \in Nat
      /\ left < extent /\ start + extent <= Registers
      /\ Len(snap.values) = extent /\ snap.values \in Seq(Values)
  BY <1>1, <1>2, <1>3 DEF Entry, Snap, Demand
<1>5. PICK p : p = start + extent - left - 1
  OBVIOUS
<1>6. /\ p \in Int /\ start <= p /\ p < start + extent /\ 0 <= p
      /\ p < Registers /\ p - start + 1 \in 1 .. extent
  BY <1>2, <1>4, <1>5
<1>7. At(q, s) = p
  BY <1>1, <1>3, <1>5 DEF At
<1>8. p \in Addresses
  BY <1>2, <1>6 DEF Addresses
<1>9. p \in Covers(snap)
  BY <1>3, <1>4, <1>6 DEF Covers, Span
<1>10. snap.values[p - start + 1] \in Values
  BY <1>4, <1>6
<1> QED BY <1>1, <1>3, <1>7, <1>8, <1>9, <1>10 DEF Sent, Wanted

(* All of it. *)
Good(q, b, s, c, d, r, t) ==
  /\ QueueGood(q, b, s)
  /\ ImagesGood(c, d, r, t)
  /\ RealGood(q, b, s, c, d, r, t)
  /\ DoneGood(q, b, s, c, d)
  /\ VisibleGood(q, s, c)

(* A work is submitted: its values are shown, and it claims its registers  *)
(* as the newest work.                                                     *)
Submitted(q, s, c, e, snap, q2, s2, c2) ==
  /\ e \in Entry /\ Demand(e, snap) /\ e.left = e.extent
  /\ e.work \notin DOMAIN s
  /\ q2 = Append(q, e)
  /\ Mapping(s2) /\ DOMAIN s2 = DOMAIN s \cup {e.work}
  /\ s2[e.work] = snap /\ \A w \in DOMAIN s : s2[w] = s[w]
  /\ c2 \in Caches /\ c2.applied = c.applied
  /\ \A a \in Addresses :
       c2.visible[a] = IF a \in Covers(snap) THEN Wanted(snap, a)
                       ELSE c.visible[a]

LEMMA GoodAppend ==
  ASSUME NEW q, NEW b, NEW s, NEW c, NEW d, NEW r, NEW t,
         Good(q, b, s, c, d, r, t),
         NEW e, NEW snap, NEW q2, NEW s2, NEW c2,
         Submitted(q, s, c, e, snap, q2, s2, c2)
  PROVE  Good(q2, b, s2, c2, d, r, t)
<1> USE DEF Submitted
<1>1. /\ QueueGood(q, b, s) /\ ImagesGood(c, d, r, t)
      /\ RealGood(q, b, s, c, d, r, t) /\ DoneGood(q, b, s, c, d)
      /\ VisibleGood(q, s, c)
  BY Zenon DEF Good
<1>2. PICK n : n = Len(q)
  OBVIOUS
<1>3. /\ q \in Seq(Entry) /\ n \in Nat /\ b \in {"No", "Write"}
      /\ DOMAIN s = {q[i].work : i \in 1 .. n}
      /\ \A i \in 1 .. n : Demand(q[i], s[q[i].work])
      /\ \A i \in 2 .. n : q[i].left = q[i].extent
      /\ \A i, j \in 1 .. n : q[i].work = q[j].work => i = j
      /\ b = "Write" => n > 0 /\ q[1].left < q[1].extent
  BY <1>1, <1>2 DEF QueueGood
<1>4. /\ q2 \in Seq(Entry) /\ Len(q2) = n + 1 /\ q2[n + 1] = e
      /\ \A i \in 1 .. n : q2[i] = q[i]
  BY <1>2, <1>3
<1>5. \A i \in 1 .. n : q[i].work \in DOMAIN s /\ q[i].work # e.work
  BY <1>3
<1>6. \A i \in 1 .. n : s2[q2[i].work] = s[q[i].work]
  BY <1>4, <1>5
<1>7. s2[q2[n + 1].work] = snap
  BY <1>4
<1>8. QueueGood(q2, b, s2)
  <2>1. DOMAIN s2 = {q2[i].work : i \in 1 .. n + 1}
    BY <1>3, <1>4
  <2>2. ASSUME NEW i \in 1 .. n + 1 PROVE Demand(q2[i], s2[q2[i].work])
    <3>1. CASE i = n + 1
      BY <1>4, <1>7, <3>1
    <3>2. CASE i \in 1 .. n
      BY <1>3, <1>4, <1>6, <3>2
    <3>3. i = n + 1 \/ i \in 1 .. n
      BY <1>3
    <3> QED BY <3>1, <3>2, <3>3
  <2>3. ASSUME NEW i \in 2 .. n + 1 PROVE q2[i].left = q2[i].extent
    <3>1. i = n + 1 \/ i \in 2 .. n
      BY <1>3
    <3> QED BY <1>3, <1>4, <3>1
  <2>4. ASSUME NEW i \in 1 .. n + 1, NEW j \in 1 .. n + 1,
               q2[i].work = q2[j].work
        PROVE  i = j
    <3>1. (i = n + 1 \/ i \in 1 .. n) /\ (j = n + 1 \/ j \in 1 .. n)
      BY <1>3
    <3>2. CASE i \in 1 .. n /\ j \in 1 .. n
      BY <1>3, <1>4, <2>4, <3>2
    <3>3. CASE i \in 1 .. n /\ j = n + 1
      BY <1>4, <1>5, <2>4, <3>3
    <3>4. CASE i = n + 1 /\ j \in 1 .. n
      BY <1>4, <1>5, <2>4, <3>4
    <3> QED BY <3>1, <3>2, <3>3, <3>4
  <2>5. b = "Write" => n + 1 > 0 /\ q2[1].left < q2[1].extent
    BY <1>3, <1>4
  <2> QED BY <1>3, <1>4, <2>1, <2>2, <2>3, <2>4, <2>5 DEF QueueGood
<1>9. n > 0 => /\ q2[1] = q[1] /\ s2[q2[1].work] = s[q[1].work]
               /\ At(q2, s2) = At(q, s) /\ Sent(q2, s2) = Sent(q, s)
  BY <1>3, <1>4, <1>6 DEF At, Sent
<1>10. RealGood(q2, b, s2, c2, d, r, t)
  BY <1>1, <1>3, <1>9 DEF RealGood
<1>11. DoneGood(q2, b, s2, c2, d)
  <2>1. CASE n > 0
    BY <1>1, <1>2, <1>9, <2>1 DEF DoneGood
  <2>2. CASE n = 0
    <3>1. /\ At(q2, s2) = snap.start + e.extent - e.left - 1
          /\ s2[q2[1].work] = snap
      BY <1>4, <1>7, <2>2 DEF At
    <3>2. snap.start \in Nat /\ e.extent \in Nat
      BY DEF Entry, Demand, Snap
    <3>3. At(q2, s2) = snap.start - 1
      BY <3>1, <3>2
    <3>4. \A a \in Addresses : ~(snap.start <= a /\ a <= snap.start - 1)
      BY <3>2 DEF Addresses
    <3> QED BY <3>1, <3>3, <3>4 DEF DoneGood
  <2> QED BY <1>3, <2>1, <2>2
<1>12. ASSUME NEW a \in Addresses
       PROVE  /\ Wants(q2, s2, a) = {} => c2.visible[a] = c2.applied[a]
              /\ \A i \in 1 .. n + 1 :
                   Newest(q2, s2, a, i)
                     => c2.visible[a] = Wanted(s2[q2[i].work], a)
  <2>1. \A i \in 1 .. n : i \in Wants(q2, s2, a) <=> i \in Wants(q, s, a)
    BY <1>2, <1>3, <1>4, <1>6 DEF Wants
  <2>2. n + 1 \in Wants(q2, s2, a) <=> a \in Covers(snap)
    BY <1>3, <1>4, <1>7 DEF Wants
  <2>3. CASE a \in Covers(snap)
    <3>1. \A i \in 1 .. n + 1 : Newest(q2, s2, a, i) => i = n + 1
      BY <1>3, <2>2, <2>3 DEF Newest
    <3>2. c2.visible[a] = Wanted(snap, a)
      BY <2>3
    <3> QED BY <1>7, <2>2, <2>3, <3>1, <3>2
  <2>4. CASE a \notin Covers(snap)
    <3>1. Wants(q2, s2, a) = Wants(q, s, a)
      <4>1. Wants(q2, s2, a) \subseteq 1 .. n + 1 /\ Wants(q, s, a) \subseteq 1 .. n
        BY <1>2, <1>4 DEF Wants
      <4>2. \A i \in 1 .. n + 1 : i = n + 1 \/ i \in 1 .. n
        BY <1>3
      <4>3. n + 1 \notin 1 .. n
        BY <1>3
      <4> QED BY <2>1, <2>2, <2>4, <4>1, <4>2, <4>3
    <3>2. c2.visible[a] = c.visible[a] /\ c2.applied[a] = c.applied[a]
      BY <2>4
    <3>3. ASSUME NEW i \in 1 .. n + 1, Newest(q2, s2, a, i)
          PROVE  c2.visible[a] = Wanted(s2[q2[i].work], a)
      <4>1. Newest(q, s, a, i) /\ i \in 1 .. n
        BY <1>2, <3>1, <3>3 DEF Newest, Wants
      <4>2. c.visible[a] = Wanted(s[q[i].work], a)
        BY <1>1, <1>2, <4>1 DEF VisibleGood
      <4> QED BY <1>6, <3>2, <4>1, <4>2
    <3>4. Wants(q, s, a) = {} => c.visible[a] = c.applied[a]
      BY <1>1 DEF VisibleGood
    <3> QED BY <3>1, <3>2, <3>3, <3>4
  <2> QED BY <2>3, <2>4
<1>13. VisibleGood(q2, s2, c2)
  BY <1>4, <1>12 DEF VisibleGood
<1>14. ImagesGood(c2, d, r, t)
  BY <1>1 DEF ImagesGood
<1> QED BY <1>8, <1>10, <1>11, <1>13, <1>14 DEF Good

(* The front work's next fragment goes out. *)
LEMMA GoodSend ==
  ASSUME NEW q, NEW s, NEW c, NEW d, NEW r, NEW t,
         Good(q, "No", s, c, d, r, t), Len(q) > 0, q[1].left > 0,
         NEW q2, q2 = [q EXCEPT ![1].left = @ - 1]
  PROVE  Good(q2, "Write", s, c, d, FALSE, t)
<1>1. /\ QueueGood(q, "No", s) /\ ImagesGood(c, d, r, t)
      /\ RealGood(q, "No", s, c, d, r, t) /\ DoneGood(q, "No", s, c, d)
      /\ VisibleGood(q, s, c)
  BY Zenon DEF Good
<1>2. PICK n, e, snap : n = Len(q) /\ e = q[1] /\ snap = s[e.work]
  OBVIOUS
<1>3. /\ q \in Seq(Entry) /\ n \in Nat /\ n > 0 /\ Mapping(s)
      /\ DOMAIN s = {q[i].work : i \in 1 .. n}
      /\ \A i \in 1 .. n : Demand(q[i], s[q[i].work])
      /\ \A i \in 2 .. n : q[i].left = q[i].extent
      /\ \A i, j \in 1 .. n : q[i].work = q[j].work => i = j
  BY <1>1, <1>2 DEF QueueGood
<1>4. e \in Entry /\ Demand(e, snap) /\ e.left > 0
  BY <1>2, <1>3
<1>5. PICK f : f = [e EXCEPT !.left = @ - 1]
  OBVIOUS
<1>6. /\ f \in Entry /\ f.work = e.work /\ f.extent = e.extent
      /\ f.left = e.left - 1
  BY <1>4, <1>5 DEF Entry
<1>7. q2 = [q EXCEPT ![1] = f]
  BY <1>2, <1>5, Zenon
<1>8. /\ q2 \in Seq(Entry) /\ Len(q2) = n /\ q2[1] = f
      /\ \A i \in 2 .. n : q2[i] = q[i]
  BY <1>2, <1>3, <1>6, <1>7
<1>9. \A i \in 1 .. n : i = 1 \/ i \in 2 .. n
  BY <1>3
<1>10. \A i \in 1 .. n : q2[i].work = q[i].work
  BY <1>2, <1>6, <1>8, <1>9
<1>11. Demand(f, snap) /\ f.left < f.extent
  <2>1. e.left \in Nat /\ e.extent \in Nat /\ e.left <= e.extent
    BY <1>4 DEF Entry, Demand
  <2>2. f.left <= f.extent /\ f.left < f.extent
    BY <1>4, <1>6, <2>1
  <2> QED BY <1>4, <1>6, <2>2 DEF Demand
<1>12. QueueGood(q2, "Write", s)
  <2>1. DOMAIN s = {q2[i].work : i \in 1 .. n}
    BY <1>3, <1>10
  <2>2. \A i \in 1 .. n : Demand(q2[i], s[q2[i].work])
    BY <1>2, <1>3, <1>6, <1>8, <1>9, <1>11
  <2>3. \A i \in 2 .. n : q2[i].left = q2[i].extent
    BY <1>3, <1>8
  <2>4. \A i, j \in 1 .. n : q2[i].work = q2[j].work => i = j
    BY <1>3, <1>10
  <2> QED BY <1>3, <1>8, <1>11, <2>1, <2>2, <2>3, <2>4 DEF QueueGood
<1>13. At(q2, s) = At(q, s) + 1
  <2>1. PICK start, extent, left :
          start = snap.start /\ extent = e.extent /\ left = e.left
    OBVIOUS
  <2>2. start \in Nat /\ extent \in Nat /\ left \in Nat
    BY <1>4, <2>1 DEF Entry, Demand, Snap
  <2>3. At(q, s) = start + extent - left - 1
    BY <1>2, <2>1 DEF At
  <2>4. At(q2, s) = start + extent - (left - 1) - 1
    BY <1>2, <1>6, <1>8, <2>1 DEF At
  <2> QED BY <2>2, <2>3, <2>4
<1>14. RealGood(q2, "Write", s, c, d, FALSE, t)
  BY <1>1 DEF RealGood
<1>15. DoneGood(q2, "Write", s, c, d)
  <2>1. \A a \in Addresses :
          snap.start <= a /\ a <= At(q, s)
          => d[a] = Wanted(snap, a) /\ c.applied[a] = Wanted(snap, a)
    BY <1>1, <1>2, <1>3 DEF DoneGood
  <2>2. At(q, s) \in Int
    <3>1. /\ snap.start \in Nat /\ e.extent \in Nat /\ e.left \in Nat
          /\ At(q, s) = snap.start + e.extent - e.left - 1
      BY <1>2, <1>4 DEF Entry, Demand, Snap, At
    <3> QED BY <3>1
  <2>3. \A a \in Addresses : a <= At(q2, s) /\ a # At(q2, s) => a <= At(q, s)
    BY <1>13, <2>2 DEF Addresses
  <2>4. s[q2[1].work] = snap
    BY <1>2, <1>6, <1>8
  <2> QED BY <2>1, <2>3, <2>4 DEF DoneGood
<1>16. VisibleGood(q2, s, c)
  <2>1. \A a : Wants(q2, s, a) = Wants(q, s, a)
    BY <1>2, <1>8, <1>10 DEF Wants
  <2> QED BY <1>1, <1>2, <1>8, <1>10, <2>1 DEF VisibleGood, Newest
<1>17. ImagesGood(c, d, FALSE, t)
  BY <1>1 DEF ImagesGood
<1> QED BY <1>12, <1>14, <1>15, <1>16, <1>17 DEF Good

(* The device acts on the request in flight. *)
LEMMA GoodAct ==
  ASSUME NEW q, NEW s, NEW c, NEW d, NEW t,
         Good(q, "Write", s, c, d, FALSE, t),
         NEW d2, d2 = [d EXCEPT ![At(q, s)] = Sent(q, s)]
  PROVE  Good(q, "Write", s, c, d2, TRUE, t)
<1>1. /\ QueueGood(q, "Write", s) /\ ImagesGood(c, d, FALSE, t)
      /\ RealGood(q, "Write", s, c, d, FALSE, t)
      /\ DoneGood(q, "Write", s, c, d) /\ VisibleGood(q, s, c)
  BY Zenon DEF Good
<1>2. At(q, s) \in Addresses /\ Sent(q, s) \in Values
  BY <1>1, SentInside DEF QueueGood
<1>3. PICK p, v : p = At(q, s) /\ v = Sent(q, s)
  OBVIOUS
<1>4. /\ d2 \in Image /\ d2[p] = v
      /\ \A a \in Addresses \ {p} : d2[a] = d[a]
  BY <1>1, <1>2, <1>3 DEF ImagesGood, Image, Addresses
<1>5. ImagesGood(c, d2, TRUE, t)
  BY <1>1, <1>4 DEF ImagesGood
<1>6. RealGood(q, "Write", s, c, d2, TRUE, t)
  BY <1>1, <1>3, <1>4 DEF RealGood
<1>7. DoneGood(q, "Write", s, c, d2)
  BY <1>1, <1>3, <1>4 DEF DoneGood
<1> QED BY <1>1, <1>5, <1>6, <1>7 DEF Good

(* With nothing in flight the applied image is real. *)
Settled(c, d, t) == \A a \in Addresses \ t : d[a] = c.applied[a]

(* What an answer leaves in doubt, and what it moves, agree. *)
Answers(q, s, c, r, t, outcome, current, t2, c2) ==
  /\ outcome = "Applied" => r
  /\ outcome = "DefinitelyNotSent" => ~r
  /\ t2 = IF outcome = "DefinitelyNotSent" THEN t
          ELSE IF outcome = "Applied" /\ current THEN t \ {At(q, s)}
          ELSE t \cup {At(q, s)}
  /\ \A a \in Addresses :
       c2.applied[a] = IF outcome = "Applied" /\ current /\ a = At(q, s)
                       THEN Sent(q, s) ELSE c.applied[a]

LEMMA Answered ==
  ASSUME NEW q, NEW s, NEW c, NEW d, NEW r, NEW t,
         Good(q, "Write", s, c, d, r, t),
         NEW outcome \in DownstreamOutcome, NEW current \in BOOLEAN,
         NEW t2, NEW c2, Answers(q, s, c, r, t, outcome, current, t2, c2)
  PROVE  t2 \in SUBSET Addresses /\ Settled(c2, d, t2)
<1> USE DEF Answers
<1>1. /\ QueueGood(q, "Write", s) /\ ImagesGood(c, d, r, t)
      /\ RealGood(q, "Write", s, c, d, r, t)
  BY Zenon DEF Good
<1>2. At(q, s) \in Addresses
  BY <1>1, SentInside DEF QueueGood
<1>3. PICK p, v : p = At(q, s) /\ v = Sent(q, s)
  OBVIOUS
<1>4. /\ t \in SUBSET Addresses /\ r \in BOOLEAN
      /\ r => d[p] = v
      /\ \A a \in Addresses \ t : d[a] = c.applied[a] \/ (r /\ a = p)
  BY <1>1, <1>3 DEF ImagesGood, RealGood
<1>5. \A a \in Addresses :
        c2.applied[a] = IF outcome = "Applied" /\ current /\ a = p
                        THEN v ELSE c.applied[a]
  BY <1>3
<1>6. CASE outcome = "DefinitelyNotSent"
  BY <1>4, <1>5, <1>6 DEF Settled
<1>7. CASE outcome = "Applied" /\ current
  <2>1. t2 = t \ {p}
    BY <1>3, <1>7
  <2>2. ASSUME NEW a \in Addresses \ t2 PROVE d[a] = c2.applied[a]
    <3>1. CASE a = p
      BY <1>4, <1>5, <1>7, <3>1
    <3>2. CASE a # p
      BY <1>4, <1>5, <2>1, <3>2
    <3> QED BY <3>1, <3>2
  <2> QED BY <1>4, <2>1, <2>2 DEF Settled
<1>8. CASE outcome # "DefinitelyNotSent" /\ ~(outcome = "Applied" /\ current)
  <2>1. t2 = t \cup {p}
    BY <1>3, <1>8
  <2>2. ASSUME NEW a \in Addresses \ t2 PROVE d[a] = c2.applied[a]
    BY <1>4, <1>5, <1>8, <2>1
  <2> QED BY <1>2, <1>3, <1>4, <2>1, <2>2 DEF Settled
<1> QED BY <1>6, <1>7, <1>8

LEMMA SettledIsReal ==
  ASSUME NEW q, NEW s, NEW c, NEW d, NEW t, Settled(c, d, t)
  PROVE  RealGood(q, "No", s, c, d, FALSE, t)
BY DEF Settled, RealGood

(* A fragment applied, and the work goes on. *)
Progressed(q, s, c, c2) ==
  /\ c2 \in Caches
  /\ \A a \in Addresses : c2.visible[a] = c.visible[a]
  /\ \A a \in Addresses :
       c2.applied[a] = IF a = At(q, s) THEN Sent(q, s) ELSE c.applied[a]

LEMMA GoodProgress ==
  ASSUME NEW q, NEW s, NEW c, NEW d, NEW t,
         Good(q, "Write", s, c, d, TRUE, t), q[1].left > 0,
         NEW t2 \in SUBSET Addresses, NEW c2, Settled(c2, d, t2),
         Progressed(q, s, c, c2)
  PROVE  Good(q, "No", s, c2, d, FALSE, t2)
<1> USE DEF Progressed
<1>1. /\ QueueGood(q, "Write", s) /\ ImagesGood(c, d, TRUE, t)
      /\ RealGood(q, "Write", s, c, d, TRUE, t)
      /\ DoneGood(q, "Write", s, c, d) /\ VisibleGood(q, s, c)
  BY Zenon DEF Good
<1>2. PICK p, v, snap : p = At(q, s) /\ v = Sent(q, s) /\ snap = s[q[1].work]
  OBVIOUS
<1>3. /\ Len(q) > 0 /\ d[p] = v /\ v = Wanted(snap, p) /\ p \in Covers(snap)
      /\ Len(q) \in Nat
  <2>1. Len(q) > 0 /\ q[1].left < q[1].extent /\ Len(q) \in Nat
    BY <1>1 DEF QueueGood
  <2>2. p \in Covers(snap)
    BY <1>1, <1>2, <2>1, SentInside
  <2>3. d[p] = v
    BY <1>1, <1>2 DEF RealGood
  <2>4. v = Wanted(snap, p)
    BY <1>2 DEF Sent
  <2> QED BY <2>1, <2>2, <2>3, <2>4
<1>4. QueueGood(q, "No", s)
  BY <1>1 DEF QueueGood
<1>5. DoneGood(q, "No", s, c2, d)
  BY <1>1, <1>2, <1>3 DEF DoneGood
<1>6. VisibleGood(q, s, c2)
  <2>1. 1 \in Wants(q, s, p)
    BY <1>2, <1>3 DEF Wants
  <2>2. \A a \in Addresses : Wants(q, s, a) = {} => a # p
    BY <2>1
  <2> QED BY <1>1, <1>2, <2>2 DEF VisibleGood
<1>7. ImagesGood(c2, d, FALSE, t2)
  BY <1>1 DEF ImagesGood
<1> QED BY <1>4, <1>5, <1>6, <1>7, SettledIsReal DEF Good

(* The front work leaves: what nobody newer wants is rolled back. *)
Popped(q, s, c, m, q2, s2, c2) ==
  /\ Len(q) > 0
  /\ m \in Caches /\ m.visible = c.visible
  /\ \A a \in Addresses :
       a \notin Covers(s[q[1].work]) => m.applied[a] = c.applied[a]
  /\ q2 = Tail(q)
  /\ s2 = [w \in DOMAIN s \ {q[1].work} |-> s[w]]
  /\ c2 = RollBack(m, q2, {q[1].work}, s)

LEMMA GoodPop ==
  ASSUME NEW q, NEW b, NEW s, NEW c, NEW d, NEW r, NEW t,
         Good(q, b, s, c, d, r, t),
         NEW m, NEW q2, NEW s2, NEW c2, Popped(q, s, c, m, q2, s2, c2),
         NEW t2 \in SUBSET Addresses, Settled(m, d, t2)
  PROVE  Good(q2, "No", s2, c2, d, FALSE, t2)
<1> USE DEF Popped
<1>1. /\ QueueGood(q, b, s) /\ ImagesGood(c, d, r, t) /\ VisibleGood(q, s, c)
  BY Zenon DEF Good
<1>2. PICK n, w1, snap : n = Len(q) /\ w1 = q[1].work /\ snap = s[w1]
  OBVIOUS
<1>3. /\ q \in Seq(Entry) /\ n \in Nat /\ n > 0 /\ Mapping(s)
      /\ DOMAIN s = {q[i].work : i \in 1 .. n}
      /\ \A i \in 1 .. n : Demand(q[i], s[q[i].work])
      /\ \A i \in 2 .. n : q[i].left = q[i].extent
      /\ \A i, j \in 1 .. n : q[i].work = q[j].work => i = j
  BY <1>1, <1>2 DEF QueueGood
<1>4. /\ q2 \in Seq(Entry) /\ Len(q2) = n - 1
      /\ \A i \in 1 .. n - 1 : q2[i] = q[i + 1]
      /\ DOMAIN q2 = 1 .. Len(q2)
  BY <1>2, <1>3
<1>5. \A i \in 1 .. n - 1 : i + 1 \in 2 .. n /\ i + 1 \in 1 .. n /\ i + 1 # 1
  BY <1>3
<1>6. \A i \in 1 .. n : i = 1 \/ (i - 1 \in 1 .. n - 1 /\ i = (i - 1) + 1)
  BY <1>3
<1>7. \A i \in 1 .. n - 1 : q2[i].work # w1
  <2>1. 1 \in 1 .. n
    BY <1>3
  <2> QED BY <1>2, <1>3, <1>4, <1>5, <2>1
<1>8. /\ DOMAIN s2 = DOMAIN s \ {w1}
      /\ \A w \in DOMAIN s2 : s2[w] = s[w]
      /\ Mapping(s2)
  BY <1>2 DEF Mapping
<1>9. DOMAIN s2 = {q2[i].work : i \in 1 .. n - 1}
  <2>1. ASSUME NEW w \in DOMAIN s2 PROVE \E i \in 1 .. n - 1 : w = q2[i].work
    <3>1. PICK i \in 1 .. n : w = q[i].work /\ w # w1
      BY <1>3, <1>8
    <3>2. i # 1
      BY <1>2, <3>1
    <3>3. i - 1 \in 1 .. n - 1 /\ q2[i - 1] = q[i]
      BY <1>4, <1>6, <3>2
    <3> QED BY <3>1, <3>3
  <2>2. ASSUME NEW i \in 1 .. n - 1 PROVE q2[i].work \in DOMAIN s2
    <3>1. q2[i].work = q[i + 1].work /\ i + 1 \in 1 .. n
      BY <1>4, <1>5
    <3>2. q2[i].work \in DOMAIN s
      BY <1>3, <3>1
    <3> HIDE DEF Popped
    <3> QED BY <1>7, <1>8, <3>2
  <2>3. PICK known, left :
          known = DOMAIN s2 /\ left = {q2[i].work : i \in 1 .. n - 1}
    OBVIOUS
  <2>4. \A w : w \in left => w \in known
    BY <2>2, <2>3
  <2>5. \A w : w \in known => w \in left
    BY <2>1, <2>3
  <2>6. known = left
    BY <2>4, <2>5
  <2> QED BY <2>3, <2>6
<1>10. \A i \in 1 .. n - 1 : s2[q2[i].work] = s[q[i + 1].work]
  BY <1>4, <1>8, <1>9
<1>11. QueueGood(q2, "No", s2)
  <2>1. \A i \in 1 .. n - 1 : Demand(q2[i], s2[q2[i].work])
    BY <1>3, <1>4, <1>5, <1>10
  <2>2. \A i \in 1 .. n - 1 : q2[i].left = q2[i].extent
    BY <1>3, <1>4, <1>5
  <2>3. \A i \in 2 .. n - 1 : i \in 1 .. n - 1
    BY <1>3
  <2>4. ASSUME NEW i \in 1 .. n - 1, NEW j \in 1 .. n - 1,
               q2[i].work = q2[j].work
        PROVE  i = j
    <3>1. i + 1 = j + 1
      BY <1>3, <1>4, <1>5, <2>4
    <3> QED BY <3>1
  <2> QED BY <1>4, <1>8, <1>9, <2>1, <2>2, <2>3, <2>4 DEF QueueGood
<1>12. /\ c2 \in Caches /\ c2.applied = m.applied
       /\ \A a \in Addresses :
            c2.visible[a] =
              IF a \in Covers(snap) /\ Wants(q2, s, a) = {}
              THEN m.applied[a] ELSE m.visible[a]
  <2>1. PICK works : works = {w1} /\ RolledIs(m, q2, works, s, c2)
    BY <1>2, <1>4 DEF RolledIs
  <2>2. RolledTo(m, q2, works, s, c2)
    BY <2>1, RollBackIs
  <2>3. \A a : (\E w \in works : a \in Covers(s[w])) <=> a \in Covers(snap)
    BY <1>2, <2>1
  <2> QED BY <2>2, <2>3 DEF RolledTo
<1>13. ASSUME NEW a \in Addresses
       PROVE  /\ Wants(q2, s2, a) = Wants(q2, s, a)
              /\ \A i \in 1 .. n - 1 : i \in Wants(q2, s2, a)
                                         <=> i + 1 \in Wants(q, s, a)
              /\ 1 \in Wants(q, s, a) <=> a \in Covers(snap)
  <2>1. \A i \in 1 .. n - 1 : s2[q2[i].work] = s[q2[i].work]
    BY <1>8, <1>9
  <2>2. Wants(q2, s2, a) = Wants(q2, s, a)
    BY <1>4, <2>1 DEF Wants
  <2>3. \A i \in 1 .. n - 1 : i \in Wants(q2, s2, a)
                                <=> i + 1 \in Wants(q, s, a)
    BY <1>2, <1>4, <1>5, <1>10 DEF Wants
  <2>4. 1 \in Wants(q, s, a) <=> a \in Covers(snap)
    BY <1>2, <1>3 DEF Wants
  <2> QED BY <2>2, <2>3, <2>4
<1>14. ASSUME NEW a \in Addresses, Wants(q2, s2, a) = {}
       PROVE  c2.visible[a] = c2.applied[a]
  <2>1. CASE a \in Covers(snap)
    BY <1>12, <1>13, <1>14, <2>1
  <2>2. CASE a \notin Covers(snap)
    <3>1. Wants(q, s, a) = {}
      <4>1. ASSUME NEW i \in Wants(q, s, a) PROVE FALSE
        <5>1. i \in 1 .. n /\ i # 1
          BY <1>2, <1>13, <2>2, <4>1 DEF Wants
        <5>2. PICK j : j \in 1 .. n - 1 /\ i = j + 1
          BY <1>6, <5>1
        <5> QED BY <1>13, <1>14, <4>1, <5>2
      <4> QED BY <4>1
    <3>2. c.visible[a] = c.applied[a]
      BY <1>1, <3>1 DEF VisibleGood
    <3> QED BY <1>2, <1>12, <2>2, <3>2
  <2> QED BY <2>1, <2>2
<1>15. ASSUME NEW a \in Addresses, NEW i \in 1 .. n - 1,
              Newest(q2, s2, a, i)
       PROVE  c2.visible[a] = Wanted(s2[q2[i].work], a)
  <2>1. i \in Wants(q2, s2, a) /\ \A j \in Wants(q2, s2, a) : j <= i
    BY <1>15 DEF Newest
  <2>2. c2.visible[a] = c.visible[a]
    BY <1>12, <1>13, <2>1
  <2>3. ASSUME NEW j \in Wants(q, s, a) PROVE j <= i + 1
    <3>1. j \in 1 .. n
      BY <1>2 DEF Wants
    <3>2. CASE j = 1
      BY <1>3, <3>2
    <3>3. CASE j # 1
      <4>1. PICK k : k \in 1 .. n - 1 /\ j = k + 1
        BY <1>6, <3>1, <3>3
      <4>2. k <= i
        BY <1>13, <2>1, <2>3, <4>1
      <4> QED BY <1>3, <4>1, <4>2
    <3> QED BY <3>2, <3>3
  <2>4. Newest(q, s, a, i + 1) /\ i + 1 \in 1 .. n
    BY <1>5, <1>13, <2>1, <2>3 DEF Newest
  <2>5. c.visible[a] = Wanted(s[q[i + 1].work], a)
    BY <1>1, <1>2, <2>4 DEF VisibleGood
  <2> QED BY <1>10, <2>2, <2>5
<1>16. VisibleGood(q2, s2, c2)
  BY <1>4, <1>14, <1>15 DEF VisibleGood
<1>17. DoneGood(q2, "No", s2, c2, d)
  <2>1. ASSUME n - 1 > 0
        PROVE  \A a \in Addresses :
                 ~(s2[q2[1].work].start <= a /\ a <= At(q2, s2))
    <3>1. 1 \in 1 .. n - 1 /\ 2 \in 2 .. n
      BY <1>3, <2>1
    <3>2. PICK e, sn : e = q2[1] /\ sn = s2[e.work]
      OBVIOUS
    <3>3. e.left = e.extent /\ Demand(e, sn) /\ e \in Entry
      <4>1. Demand(q2[1], s2[q2[1].work])
        BY <1>4, <1>11, <3>1 DEF QueueGood
      <4>2. q2[1] = q[2]
        BY <1>4, <3>1
      <4>3. q2[1] \in Entry
        BY <1>4, <3>1
      <4> QED BY <1>3, <3>1, <3>2, <4>1, <4>2, <4>3
    <3>4. PICK start, extent : start = sn.start /\ extent = e.extent
      OBVIOUS
    <3>5. start \in Nat /\ extent \in Nat
      BY <3>3, <3>4 DEF Demand, Snap, Entry
    <3>6. At(q2, s2) = start + extent - extent - 1
      BY <3>2, <3>3, <3>4 DEF At
    <3>7. At(q2, s2) = start - 1
      BY <3>5, <3>6
    <3>8. \A a \in Addresses : ~(start <= a /\ a <= start - 1)
      BY <3>5 DEF Addresses
    <3> QED BY <3>2, <3>4, <3>7, <3>8
  <2> QED BY <1>4, <2>1 DEF DoneGood
<1>18. ImagesGood(c2, d, FALSE, t2)
  BY <1>1, <1>12 DEF ImagesGood
<1>19. Settled(c2, d, t2)
  BY <1>12 DEF Settled
<1> QED BY <1>11, <1>16, <1>17, <1>18, <1>19, SettledIsReal DEF Good

(* Every work is handed back: what any of them wanted is rolled back. *)
Cleared(q, s, c, works, q2, s2, c2) ==
  /\ works = {q[i].work : i \in 1 .. Len(q)}
  /\ q2 = <<>>
  /\ c2 = RollBack(c, q2, works, s)
  /\ s2 = [w \in DOMAIN s \ works |-> s[w]]

LEMMA GoodClear ==
  ASSUME NEW q, NEW s, NEW c, NEW d, NEW r, NEW t,
         Good(q, "No", s, c, d, r, t),
         NEW works, NEW q2, NEW s2, NEW c2, Cleared(q, s, c, works, q2, s2, c2)
  PROVE  Good(q2, "No", s2, c2, d, r, t)
<1> USE DEF Cleared
<1>1. /\ QueueGood(q, "No", s) /\ ImagesGood(c, d, r, t)
      /\ RealGood(q, "No", s, c, d, r, t) /\ VisibleGood(q, s, c)
  BY Zenon DEF Good
<1>2. q2 \in Seq(Entry) /\ Len(q2) = 0 /\ DOMAIN q2 = 1 .. Len(q2)
  OBVIOUS
<1>3. DOMAIN s2 = {} /\ Mapping(s2)
  <2>1. DOMAIN s \ works = {}
    BY <1>1 DEF QueueGood
  <2> QED BY <2>1 DEF Mapping
<1>4. \A i \in 1 .. 0 : FALSE
  OBVIOUS
<1>5. {q2[i].work : i \in 1 .. Len(q2)} = {}
  BY <1>2, <1>4
<1>6. QueueGood(q2, "No", s2)
  <2>1. \A i \in 2 .. 0 : FALSE
    OBVIOUS
  <2> QED BY <1>2, <1>3, <1>4, <1>5, <2>1 DEF QueueGood
<1>7. \A a : Wants(q2, s, a) = {} /\ Wants(q2, s2, a) = {}
  BY <1>2, <1>4 DEF Wants
<1>8. RolledTo(c, q2, works, s, c2)
  <2>1. RolledIs(c, q2, works, s, c2)
    BY <1>1, <1>2 DEF RolledIs, ImagesGood
  <2> QED BY <2>1, RollBackIs
<1>9. ASSUME NEW a \in Addresses PROVE c2.visible[a] = c2.applied[a]
  <2>1. CASE \E w \in works : a \in Covers(s[w])
    BY <1>7, <1>8, <2>1 DEF RolledTo
  <2>2. CASE ~\E w \in works : a \in Covers(s[w])
    <3>1. \A i \in 1 .. Len(q) : q[i].work \in works
      OBVIOUS
    <3>2. Wants(q, s, a) = {}
      BY <2>2, <3>1 DEF Wants
    <3>3. c.visible[a] = c.applied[a]
      BY <1>1, <3>2 DEF VisibleGood
    <3> QED BY <1>8, <2>2, <3>3 DEF RolledTo
  <2> QED BY <2>1, <2>2
<1>10. VisibleGood(q2, s2, c2)
  BY <1>2, <1>4, <1>9 DEF VisibleGood
<1>11. DoneGood(q2, "No", s2, c2, d)
  BY <1>2 DEF DoneGood
<1>12. ImagesGood(c2, d, r, t)
  BY <1>1, <1>8 DEF ImagesGood, RolledTo
<1>13. RealGood(q2, "No", s2, c2, d, r, t)
  BY <1>1, <1>8 DEF RealGood, RolledTo
<1> QED BY <1>6, <1>10, <1>11, <1>12, <1>13 DEF Good

-----------------------------------------------------------------------------
(* The inductive invariant. *)

IInv == Good(queue, busy, snapshots, cache, device, reached, doubt)

(* The front work and its request, by their names in the model. *)
LEMMA Front ==
  ASSUME IInv
  PROVE  /\ queue \in Seq(Entry) /\ Mapping(snapshots)
         /\ DOMAIN snapshots = Queue
         /\ Queue = {queue[i].work : i \in 1 .. Len(queue)}
         /\ queue # <<>> <=> Len(queue) > 0
         /\ Len(queue) > 0 =>
              /\ First = queue[1]
              /\ SentAddress = At(queue, snapshots)
              /\ SentValue = Sent(queue, snapshots)
         /\ busy = "Write" => Len(queue) > 0 /\ queue[1].left < queue[1].extent
<1>1. QueueGood(queue, busy, snapshots)
  BY Zenon DEF IInv, Good
<1>2. /\ queue \in Seq(Entry) /\ Mapping(snapshots)
      /\ DOMAIN snapshots = {queue[i].work : i \in 1 .. Len(queue)}
      /\ busy = "Write" => Len(queue) > 0 /\ queue[1].left < queue[1].extent
  BY <1>1 DEF QueueGood
<1>3. DOMAIN queue = 1 .. Len(queue) /\ (queue # <<>> <=> Len(queue) > 0)
  BY <1>2
<1>4. Queue = {queue[i].work : i \in 1 .. Len(queue)}
  BY <1>3 DEF Queue
<1>5. Len(queue) > 0 => First = queue[1]
  BY <1>2 DEF First
<1>6. Len(queue) > 0 => /\ SentAddress = At(queue, snapshots)
                        /\ SentValue = Sent(queue, snapshots)
  BY <1>5 DEF SentAddress, SentValue, At, Sent
<1> QED BY <1>2, <1>3, <1>4, <1>5, <1>6

LEMMA RollsBack ==
  \A image, entries, works :
    RolledBack(image, entries, works) = RollBack(image, entries, works, snapshots)
BY Zenon DEF RolledBack, RollBack, Claims

LEMMA InitGood == Init => IInv
<1> SUFFICES ASSUME Init PROVE IInv
  OBVIOUS
<1>1. PICK blank : blank = [a \in 0 .. (Registers - 1) |-> InitialValue]
  OBVIOUS
<1>2. /\ queue = <<>> /\ busy = "No"
      /\ cache = [visible |-> blank, applied |-> blank]
      /\ snapshots = [w \in {} |-> <<>>] /\ device = blank
      /\ reached = FALSE /\ doubt = {}
  BY <1>1 DEF Init, SpecInit
<1>3. blank \in Image /\ cache \in Caches
  BY <1>1, <1>2, CachedAssumption DEF Image, Caches
<1>4. queue \in Seq(Entry) /\ Len(queue) = 0
  BY <1>2
<1>5. Mapping(snapshots) /\ DOMAIN snapshots = {}
  BY <1>2 DEF Mapping
<1>6. (\A i \in 1 .. 0 : FALSE) /\ (\A i \in 2 .. 0 : FALSE)
  OBVIOUS
<1>7. {queue[i].work : i \in 1 .. Len(queue)} = {}
  BY <1>4, <1>6
<1>8. QueueGood(queue, busy, snapshots)
  BY <1>2, <1>4, <1>5, <1>6, <1>7 DEF QueueGood
<1>9. ImagesGood(cache, device, reached, doubt)
  BY <1>2, <1>3 DEF ImagesGood
<1>10. RealGood(queue, busy, snapshots, cache, device, reached, doubt)
  BY <1>2 DEF RealGood
<1>11. DoneGood(queue, busy, snapshots, cache, device)
  BY <1>4 DEF DoneGood
<1>12. VisibleGood(queue, snapshots, cache)
  BY <1>2, <1>4, <1>6 DEF VisibleGood
<1> QED BY <1>8, <1>9, <1>10, <1>11, <1>12 DEF IInv, Good

LEMMA SubmitGood ==
  ASSUME IInv, NEW work \in Works, NEW delivery \in Deliveries,
         NEW start \in Starts, NEW n \in Extents, NEW values \in [1 .. n -> Values],
         Submit(work, delivery, start, values)
  PROVE  IInv'
<1>1. start \in Nat /\ n \in Nat
  BY CachedAssumption
<1>2. values \in Seq(Values) /\ Len(values) = n
  BY <1>1
<1>3. PICK seen, copy : seen = cache.visible
                        /\ copy = CopyFrom(seen, start, values)
  OBVIOUS
<1>4. /\ copy.ok /\ Accept(work, delivery, n)
      /\ cache' = [cache EXCEPT !.visible = copy.image]
      /\ snapshots' = [w \in DOMAIN snapshots \cup {work} |->
                         IF w = work THEN [start |-> start, values |-> values]
                         ELSE snapshots[w]]
      /\ UNCHANGED <<device, reached, doubt>>
  BY <1>2, <1>3 DEF Submit, CaptureDesired
<1>5. PICK e, snap :
        /\ e = [work |-> work, delivery |-> delivery, extent |-> n, left |-> n]
        /\ snap = [start |-> start, values |-> values]
  OBVIOUS
<1>6. /\ queue' = Append(queue, e) /\ busy' = busy
      /\ IsAccepted(delivery) /\ n > 0 /\ work \notin Queue
  BY <1>4, <1>5 DEF Accept
<1>7. cache \in Caches /\ seen \in Image
  BY <1>3 DEF IInv, Good, ImagesGood, Caches
<1>8. Copied(seen, start, values, copy)
  BY <1>1, <1>2, <1>3, <1>7 DEF Copied
<1>9. /\ start + n <= Registers /\ copy.image \in Image
      /\ \A a \in Addresses :
           copy.image[a] = IF a \in Span(start, Len(values))
                           THEN values[a - start + 1] ELSE seen[a]
  BY <1>2, <1>4, <1>8, CopyIs
<1>10. /\ e \in Entry /\ e.left = e.extent /\ e.work = work
       /\ Demand(e, snap)
  <2>1. delivery \in IngressDelivery
    BY <1>6 DEF IsAccepted, IngressDelivery
  <2>2. e \in Entry /\ e.left = n /\ e.extent = n /\ e.work = work
    BY <1>1, <1>5, <2>1 DEF Entry
  <2>3. snap \in Snap /\ snap.start = start /\ snap.values = values
    BY <1>1, <1>2, <1>5 DEF Snap
  <2> QED BY <1>1, <1>2, <1>6, <1>9, <2>2, <2>3 DEF Demand
<1>11. \A a : /\ a \in Covers(snap) <=> a \in Span(start, Len(values))
              /\ Wanted(snap, a) = values[a - start + 1]
  BY <1>5 DEF Covers, Wanted
<1>12. /\ cache' \in Caches /\ cache'.applied = cache.applied
       /\ cache'.visible = copy.image
  BY <1>4, <1>7, <1>9 DEF Caches
<1>13. PICK q, s, c, q2, s2, c2 :
         /\ q = queue /\ s = snapshots /\ c = cache
         /\ q2 = queue' /\ s2 = snapshots' /\ c2 = cache'
  OBVIOUS
<1>14. /\ Good(q, busy, s, c, device, reached, doubt)
       /\ q2 = Append(q, e) /\ e.work \notin DOMAIN s
  BY <1>6, <1>10, <1>13, Front DEF IInv
<1>15. /\ Mapping(s2) /\ DOMAIN s2 = DOMAIN s \cup {e.work}
       /\ s2[e.work] = snap /\ \A w \in DOMAIN s : s2[w] = s[w]
  BY <1>4, <1>5, <1>10, <1>13, <1>14 DEF Mapping
<1>16. /\ c2 \in Caches /\ c2.applied = c.applied
       /\ \A a \in Addresses :
            c2.visible[a] = IF a \in Covers(snap) THEN Wanted(snap, a)
                            ELSE c.visible[a]
  BY <1>3, <1>9, <1>11, <1>12, <1>13
<1>17. Good(q2, busy, s2, c2, device, reached, doubt)
  <2>1. Submitted(q, s, c, e, snap, q2, s2, c2)
    BY <1>10, <1>14, <1>15, <1>16 DEF Submitted
  <2> QED BY <1>14, <2>1, GoodAppend
<1> QED BY <1>4, <1>6, <1>13, <1>17 DEF IInv

LEMMA DispatchGood ==
  ASSUME IInv, Dispatch
  PROVE  IInv'
<1>1. /\ busy = "No" /\ queue # <<>> /\ First.left > 0
      /\ queue' = [queue EXCEPT ![1].left = @ - 1] /\ busy' = "Write"
      /\ reached' = FALSE /\ UNCHANGED <<cache, snapshots, device, doubt>>
  BY DEF Dispatch, StartWrite
<1>2. Len(queue) > 0 /\ queue[1].left > 0
  BY <1>1, Front
<1>3. PICK q, q2 : q = queue /\ q2 = queue'
  OBVIOUS
<1>4. /\ Good(q, "No", snapshots, cache, device, reached, doubt)
      /\ Len(q) > 0 /\ q[1].left > 0 /\ q2 = [q EXCEPT ![1].left = @ - 1]
  BY <1>1, <1>2, <1>3 DEF IInv
<1>5. Good(q2, "Write", snapshots, cache, device, FALSE, doubt)
  BY <1>4, GoodSend
<1> QED BY <1>1, <1>3, <1>5 DEF IInv

LEMMA ActGood ==
  ASSUME IInv, Act
  PROVE  IInv'
<1>1. /\ busy = "Write" /\ ~reached /\ reached' = TRUE
      /\ device' = [device EXCEPT ![SentAddress] = SentValue]
      /\ queue' = queue /\ busy' = busy
      /\ UNCHANGED <<cache, snapshots, doubt>>
  BY DEF Act, specVars
<1>2. reached = FALSE
  BY <1>1 DEF IInv, Good, ImagesGood
<1>3. device' = [device EXCEPT ![At(queue, snapshots)] = Sent(queue, snapshots)]
  BY <1>1, Front
<1>4. PICK d2 : d2 = device'
  OBVIOUS
<1>5. Good(queue, "Write", snapshots, cache, device, FALSE, doubt)
  BY <1>1, <1>2 DEF IInv
<1>6. Good(queue, "Write", snapshots, cache, d2, TRUE, doubt)
  BY <1>3, <1>4, <1>5, GoodAct
<1> QED BY <1>1, <1>4, <1>6 DEF IInv

(* A current answer, by its parts. *)
LEMMA ReportParts ==
  ASSUME IInv, NEW outcome \in DownstreamOutcome, Report(outcome)
  PROVE  \E m :
           /\ m \in Caches /\ m.visible = cache.visible
           /\ Answers(queue, snapshots, cache, reached, doubt, outcome, TRUE,
                      doubt', m)
           /\ cache' = RollBack(m, queue', told'.reclaimed, snapshots)
           /\ busy = "Write" /\ device' = device
<1>1. /\ Possible(outcome) /\ FinishWrite(outcome)
      /\ doubt' = DoubtAfter(outcome, TRUE) /\ device' = device
  BY DEF Report
<1>2. busy = "Write"
  BY <1>1 DEF FinishWrite
<1>3. PICK marked :
        marked = AppliedTransition(cache, "Current", outcome, SentAddress,
                                   <<SentValue>>)
  OBVIOUS
<1>4. PICK m : m = marked.cache
  OBVIOUS
<1>5. cache' = RollBack(m, queue', told'.reclaimed, snapshots)
  BY <1>3, <1>4, RollsBack DEF Report
<1>6. PICK p, v, c : p = SentAddress /\ v = SentValue /\ c = cache
  OBVIOUS
<1>7. p = At(queue, snapshots) /\ v = Sent(queue, snapshots)
  BY <1>2, <1>6, Front
<1>8. p \in Addresses /\ v \in Values
  <2>1. QueueGood(queue, busy, snapshots)
    BY Zenon DEF IInv, Good
  <2>2. Len(queue) > 0 /\ queue[1].left < queue[1].extent
    BY <1>2, Front
  <2> QED BY <1>7, <2>1, <2>2, SentInside
<1>9. c \in Caches
  BY <1>6 DEF IInv, Good, ImagesGood
<1>10. marked = AppliedTransition(c, "Current", outcome, p, <<v>>)
  BY <1>3, <1>6
<1>11. /\ m \in Caches /\ m.visible = c.visible
       /\ \A a \in Addresses :
            m.applied[a] = IF outcome = "Applied" /\ a = p THEN v
                           ELSE c.applied[a]
  BY <1>4, <1>8, <1>9, <1>10, TransitionIs
<1>12. Answers(queue, snapshots, cache, reached, doubt, outcome, TRUE, doubt', m)
  BY <1>1, <1>6, <1>7, <1>11 DEF Answers, Possible, DoubtAfter
<1> QED BY <1>1, <1>2, <1>5, <1>6, <1>11, <1>12

(* The front work leaves with the answer to its request. *)
LEMMA LeaveGood ==
  ASSUME IInv, queue # <<>>, NEW m \in Caches, m.visible = cache.visible,
         \A a \in Addresses :
           a \notin Covers(snapshots[queue[1].work])
             => m.applied[a] = cache.applied[a],
         doubt' \in SUBSET Addresses, Settled(m, device, doubt'),
         queue' = Tail(queue), told'.reclaimed = {First.work},
         Forget(told'.reclaimed),
         cache' = RollBack(m, queue', told'.reclaimed, snapshots),
         busy' = "No", device' = device, reached' = FALSE
  PROVE  IInv'
<1>1. Len(queue) > 0 /\ First = queue[1]
  BY Front
<1>2. PICK q, s, c, q2, s2, c2, t2 :
        /\ q = queue /\ s = snapshots /\ c = cache
        /\ q2 = queue' /\ s2 = snapshots' /\ c2 = cache' /\ t2 = doubt'
  OBVIOUS
<1>3. Popped(q, s, c, m, q2, s2, c2)
  BY <1>1, <1>2 DEF Popped, Forget
<1>4. Good(q, busy, s, c, device, reached, doubt)
  BY <1>2 DEF IInv
<1>5. t2 \in SUBSET Addresses /\ Settled(m, device, t2)
  BY <1>2
<1>6. Good(q2, "No", s2, c2, device, FALSE, t2)
  BY <1>3, <1>4, <1>5, GoodPop
<1> QED BY <1>2, <1>6 DEF IInv

LEMMA ReportGood ==
  ASSUME IInv, NEW outcome \in DownstreamOutcome, Report(outcome)
  PROVE  IInv'
<1>1. PICK m :
        /\ m \in Caches /\ m.visible = cache.visible
        /\ Answers(queue, snapshots, cache, reached, doubt, outcome, TRUE,
                   doubt', m)
        /\ cache' = RollBack(m, queue', told'.reclaimed, snapshots)
        /\ busy = "Write" /\ device' = device
  BY ReportParts
<1>2. /\ FinishWrite(outcome) /\ Forget(told'.reclaimed) /\ reached' = FALSE
      /\ Possible(outcome)
  BY DEF Report
<1>3. queue # <<>> /\ Len(queue) > 0 /\ First = queue[1]
  BY <1>1, Front
<1>4. Good(queue, "Write", snapshots, cache, device, reached, doubt)
  BY <1>1 DEF IInv
<1>5. PICK t2 : t2 = doubt'
  OBVIOUS
<1>6. t2 \in SUBSET Addresses /\ Settled(m, device, t2)
  <2>1. Answers(queue, snapshots, cache, reached, doubt, outcome, TRUE, t2, m)
    BY <1>1, <1>5
  <2> QED BY <1>4, <2>1, Answered
<1>7. PICK leaves : leaves = (First.left = 0 \/ outcome # "Applied")
  OBVIOUS
<1>8. CASE leaves
  <2>1. /\ queue' = Tail(queue) /\ told'.reclaimed = {First.work}
        /\ busy' = "No"
    BY <1>2, <1>7, <1>8 DEF FinishWrite
  <2>2. \A a \in Addresses :
          a \notin Covers(snapshots[queue[1].work])
            => m.applied[a] = cache.applied[a]
    <3>1. At(queue, snapshots) \in Covers(snapshots[queue[1].work])
      BY <1>3, <1>4, SentInside DEF Good, QueueGood
    <3> QED BY <1>1, <3>1 DEF Answers
  <2> QED BY <1>1, <1>2, <1>3, <1>5, <1>6, <2>1, <2>2, LeaveGood
<1>9. CASE ~leaves
  <2>1. /\ outcome = "Applied" /\ First.left # 0 /\ queue' = queue
        /\ told'.reclaimed = {} /\ busy' = "No"
    BY <1>2, <1>7, <1>9 DEF FinishWrite
  <2>2. queue[1].left > 0
    <3>1. queue[1] \in Entry
      BY <1>3, Front
    <3>2. queue[1].left \in Nat /\ queue[1].left # 0
      BY <1>3, <2>1, <3>1 DEF Entry
    <3> QED BY <3>2
  <2>3. snapshots' = snapshots
    BY <1>2, <2>1, Front DEF Forget, Mapping
  <2>4. reached = TRUE
    BY <1>2, <1>4, <2>1 DEF Possible, Good, ImagesGood
  <2>5. PICK works, c2 : works = {} /\ c2 = cache'
                         /\ RolledIs(m, queue, works, snapshots, c2)
    <3>1. DOMAIN queue = 1 .. Len(queue)
      BY Front
    <3> QED BY <1>1, <2>1, <3>1 DEF RolledIs
  <2>6. RolledTo(m, queue, works, snapshots, c2)
    BY <2>5, RollBackIs
  <2>7. /\ c2 \in Caches /\ c2.applied = m.applied
        /\ \A a \in Addresses : c2.visible[a] = m.visible[a]
    BY <2>5, <2>6 DEF RolledTo
  <2>8. Progressed(queue, snapshots, cache, c2)
    BY <1>1, <2>1, <2>7 DEF Progressed, Answers
  <2>9. Settled(c2, device, t2)
    BY <1>6, <2>7 DEF Settled
  <2>10. Good(queue, "Write", snapshots, cache, device, TRUE, doubt)
    BY <1>4, <2>4
  <2>11. Good(queue, "No", snapshots, c2, device, FALSE, t2)
    BY <1>6, <2>2, <2>8, <2>9, <2>10, GoodProgress
  <2> QED BY <1>1, <1>2, <1>5, <2>1, <2>3, <2>5, <2>11 DEF IInv
<1> QED BY <1>7, <1>8, <1>9

LEMMA StaleGood ==
  ASSUME IInv, NEW outcome \in DownstreamOutcome, ReportStale(outcome)
  PROVE  IInv'
<1>1. /\ Possible(outcome) /\ FinishStale /\ Forget(told'.reclaimed)
      /\ cache' = RolledBack(cache, queue', told'.reclaimed)
      /\ doubt' = DoubtAfter(outcome, FALSE)
      /\ reached' = FALSE /\ device' = device
  BY DEF ReportStale
<1>2. busy = "Write" /\ busy' = "No" /\ Retire
  BY <1>1 DEF FinishStale
<1>3. queue' = Tail(queue) /\ told'.reclaimed = {First.work}
  BY <1>2 DEF Retire, Nothing
<1>4. Good(queue, "Write", snapshots, cache, device, reached, doubt)
  BY <1>2 DEF IInv
<1>5. queue # <<>> /\ SentAddress = At(queue, snapshots)
  BY <1>2, Front
<1>6. PICK t2, c : t2 = doubt' /\ c = cache
  OBVIOUS
<1>7. c \in Caches
  BY <1>4, <1>6 DEF Good, ImagesGood
<1>8. t2 \in SUBSET Addresses /\ Settled(c, device, t2)
  <2>1. Answers(queue, snapshots, c, reached, doubt, outcome, FALSE, t2, c)
    BY <1>1, <1>5, <1>6 DEF Answers, Possible, DoubtAfter
  <2>2. Good(queue, "Write", snapshots, c, device, reached, doubt)
    BY <1>4, <1>6
  <2> QED BY <2>1, <2>2, Answered
<1>9. cache' = RollBack(c, queue', told'.reclaimed, snapshots)
  BY <1>1, <1>6, RollsBack
<1> QED BY <1>1, <1>2, <1>3, <1>5, <1>6, <1>7, <1>8, <1>9, LeaveGood

LEMMA TakeBackGood ==
  ASSUME IInv, TakeBack
  PROVE  IInv'
<1>1. /\ GiveUp \/ Clear
      /\ cache' = RolledBack(cache, queue', told'.reclaimed)
      /\ Forget(told'.reclaimed)
      /\ device' = device /\ reached' = reached /\ doubt' = doubt
  BY DEF TakeBack
<1>2. busy = "No" /\ busy' = "No"
  BY <1>1 DEF GiveUp, Clear
<1>3. Good(queue, "No", snapshots, cache, device, reached, doubt)
  BY <1>2 DEF IInv
<1>4. /\ cache \in Caches /\ reached = FALSE /\ doubt \in SUBSET Addresses
      /\ Settled(cache, device, doubt)
  <2>1. /\ ImagesGood(cache, device, reached, doubt)
        /\ RealGood(queue, "No", snapshots, cache, device, reached, doubt)
    BY <1>3, Zenon DEF Good
  <2> QED BY <2>1 DEF ImagesGood, RealGood, Settled
<1>5. cache' = RollBack(cache, queue', told'.reclaimed, snapshots)
  BY <1>1, RollsBack
<1>6. CASE GiveUp
  <2>1. /\ queue # <<>> /\ queue' = Tail(queue)
        /\ told'.reclaimed = {First.work}
    BY <1>6 DEF GiveUp, Retire, Nothing
  <2> QED BY <1>1, <1>2, <1>4, <1>5, <2>1, LeaveGood
<1>7. CASE Clear
  <2>1. queue' = <<>> /\ told'.reclaimed = Queue
    BY <1>7 DEF Clear, Nothing
  <2>2. PICK works, q2, c2, s2 :
          works = Queue /\ q2 = queue' /\ c2 = cache' /\ s2 = snapshots'
    OBVIOUS
  <2>3. works = {queue[i].work : i \in 1 .. Len(queue)}
    BY <2>2, Front
  <2>4. /\ q2 = <<>> /\ c2 = RollBack(cache, q2, works, snapshots)
        /\ s2 = [w \in DOMAIN snapshots \ works |-> snapshots[w]]
    BY <1>1, <1>5, <2>1, <2>2, Zenon DEF Forget
  <2>5. Cleared(queue, snapshots, cache, works, q2, s2, c2)
    BY <2>3, <2>4, Zenon DEF Cleared
  <2>6. Good(q2, "No", s2, c2, device, reached, doubt)
    BY <1>3, <2>5, GoodClear
  <2> QED BY <1>1, <1>2, <2>2, <2>6 DEF IInv
<1> QED BY <1>1, <1>6, <1>7

LEMMA StillGood ==
  ASSUME IInv,
         UNCHANGED <<queue, busy, snapshots, cache, device, reached, doubt>>
  PROVE  IInv'
BY DEF IInv

LEMMA NextGood == IInv /\ [Next]_vars => IInv'
<1> SUFFICES ASSUME IInv, [Next]_vars PROVE IInv'
  OBVIOUS
<1>1. ASSUME NEW work \in Works, NEW delivery \in Deliveries,
             NEW start \in Starts, NEW n \in Extents,
             NEW values \in [1 .. n -> Values],
             Submit(work, delivery, start, values)
      PROVE  IInv'
  BY <1>1, SubmitGood
<1>2. CASE Dispatch
  BY <1>2, DispatchGood
<1>3. CASE Act
  BY <1>3, ActGood
<1>4. ASSUME NEW outcome \in DownstreamOutcome, Report(outcome)
      PROVE  IInv'
  BY <1>4, ReportGood
<1>5. ASSUME NEW outcome \in DownstreamOutcome, ReportStale(outcome)
      PROVE  IInv'
  BY <1>5, StaleGood
<1>6. CASE TakeBack
  BY <1>6, TakeBackGood
<1>7. ASSUME NEW view \in Sessions, MoveOn(view)
      PROVE  IInv'
  BY <1>7, StillGood DEF MoveOn, ChangeLifecycle, data
<1>8. CASE UNCHANGED vars
  BY <1>8, StillGood DEF vars
<1> QED BY <1>1, <1>2, <1>3, <1>4, <1>5, <1>6, <1>7, <1>8 DEF Next

LEMMA CachedInvariant == Spec => []IInv
BY InitGood, NextGood, PTL DEF Spec

(* Both images and the devices keep their addresses, and the caller keeps  *)
(* the snapshots of exactly the works that are queued.                     *)
THEOREM CachedTypes == Spec => []TypeOK
<1>1. ASSUME IInv PROVE TypeOK
  <2>1. ImagesGood(cache, device, reached, doubt)
    BY <1>1, Zenon DEF IInv, Good
  <2>2. DOMAIN snapshots = Queue
    BY <1>1, Front
  <2> QED BY <2>1, <2>2 DEF TypeOK, ImagesGood, Caches, Addresses
<1> QED BY <1>1, CachedInvariant, PTL

-----------------------------------------------------------------------------
(* The applied image differs from the devices only in registers whose last *)
(* request ended with its effect unknown, and in the one register whose    *)
(* request is in flight and has been acted on.                             *)
THEOREM AppliedImageReal == Spec => []AppliedIsReal
<1>1. ASSUME IInv PROVE AppliedIsReal
  <2>1. /\ ImagesGood(cache, device, reached, doubt)
        /\ RealGood(queue, busy, snapshots, cache, device, reached, doubt)
    BY <1>1, Zenon DEF IInv, Good
  <2>2. busy = "Write" => /\ SentAddress = At(queue, snapshots)
                          /\ SentValue = Sent(queue, snapshots)
                          /\ InFlight = {SentAddress}
    BY <1>1, Front DEF InFlight
  <2>3. /\ reached => busy = "Write" /\ device[SentAddress] = SentValue
        /\ \A a \in Addresses \ doubt :
             \/ device[a] = cache.applied[a]
             \/ busy = "Write" /\ reached /\ a = SentAddress
    BY <2>1, <2>2 DEF RealGood
  <2> QED BY <2>2, <2>3 DEF AppliedIsReal, Addresses
<1> QED BY <1>1, CachedInvariant, PTL

(* A set of indices that is not empty has a greatest one. *)
LEMMA GreatestIndex ==
  ASSUME NEW n \in Nat, NEW S \in SUBSET (1 .. n), S # {}
  PROVE  \E i \in S : \A j \in S : j <= i
<1> DEFINE Segments == {i .. n : i \in S}
<1>1. Segments \subseteq FiniteSubsetsOf(Nat)
  <2>1. ASSUME NEW i \in S PROVE i .. n \in FiniteSubsetsOf(Nat)
    <3>1. i \in Nat
      OBVIOUS
    <3>2. IsFiniteSet(i .. n)
      BY <3>1, FS_Interval
    <3>3. i .. n \subseteq Nat
      BY <3>1
    <3> QED BY <3>2, <3>3 DEF FiniteSubsetsOf
  <2> QED BY <2>1
<1>2. Segments # {}
  OBVIOUS
<1>3. PICK I \in Segments :
        \A J \in Segments : <<J, I>> \notin StrictSubsetOrdering(Nat)
  BY <1>1, <1>2, WFMin, FS_StrictSubsetOrderingWellFounded
<1>4. PICK i \in S : I = i .. n
  OBVIOUS
<1>5. ASSUME NEW j \in S, i < j PROVE FALSE
  <2>1. /\ j .. n \in Segments /\ j .. n \subseteq i .. n
        /\ i \notin j .. n /\ i \in i .. n /\ i .. n \subseteq Nat
    BY <1>5
  <2>2. <<j .. n, I>> \in StrictSubsetOrdering(Nat)
    BY <1>4, <2>1 DEF StrictSubsetOrdering
  <2> QED BY <1>3, <2>1, <2>2
<1> QED BY <1>5

(* A reader sees the value of the newest work still owed to a register,    *)
(* and the last applied value once none is.                                *)
THEOREM VisibleImageNewest == Spec => []VisibleIsNewest
<1>1. ASSUME IInv PROVE VisibleIsNewest
  <2>1. /\ cache \in Caches /\ queue \in Seq(Entry)
        /\ VisibleGood(queue, snapshots, cache)
    BY <1>1, Front, Zenon DEF IInv, Good, ImagesGood
  <2>2. DOMAIN cache.visible = 0 .. (Registers - 1)
    BY <2>1 DEF Caches, Image
  <2>3. PICK n : n = Len(queue)
    OBVIOUS
  <2>4. n \in Nat /\ DOMAIN queue = 1 .. n
    BY <2>1, <2>3
  <2>5. ASSUME NEW a \in Addresses
        PROVE  cache.visible[a] =
                 IF Claims(queue, a) = {} THEN cache.applied[a]
                 ELSE LET i == CHOOSE j \in Claims(queue, a) :
                                 \A k \in Claims(queue, a) : k <= j
                      IN  Wanted(snapshots[queue[i].work], a)
    <3>1. PICK claims : claims = Claims(queue, a)
      OBVIOUS
    <3>2. claims = Wants(queue, snapshots, a)
      BY <2>3, <2>4, <3>1 DEF Claims, Wants
    <3>3. CASE claims = {}
      BY <2>1, <3>1, <3>2, <3>3 DEF VisibleGood
    <3>4. CASE claims # {}
      <4>1. claims \in SUBSET (1 .. n)
        BY <2>3, <3>2 DEF Wants
      <4>2. \E i \in claims : \A j \in claims : j <= i
        BY <2>4, <3>4, <4>1, GreatestIndex
      <4>3. PICK i : i = CHOOSE j \in claims : \A k \in claims : k <= j
        OBVIOUS
      <4>4. i \in claims /\ \A k \in claims : k <= i
        BY <4>2, <4>3
      <4>5. Newest(queue, snapshots, a, i) /\ i \in 1 .. Len(queue)
        BY <2>3, <3>2, <4>1, <4>4 DEF Newest
      <4>6. cache.visible[a] = Wanted(snapshots[queue[i].work], a)
        BY <2>1, <4>5 DEF VisibleGood
      <4> QED BY <3>1, <3>4, <4>3, <4>6
    <3> QED BY <3>3, <3>4
  <2> QED BY <2>2, <2>5, Zenon DEF VisibleIsNewest, Addresses
<1> QED BY <1>1, CachedInvariant, PTL

-----------------------------------------------------------------------------
(* The step that announces a success is the one that takes the answer to   *)
(* the last fragment: the earlier ones are on the devices already.         *)
SuccessComplete ==
  told'.notice = "WorkSucceeded" =>
    \A w \in told'.reclaimed : \A a \in Covers(snapshots[w]) :
      /\ device'[a] = Wanted(snapshots[w], a)
      /\ cache'.applied[a] = Wanted(snapshots[w], a)

LEMMA Unannounced ==
  ASSUME told'.notice = "None" PROVE SuccessComplete
BY DEF SuccessComplete

(* While a request is in flight nothing is announced. *)
Quiet == busy = "Write" => told.notice = "None"

LEMMA QuietInvariant == Spec => []Quiet
<1>1. Init => Quiet
  BY DEF Init, SpecInit, Quiet
<1>2. Quiet /\ [Next]_vars => Quiet'
  <2> SUFFICES ASSUME Quiet, [Next]_vars PROVE Quiet'
    OBVIOUS
  <2>1. ASSUME NEW work \in Works, NEW delivery \in Deliveries,
               NEW start \in Starts, NEW n \in Extents,
               NEW values \in [1 .. n -> Values],
               Submit(work, delivery, start, values)
        PROVE  Quiet'
    BY <2>1 DEF Submit, Accept, Nothing, Quiet
  <2>2. CASE Dispatch
    BY <2>2 DEF Dispatch, StartWrite, Nothing, Quiet
  <2>3. CASE Act
    BY <2>3 DEF Act, specVars, Quiet
  <2>4. ASSUME NEW outcome \in DownstreamOutcome, Report(outcome)
        PROVE  Quiet'
    BY <2>4 DEF Report, FinishWrite, Quiet
  <2>5. ASSUME NEW outcome \in DownstreamOutcome, ReportStale(outcome)
        PROVE  Quiet'
    BY <2>5 DEF ReportStale, FinishStale, Quiet
  <2>6. CASE TakeBack
    BY <2>6 DEF TakeBack, GiveUp, Clear, Quiet
  <2>7. ASSUME NEW view \in Sessions, MoveOn(view)
        PROVE  Quiet'
    BY <2>7 DEF MoveOn, ChangeLifecycle, Nothing, Quiet
  <2>8. CASE UNCHANGED vars
    BY <2>8 DEF vars, Quiet
  <2> QED BY <2>1, <2>2, <2>3, <2>4, <2>5, <2>6, <2>7, <2>8 DEF Next
<1> QED BY <1>1, <1>2, PTL DEF Spec

LEMMA ReportComplete ==
  ASSUME IInv, NEW outcome \in DownstreamOutcome, Report(outcome),
         told'.notice = "WorkSucceeded"
  PROVE  SuccessComplete
<1>1. PICK m :
        /\ m \in Caches /\ m.visible = cache.visible
        /\ Answers(queue, snapshots, cache, reached, doubt, outcome, TRUE,
                   doubt', m)
        /\ cache' = RollBack(m, queue', told'.reclaimed, snapshots)
        /\ busy = "Write" /\ device' = device
  BY ReportParts
<1>2. FinishWrite(outcome) /\ Possible(outcome)
  BY DEF Report
<1>3. /\ outcome = "Applied" /\ First.left = 0 /\ queue' = Tail(queue)
      /\ told'.reclaimed = {First.work}
  BY <1>2 DEF FinishWrite
<1>4. /\ Len(queue) > 0 /\ First = queue[1] /\ queue \in Seq(Entry)
      /\ queue[1].left < queue[1].extent
  BY <1>1, Front
<1>5. /\ QueueGood(queue, "Write", snapshots)
      /\ RealGood(queue, "Write", snapshots, cache, device, reached, doubt)
      /\ DoneGood(queue, "Write", snapshots, cache, device)
      /\ ImagesGood(cache, device, reached, doubt)
  BY <1>1, Zenon DEF IInv, Good
<1>6. PICK e, snap, p : e = queue[1] /\ snap = snapshots[e.work]
                        /\ p = At(queue, snapshots)
  OBVIOUS
<1>7. /\ Demand(e, snap) /\ e \in Entry /\ e.left = 0
  BY <1>3, <1>4, <1>5, <1>6 DEF QueueGood
<1>8. PICK start, extent : start = snap.start /\ extent = e.extent
  OBVIOUS
<1>9. /\ start \in Nat /\ extent \in Nat /\ extent > 0
      /\ start + extent <= Registers /\ Len(snap.values) = extent
      /\ Registers \in Nat
  BY <1>7, <1>8, CachedAssumption DEF Demand, Snap, Entry
<1>10. p = start + extent - 0 - 1
  BY <1>6, <1>7, <1>8 DEF At
<1>11. ASSUME NEW a \in Covers(snap)
       PROVE  a \in Addresses /\ start <= a /\ a <= p
  <2>1. a \in start .. (start + extent - 1)
    BY <1>8, <1>9 DEF Covers, Span
  <2> QED BY <1>9, <1>10, <2>1 DEF Addresses
<1>12. ASSUME NEW a \in Covers(snap)
       PROVE  /\ device[a] = Wanted(snap, a)
              /\ m.applied[a] = Wanted(snap, a)
  <2>1. a \in Addresses /\ start <= a /\ a <= p
    BY <1>11
  <2>2. m.applied[a] = IF a = p THEN Sent(queue, snapshots) ELSE cache.applied[a]
    BY <1>1, <1>3, <1>6, <2>1 DEF Answers
  <2>3. CASE a = p
    <3>1. reached /\ Sent(queue, snapshots) = Wanted(snap, p)
      BY <1>2, <1>3, <1>6 DEF Possible, Sent
    <3> QED BY <1>5, <1>6, <2>2, <2>3, <3>1 DEF RealGood
  <2>4. CASE a # p
    BY <1>4, <1>5, <1>6, <1>8, <2>1, <2>2, <2>4 DEF DoneGood
  <2> QED BY <2>3, <2>4
<1>13. PICK q2, works, c2 : q2 = queue' /\ works = told'.reclaimed /\ c2 = cache'
  OBVIOUS
<1>14. c2.applied = m.applied
  <2>1. DOMAIN q2 = 1 .. Len(q2)
    BY <1>3, <1>4, <1>13
  <2>2. RolledIs(m, q2, works, snapshots, c2)
    BY <1>1, <1>13, <2>1 DEF RolledIs
  <2>3. RolledTo(m, q2, works, snapshots, c2)
    BY <2>2, RollBackIs
  <2> QED BY <2>3 DEF RolledTo
<1>15. ASSUME NEW w \in told'.reclaimed PROVE snapshots[w] = snap
  BY <1>3, <1>4, <1>6
<1>16. ASSUME NEW w \in told'.reclaimed, NEW a \in Covers(snapshots[w])
       PROVE  /\ device'[a] = Wanted(snapshots[w], a)
              /\ cache'.applied[a] = Wanted(snapshots[w], a)
  <2>1. snapshots[w] = snap
    BY <1>15
  <2>2. a \in Covers(snap)
    BY <2>1
  <2> QED BY <1>1, <1>12, <1>13, <1>14, <2>1, <2>2
<1> QED BY <1>16 DEF SuccessComplete

LEMMA NextComplete == IInv /\ Quiet /\ Next => SuccessComplete
<1> SUFFICES ASSUME IInv, Quiet, Next PROVE SuccessComplete
  OBVIOUS
<1>1. ASSUME NEW work \in Works, NEW delivery \in Deliveries,
             NEW start \in Starts, NEW n \in Extents,
             NEW values \in [1 .. n -> Values],
             Submit(work, delivery, start, values)
      PROVE  SuccessComplete
  BY <1>1, Unannounced DEF Submit, Accept, Nothing
<1>2. CASE Dispatch
  BY <1>2, Unannounced DEF Dispatch, StartWrite, Nothing
<1>3. CASE Act
  BY <1>3, Unannounced DEF Act, specVars, Quiet
<1>4. ASSUME NEW outcome \in DownstreamOutcome, Report(outcome)
      PROVE  SuccessComplete
  <2>1. CASE told'.notice = "WorkSucceeded"
    BY <1>4, <2>1, ReportComplete
  <2>2. CASE told'.notice # "WorkSucceeded"
    BY <2>2 DEF SuccessComplete
  <2> QED BY <2>1, <2>2
<1>5. ASSUME NEW outcome \in DownstreamOutcome, ReportStale(outcome)
      PROVE  SuccessComplete
  BY <1>5, Unannounced DEF ReportStale, FinishStale, Retire, Nothing
<1>6. CASE TakeBack
  BY <1>6, Unannounced DEF TakeBack, GiveUp, Clear, Retire, Nothing
<1>7. ASSUME NEW view \in Sessions, MoveOn(view)
      PROVE  SuccessComplete
  BY <1>7, Unannounced DEF MoveOn, ChangeLifecycle, Nothing
<1> QED BY <1>1, <1>2, <1>3, <1>4, <1>5, <1>6, <1>7 DEF Next

(* An announced success is complete: at the step that announces it, the    *)
(* devices and the applied image hold the whole snapshot of the work,      *)
(* whatever was submitted, failed or restarted since it was accepted.      *)
THEOREM SuccessIsComplete == Spec => SuccessIsOnDevice
<1>1. IInv /\ Quiet /\ [Next]_vars => [SuccessComplete]_vars
  BY NextComplete
<1>2. Spec => [][SuccessComplete]_vars
  BY <1>1, CachedInvariant, QuietInvariant, PTL DEF Spec
<1> QED BY <1>2 DEF SuccessIsOnDevice, SuccessComplete
=============================================================================
