-------------------------- MODULE CachedForwarding --------------------------
(***************************************************************************)
(* The store-forward service composed with a cached image and the devices  *)
(* behind it: the caller captures the desired values of a work when it     *)
(* submits it, the fragments carry the immutable snapshot downstream, a    *)
(* successful result moves the applied image, and a work that ends any     *)
(* other way is rolled back where no newer work owns a register.           *)
(*                                                                         *)
(* The service is StoreForwardSpec, which the facade implements; the cache *)
(* is CacheImage.  A register is a route of its own, so a work has one     *)
(* fragment per register, and no two registers share a device location.    *)
(* The caller's policy and the devices are external, as the module guide   *)
(* describes them: the device acts on a request before its result is       *)
(* reported or never, and the reported outcome never contradicts it.       *)
(***************************************************************************)
EXTENDS StoreForwardSpec, CacheImage

CONSTANTS
  Registers,     \* size of both images
  Values,        \* register contents
  InitialValue,  \* what device and images hold at start
  Starts         \* upstream addresses the caller may submit

ASSUME CachedAssumption ==
  /\ AddressModulus \in Nat
  /\ Registers \in Nat
  /\ Registers < AddressModulus
  /\ InitialValue \in Values
  /\ Starts \subseteq 0..(AddressModulus - 1)
  /\ Extents \subseteq 0..(AddressModulus - 1)

VARIABLES
  cache,      \* DesiredAppliedCache
  snapshots,  \* caller: start and values of each queued work
  device,     \* external: what the devices hold
  reached,    \* external: did the device act on the request in flight
  doubt       \* history: registers whose last request may or may not have
              \* been acted upon

data == <<cache, snapshots, device, reached, doubt>>
vars == <<queue, busy, session, told, cache, snapshots, device, reached, doubt>>

Image == [0..(Registers - 1) -> Values]

Snapshot == [start : Starts, values : Seq(Values)]

Init ==
  LET blank == [a \in 0..(Registers - 1) |-> InitialValue]
  IN  /\ SpecInit
      /\ cache = [visible |-> blank, applied |-> blank]
      /\ snapshots = [w \in {} |-> <<>>]
      /\ device = blank
      /\ reached = FALSE
      /\ doubt = {}

-----------------------------------------------------------------------------
(* A work's registers, the values it wants there, and the fragment that is *)
(* out: the slot has been advanced past it.                                *)

Covers(snapshot) == Span(snapshot.start, Len(snapshot.values))

Wanted(snapshot, a) == snapshot.values[a - snapshot.start + 1]

SentAddress ==
  snapshots[First.work].start + First.extent - First.left - 1

(* A slip: the value is read from the visible image when it is sent. *)
SentValueFromImage == cache.visible[SentAddress]

SentValue == Wanted(snapshots[First.work], SentAddress)

(* The newest queued work that wants a register, if any. *)
Claims(entries, a) ==
  {i \in DOMAIN entries : a \in Covers(snapshots[entries[i].work])}

-----------------------------------------------------------------------------
(* The caller's rollback of the works it gets back, register by register,  *)
(* under the lock it uses for every cache operation.                       *)

(* A slip: no proof of ownership. *)
RolledBackUnguarded(image, entries, works) ==
  LET back == UNION {Covers(snapshots[w]) : w \in works}
  IN  [image EXCEPT !.visible =
         [a \in DOMAIN @ |-> IF a \in back
                              THEN Restore(image, a, 1).cache.visible[a]
                              ELSE @[a]]]

RolledBack(image, entries, works) ==
  LET back == UNION {Covers(snapshots[w]) : w \in works}
  IN  [image EXCEPT !.visible =
         [a \in DOMAIN @ |-> IF a \in back /\ Claims(entries, a) = {}
                              THEN Restore(image, a, 1).cache.visible[a]
                              ELSE @[a]]]

Forget(works) ==
  snapshots' = [w \in DOMAIN snapshots \ works |-> snapshots[w]]

-----------------------------------------------------------------------------
(* Submission: room is reserved, the desired values are captured and the   *)
(* work is published under one lock; a range the image does not contain    *)
(* changes nothing.                                                        *)
Submit(work, delivery, start, values) ==
  LET capture == CaptureDesired(cache, start, values)
  IN  /\ capture.ok
      /\ Accept(work, delivery, Len(values))
      /\ cache' = capture.cache
      /\ snapshots' = [w \in DOMAIN snapshots \cup {work} |->
                         IF w = work THEN [start |-> start, values |-> values]
                         ELSE snapshots[w]]
      /\ UNCHANGED <<device, reached, doubt>>

Dispatch ==
  /\ StartWrite
  /\ reached' = FALSE
  /\ UNCHANGED <<cache, snapshots, device, doubt>>

Act ==
  /\ busy = "Write"
  /\ ~reached
  /\ device' = [device EXCEPT ![SentAddress] = SentValue]
  /\ reached' = TRUE
  /\ UNCHANGED <<specVars, cache, snapshots, doubt>>

(* What the runner may truthfully report. *)
Possible(outcome) ==
  /\ outcome = "Applied" => reached
  /\ outcome = "DefinitelyNotSent" => ~reached

DoubtAfter(outcome, current) ==
  IF outcome = "DefinitelyNotSent" THEN doubt
  ELSE IF outcome = "Applied" /\ current THEN doubt \ {SentAddress}
  ELSE doubt \cup {SentAddress}

Report(outcome) ==
  LET marked == AppliedTransition(cache, "Current", outcome, SentAddress,
                                  <<SentValue>>)
  IN  /\ Possible(outcome)
      /\ FinishWrite(outcome)
      /\ cache' = RolledBack(marked.cache, queue', told'.reclaimed)
      /\ Forget(told'.reclaimed)
      /\ doubt' = DoubtAfter(outcome, TRUE)
      /\ reached' = FALSE
      /\ UNCHANGED device

ReportStale(outcome) ==
  /\ Possible(outcome)
  /\ FinishStale
  /\ cache' = RolledBack(cache, queue', told'.reclaimed)
  /\ Forget(told'.reclaimed)
  /\ doubt' = DoubtAfter(outcome, FALSE)
  /\ reached' = FALSE
  /\ UNCHANGED device

TakeBack ==
  /\ GiveUp \/ Clear
  /\ cache' = RolledBack(cache, queue', told'.reclaimed)
  /\ Forget(told'.reclaimed)
  /\ UNCHANGED <<device, reached, doubt>>

MoveOn(view) ==
  /\ view # session
  /\ ChangeLifecycle(view)
  /\ UNCHANGED data

Next ==
  \/ \E work \in Works, delivery \in Deliveries, start \in Starts,
        n \in Extents :
       \E values \in [1..n -> Values] : Submit(work, delivery, start, values)
  \/ Dispatch
  \/ Act
  \/ \E outcome \in DownstreamOutcome : Report(outcome)
  \/ \E outcome \in DownstreamOutcome : ReportStale(outcome)
  \/ TakeBack
  \/ \E view \in Sessions : MoveOn(view)

Spec == Init /\ [][Next]_vars

-----------------------------------------------------------------------------
TypeOK ==
  /\ cache \in [visible : Image, applied : Image]
  /\ DOMAIN snapshots = Queue
  /\ device \in Image
  /\ reached \in BOOLEAN
  /\ doubt \subseteq 0..(Registers - 1)

InFlight == IF busy = "Write" THEN {SentAddress} ELSE {}

(* The applied image is what its name says: it differs from the devices    *)
(* only in registers whose last request ended with its effect unknown, and *)
(* for the one request in flight only by that request.                     *)
AppliedIsReal ==
  \A a \in 0..(Registers - 1) :
    a \notin doubt =>
      \/ device[a] = cache.applied[a]
      \/ a \in InFlight /\ reached /\ device[a] = SentValue

(* What an upstream reader sees in a register is the value of the newest   *)
(* work still owed to it, and the last applied value once none is; and     *)
(* nothing was written past the end of the image, not even by a range that *)
(* starts just below the end of the address space.                         *)
VisibleIsNewest ==
  /\ DOMAIN cache.visible = 0..(Registers - 1)
  /\ \A a \in 0..(Registers - 1) :
       LET claims == Claims(queue, a)
       IN  cache.visible[a] =
             IF claims = {} THEN cache.applied[a]
             ELSE LET i == CHOOSE j \in claims : \A k \in claims : k <= j
                  IN  Wanted(snapshots[queue[i].work], a)

(* An announced success is complete: the devices hold the whole snapshot   *)
(* of the work, whatever was submitted, failed or restarted meanwhile, and *)
(* so does the applied image.                                              *)
SuccessIsOnDevice ==
  [][told'.notice = "WorkSucceeded" =>
       \A w \in told'.reclaimed : \A a \in Covers(snapshots[w]) :
         /\ device'[a] = Wanted(snapshots[w], a)
         /\ cache'.applied[a] = Wanted(snapshots[w], a)]_vars
=============================================================================
