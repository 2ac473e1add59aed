-------------------------- MODULE ForwardExecution --------------------------
(***************************************************************************)
(* The planner composed with the executor: each planned write of a work is *)
(* turned into a typed request by downstreamRequestFor(), validated,       *)
(* dispatched through the master adapter and answered.  The caller uses    *)
(* the same executor for requests of its own, ill-formed ones included.    *)
(*                                                                         *)
(* A work's snapshot holds 1, 2, 3, ..., so that a value tells its place.  *)
(* The master and the devices are external: a transaction is done, refused *)
(* with an exception code, or unanswered, done or not.  The master keeps   *)
(* the code of its last transaction.                                       *)
(***************************************************************************)
EXTENDS ForwardPlan, DownstreamExecutor

CONSTANTS
  Widths,         \* the register tables of the works: coils or holdings
  OtherRequests,  \* requests of the caller that write nothing
  ExceptionCode   \* what a device refuses with

ASSUME ForwardExecutionAssumption ==
  /\ Widths \subseteq {"Coils", "HoldingRegisters"}
  /\ \A request \in OtherRequests :
       request.operation \in ReadOperation \/ Validation(request) # "Valid"
  /\ ExceptionCode \in Nat \ {0}

VARIABLES
  width,       \* the register table of the planner's works
  executed,    \* how many of the planned writes were executed
  failed,      \* history: one of them was not done
  written,     \* history: registers written since begin()
  exception,   \* external: the code the master holds
  completion   \* what the last execution returned

plan == <<routes, options, cursor, begun, planned, asked, fragments, stable>>
execution == <<executed, failed, written, exception, completion>>
allVars == <<plan, width, execution>>

Response == {"Done", "Exception", "NoAnswer"}

ExecutionInit ==
  /\ Init
  /\ width \in Widths
  /\ executed = 0
  /\ failed = FALSE
  /\ written = {}
  /\ exception = 0
  /\ completion = [sequence |-> 0, result |-> "None", exceptionCode |-> 0]

-----------------------------------------------------------------------------
(* populatePayload() and downstreamRequestFor(). *)

Snapshot(view) == [i \in 1 .. view.count |-> i]

(* A slip: the payload starts where the work does. *)
PayloadFromStart(fragment) == Snapshot(work)

Payload(fragment) ==
  SubSeq(Snapshot(work), fragment.sourceOffset + 1, work.count)

PlannedOperation(quantity) ==
  IF width = "Coils"
  THEN IF quantity = 1 THEN "WriteSingleCoil" ELSE "WriteMultipleCoils"
  ELSE IF quantity = 1 THEN "WriteSingleHoldingRegister"
       ELSE "WriteMultipleHoldingRegisters"

DownstreamRequestFor(fragment) ==
  LET payload == Payload(fragment)
      coils == width = "Coils"
  IN  [sequence |-> fragment.fragmentIndex + 1,
       operation |-> PlannedOperation(fragment.quantity),
       endpointId |-> fragment.routeIndex,
       startAddress |-> fragment.downstreamStart,
       quantity |-> fragment.quantity,
       coilBuffer |-> IF coils THEN payload ELSE NullBuffer,
       registerBuffer |-> IF coils THEN NullBuffer ELSE payload,
       coilValue |-> IF coils THEN payload[1] ELSE 0,
       registerValue |-> IF coils THEN 0 ELSE payload[1]]

-----------------------------------------------------------------------------
(* External: one transaction of the master. *)

Effect(request) ==
  LET values == WrittenValues(request)
  IN  {[endpointId |-> request.endpointId, table |-> TableOf(request.operation),
        address |-> request.startAddress + i - 1, value |-> values[i]] :
         i \in DOMAIN values}

Transaction(request, response, acted) ==
  /\ response = "Done" => acted
  /\ response = "Exception" => ~acted
  /\ written' = IF acted THEN written \cup Effect(request) ELSE written
  /\ exception' = IF response = "Exception" THEN ExceptionCode ELSE 0

-----------------------------------------------------------------------------
(* executeDownstreamRequest() *)

Rejected(request) ==
  [sequence |-> request.sequence, result |-> Validation(request),
   exceptionCode |-> 0]

Execute(request, response, acted) ==
  IF Validation(request) = "Valid"
  THEN /\ Transaction(request, response, acted)
       /\ completion' = [sequence |-> request.sequence, result |-> response,
                         exceptionCode |-> exception']
  ELSE /\ completion' = Rejected(request)
       /\ UNCHANGED <<written, exception>>

ExecuteFragment(response, acted) ==
  /\ executed < Len(fragments)
  /\ Execute(DownstreamRequestFor(fragments[executed + 1]), response, acted)
  /\ executed' = executed + 1
  /\ failed' = (failed \/ completion'.result # "Done")
  /\ UNCHANGED <<plan, width>>

ExecuteOther(request, response, acted) ==
  /\ Execute(request, response, acted)
  /\ UNCHANGED <<plan, width, executed, failed>>

-----------------------------------------------------------------------------
BeginWork(view, sessionStale) ==
  /\ Begin(view, sessionStale)
  /\ executed' = 0
  /\ failed' = FALSE
  /\ written' = {}
  /\ UNCHANGED <<width, exception, completion>>

PlanNext(sequence) ==
  /\ NextFragment(sequence)
  /\ UNCHANGED <<width, execution>>

NewRoutes(mappings) ==
  /\ ReplaceRoutes(mappings)
  /\ UNCHANGED <<width, execution>>

ExecutionNext ==
  \/ \E view \in Works, sessionStale \in BOOLEAN : BeginWork(view, sessionStale)
  \/ \E sequence \in {0, 1} : PlanNext(sequence)
  \/ \E response \in Response, acted \in BOOLEAN :
       ExecuteFragment(response, acted)
  \/ \E request \in OtherRequests, response \in Response, acted \in BOOLEAN :
       ExecuteOther(request, response, acted)
  \/ \E mappings \in RouteTables : NewRoutes(mappings)

ExecutionSpec == ExecutionInit /\ [][ExecutionNext]_allVars

-----------------------------------------------------------------------------
(* Where the values of a work belong: the register of its endpoint that    *)
(* mirrors each upstream address.                                          *)
Mirror(view) ==
  {LET route == routes[Located(routes, view.start + k)]
   IN  [endpointId |-> Located(routes, view.start + k), table |-> width,
        address |-> route.downstream.start + view.start + k - route.upstream.start,
        value |-> k + 1] : k \in 0 .. view.count - 1}

(* What the devices receive of a work is its snapshot: never a value in    *)
(* another place, whichever of its writes are refused or lost, and all of  *)
(* it once every planned write is done.  No planned write is rejected      *)
(* before it reaches the master, single or multiple.  With routes that     *)
(* stay those of begin(), as the guide asks.                               *)
DevicesMirrorSnapshot ==
  begun = "Ready" /\ stable =>
    /\ written \subseteq Mirror(asked)
    /\ planned = "Complete" /\ executed = Len(fragments) /\ ~failed =>
         written = Mirror(asked)
    /\ \A k \in 1 .. Len(fragments) :
         Validation(DownstreamRequestFor(fragments[k])) = "Valid"
=============================================================================
