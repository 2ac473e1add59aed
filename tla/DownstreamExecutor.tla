------------------------- MODULE DownstreamExecutor -------------------------
(***************************************************************************)
(* The vocabulary of include/modbus_rtu_bridge/DownstreamExecutor.h and of *)
(* its adapter adapters/ModbusRTUMasterBackend.h: a typed request, its     *)
(* validation, and the one bus transaction it is dispatched to.  A buffer  *)
(* is the sequence of the values in it.                                    *)
(***************************************************************************)
EXTENDS Integers, Sequences

DownstreamOperation ==
  {"ReadCoils", "ReadDiscreteInputs", "ReadHoldingRegisters",
   "ReadInputRegisters", "WriteSingleCoil", "WriteSingleHoldingRegister",
   "WriteMultipleCoils", "WriteMultipleHoldingRegisters"}

ReadOperation ==
  {"ReadCoils", "ReadDiscreteInputs", "ReadHoldingRegisters",
   "ReadInputRegisters"}

SingleWrite == {"WriteSingleCoil", "WriteSingleHoldingRegister"}

BitOperation ==
  {"ReadCoils", "ReadDiscreteInputs", "WriteSingleCoil", "WriteMultipleCoils"}

NullBuffer == <<>>

(* The buffer and the value an operation uses: those of its own width. *)
BufferOf(request) ==
  IF request.operation \in BitOperation THEN request.coilBuffer
                                        ELSE request.registerBuffer

ValueOf(request) ==
  IF request.operation \in BitOperation THEN request.coilValue
                                        ELSE request.registerValue

DownstreamRequestStatus ==
  {"Valid", "InvalidQuantity", "InvalidBuffer", "InvalidOperation"}

(* validateDownstreamRequest() *)
Validation(request) ==
  IF request.operation \notin DownstreamOperation THEN "InvalidOperation"
  ELSE IF request.operation \in SingleWrite THEN "Valid"
  ELSE IF request.quantity = 0 THEN "InvalidQuantity"
  ELSE IF BufferOf(request) = NullBuffer THEN "InvalidBuffer"
  ELSE "Valid"

TableOf(operation) ==
  CASE operation \in {"ReadCoils", "WriteSingleCoil", "WriteMultipleCoils"} ->
         "Coils"
    [] operation = "ReadDiscreteInputs" -> "DiscreteInputs"
    [] operation = "ReadInputRegisters" -> "InputRegisters"
    [] OTHER -> "HoldingRegisters"

(* The values a write sends: the value field of a single write, as many    *)
(* values of the buffer as the quantity says otherwise.                    *)
WrittenValues(request) ==
  IF request.operation \in ReadOperation THEN <<>>
  ELSE IF request.operation \in SingleWrite THEN <<ValueOf(request)>>
  ELSE SubSeq(BufferOf(request), 1, request.quantity)
=============================================================================
