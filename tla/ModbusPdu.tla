------------------------------ MODULE ModbusPdu ------------------------------
(***************************************************************************)
(* The Modbus protocol data units of pysolarman/umodbus/functions.py: what *)
(* each of the eight function classes accepts, puts on the wire, takes off *)
(* the wire and answers.  A PDU is a sequence of bytes.  A function        *)
(* instance is a record of its class, its address, the quantity it reads   *)
(* and the values it writes.  What raises in the code is a result whose    *)
(* exc names the exception; "none" is a normal return.                     *)
(***************************************************************************)
EXTENDS Integers, Sequences, SequencesExt, FiniteSetsExt

Byte == 0..255
Word == 0..65535

Hi(w) == w \div 256
Lo(w) == w % 256

(* struct.pack('>H', w), struct.pack('>BHH', b, v, w) and                  *)
(* struct.unpack('>H', s[i:i + 2])                                         *)
PackWord(w) == <<Hi(w), Lo(w)>>
PackBHH(b, v, w) == <<b, Hi(v), Lo(v), Hi(w), Lo(w)>>
WordAt(s, i) == 256 * s[i] + s[i + 1]

(* Python's s[a:b], which stops at the end of s without complaint.         *)
Slice(s, a, b) == SubSeq(s, a + 1, IF b < Len(s) THEN b ELSE Len(s))

Returns(v) == [exc |-> "none", val |-> v]
Raises(e)  == [exc |-> e, val |-> << >>]

----------------------------------------------------------------------------
(* The function classes: code, effect, unit, and what their setters admit. *)
(* Two that differ only in their code share every method below, as their   *)
(* code does line by line.                                                 *)

ReadCoils == 
  [code |-> 1, does |-> "read", unit |-> "bit", max |-> 2000]
ReadDiscreteInputs == 
  [code |-> 2, does |-> "read", unit |-> "bit", max |-> 2000]
ReadHoldingRegisters == 
  [code |-> 3, does |-> "read", unit |-> "word", max |-> 125]
ReadInputRegisters == 
  [code |-> 4, does |-> "read", unit |-> "word", max |-> 125]
WriteSingleCoil ==
  [code |-> 5, does |-> "writeone", unit |-> "bit", max |-> 1, domain |-> {0, 1, 65280}]
WriteSingleRegister ==
  [code |-> 6, does |-> "writeone", unit |-> "word", max |-> 1, domain |-> Word]
WriteMultipleCoils ==
  [code |-> 15, does |-> "writemany", unit |-> "bit", max |-> 1968, domain |-> {0, 1}]
WriteMultipleRegisters ==
  [code |-> 16, does |-> "writemany", unit |-> "word", max |-> 1968, domain |-> Word]

function_code_to_function_map ==
  {ReadCoils, ReadDiscreteInputs, ReadHoldingRegisters, ReadInputRegisters,
   WriteSingleCoil, WriteSingleRegister, WriteMultipleCoils, WriteMultipleRegisters}

Known(code) == \E f \in function_code_to_function_map : f.code = code
FunctionOf(code) == CHOOSE f \in function_code_to_function_map : f.code = code

(* Instances.  Only readers have a quantity of their own.                  *)
Reader(f, address, quantity) ==
  [fn |-> f, address |-> address, quantity |-> quantity, values |-> << >>]
Writer(f, address, values) ==
  [fn |-> f, address |-> address, quantity |-> Len(values), values |-> values]

(* What a caller can ask for, right or wrong: any address, any quantity or *)
(* any values; one value for a single write.                               *)
IsInstance(i) ==
  /\ i.fn \in function_code_to_function_map
  /\ i.address \in Int /\ i.quantity \in Int /\ i.values \in Seq(Int)
  /\ i = IF i.fn.does = "read" THEN Reader(i.fn, i.address, i.quantity)
         ELSE Writer(i.fn, i.address, i.values)
  /\ i.fn.does = "writeone" => Len(i.values) = 1

(* The setters of quantity, value and values.                              *)
Legal(i) ==
  /\ i.quantity \in 1..i.fn.max
  /\ i.fn.does # "read" => \A k \in DOMAIN i.values : i.values[k] \in i.fn.domain

(* 0xFF00 stands for ON; 1 is taken for it too.                            *)
CoilOn == 65280
CoilWire(v)  == IF v = 1 THEN CoilOn ELSE v
(* Mutant: the value of a coil stays as it is on the wire.                 *)
CoilValueRaw(v) == v
CoilValue(v) == IF v = CoilOn THEN 1 ELSE v

----------------------------------------------------------------------------
(* Packing of values.                                                      *)

ByteCount(n) == (n + 7) \div 8

(* Eight bits to a byte, the first one least significant; the last byte is *)
(* filled with zeros.                                                      *)
PackBits(bits) ==
  LET Bit(k) == IF k <= Len(bits) THEN bits[k] ELSE 0
      OfByte(b) ==   1 * Bit(8 * b + 1) +  2 * Bit(8 * b + 2) 
                 +   4 * Bit(8 * b + 3) +   8 * Bit(8 * b + 4)
                 +  16 * Bit(8 * b + 5) +  32 * Bit(8 * b + 6) 
                 +  64 * Bit(8 * b + 7) + 128 * Bit(8 * b + 8)
  IN  [b \in 1..ByteCount(Len(bits)) |-> OfByte(b - 1)]

(* The code prints a byte in binary, to a minimum width, and reverses it:  *)
(* significant bits beyond the width stay, so a byte may yield more bits   *)
(* than were asked for, and never yields none.                             *)
Digits(byte, width) ==
  LET Significant == Min({n \in 1..8 : byte < 2^n})
  IN  [k \in 1..Max({width, Significant}) |-> (byte \div 2^(k - 1)) % 2]

(* Mutant: eight bits of the last byte too.                                *)
PaddingFull(quantity, k) ==
  IF (quantity - 8 * (k - 1)) \div 8 >= 0 THEN 8 ELSE quantity % 8

(* The width for the byte at position k (from 1) of quantity bits.         *)
Padding(quantity, k) ==
  IF (quantity - 8 * (k - 1)) \div 8 > 0 THEN 8 ELSE quantity % 8

UnpackBits(bytes, quantity) ==
  FlattenSeq([k \in DOMAIN bytes |-> Digits(bytes[k], Padding(quantity, k))])

PackWords(words) ==
  [k \in 1..2 * Len(words) |->
     IF k % 2 = 1 THEN Hi(words[(k + 1) \div 2]) ELSE Lo(words[k \div 2])]

UnpackWords(bytes, n) == [k \in 1..n |-> WordAt(bytes, 2 * k - 1)]

----------------------------------------------------------------------------
(* The client's request.                                                   *)

ReadRequest(i) == PackBHH(i.fn.code, i.address, i.quantity)

WriteCoilRequest(i) == PackBHH(i.fn.code, i.address, CoilWire(i.values[1]))

WriteRegisterRequest(i) == PackBHH(i.fn.code, i.address, i.values[1])

WriteCoilsRequest(i) ==
  PackBHH(i.fn.code, i.address, i.quantity)
    \o <<ByteCount(i.quantity)>> \o PackBits(i.values)

WriteRegistersRequest(i) ==
  PackBHH(i.fn.code, i.address, i.quantity)
    \o <<2 * i.quantity>> \o PackWords(i.values)

request_pdu(i) ==
  CASE i.fn.does = "read" -> ReadRequest(i)
    [] i.fn = WriteSingleCoil -> WriteCoilRequest(i)
    [] i.fn = WriteSingleRegister -> WriteRegisterRequest(i)
    [] i.fn = WriteMultipleCoils -> WriteCoilsRequest(i)
    [] i.fn = WriteMultipleRegisters -> WriteRegistersRequest(i)

(* What the caller of one of the request functions gets: the setters come  *)
(* first; struct.pack then refuses what does not fit its field, which for  *)
(* registers includes the byte count of more than 127 of them.             *)
CreateRequest(i) ==
  IF ~Legal(i) THEN Raises("IllegalDataValueError")
  ELSE IF \/ i.address \notin Word
          \/ i.fn = WriteMultipleRegisters /\ 2 * i.quantity \notin Byte
       THEN Raises("struct.error")
  ELSE Returns(request_pdu(i))

(* Mutant: the last, partial byte of bits is not counted.                  *)
ExpectedWholeBytes(i) ==
  CASE i.fn.does # "read" -> 5
    [] i.fn.does = "read" /\ i.fn.unit = "bit" -> 2 + i.quantity \div 8
    [] i.fn.does = "read" /\ i.fn.unit = "word" -> 2 + 2 * i.quantity

expected_response_pdu_size(i) ==
  CASE i.fn.does # "read" -> 5
    [] i.fn.does = "read" /\ i.fn.unit = "bit" -> 2 + ByteCount(i.quantity)
    [] i.fn.does = "read" /\ i.fn.unit = "word" -> 2 + 2 * i.quantity

----------------------------------------------------------------------------
(* The server's reading of a request.                                      *)

Checked(i) == IF Legal(i) THEN Returns(i) ELSE Raises("IllegalDataValueError")

ReadFromRequest(f, pdu) ==
  IF Len(pdu) # 5 THEN Raises("struct.error")
  ELSE Checked(Reader(f, WordAt(pdu, 2), WordAt(pdu, 4)))

(* The value is 1 for ON by the time the setter sees it, and 1 for an      *)
(* endpoint: the setter turns 1 into 0xFF00 and the getter back.           *)
WriteCoilFromRequest(pdu) ==
  IF Len(pdu) # 5 THEN Raises("struct.error")
  ELSE Checked(Writer(WriteSingleCoil, WordAt(pdu, 2), <<CoilValue(WordAt(pdu, 4))>>))

WriteRegisterFromRequest(pdu) ==
  IF Len(pdu) # 5 THEN Raises("struct.error")
  ELSE Checked(Writer(WriteSingleRegister, WordAt(pdu, 2), <<WordAt(pdu, 4)>>))

(* The byte count must match what follows; the quantity only gives the     *)
(* widths, so bits set in the padding become coils too.                    *)
WriteCoilsFromRequest(pdu) ==
  IF Len(pdu) < 6 \/ Len(pdu) - 6 # pdu[6] THEN Raises("struct.error")
  ELSE Checked(Writer(WriteMultipleCoils, WordAt(pdu, 2),
                      UnpackBits(Slice(pdu, 6, Len(pdu)), WordAt(pdu, 4))))

(* The quantity is not looked at, and an odd byte count is rounded down.   *)
WriteRegistersFromRequest(pdu) ==
  IF Len(pdu) < 6 \/ Len(pdu) - 6 # 2 * (pdu[6] \div 2) THEN Raises("struct.error")
  ELSE Checked(Writer(WriteMultipleRegisters, WordAt(pdu, 2),
                      UnpackWords(Slice(pdu, 6, Len(pdu)), pdu[6] \div 2)))

create_function_from_request_pdu(pdu) ==
  IF pdu = << >> THEN Raises("struct.error")
  ELSE IF ~Known(pdu[1]) THEN Raises("IllegalFunctionError")
  ELSE CASE pdu[1] \in 1..4 -> ReadFromRequest(FunctionOf(pdu[1]), pdu)
         [] pdu[1] = 5  -> WriteCoilFromRequest(pdu)
         [] pdu[1] = 6  -> WriteRegisterFromRequest(pdu)
         [] pdu[1] = 15 -> WriteCoilsFromRequest(pdu)
         [] pdu[1] = 16 -> WriteRegistersFromRequest(pdu)

----------------------------------------------------------------------------
(* The server's answer.                                                    *)

BitsResponse(i, data) ==
  <<i.fn.code, ByteCount(Len(data))>> \o PackBits(data)

WordsResponse(i, data) == 
  <<i.fn.code, 2 * Len(data)>> \o PackWords(data)

(* A single write is answered with the value, a multiple one with the      *)
(* number of values.                                                       *)
WriteResponse(i) ==
  PackBHH(i.fn.code, i.address,
          CASE i.fn = WriteSingleCoil -> CoilWire(i.values[1])
            [] i.fn = WriteSingleRegister -> i.values[1]
            [] i.fn.does = "writemany" -> i.quantity)

create_response_pdu(i, data) ==
  CASE i.fn.does # "read" -> WriteResponse(i)
    [] i.fn.does = "read" /\ i.fn.unit = "bit" -> BitsResponse(i, data)
    [] i.fn.does = "read" /\ i.fn.unit = "word" -> WordsResponse(i, data)

(* Exceptions that have a code on the wire.  7 and 9 to 11 are never sent  *)
(* by this server but understood by the client (9 is not).                 *)
error_code_to_exception_map ==
  [c \in {1, 2, 3, 4, 5, 6, 7, 8, 10, 11} |->
     CASE c = 1 -> "IllegalFunctionError"      [] c = 2 -> "IllegalDataAddressError"
       [] c = 3 -> "IllegalDataValueError"     [] c = 4 -> "ServerDeviceFailureError"
       [] c = 5 -> "AcknowledgeError"          [] c = 6 -> "ServerDeviceBusyError"
       [] c = 7 -> "NegativeAcknowledgeError"  [] c = 8 -> "MemoryParityError"
       [] c = 10 -> "GatewayPathUnavailableError"
       [] c = 11 -> "GatewayTargetDeviceFailedToRespondError"]

ModbusErrors == {error_code_to_exception_map[c] : c \in DOMAIN error_code_to_exception_map}
ErrorCode(e) == CHOOSE c \in DOMAIN error_code_to_exception_map :
                         error_code_to_exception_map[c] = e

(* Mutant: every exception is a failure of the server.                     *)
ExceptionPduOfFailure(code, e) == <<code + 128, 4>>

(* Any other exception is answered as a failure of the server.             *)
pack_exception_pdu(code, e) ==
  <<code + 128, IF e \in ModbusErrors THEN ErrorCode(e) ELSE 4>>

----------------------------------------------------------------------------
(* The client's reading of an answer, given the quantity it asked for.     *)

BitsFromResponse(pdu, quantity) ==
  LET bytes == Slice(pdu, 2, 2 + pdu[2])
  IN  IF Len(bytes) # pdu[2] THEN Raises("struct.error")
      ELSE Returns(UnpackBits(bytes, quantity))

WordsFromResponse(pdu, quantity) ==
  LET bytes == Slice(pdu, 2, 2 + pdu[2])
  IN  IF Len(bytes) # 2 * quantity THEN Raises("struct.error")
      ELSE Returns(UnpackWords(bytes, quantity))

WriteFromResponse(pdu) ==
  IF Len(pdu) < 5 THEN Raises("struct.error")
  ELSE LET v == WordAt(pdu, 4)
       IN  Returns(<<IF pdu[1] = 5 THEN CoilValue(v) ELSE v>>)

(* A function code that is not known is taken for an exception; an error   *)
(* code that is not known is a KeyError.                                   *)
create_function_from_response_pdu(pdu, quantity) ==
  IF pdu = << >> THEN Raises("struct.error")
  ELSE IF ~Known(pdu[1]) THEN
         Raises(IF Len(pdu) < 2 THEN "struct.error"
                ELSE IF pdu[2] \in DOMAIN error_code_to_exception_map
                     THEN error_code_to_exception_map[pdu[2]]
                ELSE "KeyError")
  ELSE IF pdu[1] \notin 1..4 THEN WriteFromResponse(pdu)
  ELSE IF Len(pdu) < 2 THEN Raises("struct.error")
  ELSE IF pdu[1] \in {1, 2} THEN BitsFromResponse(pdu, quantity)
  ELSE WordsFromResponse(pdu, quantity)
=============================================================================
