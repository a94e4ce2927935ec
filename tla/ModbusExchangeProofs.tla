------------------------ MODULE ModbusExchangeProofs ------------------------
(***************************************************************************)
(* The invariants of an exchange, and that it is one operation on the      *)
(* memory of the device. The inductive invariant IInv says what is on the  *)
(* wire: in every phase it is the request of the call in progress or the   *)
(* answer of the server to it, and exactly what the fault says happened to *)
(* it. What the client makes of it is then a matter of ModbusLinkProofs.   *)
(***************************************************************************)
EXTENDS ModbusExchange, ModbusLinkProofs, NaturalsInduction

(* What the client makes of the answer of a server that did as asked.      *)
Answered(i, pdu, data, P) ==
  \E R : /\ AnswerIs(P, QuantityOf(pdu), R) /\ Sized(P, pdu, R)
         /\ R.exc = "none" /\ (i.fn.does = "read" => R.val = data)

LEMMA ReaderFacts ==
  ASSUME NEW f \in Readers
  PROVE  /\ f.does = "read"
         /\ f.unit = "bit" => f.code \in {1, 2} /\ f.max = 2000
         /\ f.unit = "word" => f.code \in {3, 4} /\ f.max = 125
         /\ f.unit = "bit" \/ f.unit = "word"
  BY DEF Readers, ReadCoils, ReadDiscreteInputs, ReadHoldingRegisters, ReadInputRegisters

LEMMA RangeIs ==
  ASSUME NEW m \in Int, NEW n, n = m, NEW q \in 1..n
  PROVE  q \in Int /\ 1 <= q /\ q <= m
  OBVIOUS

LEMMA InstanceIs ==
  ASSUME NEW i, IsInstance(i)
  PROVE  /\ \/ i.fn \in Readers /\ i.fn.does = "read"
            \/ /\ i.fn \in {WriteSingleCoil, WriteSingleRegister, WriteMultipleCoils,
                            WriteMultipleRegisters}
               /\ i.fn.does # "read"
         /\ i.fn.code \in {1, 2, 3, 4, 5, 6, 15, 16}
<1>1. i.fn \in function_code_to_function_map
  BY DEF IsInstance
<1> QED
  BY <1>1, FunctionFacts

LEMMA ReturnsIs == \A v : Returns(v).exc = "none" /\ Returns(v).val = v
  BY DEF Returns

LEMMA UnderstandsIs ==
  ASSUME NEW i, NEW pdu, Understands(i, pdu)
  PROVE  /\ create_function_from_request_pdu(pdu).exc = "none"
         /\ create_function_from_request_pdu(pdu).val = Received(i)
         /\ pdu \in Seq(Byte) /\ Len(pdu) >= 5 /\ Len(pdu) <= 261 /\ pdu[1] = i.fn.code
         /\ i.fn.does = "read" => Len(pdu) = 5 /\ QuantityOf(pdu) = i.quantity
  BY ReturnsIs DEF Understands

LEMMA ReceivedIs ==
  ASSUME NEW i, IsInstance(i)
  PROVE  /\ Received(i).fn = i.fn /\ Received(i).address = i.address
         /\ Received(i).quantity = i.quantity
         /\ i.fn # WriteSingleCoil => Received(i) = i
         /\ i.fn = WriteSingleCoil => Received(i).values = <<CoilValue(i.values[1])>>
<1>1. CASE i.fn # WriteSingleCoil
  BY <1>1 DEF Received
<1>2. CASE i.fn = WriteSingleCoil
  <2>1. i.fn.does = "writeone"
    BY <1>2, FunctionFacts
  <2>2. i = Writer(i.fn, i.address, i.values) /\ Len(i.values) = 1
    BY <2>1 DEF IsInstance
  <2>3. i.quantity = 1
    BY <2>2 DEF Writer
  <2> QED
    BY <1>2, <2>3 DEF Received, Writer
<1> QED
  BY <1>1, <1>2

(* The answer to a read of bits.                                           *)
LEMMA BitsReplied ==
  ASSUME NEW i, IsInstance(i), NEW pdu, Understands(i, pdu), Legal(i),
         i.fn.does = "read", i.fn.unit = "bit", NEW data \in Seq({0, 1}), Len(data) = i.quantity
  PROVE  Answered(i, pdu, data, create_response_pdu(Received(i), data))
<1> DEFINE c == i.fn.code q == i.quantity P == <<c, ByteCount(q)>> \o PackBits(data)
<1>1. i.fn \in Readers
  BY InstanceIs
<1>2. c \in BitCodes /\ q \in Int /\ 1 <= q /\ q <= 2000
  <2>1. i.fn.max = 2000 /\ c \in BitCodes
    BY <1>1, ReaderFacts DEF BitCodes
  <2> DEFINE m == 2000
  <2>2. m \in Int /\ i.fn.max = m /\ q \in 1..i.fn.max
    BY <2>1 DEF Legal
  <2> HIDE DEF m, q
  <2>3. q \in Int /\ 1 <= q /\ q <= m
    BY <2>2, RangeIs
  <2> QED
    BY <2>1, <2>3 DEF m
<1>3. AnswerIs(P, q, Returns(data))
  <2> HIDE DEF c, q
  <2>1. Len(data) = q
    BY DEF q
  <2> QED
    BY <1>2, <2>1, BitsAnswerRead
<1>4. Received(i) = i
  BY <1>1, FunctionFacts, ReceivedIs
<1>5. create_response_pdu(Received(i), data) = P
  BY <1>4 DEF create_response_pdu, BitsResponse
<1>6. P[1] = c /\ Len(P) = 2 + ByteCount(q)
  <2>1. ByteCount(q) \in Byte /\ c \in Byte
    <3> HIDE DEF c
    <3> QED
      BY <1>2, BitCount, CodeBytes DEF BitCodes
  <2>2. PackBits(data) \in Seq(Byte) /\ Len(PackBits(data)) = ByteCount(q)
    BY PackBitsBytes
  <2> HIDE DEF c, q
  <2> QED
    BY <2>1, <2>2, HeaderIs
<1>7. expected_response_pdu_size(Received(i)) = 2 + ByteCount(q)
  BY <1>4 DEF expected_response_pdu_size
<1>8. Known(c)
  <2>1. c \in {1, 2, 3, 4, 5, 6, 15, 16}
    BY <1>2 DEF BitCodes, WordCodes
  <2> HIDE DEF c
  <2> QED
    BY <2>1, Functions
<1> HIDE DEF P
<1>9. Sized(P, pdu, Returns(data))
  BY <1>6, <1>7, <1>8, UnderstandsIs DEF Sized
<1>10. QuantityOf(pdu) = q
  BY UnderstandsIs
<1>11. Returns(data).exc = "none" /\ Returns(data).val = data
  BY ReturnsIs
<1> QED
  BY <1>3, <1>5, <1>9, <1>10, <1>11 DEF Answered

(* The answer to a read of registers.                                      *)
LEMMA WordsReplied ==
  ASSUME NEW i, IsInstance(i), NEW pdu, Understands(i, pdu), Legal(i),
         i.fn.does = "read", i.fn.unit = "word", NEW data \in Seq(Word), Len(data) = i.quantity
  PROVE  Answered(i, pdu, data, create_response_pdu(Received(i), data))
<1> DEFINE c == i.fn.code q == i.quantity P == <<c, 2 * q>> \o PackWords(data)
<1>1. i.fn \in Readers
  BY InstanceIs
<1>2. c \in WordCodes /\ q \in Int /\ 1 <= q /\ q <= 125
  <2>1. i.fn.max = 125 /\ c \in WordCodes
    BY <1>1, ReaderFacts DEF WordCodes
  <2> DEFINE m == 125
  <2>2. m \in Int /\ i.fn.max = m /\ q \in 1..i.fn.max
    BY <2>1 DEF Legal
  <2> HIDE DEF m, q
  <2>3. q \in Int /\ 1 <= q /\ q <= m
    BY <2>2, RangeIs
  <2> QED
    BY <2>1, <2>3 DEF m
<1>3. AnswerIs(P, q, Returns(data))
  <2> HIDE DEF c, q
  <2>1. Len(data) = q
    BY DEF q
  <2> QED
    BY <1>2, <2>1, WordsAnswerRead
<1>4. Received(i) = i
  BY <1>1, FunctionFacts, ReceivedIs
<1>5. create_response_pdu(Received(i), data) = P
  BY <1>4 DEF create_response_pdu, WordsResponse
<1>6. P[1] = c /\ Len(P) = 2 + 2 * q
  <2> HIDE DEF c, q
  <2>0. q <= 127
    BY <1>2
  <2>1. 2 * q \in Byte /\ c \in Byte
    BY <1>2, <2>0, SmallCount, CodeBytes DEF WordCodes
  <2>2. PackWords(data) \in Seq(Byte) /\ Len(PackWords(data)) = 2 * q
    BY PackWordsBytes DEF q
  <2> QED
    BY <2>1, <2>2, HeaderIs
<1>7. expected_response_pdu_size(Received(i)) = 2 + 2 * q
  BY <1>4 DEF expected_response_pdu_size
<1>8. Known(c)
  <2>1. c \in {1, 2, 3, 4, 5, 6, 15, 16}
    BY <1>2 DEF BitCodes, WordCodes
  <2> HIDE DEF c
  <2> QED
    BY <2>1, Functions
<1> HIDE DEF P
<1>9. Sized(P, pdu, Returns(data))
  BY <1>6, <1>7, <1>8, UnderstandsIs DEF Sized
<1>10. QuantityOf(pdu) = q
  BY UnderstandsIs
<1>11. Returns(data).exc = "none" /\ Returns(data).val = data
  BY ReturnsIs
<1> QED
  BY <1>3, <1>5, <1>9, <1>10, <1>11 DEF Answered

LEMMA WriteWord ==
  ASSUME NEW i, IsInstance(i), CreateRequest(i).exc = "none", i.fn.does # "read"
  PROVE  \E v \in Word : WriteResponse(Received(i)) = PackBHH(i.fn.code, i.address, v)
<1> DEFINE j == Received(i)
<1>1. /\ i.quantity = Len(i.values) /\ i.quantity \in 1..i.fn.max
      /\ i.values \in Seq(i.fn.domain)
  BY RequestWrites
<1>2. j.fn = i.fn /\ j.address = i.address /\ j.quantity = i.quantity
  BY ReceivedIs
<1>3. CASE i.fn = WriteSingleCoil
  <2>1. Len(i.values) = 1 /\ i.values \in Seq({0, 1, CoilOn})
    BY <1>1, <1>3, FunctionFacts DEF IsInstance
  <2>2. i.values[1] \in {0, 1, CoilOn}
    BY <2>1, OneValue
  <2>3. j.values[1] = CoilValue(i.values[1])
    BY <1>3, ReceivedIs
  <2>4. j.values[1] \in {0, 1, CoilOn}
    BY <2>2, <2>3, CoilValues
  <2>5. CoilWire(j.values[1]) \in Word
    BY <2>4, CoilValues
  <2> HIDE DEF j
  <2>6. WriteResponse(j) = PackBHH(i.fn.code, i.address, CoilWire(j.values[1]))
    <3>1. j.fn # WriteSingleRegister /\ j.fn.does # "writemany"
      BY <1>2, <1>3, FunctionFacts
    <3> QED
      BY <1>2, <1>3, <3>1 DEF WriteResponse
  <2> QED
    BY <2>5, <2>6 DEF j
<1>4. CASE i.fn = WriteSingleRegister
  <2>1. Len(i.values) = 1 /\ i.values \in Seq(Word)
    BY <1>1, <1>4, FunctionFacts DEF IsInstance
  <2>2. i.values[1] \in Word
    BY <2>1, OneValue
  <2>3. j = i
    BY <1>4, FunctionFacts, ReceivedIs
  <2> HIDE DEF j
  <2>6. WriteResponse(j) = PackBHH(i.fn.code, i.address, i.values[1])
    <3>1. j.fn # WriteSingleCoil /\ j.fn.does # "writemany"
      BY <1>2, <1>4, FunctionFacts
    <3> QED
      BY <1>2, <1>4, <2>3, <3>1 DEF WriteResponse
  <2> QED
    BY <2>2, <2>6 DEF j
<1>5. CASE i.fn = WriteMultipleCoils \/ i.fn = WriteMultipleRegisters
  <2>1. i.fn.max = 1968 /\ i.fn.does = "writemany" /\ i.fn # WriteSingleCoil
        /\ i.fn # WriteSingleRegister
    BY <1>5, FunctionFacts
  <2>2. i.quantity \in Word
    <3> DEFINE q == i.quantity
    <3> DEFINE m == 1968
    <3>0. m \in Int
      OBVIOUS
    <3> HIDE DEF m
    <3>1. i.fn.max = m
      BY <2>1 DEF m
    <3>5. q \in 1..i.fn.max
      BY <1>1
    <3> HIDE DEF q
    <3>4. q \in Int /\ 1 <= q /\ q <= m
      BY <3>0, <3>1, <3>5, RangeIs
    <3>2. q \in Int /\ 0 <= q /\ q <= 65535
      BY <3>4 DEF m
    <3>3. q \in Word
      BY <3>2, WordRange
    <3> QED
      BY <3>3 DEF q
  <2> HIDE DEF j
  <2>6. WriteResponse(j) = PackBHH(i.fn.code, i.address, i.quantity)
    BY <1>2, <2>1 DEF WriteResponse
  <2> QED
    BY <2>2, <2>6 DEF j
<1> QED
  BY <1>3, <1>4, <1>5, FunctionFacts DEF IsInstance

(* The answer to a write.                                                  *)
LEMMA WriteReplied ==
  ASSUME NEW i, IsInstance(i), CreateRequest(i).exc = "none", NEW pdu, Understands(i, pdu),
         i.fn.does # "read", NEW data
  PROVE  Answered(i, pdu, data, create_response_pdu(Received(i), data))
<1> DEFINE c == i.fn.code a == i.address
<1>1. PICK v \in Word : WriteResponse(Received(i)) = PackBHH(c, a, v)
  BY WriteWord
<1> DEFINE P == PackBHH(c, a, v) R == Returns(<<IF c = 5 THEN CoilValue(v) ELSE v>>)
<1>2. c \in {5, 6, 15, 16}
  BY FunctionFacts DEF IsInstance
<1>3. a \in Word
  BY RequestMade
<1>4. AnswerIs(P, QuantityOf(pdu), R)
  <2> HIDE DEF c, a
  <2> QED
    BY <1>2, <1>3, WriteAnswerRead
<1>5. Received(i).fn = i.fn
  BY ReceivedIs
<1>6. create_response_pdu(Received(i), data) = P
  BY <1>1, <1>5 DEF create_response_pdu
<1>7. Known(c) /\ c \in Byte
  <2> HIDE DEF c
  <2> QED
    BY <1>2, Functions, CodeBytes
<1>8. P[1] = c /\ Len(P) = 5
  <2> HIDE DEF c, a
  <2> QED
    BY <1>3, <1>7, PackBHHBytes
<1>9. expected_response_pdu_size(Received(i)) = 5
  BY <1>5 DEF expected_response_pdu_size
<1>10. R.exc = "none"
  BY ReturnsIs
<1> HIDE DEF P, R
<1>11. Sized(P, pdu, R)
  BY <1>7, <1>8, <1>9, UnderstandsIs DEF Sized
<1> QED
  BY <1>4, <1>6, <1>10, <1>11 DEF Answered

(* The answer of a server that could not do as asked.                      *)
LEMMA Excused ==
  ASSUME NEW c \in {1, 2, 3, 4, 5, 6, 15, 16}, NEW pdu
  PROVE  /\ AnswerIs(<<c + 128, 2>>, QuantityOf(pdu), Raises("IllegalDataAddressError"))
         /\ Sized(<<c + 128, 2>>, pdu, Raises("IllegalDataAddressError"))
<1> DEFINE P == <<c + 128, 2>> R == Raises("IllegalDataAddressError")
<1>1. AnswerIs(P, QuantityOf(pdu), R) /\ AnswerIs(P, 0, R) /\ Len(P) = 2 /\ P[1] = c + 128
  BY ExceptionRead
<1>2. ~Known(c + 128)
  BY Unknown
<1> HIDE DEF P, R
<1>3. create_function_from_response_pdu(P, 0) = R
  BY <1>1, AnswerBytes
<1>4. Sized(P, pdu, R)
  BY <1>1, <1>2, <1>3 DEF Sized
<1> QED
  BY <1>1, <1>4 DEF P, R

-----------------------------------------------------------------------------
(* What an endpoint is given is always a value of its kind, whoever sent   *)
(* the request.                                                            *)
Decoded(f) ==
  /\ f.fn \in function_code_to_function_map
  /\ f.address \in Int
  /\ f.quantity \in Int /\ 1 <= f.quantity
  /\ f.fn.does # "read" =>
       \A k \in 1..f.quantity : /\ f.values[k] \in Word
                                /\ f.fn.unit = "bit" => f.values[k] \in {0, 1}

LEMMA CheckedIs ==
  ASSUME NEW x, Checked(x).exc = "none"
  PROVE  Checked(x).val = x /\ Legal(x)
  BY DEF Checked, Returns, Raises

LEMMA AnyWordAt ==
  ASSUME NEW pdu \in Seq(Byte), Len(pdu) >= 5
  PROVE  WordAt(pdu, 2) \in Int /\ WordAt(pdu, 4) \in Int
<1>1. pdu[2] \in Byte /\ pdu[3] \in Byte /\ pdu[4] \in Byte /\ pdu[5] \in Byte
  OBVIOUS
<1>2. pdu[2] \in Int /\ pdu[3] \in Int /\ pdu[4] \in Int /\ pdu[5] \in Int
  BY <1>1, ByteWord
<1> QED
  BY <1>2 DEF WordAt

(* What a server reads is typed, function by function.                     *)
LEMMA DecodedWrite ==
  ASSUME NEW f \in function_code_to_function_map, f.does # "read", NEW a \in Int, NEW values,
         DOMAIN values = 1..Len(values), Legal(Writer(f, a, values)),
         NEW D, f.domain = D, \A v \in D : v \in Word, f.max \in Int,
         f.unit = "bit" => D = {0, 1} \/ \A k \in DOMAIN values : values[k] # CoilOn /\ D = {0, 1, CoilOn}
  PROVE  Decoded(Writer(f, a, values))
<1> DEFINE w == Writer(f, a, values) n == Len(values)
<1>1. w.fn = f /\ w.address = a /\ w.quantity = n /\ w.values = values
  BY DEF Writer
<1> HIDE DEF w, n
<1>2. n \in 1..f.max /\ \A k \in DOMAIN values : values[k] \in D
  BY <1>1 DEF Legal, w
<1>3. n \in Int /\ 1 <= n
  BY <1>2
<1>4. DOMAIN values = 1..n
  BY DEF n
<1>5. \A k \in 1..n : values[k] \in Word
  BY <1>2, <1>4
<1>6. f.unit = "bit" => \A k \in 1..n : values[k] \in {0, 1}
  BY <1>2, <1>4
<1>7. Decoded(w)
  BY <1>1, <1>3, <1>5, <1>6 DEF Decoded
<1> QED
  BY <1>7 DEF w

LEMMA Units ==
  /\ WriteSingleCoil.unit = "bit" /\ WriteMultipleCoils.unit = "bit"
  /\ WriteSingleRegister.unit # "bit" /\ WriteMultipleRegisters.unit # "bit"
  /\ WriteSingleCoil \in function_code_to_function_map
  /\ WriteSingleRegister \in function_code_to_function_map
  /\ WriteMultipleCoils \in function_code_to_function_map
  /\ WriteMultipleRegisters \in function_code_to_function_map
<1>1. /\ WriteSingleCoil.unit = "bit" /\ WriteMultipleCoils.unit = "bit"
      /\ WriteSingleRegister.unit = "word" /\ WriteMultipleRegisters.unit = "word"
  BY DEF WriteSingleCoil, WriteMultipleCoils, WriteSingleRegister, WriteMultipleRegisters
<1> QED
  BY <1>1 DEF function_code_to_function_map

LEMMA BitsAreWords == 0 \in Word /\ 1 \in Word /\ CoilOn \in Word
<1>1. /\ 0 \in Int /\ 0 <= 0 /\ 0 <= 65535 /\ 1 \in Int /\ 0 <= 1 /\ 1 <= 65535
      /\ CoilOn \in Int /\ 0 <= CoilOn /\ CoilOn <= 65535
  BY DEF CoilOn
<1> HIDE DEF CoilOn
<1> QED
  BY <1>1, WordRange

LEMMA HeardRead ==
  ASSUME NEW pdu \in Seq(Byte), NEW f \in Readers, ReadFromRequest(f, pdu).exc = "none"
  PROVE  Decoded(ReadFromRequest(f, pdu).val)
<1> DEFINE x == Reader(f, WordAt(pdu, 2), WordAt(pdu, 4))
<1>1. Len(pdu) = 5 /\ ReadFromRequest(f, pdu) = Checked(x)
  BY DEF ReadFromRequest, Raises
<1>2. ReadFromRequest(f, pdu).val = x /\ Legal(x)
  BY <1>1, CheckedIs
<1>3. WordAt(pdu, 2) \in Int /\ WordAt(pdu, 4) \in Int
  <2>1. Len(pdu) >= 5
    BY <1>1
  <2> QED
    BY <2>1, AnyWordAt
<1>4. x.fn = f /\ x.address = WordAt(pdu, 2) /\ x.quantity = WordAt(pdu, 4)
  BY DEF Reader
<1> HIDE DEF x
<1>5. x.quantity \in 1..f.max
  BY <1>2, <1>4 DEF Legal
<1>6. f.max \in Int /\ f.does = "read" /\ f \in function_code_to_function_map
  BY FunctionFacts
<1>7. 1 <= x.quantity
  BY <1>5, <1>6
<1> QED
  BY <1>2, <1>3, <1>4, <1>6, <1>7 DEF Decoded

LEMMA HeardCoil ==
  ASSUME NEW pdu \in Seq(Byte), WriteCoilFromRequest(pdu).exc = "none"
  PROVE  Decoded(WriteCoilFromRequest(pdu).val)
<1> DEFINE v == CoilValue(WordAt(pdu, 4)) a == WordAt(pdu, 2) values == <<v>>
           x == Writer(WriteSingleCoil, a, values)
<1>1. Len(pdu) = 5 /\ WriteCoilFromRequest(pdu) = Checked(x)
  BY DEF WriteCoilFromRequest, Raises
<1>2. WriteCoilFromRequest(pdu).val = x /\ Legal(x)
  BY <1>1, CheckedIs
<1>3. a \in Int
  <2>1. Len(pdu) >= 5
    BY <1>1
  <2> QED
    BY <2>1, AnyWordAt
<1>4. v # CoilOn
  BY DEF CoilValue, CoilOn
<1> HIDE DEF v
<1>5. DOMAIN values = 1..Len(values) /\ \A k \in DOMAIN values : values[k] = v
  OBVIOUS
<1> HIDE DEF a, values
<1>6. Decoded(x)
  BY <1>2, <1>3, <1>4, <1>5, Units, FunctionFacts, BitsAreWords, DecodedWrite
<1> QED
  BY <1>2, <1>6

LEMMA HeardRegister ==
  ASSUME NEW pdu \in Seq(Byte), WriteRegisterFromRequest(pdu).exc = "none"
  PROVE  Decoded(WriteRegisterFromRequest(pdu).val)
<1> DEFINE v == WordAt(pdu, 4) a == WordAt(pdu, 2) values == <<v>>
           x == Writer(WriteSingleRegister, a, values)
<1>1. Len(pdu) = 5 /\ WriteRegisterFromRequest(pdu) = Checked(x)
  BY DEF WriteRegisterFromRequest, Raises
<1>2. WriteRegisterFromRequest(pdu).val = x /\ Legal(x)
  BY <1>1, CheckedIs
<1>3. a \in Int
  <2>1. Len(pdu) >= 5
    BY <1>1
  <2> QED
    BY <2>1, AnyWordAt
<1> HIDE DEF v
<1>5. DOMAIN values = 1..Len(values)
  OBVIOUS
<1> HIDE DEF a, values
<1>6. Decoded(x)
  BY <1>2, <1>3, <1>5, Units, FunctionFacts, DecodedWrite
<1> QED
  BY <1>2, <1>6

LEMMA HeardRegisters ==
  ASSUME NEW pdu \in Seq(Byte), WriteRegistersFromRequest(pdu).exc = "none"
  PROVE  Decoded(WriteRegistersFromRequest(pdu).val)
<1> DEFINE n == pdu[6] \div 2 a == WordAt(pdu, 2) 
           values == UnpackWords(Slice(pdu, 6, Len(pdu)), n)
           x == Writer(WriteMultipleRegisters, a, values)
<1>1. ~(Len(pdu) < 6) /\ WriteRegistersFromRequest(pdu) = Checked(x)
  BY DEF WriteRegistersFromRequest, Raises
<1>2. WriteRegistersFromRequest(pdu).val = x /\ Legal(x)
  BY <1>1, CheckedIs
<1>3. a \in Int /\ pdu[6] \in Byte
  BY <1>1, AnyWordAt
<1>4. n \in Nat
  <2> DEFINE p == pdu[6]
  <2>1. p \in Int /\ 0 <= p
    BY <1>3, ByteWord
  <2> HIDE DEF p
  <2>2. p \div 2 \in Nat
    BY <2>1
  <2> QED
    BY <2>2 DEF p
<1> HIDE DEF n
<1>5. DOMAIN values = 1..Len(values)
  BY <1>4 DEF UnpackWords
<1> HIDE DEF a, values
<1>6. Decoded(x)
  BY <1>2, <1>3, <1>5, Units, FunctionFacts, DecodedWrite
<1> QED
  BY <1>2, <1>6

(* The digits of a byte to any width, and so the bits of any bytes, are a  *)
(* sequence.                                                               *)
LEMMA DigitsTyped ==
  ASSUME NEW byte \in Byte, NEW w \in 0..8
  PROVE  \E n \in Nat : Digits(byte, w) = [k \in 1..n |-> (byte \div 2^(k - 1)) % 2]
<1> DEFINE S == {n \in 1..8 : byte < 2 ^ n}
           M == {w, Min(S)}
<1>1. 8 \in S
  BY DEF Byte
<1>2. Min(S) \in 1..8
  <2>1. \A y \in S : y \in 1..8
    OBVIOUS
  <2> HIDE DEF S
  <2>2. \E x \in S : \A y \in S : x =< y
    <3>2. CASE 1 \in S  BY <2>1, <3>2
    <3>3. CASE 2 \in S /\ 1 \notin S  BY <2>1, <3>3
    <3>4. CASE 3 \in S /\ 1 \notin S /\ 2 \notin S  BY <2>1, <3>4
    <3>5. CASE 4 \in S /\ 1 \notin S /\ 2 \notin S /\ 3 \notin S  BY <2>1, <3>5
    <3>6. CASE S \cap (1..4) = {} /\ 5 \in S  BY <2>1, <3>6
    <3>7. CASE S \cap (1..5) = {} /\ 6 \in S  BY <2>1, <3>7
    <3>8. CASE S \cap (1..6) = {} /\ 7 \in S  BY <2>1, <3>8
    <3>9. CASE S \cap (1..7) = {} /\ 8 \in S  BY <2>1, <3>9
    <3> QED
      BY <1>1, <2>1, <3>2, <3>3, <3>4, <3>5, <3>6, <3>7, <3>8, <3>9
  <2>3. Min(S) \in S
    BY <2>2 DEF Min
  <2> QED
    BY <2>1, <2>3
<1>3. Max(M) \in Nat
  <2> DEFINE m == Min(S)
  <2>1. m \in Int /\ 1 <= m /\ w \in Int /\ 0 <= w
    BY <1>2
  <2> HIDE DEF m
  <2>2. Max({w, m}) \in {w, m}
    <3>1. CASE w <= m
      BY <2>1, <3>1 DEF Max
    <3>2. CASE m <= w
      BY <2>1, <3>2 DEF Max
    <3> QED
      BY <2>1, <3>1, <3>2
  <2> QED
    BY <2>1, <2>2 DEF m
<1> HIDE DEF M
<1>4. Digits(byte, w) = [k \in 1..Max(M) |-> (byte \div 2^(k - 1)) % 2]
  BY DEF Digits, M
<1> QED
  BY <1>3, <1>4

LEMMA PaddingTyped ==
  ASSUME NEW q \in Int, NEW k \in Nat
  PROVE  Padding(q, k) \in 0..8
<1>1. q % 8 \in 0..8
  OBVIOUS
<1> QED
  BY <1>1 DEF Padding

LEMMA UnpackTyped ==
  ASSUME NEW bytes \in Seq(Byte), NEW q \in Int
  PROVE  DOMAIN UnpackBits(bytes, q) = 1..Len(UnpackBits(bytes, q))
<1> DEFINE n == Len(bytes)
           part == [k \in 1..n |-> Digits(bytes[k], Padding(q, k))]
           U(k) == {part[k][j] : j \in Nat}
           T == UNION {U(k) : k \in 1..n}
<1>1. n \in Nat /\ DOMAIN bytes = 1..n /\ \A k \in 1..n : bytes[k] \in Byte
  OBVIOUS
<1>2. \A k \in 1..n : \E m \in Nat : 
         part[k] = [j \in 1..m |-> (bytes[k] \div 2^(j - 1)) % 2]
  <2> TAKE k \in 1..n
  <2>1. Padding(q, k) \in 0..8 /\ bytes[k] \in Byte
    BY <1>1, PaddingTyped
  <2>2. part[k] = Digits(bytes[k], Padding(q, k))
    OBVIOUS
  <2> QED
    BY <2>1, <2>2, DigitsTyped
<1>3. DOMAIN part = 1..n
  OBVIOUS
<1>4. UnpackBits(bytes, q) = FlattenSeq(part)
  BY <1>1 DEF UnpackBits
<1>7. part = [k \in 1..n |-> part[k]]
  OBVIOUS
<1> HIDE DEF part
<1>5. \A k \in 1..n : part[k] \in Seq(T)
  <2> TAKE k \in 1..n
  <2> PICK m \in Nat : part[k] = [j \in 1..m |-> (bytes[k] \div 2^(j - 1)) % 2]
    BY <1>2
  <2>1. \A j \in 1..m : part[k][j] \in T
    <3> TAKE j \in 1..m
    <3>1. j \in Nat
      OBVIOUS
    <3>2. part[k][j] \in U(k)
      BY <3>1
    <3> HIDE DEF U
    <3> QED
      BY <3>2
  <2>2. part[k] = [j \in 1..m |-> part[k][j]]
    OBVIOUS
  <2> DEFINE a == part[k]
  <2>3. a = [j \in 1..m |-> a[j]] /\ \A j \in 1..m : a[j] \in T
    BY <2>1, <2>2
  <2> HIDE DEF T, a
  <2>4. [j \in 1..m |-> a[j]] \in Seq(T)
    BY <2>3
  <2>5. a \in Seq(T)
    BY <2>3, <2>4
  <2> QED
    BY <2>5 DEF a
<1> HIDE DEF T
<1>6. part \in Seq(Seq(T))
  <2>1. [k \in 1..n |-> part[k]] \in Seq(Seq(T))
    BY <1>1, <1>5
  <2> QED
    BY <1>7, <2>1
<1>8. FlattenSeq(part) \in Seq(T)
  BY <1>6, FlattenType
<1> QED
  BY <1>4, <1>8

LEMMA HeardCoils ==
  ASSUME NEW pdu \in Seq(Byte), WriteCoilsFromRequest(pdu).exc = "none"
  PROVE  Decoded(WriteCoilsFromRequest(pdu).val)
<1> DEFINE a == WordAt(pdu, 2) bytes == Slice(pdu, 6, Len(pdu))
           values == UnpackBits(bytes, WordAt(pdu, 4))
           x == Writer(WriteMultipleCoils, a, values)
<1>1. ~(Len(pdu) < 6) /\ WriteCoilsFromRequest(pdu) = Checked(x)
  BY DEF WriteCoilsFromRequest, Raises
<1>2. WriteCoilsFromRequest(pdu).val = x /\ Legal(x)
  BY <1>1, CheckedIs
<1>3. a \in Int /\ WordAt(pdu, 4) \in Int
  <2>1. Len(pdu) >= 5
    BY <1>1
  <2> QED
    BY <2>1, AnyWordAt
<1>4. bytes \in Seq(Byte)
  <2> DEFINE six == 6 n == Len(pdu)
  <2>1. six \in Nat /\ n \in Nat /\ six <= n
    BY <1>1
  <2> HIDE DEF six, n
  <2>2. IsPart(Slice(pdu, six, n), pdu, six, n - six)
    BY <2>1, SliceIs DEF n
  <2> QED
    BY <2>2 DEF IsPart, six, n
<1> HIDE DEF bytes
<1>5. DOMAIN values = 1..Len(values)
  BY <1>3, <1>4, UnpackTyped
<1> HIDE DEF a, values
<1>6. Decoded(x)
  BY <1>2, <1>3, <1>5, Units, FunctionFacts, BitsAreWords, DecodedWrite
<1> QED
  BY <1>2, <1>6

LEMMA KnownCodes ==
  ASSUME NEW c, Known(c)
  PROVE  c \in {1, 2, 3, 4, 5, 6, 15, 16}
  BY DEF Known, function_code_to_function_map, ReadCoils, ReadDiscreteInputs,
     ReadHoldingRegisters, ReadInputRegisters, WriteSingleCoil, WriteSingleRegister,
     WriteMultipleCoils, WriteMultipleRegisters

(* Whatever bytes are sent to a server, the values its endpoints are given *)
(* are words, and 0 or 1 where they are bits:                              *)
(* create_function_from_request_pdu of all functions.                      *)
THEOREM RequestDecoded ==
  ASSUME NEW pdu \in Seq(Byte), create_function_from_request_pdu(pdu).exc = "none"
  PROVE  Decoded(create_function_from_request_pdu(pdu).val)
<1> DEFINE c == pdu[1]
<1>1. pdu # << >> /\ Known(c)
  BY DEF create_function_from_request_pdu, Raises
<1>2. c \in {1, 2, 3, 4, 5, 6, 15, 16}
  <2> HIDE DEF c
  <2> QED
    BY <1>1, KnownCodes
<1>3. CASE c \in 1..4
  <2>1. FunctionOf(c) \in Readers
    BY <1>3, Functions DEF Readers
  <2>2. create_function_from_request_pdu(pdu) = ReadFromRequest(FunctionOf(c), pdu)
    BY <1>1, <1>3 DEF create_function_from_request_pdu
  <2> QED
    BY <2>1, <2>2, HeardRead
<1>4. CASE c = 5
  <2>1. create_function_from_request_pdu(pdu) = WriteCoilFromRequest(pdu)
    BY <1>1, <1>4 DEF create_function_from_request_pdu
  <2> QED
    BY <2>1, HeardCoil
<1>5. CASE c = 6
  <2>1. create_function_from_request_pdu(pdu) = WriteRegisterFromRequest(pdu)
    BY <1>1, <1>5 DEF create_function_from_request_pdu
  <2> QED
    BY <2>1, HeardRegister
<1>6. CASE c = 15
  <2>1. create_function_from_request_pdu(pdu) = WriteCoilsFromRequest(pdu)
    BY <1>1, <1>6 DEF create_function_from_request_pdu
  <2> QED
    BY <2>1, HeardCoils
<1>7. CASE c = 16
  <2>1. create_function_from_request_pdu(pdu) = WriteRegistersFromRequest(pdu)
    BY <1>1, <1>7 DEF create_function_from_request_pdu
  <2> QED
    BY <2>1, HeardRegisters
<1> QED
  BY <1>2, <1>3, <1>4, <1>5, <1>6, <1>7

-----------------------------------------------------------------------------
(* The inductive invariant.                                                *)

NoInstance == [slave |-> ForeignSlave, instance |-> Reader(ReadCoils, 0, 0)]
Inst == call.instance
AskedPdu == request_pdu(Inst)

(* The request is that of the call in progress.                            *)
Asked ==
  /\ call \in Calls /\ CreateRequest(Inst).exc = "none"
  /\ \E t \in Transactions : request = RequestAdu(t, call.slave, AskedPdu)

(* The answer of the server to an instance.                                *)
AnswerTo(i, exc, data) ==
  IF exc = "none" THEN create_response_pdu(Received(i), data) ELSE <<i.fn.code + 128, 2>>

AnswerPdu == AnswerTo(Inst, served.exc, served.data)

(* The server has carried it out, as far as there are endpoints.           *)
Served ==
  /\ served.count = Admitted(call.slave, Inst)
  /\ served.exc = IF served.count = Inst.quantity THEN "none" ELSE "IllegalDataAddressError"
  /\ Reading => /\ served.data \in Seq(Word) /\ Len(served.data) = served.count
                /\ Inst.fn.unit = "bit" => served.data \in Seq({0, 1})
  /\ ~Reading => served.data = << >>
  /\ served.adu = create_response_adu(request, AnswerPdu)

(* What is under way, or was received, is the server's answer and what     *)
(* happened to it.                                                         *)
WireOfAnswer ==
  \/ /\ fault = "none"
     /\ wire = served.adu
  \/ /\ fault = "damaged" /\ framing # "tcp"
     /\ OneDiffers(served.adu, wire)
  \/ /\ fault = "zeros" /\ framing = "v5"
     /\ wire = served.adu \o <<0, 0>>
  \/ /\ fault = "short" /\ framing = "v5" /\ served.exc # "none"
     /\ wire = <<2>>
  \/ /\ fault = "cut" /\ framing = "tcp"
     /\ \E n \in 7..(Len(served.adu) - 1) : wire = SubSeq(served.adu, 1, n)

(* Nobody answers.                                                         *)
NoAnswer ==
  \/ fault = "lost"
  \/ fault = "damaged" /\ served = Unserved

Typed ==
  /\ framing \in Framing
  /\ mem \in [Cells -> Word]
  /\ \A c \in BitCells : mem[c] \in {0, 1}
  /\ phase \in Phase
  /\ fault \in Fault
  /\ wire \in Seq(Byte)
  /\ exchanges \in 0..MaxExchanges

NotAsked ==
  /\ phase = "idle" /\ served = Unserved /\ wire = << >> /\ fault = "none"
  /\ result.exc # "none"
  /\ call = NoInstance \/ call \in Calls

WireOfRequest ==
  \/ /\ fault = "none"
     /\ wire = request
  \/ /\ fault = "damaged" /\ framing # "tcp"
     /\ OneDiffers(request, wire)

InPhase ==
  /\ phase = "asked" => /\ served = Unserved
                        /\ WireOfRequest
  /\ phase = "answered" => Served /\ WireOfAnswer
  /\ phase = "lost" => NoAnswer
  /\ phase = "idle" => \/ result = Raises("TimeoutError") /\ NoAnswer
                       \/ Served /\ WireOfAnswer /\ result = Parse(wire)
  /\ phase # "idle" => result.exc # "none"

IInv ==
  /\ Typed
  /\ request = << >> => NotAsked
  /\ request # << >> => Asked /\ InPhase /\ (served = Unserved \/ Served)

-----------------------------------------------------------------------------
LEMMA RulesAre ==
  /\ Len(Rules) \in Nat /\ DOMAIN Rules = 1..Len(Rules)
  /\ \A r \in DOMAIN Rules : Rules[r].addresses \subseteq Int /\ Rules[r].store # "nowhere"
<1>1. Rules \in Seq([slaves : SUBSET Int, codes : SUBSET Int,
                     addresses : SUBSET Int, store : STRING \ {"nowhere"}])
  BY DeviceAssumption
<1> DEFINE R == [slaves : SUBSET Int, codes : SUBSET Int,
                 addresses : SUBSET Int, store : STRING \ {"nowhere"}]
<1>2. \A x \in R : x.addresses \subseteq Int /\ x.store # "nowhere"
  OBVIOUS
<1>4. Rules \in Seq(R)
  BY <1>1
<1> HIDE DEF R
<1>3. Len(Rules) \in Nat /\ DOMAIN Rules = 1..Len(Rules)
      /\ \A r \in DOMAIN Rules : Rules[r] \in R
  BY <1>4
<1> QED
  BY <1>2, <1>3

(* The least of a set of naturals.                                         *)
LEMMA LeastOf ==
  ASSUME NEW S, S \subseteq Nat, S # {}
  PROVE  Min(S) \in S /\ \A y \in S : Min(S) <= y
<1>1. PICK k \in S : \A l \in S : ~(<<l, k>> \in OpToRel(<, Nat))
  BY WFMin, NatLessThanWellFounded
<1>2. \A l \in S : ~(l < k)
  BY <1>1, Zenon DEF OpToRel
<1>3. \A l \in S : k <= l
  BY <1>2
<1> QED
  BY <1>3 DEF Min

LEMMA CellsAre ==
  ASSUME NEW c \in Cells
  PROVE  /\ c # Nowhere /\ c[2] \in Int
         /\ \E r \in DOMAIN Rules : c = <<Rules[r].store, c[2]>> /\ c[2] \in Rules[r].addresses
<1>1. PICK r \in DOMAIN Rules : c \in {<<Rules[r].store, a>> : a \in Rules[r].addresses}
  BY DEF Cells
<1>2. PICK a \in Rules[r].addresses : c = <<Rules[r].store, a>>
  BY <1>1
<1>3. a \in Int /\ Rules[r].store # "nowhere"
  BY RulesAre
<1>4. c[2] = a /\ c[1] = Rules[r].store
  BY <1>2
<1>5. Nowhere[1] = "nowhere"
  BY DEF Nowhere
<1> QED
  BY <1>2, <1>3, <1>4, <1>5

(* The endpoint of a function and an address, if there is one.             *)
IsMatch(c, code, a) ==
  /\ c \in Cells /\ c[2] = a
  /\ \E r \in DOMAIN Rules : /\ c = <<Rules[r].store, a>>
                             /\ code \in Rules[r].codes
                             /\ a \in Rules[r].addresses

LEMMA MatchIs ==
  ASSUME NEW slave, NEW code, NEW a, match(slave, code, a) # Nowhere
  PROVE  IsMatch(match(slave, code, a), code, a)
<1> DEFINE M == Matching(slave, code, a) r == Min(M)
<1>1. M # {} /\ match(slave, code, a) = <<Rules[r].store, a>>
  BY DEF match
<1>2. M \subseteq Nat
  BY RulesAre DEF Matching
<1>3. r \in M
  <2> HIDE DEF M
  <2> QED
    BY <1>1, <1>2, LeastOf
<1>4. r \in DOMAIN Rules /\ code \in Rules[r].codes /\ a \in Rules[r].addresses
  <2> HIDE DEF r
  <2> QED
    BY <1>3 DEF Matching
<1> HIDE DEF r
<1>5. <<Rules[r].store, a>> \in Cells
  BY <1>4 DEF Cells
<1>6. <<Rules[r].store, a>>[2] = a
  OBVIOUS
<1> QED
  BY <1>1, <1>4, <1>5, <1>6 DEF IsMatch

(* A cell of a bit function is a cell of bits, one of a word function not. *)
LEMMA BitCellIs ==
  ASSUME NEW slave, NEW code, NEW a, match(slave, code, a) # Nowhere
  PROVE  /\ code \in BitFunctions => match(slave, code, a) \in BitCells
         /\ code \in WordFunctions => match(slave, code, a) \notin BitCells
<1> DEFINE c == match(slave, code, a)
<1>0. IsMatch(c, code, a)
  BY MatchIs
<1> HIDE DEF c
<1>1. PICK r \in DOMAIN Rules : /\ c = <<Rules[r].store, a>> /\ code \in Rules[r].codes
                                /\ a \in Rules[r].addresses
  BY <1>0 DEF IsMatch
<1>2. ASSUME code \in BitFunctions PROVE c \in BitCells
  <2>1. Rules[r].codes \cap BitFunctions # {}
    BY <1>1, <1>2
  <2> QED
    BY <1>1, <2>1 DEF BitCells
<1>3. ASSUME code \in WordFunctions, c \in BitCells PROVE FALSE
  <2>1. PICK s \in DOMAIN Rules : /\ Rules[s].codes \cap BitFunctions # {}
                                  /\ c \in {<<Rules[s].store, b>> : b \in Rules[s].addresses}
    BY <1>3 DEF BitCells
  <2>2. PICK b \in Rules[s].addresses : c = <<Rules[s].store, b>>
    BY <2>1
  <2>3. Rules[s].store = Rules[r].store
    BY <1>1, <2>2
  <2>4. Rules[r].codes \cap WordFunctions # {}
    BY <1>1, <1>3
  <2> QED
    BY <2>1, <2>3, <2>4, DeviceAssumption
<1> QED
  BY <1>2, <1>3 DEF c

LEMMA FunctionUnits ==
  ASSUME NEW f \in function_code_to_function_map
  PROVE  /\ f.unit = "bit" => f.code \in BitFunctions
         /\ f.unit # "bit" => f.code \in WordFunctions
  BY DEF function_code_to_function_map, ReadCoils, ReadDiscreteInputs, ReadHoldingRegisters,
     ReadInputRegisters, WriteSingleCoil, WriteSingleRegister, WriteMultipleCoils,
     WriteMultipleRegisters, BitFunctions, WordFunctions

LEMMA AdmittedIs ==
  ASSUME NEW slave, NEW i, i.quantity \in Int, 0 <= i.quantity
  PROVE  /\ Admitted(slave, i) \in Int /\ 0 <= Admitted(slave, i) /\ Admitted(slave, i) <= i.quantity
         /\ \A k \in 1..Admitted(slave, i) :
              /\ CellsOf(slave, i)[k] = match(slave, i.fn.code, i.address + (k - 1))
              /\ CellsOf(slave, i)[k] # Nowhere
<1> DEFINE q == i.quantity cells == CellsOf(slave, i)
           missing == {k \in DOMAIN cells : cells[k] = Nowhere} n == Admitted(slave, i)
<1>1. /\ DOMAIN cells = 1..q
      /\ \A k \in 1..q : cells[k] = match(slave, i.fn.code, i.address + (k - 1))
  BY DEF CellsOf
<1>2. n = IF missing = {} THEN q ELSE Min(missing) - 1
  BY DEF Admitted
<1>3. q \in Int /\ 0 <= q
  OBVIOUS
<1>4. \A k \in missing : k \in 1..q
  BY <1>1
<1>5. \A k \in 1..q : k \notin missing => cells[k] # Nowhere
  BY <1>1
<1> HIDE DEF q, cells, missing, n
<1>6. CASE missing = {}
  <2>1. n = q
    BY <1>2, <1>6
  <2>2. \A k \in 1..q : cells[k] # Nowhere
    BY <1>5, <1>6
  <2>3. n \in Int /\ 0 <= n /\ n <= q
    BY <1>3, <2>1
  <2>4. \A k \in 1..n : /\ cells[k] = match(slave, i.fn.code, i.address + (k - 1))
                        /\ cells[k] # Nowhere
    BY <1>1, <2>1, <2>2
  <2> QED
    BY <2>3, <2>4 DEF n, cells, q
<1>7. CASE missing # {}
  <2>1. missing \subseteq Nat
    BY <1>3, <1>4
  <2> DEFINE m == Min(missing)
  <2>2. m \in missing /\ \A y \in missing : m <= y
    BY <1>7, <2>1, LeastOf
  <2>3. n = m - 1
    BY <1>2, <1>7
  <2>4. m \in 1..q
    BY <1>4, <2>2
  <2> HIDE DEF m
  <2>5. n \in Int /\ 0 <= n /\ n <= q
    BY <1>3, <2>3, <2>4
  <2>6. ASSUME NEW k \in 1..n PROVE k \in 1..q /\ k \notin missing
    BY <1>3, <2>2, <2>3, <2>4, <2>6
  <2> QED
    BY <1>1, <1>5, <2>5, <2>6 DEF n, cells, q
<1> QED
  BY <1>6, <1>7

(* Memory, as it should be.                                                *)
MemOK(m) == m \in [Cells -> Word] /\ \A c \in BitCells : m[c] \in {0, 1}

LEMMA BitCellsAre == BitCells \subseteq Cells
  BY DEF BitCells, Cells

(* A written cell gets one of the values, and those of bits get bits.      *)
LEMMA WrittenTyped ==
  ASSUME NEW m, MemOK(m), NEW slave, NEW f, Decoded(f), f.fn.does # "read"
  PROVE  MemOK(WrittenBy(m, slave, f))
<1> DEFINE n == Admitted(slave, f) w == WrittenBy(m, slave, f)
           At(c) == (c[2] - f.address) + 1
           Hit(c) == At(c) \in 1..n /\ match(slave, f.fn.code, c[2]) = c
<1>1. /\ f.fn \in function_code_to_function_map /\ f.address \in Int
      /\ f.quantity \in Int /\ 0 <= f.quantity
      /\ \A k \in 1..f.quantity : /\ f.values[k] \in Word
                                  /\ f.fn.unit = "bit" => f.values[k] \in {0, 1}
  BY DEF Decoded
<1>2. n \in Int /\ 0 <= n /\ n <= f.quantity
  BY <1>1, AdmittedIs
<1>3. DOMAIN m = Cells
  BY DEF MemOK
<1>4. w = [c \in Cells |-> IF Hit(c) THEN f.values[At(c)] ELSE m[c]]
  BY <1>3 DEF WrittenBy
<1> HIDE DEF n, w
<1>5. \A c \in Cells : Hit(c) => At(c) \in 1..f.quantity
  <2>1. \A k \in 1..n : k \in 1..f.quantity
    BY <1>1, <1>2
  <2> QED
    BY <2>1
<1>6. ASSUME NEW c \in BitCells, Hit(c) PROVE f.fn.unit = "bit"
  <2>1. c \in Cells /\ c # Nowhere
    BY BitCellsAre, CellsAre
  <2>2. match(slave, f.fn.code, c[2]) = c
    BY <1>6
  <2>3. f.fn.code \notin WordFunctions
    BY <2>1, <2>2, BitCellIs
  <2> QED
    BY <1>1, <2>3, FunctionUnits
<1> HIDE DEF At
<1>7. \A c \in Cells : w[c] = IF Hit(c) THEN f.values[At(c)] ELSE m[c]
  BY <1>4
<1>8. \A c \in Cells : w[c] \in Word
  <2> TAKE c \in Cells
  <2>1. CASE Hit(c)
    <3>1. w[c] = f.values[At(c)] /\ At(c) \in 1..f.quantity
      BY <1>5, <1>7, <2>1
    <3> QED
      BY <1>1, <3>1
  <2>2. CASE ~Hit(c)
    BY <1>7, <2>2 DEF MemOK
  <2> QED
    BY <2>1, <2>2
<1>9. \A c \in BitCells : w[c] \in {0, 1}
  <2> TAKE c \in BitCells
  <2>0. c \in Cells
    BY BitCellsAre
  <2>1. CASE Hit(c)
    <3>1. w[c] = f.values[At(c)] /\ At(c) \in 1..f.quantity
      BY <1>5, <1>7, <2>0, <2>1
    <3>2. f.fn.unit = "bit"
      BY <1>6, <2>1
    <3> QED
      BY <1>1, <3>1, <3>2
  <2>2. CASE ~Hit(c)
    BY <1>7, <2>0, <2>2 DEF MemOK
  <2> QED
    BY <2>1, <2>2
<1>10. w \in [Cells -> Word]
  <2> HIDE DEF Hit
  <2> QED
    BY <1>4, <1>8
<1> QED
  BY <1>9, <1>10 DEF MemOK, w

(* A tuple is what its places hold.                                        *)
IsBuilt(s, n, T) == n \in Nat /\ s = [k \in 1..n |-> s[k]] /\ \A k \in 1..n : s[k] \in T

LEMMA BuiltSeq ==
  ASSUME NEW T, NEW n, NEW s, IsBuilt(s, n, T)
  PROVE  s \in Seq(T) /\ Len(s) = n
<1> DEFINE g(k) == s[k]
<1>1. n \in Nat /\ s = [k \in 1..n |-> g(k)] /\ \A k \in 1..n : g(k) \in T
  BY DEF IsBuilt
<1> HIDE DEF g
<1>2. [k \in 1..n |-> g(k)] \in Seq(T)
  BY <1>1
<1>3. Len([k \in 1..n |-> g(k)]) = n
  BY <1>1
<1>4. s \in Seq(T)
  BY <1>1, <1>2
<1>5. Len(s) = n
  BY <1>1, <1>3
<1> QED
  BY <1>4, <1>5

(* What a read finds.                                                      *)
LEMMA ReadTyped ==
  ASSUME NEW m, MemOK(m), NEW slave, NEW i, i.quantity \in Int, 0 <= i.quantity,
         i.fn \in function_code_to_function_map,
         NEW data, data = [k \in 1..Admitted(slave, i) |-> m[CellsOf(slave, i)[k]]]
  PROVE  /\ data \in Seq(Word) /\ Len(data) = Admitted(slave, i)
         /\ i.fn.unit = "bit" => data \in Seq({0, 1})
<1> DEFINE n == Admitted(slave, i) cells == CellsOf(slave, i) code == i.fn.code Bits == {0, 1}
<1>0. /\ n \in Int /\ 0 <= n
      /\ \A k \in 1..n : /\ cells[k] = match(slave, code, i.address + (k - 1))
                         /\ cells[k] # Nowhere
  BY AdmittedIs
<1>1. data = [k \in 1..n |-> m[cells[k]]]
  OBVIOUS
<1>2. /\ m \in [Cells -> Word]
      /\ \A c \in BitCells : m[c] \in Bits
  BY DEF MemOK
<1>3. i.fn.unit = "bit" => code \in BitFunctions
  BY FunctionUnits
<1> HIDE DEF n, cells, code, Bits
<1>4. n \in Nat
  BY <1>0
<1>5. ASSUME NEW k \in 1..n
      PROVE  cells[k] \in Cells /\ (i.fn.unit = "bit" => cells[k] \in BitCells)
  <2> DEFINE a == i.address + (k - 1)
  <2>1. cells[k] = match(slave, code, a) /\ match(slave, code, a) # Nowhere
    BY <1>0
  <2> HIDE DEF a
  <2>2. IsMatch(cells[k], code, a)
    BY <2>1, MatchIs
  <2>3. cells[k] \in Cells
    BY <2>2 DEF IsMatch
  <2>4. code \in BitFunctions => cells[k] \in BitCells
    BY <2>1, BitCellIs
  <2> QED
    BY <1>3, <2>3, <2>4
<1>6. \A k \in 1..n : data[k] = m[cells[k]]
  BY <1>1
<1>7. data = [k \in 1..n |-> data[k]]
  BY <1>1
<1>8. \A k \in 1..n : data[k] \in Word
  BY <1>2, <1>5, <1>6
<1>9. IsBuilt(data, n, Word)
  BY <1>4, <1>7, <1>8 DEF IsBuilt
<1>10. ASSUME i.fn.unit = "bit" PROVE data \in Seq(Bits)
  <2>1. \A k \in 1..n : data[k] \in Bits
    BY <1>2, <1>5, <1>6, <1>10
  <2>2. IsBuilt(data, n, Bits)
    BY <1>4, <1>7, <2>1 DEF IsBuilt
  <2> QED
    BY <2>2, BuiltSeq
<1>11. data \in Seq(Word) /\ Len(data) = n
  BY <1>9, BuiltSeq
<1> QED
  BY <1>10, <1>11 DEF n, Bits

(* Whatever is sent, the memory stays what it should be.                   *)
LEMMA RouteTyped ==
  ASSUME NEW m, MemOK(m), NEW slave, NEW pdu \in Seq(Byte)
  PROVE  MemOK(execute_route(m, slave, pdu).mem)
<1> DEFINE f == create_function_from_request_pdu(pdu) run == Execute(m, slave, f.val)
<1>1. CASE f.exc # "none"
  BY <1>1 DEF execute_route
<1>2. CASE f.exc = "none"
  <2>1. execute_route(m, slave, pdu).mem = run.mem
    BY <1>2 DEF execute_route
  <2>2. Decoded(f.val)
    BY <1>2, RequestDecoded
  <2> HIDE DEF f
  <2>3. run.mem = IF f.val.fn.does = "read" THEN m ELSE WrittenBy(m, slave, f.val)
    BY DEF Execute
  <2> HIDE DEF run
  <2>4. f.val.fn.does # "read" => MemOK(WrittenBy(m, slave, f.val))
    BY <2>2, WrittenTyped
  <2> QED
    BY <2>1, <2>3, <2>4 DEF f
<1> QED
  BY <1>1, <1>2

-----------------------------------------------------------------------------
(* The server has the same cells in mind as the caller.                    *)
LEMMA SameCells ==
  ASSUME NEW slave, NEW i, NEW j, j.fn = i.fn, j.address = i.address, j.quantity = i.quantity
  PROVE  CellsOf(slave, j) = CellsOf(slave, i) /\ Admitted(slave, j) = Admitted(slave, i)
<1>1. CellsOf(slave, j) = CellsOf(slave, i)
  BY DEF CellsOf
<1> QED
  BY <1>1 DEF Admitted

(* What a route makes of a request that is understood.                     *)
IsRoute(run, m, slave, i) ==
  /\ run.count = Admitted(slave, i)
  /\ run.mem = IF i.fn.does = "read" THEN m ELSE WrittenBy(m, slave, Received(i))
  /\ run.data = IF i.fn.does = "read"
                THEN [k \in 1..Admitted(slave, i) |-> m[CellsOf(slave, i)[k]]] ELSE << >>
  /\ run.exc = IF Admitted(slave, i) = i.quantity THEN "none" ELSE "IllegalDataAddressError"
  /\ run.pdu = IF run.exc = "none" THEN create_response_pdu(Received(i), run.data)
               ELSE <<i.fn.code + 128, 2>>

LEMMA ExceptionIs ==
  ASSUME NEW c \in {1, 2, 3, 4, 5, 6, 15, 16}, NEW pdu \in Seq(Byte), Len(pdu) >= 5, pdu[1] = c
  PROVE  ExceptionAnswer(pdu, "IllegalDataAddressError") = <<c + 128, 2>>
<1>1. pdu # << >> /\ ~(pdu[1] > 127)
  OBVIOUS
<1>2. pack_exception_pdu(c, "IllegalDataAddressError") = <<c + 128, 2>>
  BY ExceptionRead
<1> QED
  BY <1>1, <1>2 DEF ExceptionAnswer

LEMMA RouteIs ==
  ASSUME NEW m, NEW slave, NEW i, IsInstance(i), NEW pdu, Understands(i, pdu)
  PROVE  IsRoute(execute_route(m, slave, pdu), m, slave, i)
<1> DEFINE f == create_function_from_request_pdu(pdu) j == Received(i)
           e == Execute(m, slave, j) run == execute_route(m, slave, pdu)
           c == i.fn.code
<1>1. f.exc = "none" /\ f.val = j
  BY UnderstandsIs
<1>2. pdu \in Seq(Byte) /\ Len(pdu) >= 5 /\ pdu[1] = c
  BY UnderstandsIs
<1>3. j.fn = i.fn /\ j.address = i.address /\ j.quantity = i.quantity
  BY ReceivedIs
<1>4. c \in {1, 2, 3, 4, 5, 6, 15, 16}
  BY InstanceIs
<1> HIDE DEF j, f, c
<1>5. CellsOf(slave, j) = CellsOf(slave, i) /\ Admitted(slave, j) = Admitted(slave, i)
  BY <1>3, SameCells
<1>6. /\ e.mem = IF j.fn.does = "read" THEN m ELSE WrittenBy(m, slave, j)
      /\ e.count = Admitted(slave, j)
      /\ e.data = IF j.fn.does = "read"
                  THEN [k \in 1..Admitted(slave, j) |-> m[CellsOf(slave, j)[k]]] ELSE << >>
      /\ e.exc = IF Admitted(slave, j) = j.quantity THEN "none" ELSE "IllegalDataAddressError"
  BY DEF Execute
<1>7. run = [mem |-> e.mem, count |-> e.count, data |-> e.data, exc |-> e.exc,
             pdu |-> IF e.exc = "none" THEN create_response_pdu(j, e.data)
                     ELSE ExceptionAnswer(pdu, e.exc)]
  BY <1>1 DEF execute_route, f
<1> HIDE DEF e, run
<1>8. /\ run.mem = e.mem /\ run.count = e.count /\ run.data = e.data /\ run.exc = e.exc
      /\ run.pdu = IF e.exc = "none" THEN create_response_pdu(j, e.data)
                   ELSE ExceptionAnswer(pdu, e.exc)
  BY <1>7
<1>9. ExceptionAnswer(pdu, "IllegalDataAddressError") = <<c + 128, 2>>
  BY <1>2, <1>4, ExceptionIs
<1>10. e.exc # "none" => e.exc = "IllegalDataAddressError"
  BY <1>6
<1>11. run.pdu = IF run.exc = "none" THEN create_response_pdu(j, run.data) ELSE <<c + 128, 2>>
  BY <1>8, <1>9, <1>10
<1>12. run.count = Admitted(slave, i)
  BY <1>5, <1>6, <1>8
<1>13. run.mem = IF i.fn.does = "read" THEN m ELSE WrittenBy(m, slave, j)
  BY <1>3, <1>6, <1>8
<1>14. run.data = IF i.fn.does = "read"
                  THEN [k \in 1..Admitted(slave, i) |-> m[CellsOf(slave, i)[k]]] ELSE << >>
  BY <1>3, <1>5, <1>6, <1>8
<1>15. run.exc = IF Admitted(slave, i) = i.quantity THEN "none" ELSE "IllegalDataAddressError"
  BY <1>3, <1>5, <1>6, <1>8
<1> QED
  BY <1>11, <1>12, <1>13, <1>14, <1>15 DEF IsRoute, j, run, c

(* What the client will make of the answer.                                *)
Told(i, pdu, exc, data, R) ==
  /\ AnswerIs(AnswerTo(i, exc, data), QuantityOf(pdu), R)
  /\ Sized(AnswerTo(i, exc, data), pdu, R)
  /\ exc = "none" => R.exc = "none" /\ (i.fn.does = "read" => R.val = data)
  /\ exc # "none" => R = Raises("IllegalDataAddressError")

(* What the client makes of the answer is settled when it is sent.         *)
LEMMA AnswerTold ==
  ASSUME NEW i, IsInstance(i), CreateRequest(i).exc = "none", NEW pdu, Understands(i, pdu),
         NEW exc, NEW data,
         exc = "none" /\ i.fn.does = "read"
           => /\ data \in Seq(Word) /\ Len(data) = i.quantity
              /\ i.fn.unit = "bit" => data \in Seq({0, 1})
  PROVE  \E R : Told(i, pdu, exc, data, R)
<1>1. CASE exc # "none"
  <2> DEFINE R == Raises("IllegalDataAddressError") c == i.fn.code
  <2>1. c \in {1, 2, 3, 4, 5, 6, 15, 16}
    BY InstanceIs
  <2> HIDE DEF c, R
  <2>2. AnswerIs(<<c + 128, 2>>, QuantityOf(pdu), R) /\ Sized(<<c + 128, 2>>, pdu, R)
    BY <2>1, Excused DEF R
  <2>3. AnswerTo(i, exc, data) = <<c + 128, 2>>
    BY <1>1 DEF AnswerTo, c
  <2>4. Told(i, pdu, exc, data, R)
    BY <1>1, <2>2, <2>3 DEF Told, R
  <2> QED
    BY <2>4
<1>2. CASE exc = "none"
  <2> DEFINE P == create_response_pdu(Received(i), data)
  <2>1. Answered(i, pdu, data, P)
    <3>1. CASE i.fn.does # "read"
      BY <3>1, WriteReplied
    <3>2. CASE i.fn.does = "read"
      <4>1. Legal(i)
        BY RequestMade
      <4>2. i.fn \in Readers
        BY <3>2, InstanceIs, FunctionFacts
      <4>3. CASE i.fn.unit = "bit"
        <5>1. data \in Seq({0, 1}) /\ Len(data) = i.quantity
          BY <1>2, <3>2, <4>3
        <5> QED
          BY <3>2, <4>1, <4>3, <5>1, BitsReplied
      <4>4. CASE i.fn.unit = "word"
        <5>1. data \in Seq(Word) /\ Len(data) = i.quantity
          BY <1>2, <3>2
        <5> QED
          BY <3>2, <4>1, <4>4, <5>1, WordsReplied
      <4> QED
        BY <4>2, <4>3, <4>4, ReaderFacts
    <3> QED
      BY <3>1, <3>2
  <2> HIDE DEF P
  <2>2. PICK R : /\ AnswerIs(P, QuantityOf(pdu), R) /\ Sized(P, pdu, R)
                 /\ R.exc = "none" /\ (i.fn.does = "read" => R.val = data)
    BY <2>1 DEF Answered
  <2>3. AnswerTo(i, exc, data) = P
    BY <1>2 DEF AnswerTo, P
  <2>4. Told(i, pdu, exc, data, R)
    BY <1>2, <2>2, <2>3 DEF Told
  <2> QED
    BY <2>4
<1> QED
  BY <1>1, <1>2

-----------------------------------------------------------------------------
(* The request as both ends read it.                                       *)
Wired ==
  /\ call.slave \in Byte /\ IsInstance(Inst) /\ CreateRequest(Inst).exc = "none"
  /\ Understands(Inst, AskedPdu)
  /\ request \in Seq(Byte)
  /\ framing # "tcp" => request = RtuAdu(call.slave, AskedPdu)
  /\ framing = "tcp" => /\ IsTcp(request, call.slave, AskedPdu)
                        /\ WordAt(request, 1) \in Word
                        /\ QuantityOf(request) = QuantityOf(AskedPdu)

LEMMA AskedIs == Asked => Wired
<1> SUFFICES ASSUME Asked PROVE Wired
  OBVIOUS
<1>1. call.slave \in Byte /\ IsInstance(Inst) /\ CreateRequest(Inst).exc = "none"
  BY CallersAssumption DEF Asked, Inst
<1>2. Understands(Inst, AskedPdu)
  BY <1>1, RequestUnderstood, RequestMade DEF AskedPdu
<1>3. AskedPdu \in Seq(Byte) /\ Len(AskedPdu) >= 5 /\ Len(AskedPdu) <= 261
  BY <1>2, UnderstandsIs
<1>4. PICK t \in Transactions : request = RequestAdu(t, call.slave, AskedPdu)
  BY DEF Asked
<1>5. t \in Word
  BY LinkAssumption
<1>6. CASE framing # "tcp"
  <2>1. request = RtuAdu(call.slave, AskedPdu)
    BY <1>4, <1>6 DEF RequestAdu
  <2>2. IsRtu(request, call.slave, AskedPdu)
    BY <1>1, <1>3, <2>1, RtuIs
  <2>3. request \in Seq(Byte)
    BY <2>2 DEF IsRtu
  <2> QED
    BY <1>1, <1>2, <1>6, <2>1, <2>3 DEF Wired
<1>7. CASE framing = "tcp"
  <2>1. request = TcpAdu(t, call.slave, AskedPdu)
    BY <1>4, <1>7 DEF RequestAdu
  <2>2. IsTcp(request, call.slave, AskedPdu) /\ WordAt(request, 1) = t
    BY <1>1, <1>3, <1>5, <2>1, TcpIs
  <2>3. request \in Seq(Byte)
    BY <2>2 DEF IsTcp
  <2>4. Len(AskedPdu) >= 2
    BY <1>3
  <2>5. QuantityOf(request) = QuantityOf(AskedPdu)
    BY <2>2, <2>4, TcpQuantity
  <2> QED
    BY <1>1, <1>2, <1>5, <1>7, <2>2, <2>3, <2>5 DEF Wired
<1> QED
  BY <1>6, <1>7

LEMMA WiredReads ==
  ASSUME Wired
  PROVE  /\ UnitOf(request) = call.slave /\ RequestPdu(request) = AskedPdu
         /\ framing # "tcp" => RtuPdu(request) = AskedPdu /\ validate_crc(request) = "none"
         /\ framing = "tcp" => TcpPdu(request) = AskedPdu
         /\ Understood(request)
<1>1. AskedPdu \in Seq(Byte) /\ call.slave \in Byte
  BY UnderstandsIs DEF Wired
<1>2. CASE framing # "tcp"
  <2>1. request = RtuAdu(call.slave, AskedPdu)
    BY <1>2 DEF Wired
  <2>2. /\ request[1] = call.slave /\ RtuPdu(request) = AskedPdu
        /\ validate_crc(request) = "none"
    BY <1>1, <2>1, RtuFrame
  <2> QED
    BY <1>2, <2>2 DEF UnitOf, RequestPdu, Understood
<1>3. CASE framing = "tcp"
  <2>1. request[7] = call.slave /\ TcpPdu(request) = AskedPdu
    BY <1>3 DEF Wired, IsTcp
  <2> QED
    BY <1>3, <2>1 DEF UnitOf, RequestPdu, Understood
<1> QED
  BY <1>2, <1>3

(* What the client makes of the answer is settled when it is sent.         *)
Settled(R) ==
  /\ Told(Inst, AskedPdu, served.exc, served.data, R)
  /\ AnswerPdu \in Seq(Byte) /\ Len(AnswerPdu) >= 2 /\ Len(AnswerPdu) <= 252
  /\ AnswerIs(AnswerPdu, QuantityOf(AskedPdu), R) /\ Sized(AnswerPdu, AskedPdu, R)
  /\ served.adu \in Seq(Byte)
  /\ framing # "tcp" => served.adu = RtuAdu(call.slave, AnswerPdu)
  /\ framing = "tcp" => IsTcp(served.adu, call.slave, AnswerPdu)

LEMMA ServedIs ==
  ASSUME Wired, Served
  PROVE  \E R : Settled(R)
<1>1. ASSUME served.exc = "none", Inst.fn.does = "read"
      PROVE  /\ served.data \in Seq(Word) /\ Len(served.data) = Inst.quantity
             /\ Inst.fn.unit = "bit" => served.data \in Seq({0, 1})
  <2>1. "IllegalDataAddressError" # "none"
    OBVIOUS
  <2>2. served.count = Inst.quantity
    BY <1>1, <2>1 DEF Served
  <2> QED
    BY <1>1, <2>2 DEF Served, Reading, Inst
<1>2. PICK R : Told(Inst, AskedPdu, served.exc, served.data, R)
  BY <1>1, AnswerTold DEF Wired
<1>3. AnswerIs(AnswerPdu, QuantityOf(AskedPdu), R) /\ Sized(AnswerPdu, AskedPdu, R)
  BY <1>2 DEF Told, AnswerPdu
<1>4. AnswerPdu \in Seq(Byte) /\ Len(AnswerPdu) >= 2 /\ Len(AnswerPdu) <= 252
  BY <1>3, AnswerBytes
<1>5. call.slave \in Byte /\ UnitOf(request) = call.slave
  BY WiredReads DEF Wired
<1>6. CASE framing # "tcp"
  <2>1. served.adu = RtuAdu(call.slave, AnswerPdu)
    BY <1>5, <1>6 DEF Served, create_response_adu
  <2>2. IsRtu(served.adu, call.slave, AnswerPdu)
    BY <1>4, <1>5, <2>1, RtuIs
  <2>3. served.adu \in Seq(Byte)
    BY <2>2 DEF IsRtu
  <2> QED
    BY <1>2, <1>3, <1>4, <1>6, <2>1, <2>3 DEF Settled
<1>7. CASE framing = "tcp"
  <2>1. served.adu = TcpAdu(WordAt(request, 1), call.slave, AnswerPdu)
    BY <1>5, <1>7 DEF Served, create_response_adu
  <2>2. WordAt(request, 1) \in Word /\ Len(AnswerPdu) <= 261
    BY <1>4, <1>7 DEF Wired
  <2>3. IsTcp(served.adu, call.slave, AnswerPdu)
    BY <1>4, <1>5, <2>1, <2>2, TcpIs
  <2>4. served.adu \in Seq(Byte)
    BY <2>3 DEF IsTcp
  <2> QED
    BY <1>2, <1>3, <1>4, <1>7, <2>3, <2>4 DEF Settled
<1> QED
  BY <1>6, <1>7

(* What comes out, fault by fault.                                         *)
Whole(R) ==
  /\ framing # "v5" \/ ~DoubleCrc(served.adu) => Parse(served.adu) = R
  /\ framing = "v5" /\ DoubleCrc(served.adu) => /\ Parse(served.adu).exc # "none"
                                               /\ served.exc = "none"

LEMMA WholeParsed ==
  ASSUME Wired, framing \in Framing, NEW R, Settled(R)
  PROVE  Whole(R)
<1> DEFINE P == AnswerPdu q == QuantityOf(AskedPdu) g == served.adu s == call.slave
<1>1. AnswerIs(P, q, R) /\ P \in Seq(Byte) /\ s \in Byte
  BY DEF Settled, Wired
<1>2. ASSUME framing # "tcp" PROVE g = RtuAdu(s, P) /\ RtuPdu(request) = AskedPdu
  BY <1>2, WiredReads DEF Settled
<1>3. CASE framing = "rtu"
  <2>1. g = RtuAdu(s, P) /\ RtuPdu(request) = AskedPdu
    BY <1>2, <1>3
  <2>2. RtuParse(g, request) = R
    BY <1>1, <2>1, RtuAnswered
  <2> QED
    BY <1>3, <2>2 DEF Parse, Whole
<1>4. CASE framing = "v5"
  <2>1. g = RtuAdu(s, P) /\ RtuPdu(request) = AskedPdu
    BY <1>2, <1>4
  <2>2. Parse(g) = V5Parse(g, request)
    BY <1>4 DEF Parse
  <2>3. ~DoubleCrc(g) => V5Parse(g, request) = R
    BY <1>1, <2>1, V5Answered
  <2>4. DoubleCrc(g) => V5Parse(g, request).exc # "none"
    BY <1>1, <2>1, V5LookAlike
  <2>5. ASSUME served.exc # "none" PROVE ~DoubleCrc(g)
    <3> DEFINE c == Inst.fn.code
    <3>1. P = <<c + 128, 2>>
      BY <2>5 DEF AnswerPdu, AnswerTo
    <3>2. c \in {1, 2, 3, 4, 5, 6, 15, 16}
      BY InstanceIs DEF Wired
    <3> HIDE DEF c, P
    <3> QED
      BY <1>1, <2>1, <3>1, <3>2, V5Exception
  <2> QED
    BY <1>4, <2>2, <2>3, <2>4, <2>5 DEF Whole
<1>5. CASE framing = "tcp"
  <2>1. IsTcp(g, s, P) /\ request \in Seq(Byte) /\ QuantityOf(request) = q
    BY <1>5 DEF Settled, Wired
  <2>2. TcpParse(g, request) = R
    BY <1>1, <2>1, TcpAnswered
  <2> QED
    BY <1>5, <2>2 DEF Parse, Whole
<1> QED
  BY <1>3, <1>4, <1>5 DEF Framing

LEMMA BySizeParsed ==
  ASSUME Wired, framing \in Framing, NEW R, Settled(R)
  PROVE  /\ framing = "rtu" => RtuReadBySize(served.adu, request) = R
         /\ framing = "tcp" => TcpReadBySize(served.adu, request) = R
<1> DEFINE P == AnswerPdu q == QuantityOf(AskedPdu) g == served.adu s == call.slave
<1>1. AnswerIs(P, q, R) /\ Sized(P, AskedPdu, R) /\ s \in Byte
  BY DEF Settled, Wired
<1>2. CASE framing = "rtu"
  <2>1. g = RtuAdu(s, P) /\ RtuPdu(request) = AskedPdu
    BY <1>2, WiredReads DEF Settled
  <2>2. RtuReadBySize(g, request) = R
    BY <1>1, <2>1, RtuBySize
  <2> QED
    BY <1>2, <2>2
<1>3. CASE framing = "tcp"
  <2>1. IsTcp(g, s, P) /\ QuantityOf(request) = q /\ TcpPdu(request) = AskedPdu
    BY <1>3, WiredReads DEF Settled, Wired
  <2>2. TcpReadBySize(g, request) = R
    BY <1>1, <2>1, TcpBySize
  <2> QED
    BY <1>3, <2>2
<1> QED
  BY <1>2, <1>3

(* Outcomes of what happens on the way.                                    *)
Faulty(R) ==
  /\ fault = "damaged" => Parse(wire) = Raises("CRCError")
  /\ fault = "zeros" => Parse(wire) = R
  /\ fault = "short" => Parse(wire) = Raises("IllegalDataAddressError") /\ served.exc # "none"
  /\ fault = "cut" => Parse(wire).exc # "none" \/ Len(wire) \in 8..10

LEMMA FaultyParsed ==
  ASSUME Wired, framing \in Framing, NEW R, Settled(R), wire \in Seq(Byte), WireOfAnswer
  PROVE  Faulty(R)
<1> DEFINE P == AnswerPdu q == QuantityOf(AskedPdu) g == served.adu s == call.slave
<1>1. AnswerIs(P, q, R) /\ P \in Seq(Byte) /\ Len(P) >= 2 /\ s \in Byte
  BY DEF Settled, Wired
<1>2. ASSUME framing # "tcp" PROVE g = RtuAdu(s, P) /\ RtuPdu(request) = AskedPdu
  BY <1>2, WiredReads DEF Settled
<1>3. ASSUME fault = "damaged" PROVE Parse(wire) = Raises("CRCError")
  <2>1. framing # "tcp" /\ OneDiffers(g, wire)
    BY <1>3 DEF WireOfAnswer
  <2>2. /\ RtuParse(wire, request) = Raises("CRCError")
        /\ V5Parse(wire, request) = Raises("CRCError")
    BY <1>1, <1>2, <2>1, RtuDamaged
  <2>3. framing = "rtu" \/ framing = "v5"
    BY <2>1 DEF Framing
  <2> QED
    BY <2>2, <2>3 DEF Parse
<1>4. ASSUME fault = "zeros" PROVE Parse(wire) = R
  <2>1. framing = "v5" /\ wire = g \o <<0, 0>>
    BY <1>4 DEF WireOfAnswer
  <2>2. V5Parse(wire, request) = R
    BY <1>1, <1>2, <2>1, V5Zeros
  <2> QED
    BY <2>1, <2>2 DEF Parse
<1>5. ASSUME fault = "short"
      PROVE  Parse(wire) = Raises("IllegalDataAddressError") /\ served.exc # "none"
  <2>1. framing = "v5" /\ wire = <<2>> /\ served.exc # "none"
    BY <1>5 DEF WireOfAnswer
  <2>2. V5Parse(wire, request) = Raises("IllegalDataAddressError")
    BY <2>1, V5Short
  <2> QED
    BY <2>1, <2>2 DEF Parse
<1>6. ASSUME fault = "cut", Len(wire) \notin 8..10 PROVE Parse(wire).exc # "none"
  <2>1. framing = "tcp"
    BY <1>6 DEF WireOfAnswer
  <2>2. PICK n \in 7..(Len(g) - 1) : wire = SubSeq(g, 1, n)
    BY <1>6 DEF WireOfAnswer
  <2>3. IsTcp(g, s, P) /\ QuantityOf(request) = q /\ g \in Seq(Byte)
    BY <2>1 DEF Settled, Wired
  <2>4. Len(SubSeq(g, 1, n)) = n
    <3> HIDE DEF g
    <3>1. Len(g) \in Nat
      BY <2>3
    <3>2. n \in Nat /\ n <= Len(g)
      BY <3>1
    <3> QED
      BY <2>3, <3>2
  <2>5. n \notin 8..10
    BY <1>6, <2>2, <2>4
  <2>6. TcpParse(wire, request).exc # "none"
    BY <1>1, <2>2, <2>3, <2>5, TcpCutOff
  <2> QED
    BY <2>1, <2>6 DEF Parse
<1> QED
  BY <1>3, <1>4, <1>5, <1>6 DEF Faulty

-----------------------------------------------------------------------------
(* The steps.                                                              *)
LEMMA Untouched ==
  ASSUME UNCHANGED <<framing, call, request, served>>
  PROVE  /\ Asked => Asked'
         /\ Served => Served'
         /\ wire' = wire => Parse(wire)' = Parse(wire)
<1>1. framing' = framing /\ call' = call /\ request' = request /\ served' = served
  OBVIOUS
<1>2. Asked => Asked'
  BY <1>1 DEF Asked, Inst, AskedPdu, RequestAdu
<1>3. Served => Served'
  BY <1>1 DEF Served, Inst, Reading, AnswerPdu, create_response_adu, UnitOf
<1>4. wire' = wire => Parse(wire)' = Parse(wire)
  BY <1>1 DEF Parse
<1> QED
  BY <1>2, <1>3, <1>4

LEMMA RequestBytes ==
  ASSUME NEW i, IsInstance(i), CreateRequest(i).exc = "none", NEW slave \in Byte, NEW t \in Word
  PROVE  LET adu == RequestAdu(t, slave, CreateRequest(i).val)
         IN  adu \in Seq(Byte) /\ adu # << >>
<1> DEFINE pdu == CreateRequest(i).val adu == RequestAdu(t, slave, pdu)
<1>1. Understands(i, pdu)
  BY RequestUnderstood
<1> HIDE DEF pdu
<1>2. pdu \in Seq(Byte) /\ Len(pdu) >= 5 /\ Len(pdu) <= 261
  BY <1>1, UnderstandsIs
<1>3. CASE framing # "tcp"
  <2>1. IsRtu(adu, slave, pdu)
    BY <1>2, <1>3, RtuIs DEF RequestAdu
  <2> HIDE DEF adu
  <2>2. adu \in Seq(Byte) /\ Len(adu) = Len(pdu) + 3
    BY <2>1 DEF IsRtu
  <2>3. adu # << >>
    BY <1>2, <2>2
  <2> QED
    BY <2>2, <2>3 DEF adu, pdu
<1>4. CASE framing = "tcp"
  <2>1. IsTcp(adu, slave, pdu)
    BY <1>2, <1>4, TcpIs DEF RequestAdu
  <2> HIDE DEF adu
  <2>2. adu \in Seq(Byte) /\ Len(adu) = Len(pdu) + 7
    BY <2>1 DEF IsTcp
  <2>3. adu # << >>
    BY <1>2, <2>2
  <2> QED
    BY <2>2, <2>3 DEF adu, pdu
<1> QED
  BY <1>3, <1>4

LEMMA ResponseBytes ==
  ASSUME Wired, NEW P \in Seq(Byte), Len(P) <= 252
  PROVE  create_response_adu(request, P) \in Seq(Byte)
<1> DEFINE adu == create_response_adu(request, P) s == call.slave
<1>1. s \in Byte /\ UnitOf(request) = s
  BY WiredReads DEF Wired
<1>2. CASE framing # "tcp"
  <2>1. adu = RtuAdu(s, P)
    BY <1>1, <1>2 DEF create_response_adu
  <2> QED
    BY <1>1, <2>1, RtuIs DEF IsRtu
<1>3. CASE framing = "tcp"
  <2>1. adu = TcpAdu(WordAt(request, 1), s, P)
    BY <1>1, <1>3 DEF create_response_adu
  <2>2. WordAt(request, 1) \in Word /\ Len(P) <= 261
    BY <1>3 DEF Wired
  <2> QED
    BY <1>1, <2>1, <2>2, TcpIs DEF IsTcp
<1> QED
  BY <1>2, <1>3

LEMMA InitIInv == Init => IInv
<1> SUFFICES ASSUME Init PROVE IInv
  OBVIOUS
<1>1. framing \in Framing
  BY LinkAssumption DEF Init
<1>2. mem \in [Cells -> Word] /\ \A c \in BitCells : mem[c] \in {0, 1}
  BY DeviceAssumption DEF Init
<1>3. exchanges \in 0..MaxExchanges
  <2>1. exchanges = 0
    BY DEF Init
  <2>2. MaxExchanges \in Nat
    BY LinkAssumption
  <2> QED
    BY <2>1, <2>2
<1>4. wire = << >> /\ wire \in Seq(Byte)
  <2>1. wire = << >>
    BY DEF Init
  <2> QED
    BY <2>1
<1>5. Typed
  BY <1>1, <1>2, <1>3, <1>4 DEF Init, Typed, Phase, Fault
<1>6. result.exc # "none"
  BY DEF Init, Raises
<1>7. NotAsked
  BY <1>6 DEF Init, NotAsked, NoInstance
<1> QED
  BY <1>5, <1>7 DEF Init, IInv

LEMMA RequestStep ==
  ASSUME IInv, NEW c \in Calls, NEW t \in Transactions, Request(c, t)
  PROVE  IInv'
<1> DEFINE i == c.instance built == CreateRequest(i) adu == RequestAdu(t, c.slave, built.val)
<1>1. c.slave \in Byte /\ IsInstance(i) /\ t \in Word
  BY CallersAssumption, LinkAssumption
<1>2. /\ exchanges < MaxExchanges /\ exchanges' = exchanges + 1 /\ call' = c
      /\ fault' = "none" /\ served' = Unserved
      /\ framing' = framing /\ mem' = mem
  BY DEF Request
<1>3. exchanges' \in 0..MaxExchanges
  BY <1>2, LinkAssumption DEF IInv, Typed
<1>4. CASE built.exc = "none"
  <2>1. phase' = "asked" /\ request' = adu /\ wire' = adu /\ result' = Raises("pending")
    BY <1>4 DEF Request
  <2>2. adu \in Seq(Byte) /\ adu # << >>
    BY <1>1, <1>4, RequestBytes
  <2>3. Typed'
    BY <1>2, <1>3, <2>1, <2>2 DEF IInv, Typed, Phase, Fault
  <2>4. built.val = request_pdu(i)
    BY <1>1, <1>4, RequestMade
  <2>5. adu = IF framing = "tcp" THEN TcpAdu(t, c.slave, request_pdu(i)) ELSE RtuAdu(c.slave, request_pdu(i))
    BY <2>4 DEF RequestAdu
  <2> HIDE DEF adu
  <2>6. Asked'
    BY <1>2, <1>4, <2>1, <2>5 DEF Asked, Inst, AskedPdu, RequestAdu
  <2>7. result'.exc # "none"
    BY <2>1 DEF Raises
  <2>8. InPhase'
    BY <1>2, <2>1, <2>7 DEF InPhase, WireOfRequest
  <2> QED
    BY <1>2, <2>1, <2>2, <2>3, <2>6, <2>8 DEF IInv
<1>5. CASE built.exc # "none"
  <2>1. phase' = "idle" /\ request' = << >> /\ wire' = << >> /\ result' = Raises(built.exc)
    BY <1>5 DEF Request
  <2>2. wire' \in Seq(Byte)
    BY <2>1
  <2>3. Typed'
    BY <1>2, <1>3, <2>1, <2>2 DEF IInv, Typed, Phase, Fault
  <2>4. result'.exc # "none"
    BY <1>5, <2>1 DEF Raises
  <2>5. NotAsked'
    BY <1>2, <2>1, <2>4 DEF NotAsked
  <2> QED
    BY <2>1, <2>3, <2>5 DEF IInv
<1> QED
  BY <1>4, <1>5

(* In every phase but "idle" there is a request.                           *)
LEMMA Underway ==
  ASSUME IInv, phase # "idle"
  PROVE  /\ request # << >> /\ Typed /\ Asked /\ Wired /\ InPhase
         /\ served = Unserved \/ Served
  BY AskedIs DEF IInv, NotAsked

LEMMA ServeStep ==
  ASSUME IInv, Serve
  PROVE  IInv'
<1> DEFINE run == execute_route(mem, UnitOf(wire), RequestPdu(wire))
           adu == create_response_adu(wire, run.pdu)
<1>1. phase = "asked"
  BY DEF Serve
<1>2. request # << >> /\ Typed /\ Asked /\ Wired /\ InPhase
  BY <1>1, Underway
<1>3. served = Unserved /\ WireOfRequest /\ result.exc # "none"
  BY <1>1, <1>2 DEF InPhase
<1>4. /\ framing' = framing /\ call' = call /\ request' = request /\ fault' = fault
      /\ result' = result /\ exchanges' = exchanges
  BY DEF Serve
<1>5. Asked'
  BY <1>2, <1>4 DEF Asked, Inst, AskedPdu, RequestAdu
<1>6. CASE fault = "none"
  <2> DEFINE s == call.slave P == run.pdu
  <2>1. wire = request
    BY <1>3, <1>6 DEF WireOfRequest
  <2>2. /\ UnitOf(wire) = s /\ RequestPdu(wire) = AskedPdu /\ Understood(wire)
    BY <1>2, <2>1, WiredReads
  <2>3. /\ mem' = run.mem
        /\ served' = [count |-> run.count, data |-> run.data, exc |-> run.exc, adu |-> adu]
        /\ IF run.pdu # << >> THEN phase' = "answered" /\ wire' = adu
           ELSE phase' = "lost" /\ UNCHANGED wire
    BY <2>2 DEF Serve
  <2>4. IsInstance(Inst) /\ CreateRequest(Inst).exc = "none" /\ Understands(Inst, AskedPdu)
    BY <1>2 DEF Wired
  <2>5. IsRoute(run, mem, s, Inst)
    BY <2>2, <2>4, RouteIs
  <2>6. MemOK(mem) /\ AskedPdu \in Seq(Byte)
    BY <1>2, <2>4, UnderstandsIs DEF MemOK, Typed
  <2>7. MemOK(run.mem)
    BY <2>2, <2>6, RouteTyped
  <2> HIDE DEF run
  <2>8. /\ run.count = Admitted(s, Inst)
        /\ run.data = IF Inst.fn.does = "read"
                      THEN [k \in 1..Admitted(s, Inst) |-> mem[CellsOf(s, Inst)[k]]] ELSE << >>
        /\ run.exc = IF Admitted(s, Inst) = Inst.quantity THEN "none" ELSE "IllegalDataAddressError"
        /\ P = AnswerTo(Inst, run.exc, run.data)
    BY <2>5 DEF IsRoute, AnswerTo
  <2>9. Inst.quantity \in Int /\ 0 <= Inst.quantity /\ Inst.fn \in function_code_to_function_map
    <3>1. Inst.quantity \in Int /\ Inst.fn \in function_code_to_function_map
      BY <2>4 DEF IsInstance
    <3>2. Legal(Inst)
      BY <2>4, RequestMade
    <3>3. Inst.quantity \in 1..Inst.fn.max
      BY <3>2 DEF Legal
    <3> QED
      BY <3>1, <3>3
  <2>10. ASSUME Inst.fn.does = "read"
         PROVE  /\ run.data \in Seq(Word) /\ Len(run.data) = run.count
                /\ Inst.fn.unit = "bit" => run.data \in Seq({0, 1})
    <3>1. run.data = [k \in 1..Admitted(s, Inst) |-> mem[CellsOf(s, Inst)[k]]]
      BY <2>8, <2>10
    <3> QED
      BY <2>6, <2>8, <2>9, <3>1, ReadTyped
  <2>11. "IllegalDataAddressError" # "none"
    OBVIOUS
  <2>12. run.exc = "none" => run.count = Inst.quantity
    BY <2>8, <2>11
  <2>13. \E R : Told(Inst, AskedPdu, run.exc, run.data, R)
    BY <2>4, <2>10, <2>12, AnswerTold
  <2>14. \E R : AnswerIs(P, QuantityOf(AskedPdu), R)
    BY <2>8, <2>13 DEF Told
  <2>15. P \in Seq(Byte) /\ Len(P) >= 2 /\ Len(P) <= 252
    BY <2>14, AnswerBytes
  <2>16. adu \in Seq(Byte) /\ adu = create_response_adu(request, P)
    BY <1>2, <2>1, <2>15, ResponseBytes
  <2>17. P # << >>
    BY <2>15
  <2> HIDE DEF adu, P, s
  <2>18. phase' = "answered" /\ wire' = adu
    BY <2>3, <2>17 DEF P
  <2>19. /\ served'.count = run.count /\ served'.data = run.data /\ served'.exc = run.exc
         /\ served'.adu = adu
    BY <2>3
  <2>20. Inst' = Inst
    BY <1>4 DEF Inst
  <2>21. AnswerPdu' = P
    BY <2>8, <2>19, <2>20 DEF AnswerPdu
  <2>22. create_response_adu(request, P) = 
           IF framing' = "tcp" THEN TcpAdu(WordAt(request', 1), request'[7], P)
           ELSE RtuAdu(request'[1], P)
    BY <1>4 DEF create_response_adu, UnitOf
  <2>23. served'.adu = IF framing' = "tcp" THEN TcpAdu(WordAt(request', 1), request'[7], AnswerPdu')
                       ELSE RtuAdu(request'[1], AnswerPdu')
    BY <2>16, <2>19, <2>21, <2>22
  <2>24. Reading' <=> Inst.fn.does = "read"
    BY <1>4 DEF Reading, Inst
  <2>25. ~Reading' => served'.data = << >>
    BY <2>8, <2>19, <2>24
  <2>26. Reading' => /\ served'.data \in Seq(Word) /\ Len(served'.data) = served'.count
                     /\ Inst'.fn.unit = "bit" => served'.data \in Seq({0, 1})
    BY <2>10, <2>19, <2>20, <2>24
  <2>27. /\ served'.count = Admitted(call'.slave, Inst')
         /\ served'.exc = IF served'.count = Inst'.quantity THEN "none" ELSE "IllegalDataAddressError"
    BY <1>4, <2>8, <2>19, <2>20 DEF s
  <2>28. Served'
    BY <2>23, <2>25, <2>26, <2>27 DEF Served, create_response_adu, UnitOf
  <2>29. WireOfAnswer'
    BY <1>4, <1>6, <2>18, <2>19 DEF WireOfAnswer
  <2>30. InPhase'
    BY <1>3, <1>4, <2>18, <2>28, <2>29 DEF InPhase
  <2>31. Typed'
    BY <1>2, <1>4, <2>3, <2>7, <2>16, <2>18 DEF Typed, Phase, MemOK
  <2> QED
    BY <1>2, <1>4, <1>5, <2>28, <2>30, <2>31 DEF IInv
<1>7. CASE fault # "none"
  <2>1. fault = "damaged" /\ framing # "tcp" /\ OneDiffers(request, wire)
    BY <1>3, <1>7 DEF WireOfRequest
  <2>2. /\ request = RtuAdu(call.slave, AskedPdu) /\ call.slave \in Byte
        /\ Understands(Inst, AskedPdu)
    BY <1>2, <2>1 DEF Wired
  <2>3. AskedPdu \in Seq(Byte) /\ Len(AskedPdu) >= 5
    BY <2>2, UnderstandsIs
  <2>4. Len(AskedPdu) >= 2
    BY <2>3
  <2>5. wire \in Seq(Byte)
    BY <1>2 DEF Typed
  <2>6. validate_crc(wire) = "CRCError"
    BY <2>1, <2>2, <2>3, <2>4, <2>5, RtuDamaged
  <2>7. ~Understood(wire)
    BY <2>1, <2>6 DEF Understood
  <2>8. phase' = "lost" /\ mem' = mem /\ served' = served /\ wire' = wire
    BY <2>7 DEF Serve
  <2>9. Typed'
    BY <1>2, <1>4, <2>8 DEF Typed, Phase
  <2>10. InPhase'
    BY <1>3, <1>4, <2>1, <2>8 DEF InPhase, NoAnswer, Unserved
  <2> QED
    BY <1>2, <1>3, <1>4, <1>5, <2>8, <2>9, <2>10 DEF IInv, Unserved
<1> QED
  BY <1>6, <1>7
LEMMA ForeignStep ==
  ASSUME IInv, NEW pdu \in ForeignPdus, ForeignRequest(pdu)
  PROVE  IInv'
<1>1. /\ mem' = execute_route(mem, ForeignSlave, pdu).mem
      /\ framing' = framing /\ call' = call /\ phase' = phase /\ request' = request
      /\ wire' = wire /\ fault' = fault /\ served' = served /\ result' = result
      /\ exchanges' = exchanges
  BY DEF ForeignRequest
<1>2. MemOK(mem) /\ pdu \in Seq(Byte)
  BY CallersAssumption DEF IInv, Typed, MemOK
<1>3. MemOK(mem')
  BY <1>1, <1>2, RouteTyped
<1>4. Typed'
  BY <1>1, <1>3 DEF IInv, Typed, MemOK
<1>5. /\ Asked => Asked'
      /\ Served => Served'
      /\ Parse(wire)' = Parse(wire)
  BY <1>1, Untouched
<1>6. NotAsked => NotAsked'
  BY <1>1 DEF NotAsked, NoInstance
<1>7. (WireOfAnswer => WireOfAnswer') /\ (WireOfRequest => WireOfRequest') /\ (NoAnswer => NoAnswer')
  BY <1>1 DEF WireOfAnswer, WireOfRequest, NoAnswer
<1>8. InPhase => InPhase'
  BY <1>1, <1>5, <1>7 DEF InPhase
<1> QED
  BY <1>1, <1>4, <1>5, <1>6, <1>8 DEF IInv

LEMMA ReceiveStep ==
  ASSUME IInv, Receive
  PROVE  IInv'
<1>1. /\ phase = "answered" /\ phase' = "idle" /\ result' = Parse(wire)
      /\ framing' = framing /\ mem' = mem /\ call' = call /\ request' = request
      /\ wire' = wire /\ fault' = fault /\ served' = served /\ exchanges' = exchanges
  BY DEF Receive
<1>2. request # << >> /\ Typed /\ Asked /\ InPhase
  BY <1>1, Underway
<1>3. Served /\ WireOfAnswer
  BY <1>1, <1>2 DEF InPhase
<1>4. Asked' /\ Served' /\ Parse(wire)' = Parse(wire)
  BY <1>1, <1>2, <1>3, Untouched
<1>5. WireOfAnswer'
  BY <1>1, <1>3 DEF WireOfAnswer
<1>6. Typed'
  BY <1>1, <1>2 DEF Typed, Phase
<1>7. InPhase'
  BY <1>1, <1>4, <1>5 DEF InPhase
<1> QED
  BY <1>1, <1>2, <1>4, <1>6, <1>7 DEF IInv

LEMMA TimeoutStep ==
  ASSUME IInv, Timeout
  PROVE  IInv'
<1>1. /\ phase = "lost" /\ phase' = "idle" /\ result' = Raises("TimeoutError")
      /\ framing' = framing /\ mem' = mem /\ call' = call /\ request' = request
      /\ wire' = wire /\ fault' = fault /\ served' = served /\ exchanges' = exchanges
  BY DEF Timeout
<1>2. /\ request # << >> /\ Typed /\ Asked /\ InPhase
      /\ served = Unserved \/ Served
  BY <1>1, Underway
<1>3. NoAnswer
  BY <1>1, <1>2 DEF InPhase
<1>4. Asked' /\ (served' = Unserved \/ Served')
  BY <1>1, <1>2, Untouched
<1>5. NoAnswer'
  BY <1>1, <1>3 DEF NoAnswer
<1>6. Typed'
  BY <1>1, <1>2 DEF Typed, Phase
<1>7. InPhase'
  BY <1>1, <1>5 DEF InPhase
<1> QED
  BY <1>1, <1>2, <1>4, <1>6, <1>7 DEF IInv

LEMMA LoseStep ==
  ASSUME IInv, Lose
  PROVE  IInv'
<1>1. /\ phase \in {"asked", "answered"} /\ phase' = "lost" /\ fault' = "lost"
      /\ framing' = framing /\ mem' = mem /\ call' = call /\ request' = request
      /\ wire' = wire /\ served' = served /\ result' = result /\ exchanges' = exchanges
  BY DEF Lose, UnderWay
<1>2. /\ request # << >> /\ Typed /\ Asked /\ InPhase
      /\ served = Unserved \/ Served
  BY <1>1, Underway
<1>3. result.exc # "none"
  BY <1>1, <1>2 DEF InPhase
<1>4. Asked' /\ (served' = Unserved \/ Served')
  BY <1>1, <1>2, Untouched
<1>5. Typed'
  BY <1>1, <1>2 DEF Typed, Phase, Fault
<1>6. InPhase'
  BY <1>1, <1>3 DEF InPhase, NoAnswer
<1> QED
  BY <1>1, <1>2, <1>4, <1>5, <1>6 DEF IInv

(* What every fault of a frame under way leaves alone.                     *)
Tampered ==
  /\ phase \in {"asked", "answered"} /\ phase' = phase /\ fault = "none"
  /\ framing' = framing /\ mem' = mem /\ call' = call /\ request' = request
  /\ served' = served /\ result' = result /\ exchanges' = exchanges

LEMMA TamperedStep ==
  ASSUME IInv, Tampered, wire' \in Seq(Byte), fault' \in Fault,
         phase = "asked" => WireOfRequest', phase = "answered" => WireOfAnswer'
  PROVE  IInv'
<1>1. /\ phase \in {"asked", "answered"} /\ phase' = phase
      /\ framing' = framing /\ mem' = mem /\ call' = call /\ request' = request
      /\ served' = served /\ result' = result /\ exchanges' = exchanges
  BY DEF Tampered
<1>2. /\ request # << >> /\ Typed /\ Asked /\ InPhase
      /\ served = Unserved \/ Served
  BY <1>1, Underway
<1>3. /\ result.exc # "none"
      /\ phase = "asked" => served = Unserved
      /\ phase = "answered" => Served
  BY <1>1, <1>2 DEF InPhase
<1>4. Asked' /\ (served' = Unserved \/ Served') /\ (Served => Served')
  BY <1>1, <1>2, Untouched
<1>5. Typed'
  BY <1>1, <1>2 DEF Typed
<1>6. InPhase'
  BY <1>1, <1>3, <1>4 DEF InPhase
<1> QED
  BY <1>1, <1>2, <1>4, <1>5, <1>6 DEF IInv

(* The frame under way before anything happens to it.                      *)
LEMMA Intact ==
  ASSUME IInv, Tampered
  PROVE  /\ Wired /\ wire \in Seq(Byte)
         /\ phase = "asked" => wire = request
         /\ phase = "answered" => Served /\ wire = served.adu
<1>1. phase \in {"asked", "answered"} /\ fault = "none"
  BY DEF Tampered
<1>2. Wired /\ Typed /\ InPhase
  BY <1>1, Underway
<1>3. phase = "asked" => wire = request
  BY <1>1, <1>2 DEF InPhase, WireOfRequest
<1>4. phase = "answered" => Served /\ wire = served.adu
  BY <1>1, <1>2 DEF InPhase, WireOfAnswer
<1> QED
  BY <1>2, <1>3, <1>4 DEF Typed

LEMMA AnotherByte ==
  ASSUME NEW b \in Byte, NEW d \in 1..255
  PROVE  (b + d) % 256 \in Byte /\ (b + d) % 256 # b
<1>1. b \in Int /\ 0 <= b /\ b <= 255
  BY ByteWord
<1>2. (b + d) % 256 = IF b + d < 256 THEN b + d ELSE (b + d) - 256
  BY <1>1
<1>3. (b + d) % 256 \in Int /\ 0 <= (b + d) % 256 /\ (b + d) % 256 <= 255 /\ (b + d) % 256 # b
  BY <1>1, <1>2
<1> QED
  BY <1>3 DEF Byte

LEMMA DamagedByte ==
  ASSUME NEW f \in Seq(Byte), NEW i \in DOMAIN f, NEW d \in 1..255,
         NEW g, g = [f EXCEPT ![i] = (@ + d) % 256]
  PROVE  g \in Seq(Byte) /\ OneDiffers(f, g)
<1> DEFINE b == f[i] x == (b + d) % 256
<1>1. b \in Byte
  OBVIOUS
<1>2. x \in Byte /\ x # b
  <2> HIDE DEF b
  <2> QED
    BY <1>1, AnotherByte
<1>3. g = [f EXCEPT ![i] = x]
  OBVIOUS
<1> HIDE DEF x
<1>4. g \in Seq(Byte) /\ Len(g) = Len(f)
  BY <1>2, <1>3
<1>5. i \in 1..Len(f) /\ g[i] = x /\ \A k \in 1..Len(f) : k # i => g[k] = f[k]
  BY <1>3
<1> QED
  BY <1>2, <1>4, <1>5 DEF OneDiffers

LEMMA DamageStep ==
  ASSUME IInv, NEW i \in DOMAIN wire, NEW d \in Deltas, Damage(i, d)
  PROVE  IInv'
<1>1. Tampered /\ framing # "tcp" /\ fault' = "damaged"
      /\ wire' = [wire EXCEPT ![i] = (@ + d) % 256]
  BY DEF Damage, UnderWay, Tampered
<1>2. wire \in Seq(Byte) /\ d \in 1..255
  BY <1>1, Intact, LinkAssumption
<1>3. wire' \in Seq(Byte) /\ OneDiffers(wire, wire')
  BY <1>1, <1>2, DamagedByte
<1>4. framing' # "tcp" /\ request' = request /\ served' = served
  BY <1>1 DEF Tampered
<1>5. phase = "asked" => WireOfRequest'
  BY <1>1, <1>3, <1>4, Intact DEF WireOfRequest
<1>6. phase = "answered" => WireOfAnswer'
  BY <1>1, <1>3, <1>4, Intact DEF WireOfAnswer
<1> QED
  BY <1>1, <1>3, <1>5, <1>6, TamperedStep DEF Fault

LEMMA AppendZerosStep ==
  ASSUME IInv, AppendZeros
  PROVE  IInv'
<1>1. Tampered /\ framing = "v5" /\ phase = "answered" /\ fault' = "zeros"
      /\ wire' = wire \o <<0, 0>>
  BY DEF AppendZeros, UnderWay, Tampered
<1>2. wire \in Seq(Byte) /\ wire = served.adu
  BY <1>1, Intact
<1>3. <<0, 0>> \in Seq(Byte)
  BY DEF Byte
<1>4. wire' \in Seq(Byte)
  BY <1>1, <1>2, <1>3
<1>5. framing' = "v5" /\ served' = served
  BY <1>1 DEF Tampered
<1>6. WireOfAnswer'
  BY <1>1, <1>2, <1>5 DEF WireOfAnswer
<1> QED
  BY <1>1, <1>4, <1>6, TamperedStep DEF Fault

LEMMA ShortenStep ==
  ASSUME IInv, Shorten
  PROVE  IInv'
<1>1. Tampered /\ framing = "v5" /\ phase = "answered" /\ fault' = "short"
      /\ served.exc # "none" /\ wire' = <<wire[3]>>
  BY DEF Shorten, UnderWay, Tampered
<1>2. Wired /\ Served /\ wire = served.adu
  BY <1>1, Intact
<1>3. PICK R : Settled(R)
  BY <1>2, ServedIs
<1> DEFINE c == Inst.fn.code P == AnswerPdu
<1>4. P \in Seq(Byte) /\ call.slave \in Byte /\ wire = RtuAdu(call.slave, P)
  BY <1>1, <1>2, <1>3 DEF Settled, Wired
<1>5. P = <<c + 128, 2>>
  BY <1>1 DEF AnswerPdu, AnswerTo
<1>6. IsRtu(wire, call.slave, P)
  BY <1>4, RtuIs
<1> HIDE DEF c, P
<1>7. Len(P) = 2 /\ P[2] = 2
  BY <1>5
<1>8. wire[3] = 2
  <2>1. \A k \in 1..Len(P) : wire[k + 1] = P[k]
    BY <1>6 DEF IsRtu
  <2>2. wire[2 + 1] = P[2]
    BY <1>7, <2>1
  <2> QED
    BY <1>7, <2>2
<1>9. wire' = <<2>>
  BY <1>1, <1>8
<1>10. wire' \in Seq(Byte)
  <2>1. 2 \in Byte
    BY DEF Byte
  <2> QED
    BY <1>9, <2>1
<1>11. framing' = "v5" /\ served' = served
  BY <1>1 DEF Tampered
<1>12. WireOfAnswer'
  BY <1>1, <1>9, <1>11 DEF WireOfAnswer
<1> QED
  BY <1>1, <1>10, <1>12, TamperedStep DEF Fault

LEMMA CutStep ==
  ASSUME IInv, NEW n \in 7..Len(wire) - 1, Cut(n)
  PROVE  IInv'
<1>1. Tampered /\ framing = "tcp" /\ phase = "answered" /\ fault' = "cut"
      /\ wire' = SubSeq(wire, 1, n)
  BY DEF Cut, UnderWay, Tampered
<1>2. wire \in Seq(Byte) /\ wire = served.adu
  BY <1>1, Intact
<1>3. wire' \in Seq(Byte)
  <2>1. Len(wire) \in Nat
    BY <1>2
  <2>2. n \in Nat /\ n <= Len(wire)
    BY <2>1
  <2> QED
    BY <1>1, <1>2, <2>2
<1>4. framing' = "tcp" /\ served' = served
  BY <1>1 DEF Tampered
<1>5. n \in 7..(Len(served'.adu) - 1) /\ wire' = SubSeq(served'.adu, 1, n)
  BY <1>1, <1>2, <1>4
<1>6. WireOfAnswer'
  BY <1>1, <1>4, <1>5 DEF WireOfAnswer
<1> QED
  BY <1>1, <1>3, <1>6, TamperedStep DEF Fault

LEMMA StutterStep ==
  ASSUME IInv, UNCHANGED vars
  PROVE  IInv'
<1>1. /\ framing' = framing /\ mem' = mem /\ call' = call /\ phase' = phase
      /\ request' = request /\ wire' = wire /\ fault' = fault /\ served' = served
      /\ result' = result /\ exchanges' = exchanges
  BY DEF vars
<1>2. /\ Asked => Asked'
      /\ Served => Served'
      /\ Parse(wire)' = Parse(wire)
  BY <1>1, Untouched
<1>3. (NotAsked => NotAsked') /\ (Typed => Typed')
  BY <1>1 DEF NotAsked, NoInstance, Typed
<1>4. (WireOfAnswer => WireOfAnswer') /\ (WireOfRequest => WireOfRequest') /\ (NoAnswer => NoAnswer')
  BY <1>1 DEF WireOfAnswer, WireOfRequest, NoAnswer
<1>5. InPhase => InPhase'
  BY <1>1, <1>2, <1>4 DEF InPhase
<1> QED
  BY <1>1, <1>2, <1>3, <1>5 DEF IInv

LEMMA NextIInv == IInv /\ [Next]_vars => IInv'
<1> SUFFICES ASSUME IInv, [Next]_vars PROVE IInv'
  OBVIOUS
<1>1. ASSUME NEW c \in Calls, NEW t \in Transactions, Request(c, t) PROVE IInv'
  BY <1>1, RequestStep
<1>2. CASE Serve
  BY <1>2, ServeStep
<1>3. ASSUME NEW pdu \in ForeignPdus, ForeignRequest(pdu) PROVE IInv'
  BY <1>3, ForeignStep
<1>4. CASE Receive
  BY <1>4, ReceiveStep
<1>5. CASE Timeout
  BY <1>5, TimeoutStep
<1>6. CASE Lose
  BY <1>6, LoseStep
<1>7. ASSUME NEW i \in DOMAIN wire, NEW d \in Deltas, Damage(i, d) PROVE IInv'
  BY <1>7, DamageStep
<1>8. CASE AppendZeros
  BY <1>8, AppendZerosStep
<1>9. CASE Shorten
  BY <1>9, ShortenStep
<1>10. ASSUME NEW n \in 7..Len(wire) - 1, Cut(n) PROVE IInv'
  BY <1>10, CutStep
<1>11. CASE UNCHANGED vars
  BY <1>11, StutterStep
<1> QED
  BY <1>1, <1>2, <1>3, <1>4, <1>5, <1>6, <1>7, <1>8, <1>9, <1>10, <1>11 DEF Next

(* The inductive invariant.                                                *)
LEMMA Invariance == Spec => []IInv
<1>1. Init => IInv
  BY InitIInv
<1>2. IInv /\ [Next]_vars => IInv'
  BY NextIInv
<1> QED
  BY <1>1, <1>2, PTL DEF Spec

-----------------------------------------------------------------------------
(* The invariant gives the properties.                                     *)
LEMMA QuantityIs ==
  ASSUME Wired
  PROVE  Inst.quantity \in Int /\ 0 <= Inst.quantity
<1>1. Inst.quantity \in Int /\ Legal(Inst)
  BY RequestMade DEF Wired, IsInstance
<1>2. Inst.quantity \in 1..Inst.fn.max
  BY <1>1 DEF Legal
<1> QED
  BY <1>1, <1>2

LEMMA TypeOKHolds == IInv => TypeOK
<1> SUFFICES ASSUME IInv PROVE TypeOK
  OBVIOUS
<1>1. Typed
  BY DEF IInv
<1>2. CASE request = << >>
  <2>1. NotAsked
    BY <1>2 DEF IInv
  <2>2. request \in Seq(Byte)
    BY <1>2
  <2>3. served.count = 0
    BY <2>1 DEF NotAsked, Unserved
  <2> QED
    BY <1>1, <1>2, <2>1, <2>2, <2>3 DEF TypeOK, Typed, NotAsked, NoInstance
<1>3. CASE request # << >>
  <2>1. Asked /\ Wired /\ (served = Unserved \/ Served)
    BY <1>3, AskedIs DEF IInv
  <2>2. call \in Calls /\ request \in Seq(Byte)
    BY <2>1 DEF Asked, Wired
  <2>3. served.count \in Nat /\ served.count <= call.instance.quantity
    <3>1. Inst.quantity \in Int /\ 0 <= Inst.quantity
      BY <2>1, QuantityIs
    <3>2. CASE served = Unserved
      <4>1. served.count = 0
        BY <3>2 DEF Unserved
      <4> QED
        BY <3>1, <4>1 DEF Inst
    <3>3. CASE Served
      <4> DEFINE n == Admitted(call.slave, Inst)
      <4>1. served.count = n
        BY <3>3 DEF Served
      <4>2. n \in Int /\ 0 <= n /\ n <= Inst.quantity
        BY <3>1, AdmittedIs
      <4> HIDE DEF n
      <4> QED
        BY <4>1, <4>2 DEF Inst
    <3> QED
      BY <2>1, <3>2, <3>3
  <2> QED
    BY <1>1, <2>2, <2>3 DEF TypeOK, Typed
<1> QED
  BY <1>2, <1>3

(* The end of a call.                                                      *)
LEMMA EndIs ==
  ASSUME IInv, Ended
  PROVE  /\ Wired /\ framing \in Framing /\ wire \in Seq(Byte)
         /\ \/ result = Raises("TimeoutError") /\ NoAnswer
            \/ Served /\ WireOfAnswer /\ result = Parse(wire)
  BY AskedIs DEF IInv, Ended, InPhase, Typed

LEMMA EndSettled ==
  ASSUME IInv, Ended, fault \in {"none", "zeros", "short", "cut"}
  PROVE  /\ Served /\ WireOfAnswer /\ result = Parse(wire)
         /\ \E R : Settled(R) /\ Whole(R) /\ Faulty(R)
<1>1. /\ Wired /\ framing \in Framing /\ wire \in Seq(Byte)
      /\ \/ result = Raises("TimeoutError") /\ NoAnswer
         \/ Served /\ WireOfAnswer /\ result = Parse(wire)
  BY EndIs
<1>2. Served /\ WireOfAnswer /\ result = Parse(wire)
  BY <1>1 DEF NoAnswer
<1>3. PICK R : Settled(R)
  BY <1>1, <1>2, ServedIs
<1>4. Whole(R) /\ Faulty(R)
  BY <1>1, <1>2, <1>3, WholeParsed, FaultyParsed
<1> QED
  BY <1>2, <1>3, <1>4

LEMMA DamageNoticedHolds == IInv => DamageNoticed
<1> SUFFICES ASSUME IInv, fault = "damaged"
             PROVE  /\ Ended => result.exc # "none"
                    /\ phase = "lost" => served.exc = "unserved"
                    /\ served.exc # "unserved" => wire # served.adu
  BY DEF DamageNoticed
<1>1. ASSUME Ended PROVE result.exc # "none"
  <2>1. /\ Wired /\ framing \in Framing /\ wire \in Seq(Byte)
        /\ \/ result = Raises("TimeoutError") /\ NoAnswer
           \/ Served /\ WireOfAnswer /\ result = Parse(wire)
    BY <1>1, EndIs
  <2>2. CASE result = Raises("TimeoutError")
    BY <2>2 DEF Raises
  <2>3. CASE Served /\ WireOfAnswer /\ result = Parse(wire)
    <3>1. PICK R : Settled(R)
      BY <2>1, <2>3, ServedIs
    <3>2. Faulty(R)
      BY <2>1, <2>3, <3>1, FaultyParsed
    <3>3. result = Raises("CRCError")
      BY <2>3, <3>2 DEF Faulty
    <3> QED
      BY <3>3, CRCErrorIs
  <2> QED
    BY <2>1, <2>2, <2>3
<1>2. ASSUME phase = "lost" PROVE served.exc = "unserved"
  <2>1. InPhase
    BY <1>2, Underway
  <2>2. served = Unserved
    BY <1>2, <2>1 DEF InPhase, NoAnswer
  <2> QED
    BY <2>2 DEF Unserved
<1>3. ASSUME served.exc # "unserved" PROVE wire # served.adu
  <2>1. served # Unserved
    BY <1>3 DEF Unserved
  <2>2. InPhase /\ phase \in Phase
    BY <2>1 DEF IInv, NotAsked, Typed
  <2>3. WireOfAnswer
    BY <2>1, <2>2 DEF InPhase, Phase, NoAnswer
  <2>4. OneDiffers(served.adu, wire)
    BY <2>3 DEF WireOfAnswer
  <2> QED
    BY <2>4 DEF OneDiffers
<1> QED
  BY <1>1, <1>2, <1>3

LEMMA AnswersUnderstoodHolds == IInv => AnswersUnderstood
<1> SUFFICES ASSUME IInv, Ended, served.exc = "none", fault \in {"none", "zeros"}
             PROVE  \/ result.exc = "none" /\ (Reading => result.val = served.data)
                    \/ framing = "v5" /\ fault = "none" /\ DoubleCrc(served.adu)
  BY DEF AnswersUnderstood
<1>1. WireOfAnswer /\ result = Parse(wire)
  BY EndSettled
<1>2. PICK R : Settled(R) /\ Whole(R) /\ Faulty(R)
  BY EndSettled
<1>3. R.exc = "none" /\ (Reading => R.val = served.data)
  BY <1>2 DEF Settled, Told, Reading, Inst
<1>4. CASE fault = "zeros"
  BY <1>1, <1>2, <1>3, <1>4 DEF Faulty
<1>5. CASE fault = "none" /\ (framing # "v5" \/ ~DoubleCrc(served.adu))
  <2>1. wire = served.adu
    BY <1>1, <1>5 DEF WireOfAnswer
  <2>2. result = R
    BY <1>1, <1>2, <1>5, <2>1 DEF Whole
  <2> QED
    BY <1>3, <2>2
<1> QED
  BY <1>4, <1>5

LEMMA ErrorsNamedHolds == IInv => ErrorsNamed
<1> SUFFICES ASSUME IInv, Ended, served.exc \notin {"none", "unserved"},
                    fault \in {"none", "zeros", "short"}
             PROVE  result.exc = served.exc
  BY DEF ErrorsNamed
<1>1. Served /\ WireOfAnswer /\ result = Parse(wire)
  BY EndSettled
<1>2. PICK R : Settled(R) /\ Whole(R) /\ Faulty(R)
  BY EndSettled
<1>3. served.exc = "IllegalDataAddressError"
  BY <1>1 DEF Served
<1>4. R = Raises("IllegalDataAddressError")
  BY <1>2 DEF Settled, Told
<1>5. result = Raises("IllegalDataAddressError")
  <2>1. CASE fault = "none"
    <3>1. wire = served.adu
      BY <1>1, <2>1 DEF WireOfAnswer
    <3> QED
      BY <1>1, <1>2, <1>4, <3>1 DEF Whole
  <2>2. CASE fault = "zeros"
    BY <1>1, <1>2, <1>4, <2>2 DEF Faulty
  <2>3. CASE fault = "short"
    BY <1>1, <1>2, <2>3 DEF Faulty
  <2> QED
    BY <2>1, <2>2, <2>3
<1> QED
  BY <1>3, <1>5 DEF Raises

LEMMA OnlyShortAnswersCompletedHolds == IInv => OnlyShortAnswersCompleted
<1> SUFFICES ASSUME IInv, Ended, fault = "cut", result.exc = "none"
             PROVE  Len(wire) \in 8..10
  BY DEF OnlyShortAnswersCompleted
<1>1. result = Parse(wire) /\ \E R : Faulty(R)
  BY EndSettled
<1> QED
  BY <1>1 DEF Faulty

LEMMA SizeAsExpectedHolds == IInv => SizeAsExpected
<1> SUFFICES ASSUME IInv, Ended, fault = "none", served.exc # "unserved", framing # "v5"
             PROVE  result = IF framing = "tcp" THEN TcpReadBySize(served.adu, request)
                             ELSE RtuReadBySize(served.adu, request)
  BY DEF SizeAsExpected
<1>1. WireOfAnswer /\ result = Parse(wire)
  BY EndSettled
<1>2. PICK R : Settled(R) /\ Whole(R) /\ Faulty(R)
  BY EndSettled
<1>3. wire = served.adu
  BY <1>1 DEF WireOfAnswer
<1>4. result = R
  BY <1>1, <1>2, <1>3 DEF Whole
<1>5. Wired /\ framing \in Framing
  BY EndIs
<1>6. /\ framing = "rtu" => RtuReadBySize(served.adu, request) = R
      /\ framing = "tcp" => TcpReadBySize(served.adu, request) = R
  BY <1>2, <1>5, BySizeParsed
<1>7. framing = "rtu" \/ framing = "tcp"
  BY <1>5 DEF Framing
<1> QED
  BY <1>4, <1>6, <1>7

(* Frames are bytes, the memory holds words and its coils 0 or 1, and an   *)
(* endpoint is never called for more items than were asked for.            *)
THEOREM FramesTyped == Spec => []TypeOK
  BY Invariance, TypeOKHolds, PTL

(* A frame with a damaged byte never gives the caller a value, and a       *)
(* damaged request never reaches an endpoint.                              *)
THEOREM DamageIsNoticed == Spec => []DamageNoticed
  BY Invariance, DamageNoticedHolds, PTL

(* When the server has carried the call out and the answer arrives whole,  *)
(* with or without two zero bytes, the client has what the endpoints held; *)
(* the one exception is the data logger's answer that looks as if its CRC  *)
(* came twice.                                                             *)
THEOREM WholeAnswersUnderstood == Spec => []AnswersUnderstood
  BY Invariance, AnswersUnderstoodHolds, PTL

(* What the server could not do, the client is told by the same name.      *)
THEOREM ErrorsAreNamed == Spec => []ErrorsNamed
  BY Invariance, ErrorsNamedHolds, PTL

(* Of the beginnings of an answer only those of eight to ten bytes are     *)
(* completed; the others are refused.                                      *)
THEOREM OnlyShortOnesCompleted == Spec => []OnlyShortAnswersCompleted
  BY Invariance, OnlyShortAnswersCompletedHolds, PTL

(* The caller with a blocking port makes the same of an answer as the      *)
(* asynchronous client, for every request and answer.                      *)
THEOREM SizesAsExpected == Spec => []SizeAsExpected
  BY Invariance, SizeAsExpectedHolds, PTL

-----------------------------------------------------------------------------
(* The exchange as an operation on the memory.                             *)
CallSeen ==
  IF request = << >> THEN [cells |-> << >>, values |-> << >>]
  ELSE [cells  |-> CellsOf(call.slave, call.instance),
        values |-> IF call.instance.fn = WriteSingleCoil
                   THEN <<CoilValue(call.instance.values[1])>>
                   ELSE call.instance.values]

StageSeen ==
  IF phase = "idle" THEN "idle"
  ELSE IF served.exc = "unserved" THEN "asked"
  ELSE IF served.count = call.instance.quantity THEN "done"
  ELSE "partly"

AnswerSeen ==
  IF Ended /\ result.exc = "none" /\ fault # "cut"
  THEN [ok |-> TRUE, data |-> IF Reading THEN result.val ELSE << >>]
  ELSE [ok |-> FALSE, data |-> << >>]

NoAnswerSeen == [ok |-> FALSE, data |-> << >>]

LEMMA NothingSeen ==
  ASSUME phase # "idle" \/ request = << >>
  PROVE  AnswerSeen = NoAnswerSeen
  BY DEF AnswerSeen, NoAnswerSeen, Ended

LEMMA SeenVars ==
  ASSUME mem' = mem, CallSeen' = CallSeen, StageSeen' = StageSeen, served'.data = served.data,
         AnswerSeen' = AnswerSeen
  PROVE  Memory!vars' = Memory!vars
  BY DEF Memory!vars, CallSeen, StageSeen, AnswerSeen

LEMMA SeenInit == Init => Memory!Init
<1> SUFFICES ASSUME Init PROVE Memory!Init
  OBVIOUS
<1>1. mem \in [Cells -> Word]
  BY DeviceAssumption DEF Init
<1>2. request = << >> /\ phase = "idle" /\ served.data = << >>
  BY DEF Init, Unserved
<1>3. CallSeen = [cells |-> << >>, values |-> << >>]
  BY <1>2 DEF CallSeen
<1>4. AnswerSeen = [ok |-> FALSE, data |-> << >>] /\ StageSeen = "idle"
  BY <1>2, NothingSeen DEF NoAnswerSeen, StageSeen
<1> QED
  BY <1>1, <1>2, <1>3, <1>4 
  DEF Memory!Init, Memory!NoCall, Memory!Failure, CallSeen, StageSeen, AnswerSeen

LEMMA CellsSeen ==
  ASSUME NEW slave, NEW i, i.quantity \in Int, 0 <= i.quantity
  PROVE  /\ CellsOf(slave, i) \in Seq(Cells \union {Nowhere})
         /\ Len(CellsOf(slave, i)) = i.quantity
<1> DEFINE s == CellsOf(slave, i) q == i.quantity T == Cells \union {Nowhere}
<1>1. s = [k \in 1..q |-> match(slave, i.fn.code, i.address + (k - 1))]
  BY DEF CellsOf
<1>2. q \in Nat
  OBVIOUS
<1> HIDE DEF q
<1>3. s = [k \in 1..q |-> s[k]]
  BY <1>1
<1>4. ASSUME NEW k \in 1..q PROVE s[k] \in T
  <2> DEFINE a == i.address + (k - 1)
  <2>1. s[k] = match(slave, i.fn.code, a)
    BY <1>1
  <2> HIDE DEF a
  <2>2. CASE s[k] # Nowhere
    <3>1. IsMatch(s[k], i.fn.code, a)
      BY <2>1, <2>2, MatchIs
    <3> QED
      BY <3>1 DEF IsMatch
  <2>3. CASE s[k] = Nowhere
    BY <2>3
  <2> QED
    BY <2>2, <2>3
<1>5. IsBuilt(s, q, T)
  <2> HIDE DEF s, T
  <2> QED
    BY <1>2, <1>3, <1>4 DEF IsBuilt
<1> QED
  BY <1>5, BuiltSeq DEF q

(* What a call writes, and that only a reader writes nothing.              *)
ValuesSeen(i) ==
  IF i.fn = WriteSingleCoil THEN <<CoilValue(i.values[1])>> ELSE i.values

LEMMA ValuesAre ==
  ASSUME NEW i, IsInstance(i), CreateRequest(i).exc = "none"
  PROVE  /\ ValuesSeen(i) \in Seq(Word)
         /\ ValuesSeen(i) = << >> <=> i.fn.does = "read"
         /\ i.fn.does # "read" => ValuesSeen(i) = Received(i).values
<1>1. CASE i.fn.does = "read"
  <2>1. i.fn # WriteSingleCoil
    BY <1>1, FunctionFacts
  <2>2. i.values = << >>
    BY <1>1 DEF IsInstance, Reader
  <2> QED
    BY <1>1, <2>1, <2>2 DEF ValuesSeen
<1>2. CASE i.fn = WriteSingleCoil
  <2>1. i.fn.does # "read"
    BY <1>2, FunctionFacts
  <2> DEFINE D == {0, 1, CoilOn}
  <2>2. i.values \in Seq(D) /\ Len(i.values) = 1
    <3>1. /\ i.values \in Seq(i.fn.domain) /\ i.quantity = Len(i.values)
          /\ i.quantity \in 1..i.fn.max
      BY <2>1, RequestWrites
    <3>2. i.fn.domain = D /\ i.fn.max = 1
      BY <1>2, FunctionFacts
    <3> HIDE DEF D
    <3> QED
      BY <3>1, <3>2
  <2>3. i.values[1] \in D
    <3> HIDE DEF D
    <3> QED
      BY <2>2
  <2>4. CoilValue(i.values[1]) \in Word
    BY <2>3, BitsAreWords DEF CoilValue
  <2>5. ValuesSeen(i) = <<CoilValue(i.values[1])>> /\ Received(i).values = <<CoilValue(i.values[1])>>
    BY <1>2, ReceivedIs DEF ValuesSeen
  <2> QED
    BY <2>1, <2>4, <2>5
<1>3. CASE i.fn.does # "read" /\ i.fn # WriteSingleCoil
  <2>1. i.values \in Seq(i.fn.domain) /\ i.quantity = Len(i.values) /\ i.quantity \in 1..i.fn.max
    BY <1>3, RequestWrites
  <2>2. i.fn.domain = Word \/ i.fn.domain = {0, 1}
    <3>1. i.fn = WriteSingleRegister \/ i.fn = WriteMultipleCoils \/ i.fn = WriteMultipleRegisters
      BY <1>3, InstanceIs
    <3> QED
      BY <3>1, FunctionFacts
  <2>3. i.values \in Seq(Word)
    <3>1. CASE i.fn.domain = Word
      BY <2>1, <3>1
    <3>2. CASE i.fn.domain = {0, 1}
      <4> DEFINE T == {0, 1}
      <4>1. i.values \in Seq(T) /\ \A v \in T : v \in Word
        BY <2>1, <3>2, BitsAreWords
      <4> HIDE DEF T
      <4>2. \A k \in DOMAIN i.values : i.values[k] \in Word
        BY <4>1
      <4> QED
        BY <4>1, <4>2, ValuesOf
    <3> QED
      BY <2>2, <3>1, <3>2
  <2>4. Len(i.values) >= 1
    BY <2>1
  <2>5. i.values # << >>
    BY <2>3, <2>4
  <2>6. ValuesSeen(i) = i.values /\ Received(i) = i
    BY <1>3, ReceivedIs DEF ValuesSeen
  <2> QED
    BY <1>3, <2>3, <2>5, <2>6
<1> QED
  BY <1>1, <1>2, <1>3, FunctionFacts

(* A write as the memory sees it.                                          *)
IsWritten(w, m, cells, values, n) ==
  w = [c \in Cells |->
         IF \E k \in 1..n : cells[k] = c
         THEN values[CHOOSE k \in 1..n : cells[k] = c]
         ELSE m[c]]

LEMMA WriteSeen ==
  ASSUME NEW m, MemOK(m), NEW slave, NEW i, NEW j, i.quantity \in Int, 0 <= i.quantity,
         i.address \in Int, j.fn = i.fn, j.address = i.address, j.quantity = i.quantity,
         NEW cells, cells = CellsOf(slave, i), NEW values, values = j.values
  PROVE  IsWritten(WrittenBy(m, slave, j), m, cells, values, Admitted(slave, i))
<1> DEFINE n == Admitted(slave, i) a == i.address code == i.fn.code
           At(c) == (c[2] - a) + 1
           Hit(c) == At(c) \in 1..n /\ match(slave, code, c[2]) = c
           Found(c) == \E k \in 1..n : cells[k] = c
           Where(c) == CHOOSE k \in 1..n : cells[k] = c
<1>1. DOMAIN m = Cells
  BY DEF MemOK
<1>2. Admitted(slave, j) = n
  BY SameCells
<1>3. WrittenBy(m, slave, j) = [c \in Cells |-> IF Hit(c) THEN values[At(c)] ELSE m[c]]
  BY <1>1, <1>2 DEF WrittenBy
<1>4. /\ n \in Int /\ 0 <= n
      /\ \A k \in 1..n : /\ cells[k] = match(slave, code, a + (k - 1))
                         /\ cells[k] # Nowhere
  BY AdmittedIs
<1>5. a \in Int
  OBVIOUS
<1> HIDE DEF n, a, code
<1>6. ASSUME NEW c \in Cells, NEW k \in 1..n, cells[k] = c
      PROVE  Hit(c) /\ At(c) = k
  <2> DEFINE b == a + (k - 1)
  <2>1. match(slave, code, b) = c /\ match(slave, code, b) # Nowhere
    BY <1>4, <1>6
  <2>2. b \in Int /\ (b - a) + 1 = k
    BY <1>4, <1>5
  <2> HIDE DEF b
  <2>3. IsMatch(c, code, b)
    BY <2>1, MatchIs
  <2>4. c[2] = b
    BY <2>3 DEF IsMatch
  <2> QED
    BY <2>1, <2>2, <2>4
<1>7. ASSUME NEW c \in Cells, Hit(c)
      PROVE  cells[At(c)] = c
  <2>1. c[2] \in Int
    BY CellsAre
  <2>2. a + (At(c) - 1) = c[2]
    BY <1>5, <2>1
  <2> QED
    BY <1>4, <1>7, <2>2
<1>8. ASSUME NEW c \in Cells
      PROVE  (Hit(c) <=> Found(c)) /\ (Found(c) => At(c) = Where(c))
  <2>1. Hit(c) => Found(c)
    <3> HIDE DEF At
    <3> QED
      BY <1>7 
  <2>2. Found(c) => Hit(c)
    <3> HIDE DEF Hit, At
    <3> QED
      BY <1>6
  <2>3. ASSUME Found(c) PROVE At(c) = Where(c)
    <3>1. Where(c) \in 1..n /\ cells[Where(c)] = c
      BY <2>3
    <3> HIDE DEF Where, Hit, At, Found
    <3> QED
      BY <1>6, <3>1
  <2> QED
    BY <2>1, <2>2, <2>3
<1> HIDE DEF Hit, Found, At, Where
<1>9. [c \in Cells |-> IF Hit(c) THEN values[At(c)] ELSE m[c]]
        = [c \in Cells |-> IF Found(c) THEN values[Where(c)] ELSE m[c]]
  BY <1>8
<1> QED
  BY <1>3, <1>9 DEF Found, Where, n, IsWritten
(* The steps, as the memory sees them.                                     *)
LEMMA RequestSeen ==
  ASSUME IInv, NEW c \in Calls, NEW t \in Transactions, Request(c, t)
  PROVE  Memory!Next
<1> DEFINE i == c.instance built == CreateRequest(i) adu == RequestAdu(t, c.slave, built.val)
<1>1. c.slave \in Byte /\ IsInstance(i) /\ t \in Word
  BY CallersAssumption, LinkAssumption
<1>2. /\ phase = "idle" /\ call' = c /\ served' = Unserved /\ mem' = mem
  BY DEF Request
<1>3. StageSeen = "idle" /\ served'.data = << >>
  BY <1>2 DEF StageSeen, Unserved
<1>4. CASE built.exc = "none"
  <2>1. phase' = "asked" /\ request' = adu /\ adu # << >>
    BY <1>1, <1>4, RequestBytes DEF Request
  <2>2. StageSeen' = "asked"
    BY <1>2, <2>1 DEF StageSeen, Unserved
  <2>3. AnswerSeen' = NoAnswerSeen
    BY <2>1 DEF AnswerSeen, NoAnswerSeen, Ended
  <2>4. i.quantity \in Int /\ 0 <= i.quantity
    <3>1. i.quantity \in Int /\ Legal(i)
      BY <1>1, <1>4, RequestMade DEF IsInstance
    <3>2. i.quantity \in 1..i.fn.max
      BY <3>1 DEF Legal
    <3> QED
      BY <3>1, <3>2
  <2>5. CellsOf(c.slave, i) \in Seq(Cells \union {Nowhere})
    BY <2>4, CellsSeen
  <2>6. ValuesSeen(i) \in Seq(Word)
    BY <1>1, <1>4, ValuesAre
  <2>7. CallSeen' = [cells |-> CellsOf(c.slave, i), values |-> ValuesSeen(i)]
    BY <1>2, <2>1 DEF CallSeen, ValuesSeen
  <2>8. CallSeen' \in [cells : Seq(Cells \union {Nowhere}), values : Seq(Word)]
    BY <2>5, <2>6, <2>7
  <2>9. Memory!Ask
    BY <1>2, <1>3, <2>2, <2>3, <2>8
    DEF Memory!Ask, Memory!Call, Memory!Failure, CallSeen, StageSeen, AnswerSeen, NoAnswerSeen
  <2> QED
    BY <2>9 DEF Memory!Next
<1>5. CASE built.exc # "none"
  <2>1. phase' = "idle" /\ request' = << >>
    BY <1>5 DEF Request
  <2>2. StageSeen' = "idle"
    BY <2>1 DEF StageSeen
  <2>3. AnswerSeen' = NoAnswerSeen
    BY <2>1 DEF AnswerSeen, NoAnswerSeen, Ended
  <2>4. CallSeen' = [cells |-> << >>, values |-> << >>]
    BY <2>1 DEF CallSeen
  <2>5. Memory!Refuse
    BY <1>2, <1>3, <2>2, <2>3, <2>4
    DEF Memory!Refuse, Memory!NoCall, Memory!Failure, CallSeen, StageSeen, AnswerSeen, NoAnswerSeen
  <2> QED
    BY <2>5 DEF Memory!Next
<1> QED
  BY <1>4, <1>5

LEMMA ForeignSeen ==
  ASSUME IInv, NEW pdu \in ForeignPdus, ForeignRequest(pdu)
  PROVE  Memory!Next
<1>1. /\ mem' = execute_route(mem, ForeignSlave, pdu).mem
      /\ framing' = framing /\ call' = call /\ phase' = phase /\ request' = request
      /\ fault' = fault /\ served' = served /\ result' = result
  BY DEF ForeignRequest
<1>2. MemOK(mem) /\ pdu \in Seq(Byte)
  BY CallersAssumption DEF IInv, Typed, MemOK
<1>3. mem' \in [Cells -> Word]
  BY <1>1, <1>2, RouteTyped DEF MemOK
<1>4. CallSeen' = CallSeen /\ StageSeen' = StageSeen /\ AnswerSeen' = AnswerSeen
  BY <1>1 DEF CallSeen, StageSeen, AnswerSeen, Ended, Reading
<1>5. Memory!Others
  BY <1>1, <1>3, <1>4 DEF Memory!Others, CallSeen, StageSeen, AnswerSeen
<1> QED
  BY <1>5 DEF Memory!Next

(* The memory does not see what happens on the way.                        *)
LEMMA WaySeen ==
  ASSUME IInv, phase # "idle", phase' # "idle", 
         mem' = mem, call' = call, request' = request, served' = served
  PROVE  Memory!vars' = Memory!vars
<1>1. CallSeen' = CallSeen /\ StageSeen' = StageSeen
  BY DEF CallSeen, StageSeen
<1>2. AnswerSeen' = AnswerSeen
  BY DEF AnswerSeen, Ended
<1> QED
  BY <1>1, <1>2, SeenVars

LEMMA TimeoutSeen ==
  ASSUME IInv, Timeout
  PROVE  Memory!Next
<1>1. /\ phase = "lost" /\ phase' = "idle" /\ result' = Raises("TimeoutError")
      /\ mem' = mem /\ call' = call /\ request' = request /\ served' = served
  BY DEF Timeout
<1>2. StageSeen # "idle" /\ StageSeen' = "idle" /\ CallSeen' = CallSeen
  BY <1>1 DEF StageSeen, CallSeen
<1>3. AnswerSeen = NoAnswerSeen
  BY <1>1, NothingSeen
<1>4. result'.exc # "none"
  BY <1>1 DEF Raises
<1>5. AnswerSeen' = NoAnswerSeen
  BY <1>4 DEF AnswerSeen, NoAnswerSeen
<1>6. Memory!Fail
  BY <1>1, <1>2, <1>3, <1>5 DEF Memory!Fail, CallSeen, StageSeen, AnswerSeen
<1> QED
  BY <1>6 DEF Memory!Next

(* An answer whose value is used is that of a call carried out.            *)
LEMMA ReceiveValue ==
  ASSUME Wired, framing \in Framing, wire \in Seq(Byte), Served, WireOfAnswer,
         Parse(wire).exc = "none", fault # "cut"
  PROVE  served.exc = "none" /\ (Reading => Parse(wire).val = served.data)
<1>1. PICK R : Settled(R)
  BY ServedIs
<1>2. Whole(R) /\ Faulty(R)
  BY <1>1, WholeParsed, FaultyParsed
<1>3. fault = "none" \/ fault = "zeros"
  <2>1. fault # "damaged"
    BY <1>2, CRCErrorIs DEF Faulty
  <2>2. fault # "short"
    BY <1>2 DEF Faulty, Raises
  <2> QED
    BY <2>1, <2>2 DEF WireOfAnswer
<1>4. Parse(wire) = R
  <2>1. CASE fault = "zeros"
    BY <1>2, <2>1 DEF Faulty
  <2>2. CASE fault = "none"
    <3>1. wire = served.adu
      BY <2>2 DEF WireOfAnswer
    <3> QED
      BY <1>2, <3>1 DEF Whole
  <2> QED
    BY <1>3, <2>1, <2>2
<1>5. served.exc = "none"
  <2>1. served.exc # "none" => R = Raises("IllegalDataAddressError")
    BY <1>1 DEF Settled, Told
  <2> QED
    BY <1>4, <2>1 DEF Raises
<1>6. Reading => R.val = served.data
  BY <1>1, <1>5 DEF Settled, Told, Reading, Inst
<1> QED
  BY <1>4, <1>5, <1>6

LEMMA ReceiveSeen ==
  ASSUME IInv, Receive
  PROVE  Memory!Next
<1>1. /\ phase = "answered" /\ phase' = "idle" /\ result' = Parse(wire)
      /\ framing' = framing /\ mem' = mem /\ call' = call /\ request' = request
      /\ wire' = wire /\ fault' = fault /\ served' = served
  BY DEF Receive
<1>2. request # << >> /\ Typed /\ Wired /\ InPhase
  BY <1>1, Underway
<1>3. Served /\ WireOfAnswer
  BY <1>1, <1>2 DEF InPhase
<1>4. StageSeen' = "idle" /\ CallSeen' = CallSeen /\ StageSeen # "idle"
  BY <1>1 DEF StageSeen, CallSeen
<1>5. AnswerSeen = NoAnswerSeen
  BY <1>1, NothingSeen
<1>6. Ended' /\ (Reading' <=> Reading)
  BY <1>1, <1>2 DEF Ended, Reading
<1>7. CASE Parse(wire).exc = "none" /\ fault # "cut"
  <2>1. served.exc = "none" /\ (Reading => Parse(wire).val = served.data)
    BY <1>2, <1>3, <1>7, ReceiveValue DEF Typed
  <2>2. served.count = Inst.quantity
    BY <1>3, <2>1 DEF Served
  <2>3. StageSeen = "done"
    BY <1>1, <2>1, <2>2 DEF StageSeen, Inst
  <2>4. AnswerSeen' = [ok |-> TRUE, data |-> served.data]
    <3>1. ~Reading => served.data = << >>
      BY <1>3 DEF Served
    <3>2. AnswerSeen' = [ok |-> TRUE, data |-> IF Reading THEN result'.val ELSE << >>]
      BY <1>1, <1>6, <1>7 DEF AnswerSeen
    <3> QED
      BY <1>1, <2>1, <3>1, <3>2
  <2>5. Memory!Answer
    BY <1>1, <1>4, <2>3, <2>4 DEF Memory!Answer, CallSeen, StageSeen, AnswerSeen
  <2> QED
    BY <2>5 DEF Memory!Next
<1>8. CASE ~(Parse(wire).exc = "none" /\ fault # "cut")
  <2>1. AnswerSeen' = NoAnswerSeen
    BY <1>1, <1>8 DEF AnswerSeen, NoAnswerSeen
  <2>2. Memory!Fail
    BY <1>1, <1>4, <1>5, <2>1 DEF Memory!Fail, CallSeen, StageSeen, AnswerSeen
  <2> QED
    BY <2>2 DEF Memory!Next
<1> QED
  BY <1>7, <1>8


(* A request that arrives as it was sent is carried out.                   *)
LEMMA ServeIs ==
  ASSUME IInv, Serve, fault = "none"
  PROVE  /\ \E run : /\ IsRoute(run, mem, call.slave, Inst)
                     /\ mem' = run.mem /\ served'.count = run.count /\ served'.data = run.data
                     /\ served'.exc = run.exc
         /\ phase' # "idle" /\ call' = call /\ request' = request
<1> DEFINE run == execute_route(mem, UnitOf(wire), RequestPdu(wire))
           adu == create_response_adu(wire, run.pdu)
<1>1. phase = "asked" /\ call' = call /\ request' = request
  BY DEF Serve
<1>2. Wired /\ InPhase
  BY <1>1, Underway
<1>3. wire = request
  BY <1>1, <1>2 DEF InPhase, WireOfRequest
<1>4. UnitOf(wire) = call.slave /\ RequestPdu(wire) = AskedPdu /\ Understood(wire)
  BY <1>2, <1>3, WiredReads
<1>5. /\ mem' = run.mem
      /\ served' = [count |-> run.count, data |-> run.data, exc |-> run.exc, adu |-> adu]
      /\ IF run.pdu # << >> THEN phase' = "answered" /\ wire' = adu
         ELSE phase' = "lost" /\ UNCHANGED wire
  BY <1>4 DEF Serve
<1>6. IsInstance(Inst) /\ Understands(Inst, AskedPdu)
  BY <1>2 DEF Wired
<1>7. IsRoute(run, mem, call.slave, Inst)
  BY <1>4, <1>6, RouteIs
<1> HIDE DEF run, adu
<1>8. /\ served'.count = run.count /\ served'.data = run.data /\ served'.exc = run.exc
  BY <1>5
<1>9. phase' # "idle"
  BY <1>5
<1> QED
  BY <1>1, <1>5, <1>7, <1>8, <1>9

LEMMA ServeSeen ==
  ASSUME IInv, Serve, fault = "none"
  PROVE  Memory!Next
<1> DEFINE s == call.slave n == Admitted(s, Inst)
<1>1. /\ phase = "asked" /\ phase' # "idle" /\ call' = call /\ request' = request
  BY ServeIs DEF Serve
<1>2. request # << >> /\ Typed /\ Wired /\ InPhase
  BY <1>1, Underway
<1>3. served = Unserved
  BY <1>1, <1>2 DEF InPhase
<1>4. PICK run : /\ IsRoute(run, mem, s, Inst)
                 /\ mem' = run.mem /\ served'.count = run.count /\ served'.data = run.data
                 /\ served'.exc = run.exc
  BY ServeIs
<1>5. IsInstance(Inst) /\ CreateRequest(Inst).exc = "none"
  BY <1>2 DEF Wired
<1>6. Inst.quantity \in Int /\ 0 <= Inst.quantity
  BY <1>2, QuantityIs
<1>7. Inst = call.instance
  BY DEF Inst
<1>8. CallSeen = [cells |-> CellsOf(s, Inst), values |-> ValuesSeen(Inst)]
  BY <1>2, <1>7 DEF CallSeen, ValuesSeen
<1>9. CallSeen.cells = CellsOf(s, Inst) /\ CallSeen.values = ValuesSeen(Inst)
  BY <1>8
<1>10. /\ n \in Int /\ 0 <= n /\ n <= Inst.quantity
       /\ \A k \in 1..n :
              /\ CellsOf(s, Inst)[k] = match(s, Inst.fn.code, Inst.address + (k - 1))
              /\ CellsOf(s, Inst)[k] # Nowhere
  BY <1>6, AdmittedIs
<1>11. /\ served'.count = n
       /\ mem' = IF Inst.fn.does = "read" THEN mem ELSE WrittenBy(mem, s, Received(Inst))
       /\ served'.data = IF Inst.fn.does = "read"
                         THEN [k \in 1..n |-> mem[CellsOf(s, Inst)[k]]] ELSE << >>
       /\ served'.exc = "none" \/ served'.exc = "IllegalDataAddressError"
  BY <1>4 DEF IsRoute
<1>12. Len(CallSeen.cells) = Inst.quantity
  BY <1>6, <1>9, CellsSeen
<1> HIDE DEF n
<1>13. n \in 0..Len(CallSeen.cells)
  BY <1>10, <1>6, <1>12
<1>14. \A k \in 1..n : CallSeen.cells[k] \in Cells
  <2> TAKE k \in 1..n
  <2> DEFINE a == Inst.address + (k - 1)
  <2>1. /\ CallSeen.cells[k] = match(s, Inst.fn.code, a)
        /\ match(s, Inst.fn.code, a) # Nowhere
    BY <1>9, <1>10
  <2> HIDE DEF a
  <2>2. IsMatch(CallSeen.cells[k], Inst.fn.code, a)
    BY <2>1, MatchIs
  <2> QED
    BY <2>2 DEF IsMatch
<1>15. CallSeen' = CallSeen
  BY <1>1 DEF CallSeen
<1>16. StageSeen = "asked"
  BY <1>1, <1>3 DEF StageSeen, Unserved
<1>17. StageSeen' = IF n = Len(CallSeen.cells) THEN "done" ELSE "partly"
  <2>1. served'.exc # "unserved"
    BY <1>11
  <2> QED
    BY <1>1, <1>7, <1>11, <1>12, <2>1 DEF StageSeen
<1>18. AnswerSeen = NoAnswerSeen /\ AnswerSeen' = NoAnswerSeen
  BY <1>1 DEF AnswerSeen, NoAnswerSeen, Ended
<1>19. CallSeen.values = << >> <=> Inst.fn.does = "read"
  BY <1>5, <1>9, ValuesAre
<1>20. CASE Inst.fn.does = "read"
  <2> DEFINE cells == CallSeen.cells
  <2>1. cells = CellsOf(s, Inst)
    BY <1>9
  <2>2. served'.data = [k \in 1..n |-> mem[CellsOf(s, Inst)[k]]] /\ mem' = mem
    BY <1>11, <1>20
  <2> HIDE DEF cells
  <2>3. served'.data = [k \in 1..n |-> mem[cells[k]]]
    BY <2>1, <2>2
  <2>4. served'.data = [k \in 1..n |-> mem[CallSeen.cells[k]]] /\ CallSeen.values = << >>
    BY <1>19, <1>20, <2>3 DEF cells
  <2>5. Memory!Apply(n)
    BY <1>14, <1>15, <1>16, <1>17, <1>18, <2>2, <2>4
    DEF Memory!Apply, Memory!IsRead, CallSeen, StageSeen, AnswerSeen
  <2> QED
    BY <1>13, <2>5 DEF Memory!Next, CallSeen
<1>21. CASE Inst.fn.does # "read"
  <2>1. /\ Received(Inst).fn = Inst.fn /\ Received(Inst).address = Inst.address
        /\ Received(Inst).quantity = Inst.quantity
    BY <1>5, ReceivedIs
  <2>2. CallSeen.values = Received(Inst).values
    BY <1>5, <1>9, <1>21, ValuesAre
  <2>3. MemOK(mem) /\ Inst.address \in Int
    BY <1>2, <1>5 DEF Typed, MemOK, IsInstance
  <2>4. IsWritten(WrittenBy(mem, s, Received(Inst)), mem, CallSeen.cells, CallSeen.values, n)
    BY <1>6, <1>9, <2>1, <2>2, <2>3, WriteSeen DEF n
  <2>5. IsWritten(mem', mem, CallSeen.cells, CallSeen.values, n)
    BY <1>11, <1>21, <2>4
  <2>6. CallSeen.values # << >>
    BY <1>19, <1>21
  <2>7. served'.data = served.data
    BY <1>3, <1>11, <1>21 DEF Unserved
  <2>8. Memory!Apply(n)
    BY <1>14, <1>15, <1>16, <1>17, <1>18, <2>5, <2>6, <2>7
    DEF Memory!Apply, Memory!IsRead, IsWritten, CallSeen, StageSeen, AnswerSeen
  <2> QED
    BY <1>13, <2>8 DEF Memory!Next, CallSeen
<1> QED
  BY <1>20, <1>21

(* A damaged request is not.                                               *)
LEMMA ServeUnseen ==
  ASSUME IInv, Serve, fault # "none"
  PROVE  Memory!vars' = Memory!vars
<1>1. phase = "asked" /\ call' = call /\ request' = request
  BY DEF Serve
<1>2. Typed /\ Wired /\ InPhase
  BY <1>1, Underway
<1>3. framing # "tcp" /\ OneDiffers(request, wire)
  BY <1>1, <1>2 DEF InPhase, WireOfRequest
<1>4. /\ request = RtuAdu(call.slave, AskedPdu) /\ call.slave \in Byte
      /\ Understands(Inst, AskedPdu)
  BY <1>2, <1>3 DEF Wired
<1>5. AskedPdu \in Seq(Byte) /\ Len(AskedPdu) >= 5
  BY <1>4, UnderstandsIs
<1>6. Len(AskedPdu) >= 2
  BY <1>5
<1>7. wire \in Seq(Byte)
  BY <1>2 DEF Typed
<1>8. validate_crc(wire) = "CRCError"
  BY <1>3, <1>4, <1>5, <1>6, <1>7, RtuDamaged
<1>9. ~Understood(wire)
  BY <1>3, <1>8 DEF Understood
<1>10. phase' = "lost" /\ mem' = mem /\ served' = served
  BY <1>9 DEF Serve
<1> QED
  BY <1>1, <1>10, WaySeen

LEMMA NextSeen ==
  ASSUME IInv, [Next]_vars
  PROVE  [Memory!Next]_(Memory!vars)
<1>1. ASSUME NEW c \in Calls, NEW t \in Transactions, Request(c, t) PROVE Memory!Next
  BY <1>1, RequestSeen
<1>2. CASE Serve
  BY <1>2, ServeSeen, ServeUnseen
<1>3. ASSUME NEW pdu \in ForeignPdus, ForeignRequest(pdu) PROVE Memory!Next
  BY <1>3, ForeignSeen
<1>4. CASE Receive
  BY <1>4, ReceiveSeen
<1>5. CASE Timeout
  BY <1>5, TimeoutSeen
<1>6. CASE Lose
  BY <1>6, WaySeen DEF Lose, UnderWay
<1>7. ASSUME NEW i \in DOMAIN wire, NEW d \in Deltas, Damage(i, d)
      PROVE Memory!vars' = Memory!vars
  <2>1. /\ phase # "idle" /\ phase' # "idle"
        /\ mem' = mem /\ call' = call /\ request' = request /\ served' = served
    BY <1>7 DEF Damage, UnderWay
  <2> QED
    BY <2>1, WaySeen
<1>8. CASE AppendZeros
  BY <1>8, WaySeen DEF AppendZeros, UnderWay
<1>9. CASE Shorten
  BY <1>9, WaySeen DEF Shorten, UnderWay
<1>10. ASSUME NEW n \in 7..Len(wire) - 1, Cut(n) PROVE Memory!vars' = Memory!vars
  <2>1. /\ phase # "idle" /\ phase' # "idle"
        /\ mem' = mem /\ call' = call /\ request' = request /\ served' = served
    BY <1>10 DEF Cut, UnderWay
  <2> QED
    BY <2>1, WaySeen
<1>11. CASE UNCHANGED vars
  <2>1. /\ mem' = mem /\ call' = call /\ request' = request /\ served' = served
        /\ phase' = phase /\ result' = result /\ fault' = fault
    BY <1>11 DEF vars
  <2>2. CallSeen' = CallSeen /\ StageSeen' = StageSeen /\ AnswerSeen' = AnswerSeen
    BY <2>1 DEF CallSeen, StageSeen, AnswerSeen, Ended, Reading
  <2> QED
    BY <2>1, <2>2, SeenVars
<1> QED
  BY <1>1, <1>2, <1>3, <1>4, <1>5, <1>6, <1>7, <1>8, <1>9, <1>10, <1>11 DEF Next

(* The exchange, with its frames and what happens to them, is one          *)
(* operation on the memory of the device: Serve is Apply, Receive is       *)
(* Answer or Fail, Timeout is Fail, and what happens on the way changes    *)
(* nothing.                                                                *)
THEOREM Refinement == Spec => ImplementsMemory
<1>1. Init => Memory!Init
  BY SeenInit
<1>2. IInv /\ [Next]_vars => [Memory!Next]_(Memory!vars)
  BY NextSeen
<1> QED
  BY <1>1, <1>2, Invariance, PTL DEF Spec, ImplementsMemory, Memory!Spec
=============================================================================
