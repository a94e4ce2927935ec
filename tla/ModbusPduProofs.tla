--------------------------- MODULE ModbusPduProofs ---------------------------
(***************************************************************************)
(* What one side of an exchange encodes, the other decodes: words, lists   *)
(* of registers or of bits of any length, requests of all eight functions, *)
(* for every value; and an answer has the size its request lets expect.    *)
(***************************************************************************)
EXTENDS ModbusPdu, SequenceTheorems, WellFoundedInduction, TLAPS

LEMMA ByteNat == \A n \in Byte : n \in Nat
BY DEF Byte

LEMMA HiLo ==
  ASSUME NEW w \in Word
  PROVE  /\ Hi(w) \in Byte
         /\ Lo(w) \in Byte
         /\ 256 * Hi(w) + Lo(w) = w
BY DEF Word, Byte, Hi, Lo

(* A word survives the wire: struct.pack('>H') and struct.unpack('>H').    *)
THEOREM WordRoundTrip ==
  ASSUME NEW w \in Word
  PROVE  PackWord(w) \in Seq(Byte) /\ Len(PackWord(w)) = 2 /\ WordAt(PackWord(w), 1) = w
BY HiLo DEF PackWord, WordAt

LEMMA PackWordsBytes ==
  ASSUME NEW words \in Seq(Word)
  PROVE  /\ PackWords(words) \in Seq(Byte)
         /\ Len(PackWords(words)) = 2 * Len(words)
         /\ \A k \in 1..Len(words) : /\ PackWords(words)[2 * k - 1] = Hi(words[k])
                                     /\ PackWords(words)[2 * k] = Lo(words[k])
<1> DEFINE n == Len(words)
           b(k) == IF k % 2 = 1 THEN Hi(words[(k + 1) \div 2]) ELSE Lo(words[k \div 2])
<1>1. n \in Nat /\ \A k \in 1..n : words[k] \in Word
  OBVIOUS
<1>2. ASSUME NEW k \in 1..2 * n PROVE b(k) \in Byte
  <2>1. CASE k % 2 = 1
    <3>1. (k + 1) \div 2 \in 1..n
      BY <1>1, <2>1
    <3> QED
      BY <1>1, <2>1, <3>1, HiLo
  <2>2. CASE k % 2 # 1
    <3>1. k \div 2 \in 1..n
      BY <1>1, <2>2
    <3> QED
      BY <1>1, <2>2, <3>1, HiLo
  <2> QED
    BY <2>1, <2>2
<1>3. PackWords(words) = [k \in 1..2 * n |-> b(k)]
  BY DEF PackWords
<1>4. 2 * n \in Nat
  BY <1>1
<1>5. PackWords(words) \in Seq(Byte) /\ Len(PackWords(words)) = 2 * n
  <2> HIDE DEF b, n
  <2>1. [k \in 1..2 * n |-> b(k)] \in Seq(Byte)
    BY <1>2, <1>4
  <2> QED
    BY <2>1, <1>3, <1>4
<1>6. ASSUME NEW k \in 1..n
      PROVE  PackWords(words)[2 * k - 1] = Hi(words[k]) /\ PackWords(words)[2 * k] = Lo(words[k])
  <2>1. 2 * k - 1 \in 1..2 * n /\ 2 * k \in 1..2 * n
    BY <1>1
  <2>2. (2 * k - 1) % 2 = 1 /\ (2 * k - 1 + 1) \div 2 = k
    BY <1>1
  <2>3. (2 * k) % 2 = 0 /\ (2 * k) \div 2 = k
    BY <1>1
  <2> QED
    BY <1>3, <2>1, <2>2, <2>3
<1> QED
  BY <1>5, <1>6

(* A list of registers of any length survives the wire.                    *)
THEOREM RegistersRoundTrip ==
  ASSUME NEW words \in Seq(Word)
  PROVE  UnpackWords(PackWords(words), Len(words)) = words
<1>1. Len(words) \in Nat /\ \A k \in 1..Len(words) : words[k] \in Word
  OBVIOUS
<1>2. ASSUME NEW k \in 1..Len(words)
      PROVE  WordAt(PackWords(words), 2 * k - 1) = words[k]
  <2>1. 2 * k - 1 + 1 = 2 * k
    BY <1>1
  <2> QED
    BY <1>1, <2>1, PackWordsBytes, HiLo DEF WordAt
<1>3. [k \in 1..Len(words) |-> words[k]] = words
  OBVIOUS
<1> QED
  BY <1>2, <1>3 DEF UnpackWords
----------------------------------------------------------------------------
(* Slices of what was concatenated.                                        *)

LEMMA ConcatAt ==
  ASSUME NEW T, NEW s \in Seq(T), NEW t \in Seq(T)
  PROVE  /\ s \o t \in Seq(T)
         /\ Len(s \o t) = Len(s) + Len(t)
         /\ \A k \in 1..Len(s) : (s \o t)[k] = s[k]
         /\ \A k \in 1..Len(t) : (s \o t)[Len(s) + k] = t[k]
<1>1. s \o t \in Seq(T) /\ Len(s \o t) = Len(s) + Len(t)
  BY ConcatProperties
<1>2. \A k \in 1..Len(s) + Len(t) :
        (s \o t)[k] = IF k <= Len(s) THEN s[k] ELSE t[k - Len(s)]
  BY ConcatProperties, Zenon
<1>3. Len(s) \in Nat /\ Len(t) \in Nat
  OBVIOUS
<1> DEFINE u == s \o t
<1> HIDE DEF u
<1>4. \A k \in 1..Len(s) + Len(t) : u[k] = IF k <= Len(s) THEN s[k] ELSE t[k - Len(s)]
  BY <1>2 DEF u
<1>5. \A k \in 1..Len(s) : u[k] = s[k]
  BY <1>3, <1>4
<1>6. \A k \in 1..Len(t) : u[Len(s) + k] = t[k]
  <2> TAKE k \in 1..Len(t)
  <2> DEFINE j == Len(s) + k
  <2>1. j \in 1..Len(s) + Len(t) /\ ~(j <= Len(s)) /\ j - Len(s) = k
    BY <1>3
  <2> HIDE DEF j
  <2>2. u[j] = t[k]
    BY <1>4, <2>1
  <2> QED
    BY <2>2 DEF j
<1> QED
  BY <1>1, <1>5, <1>6 DEF u

LEMMA SliceAfter ==
  ASSUME NEW head \in Seq(Byte), NEW rest \in Seq(Byte)
  PROVE  Slice(head \o rest, Len(head), Len(head) + Len(rest)) = rest
<1>1. /\ head \o rest \in Seq(Byte)
      /\ Len(head \o rest) = Len(head) + Len(rest)
      /\ Len(head) \in Nat /\ Len(rest) \in Nat
  OBVIOUS
<1>2. Slice(head \o rest, Len(head), Len(head) + Len(rest))
        = SubSeq(head \o rest, Len(head) + 1, Len(head) + Len(rest))
  BY <1>1 DEF Slice
<1> DEFINE part == SubSeq(head \o rest, Len(head) + 1, Len(head) + Len(rest))
<1>3. /\ part \in Seq(Byte) 
      /\ Len(part) = Len(rest)
      /\ \A k \in 1..Len(part) : part[k] = (head \o rest)[Len(head) + k]
  BY <1>1
<1>4. \A k \in 1..Len(rest) : (head \o rest)[Len(head) + k] = rest[k]
  BY <1>1
<1>5. part = rest
  <2> HIDE DEF part
  <2> QED
    BY <1>1, <1>3, <1>4
<1> QED
  BY <1>2, <1>5

LEMMA Header2 ==
  ASSUME NEW a \in Byte, NEW b \in Byte, NEW rest \in Seq(Byte)
  PROVE  /\ <<a, b>> \o rest \in Seq(Byte)
         /\ Len(<<a, b>> \o rest) = 2 + Len(rest)
         /\ (<<a, b>> \o rest)[1] = a
         /\ (<<a, b>> \o rest)[2] = b
         /\ Slice(<<a, b>> \o rest, 2, 2 + Len(rest)) = rest
<1>1. <<a, b>> \in Seq(Byte) /\ Len(<<a, b>>) = 2
  OBVIOUS
<1>2. Slice(<<a, b>> \o rest, Len(<<a, b>>), Len(<<a, b>>) + Len(rest)) = rest
  BY <1>1, SliceAfter
<1>3. Slice(<<a, b>> \o rest, 2, 2 + Len(rest)) = rest
  BY <1>1, <1>2
<1> QED
  BY <1>1, <1>3

----------------------------------------------------------------------------
(* Answers.                                                                *)

(* The client reads the registers the server sends: create_response_pdu    *)
(* and create_from_response_pdu of the two functions that read registers,  *)
(* for as many as one byte can count.                                      *)
THEOREM RegistersAnswered ==
  ASSUME NEW i, i.fn.code \in Byte, 
         NEW words \in Seq(Word), 2 * Len(words) \in Byte
  PROVE  WordsFromResponse(WordsResponse(i, words), Len(words)) = Returns(words)
<1> DEFINE packed == PackWords(words)
           pdu == <<i.fn.code, 2 * Len(words)>> \o packed
<1>1. packed \in Seq(Byte) /\ Len(packed) = 2 * Len(words)
  BY PackWordsBytes
<1>2. pdu[2] = 2 * Len(words) /\ Slice(pdu, 2, 2 + Len(packed)) = packed
  <2> HIDE DEF packed
  <2> QED
    BY <1>1, Header2
<1>3. Slice(pdu, 2, 2 + pdu[2]) = packed
  BY <1>1, <1>2
<1>4. WordsResponse(i, words) = pdu
  BY DEF WordsResponse
<1>5. UnpackWords(packed, Len(words)) = words
  BY RegistersRoundTrip
<1> HIDE DEF packed, pdu
<1> QED
  BY <1>1, <1>3, <1>4, <1>5 DEF WordsFromResponse

(* An answer has the size that send_message waits for.                     *)
THEOREM RegistersAnswerSize ==
  ASSUME NEW i, i.fn.code \in Byte, i.fn.does = "read", i.fn.unit = "word",
         NEW words \in Seq(Word), i.quantity = Len(words), 2 * Len(words) \in Byte
  PROVE  Len(create_response_pdu(i, words)) = expected_response_pdu_size(i)
<1>1. PackWords(words) \in Seq(Byte) /\ Len(PackWords(words)) = 2 * Len(words)
  BY PackWordsBytes
<1>2. Len(WordsResponse(i, words)) = 2 + 2 * Len(words)
  BY <1>1, Header2 DEF WordsResponse
<1>3. create_response_pdu(i, words) = WordsResponse(i, words)
  BY DEF create_response_pdu
<1>4. expected_response_pdu_size(i) = 2 + 2 * Len(words)
  BY DEF expected_response_pdu_size
<1> QED
  BY <1>2, <1>3, <1>4

(* The same of answers with coils and inputs, whatever their last byte is: *)
(* ReadCoils.expected_response_pdu_size.                                   *)
THEOREM BitsAnswerSize ==
  ASSUME NEW i, i.fn.code \in Byte, i.fn.does = "read", i.fn.unit = "bit",
         NEW bits \in Seq({0, 1}), i.quantity = Len(bits), ByteCount(Len(bits)) \in Byte
  PROVE  Len(create_response_pdu(i, bits)) = expected_response_pdu_size(i)
<1>1. create_response_pdu(i, bits) = BitsResponse(i, bits)
  BY DEF create_response_pdu
<1>2. expected_response_pdu_size(i) = 2 + ByteCount(Len(bits))
  BY DEF expected_response_pdu_size
<1>3. \E e : PackBits(bits) = [b \in 1..ByteCount(Len(bits)) |-> e[b]]
  <2> DEFINE e == PackBits(bits)
  <2>1. e = [b \in 1..ByteCount(Len(bits)) |-> e[b]]
    BY DEF PackBits
  <2> QED
    BY <2>1
<1>4. PICK e : PackBits(bits) = [b \in 1..ByteCount(Len(bits)) |-> e[b]]
  BY <1>3
<1>5. ByteCount(Len(bits)) \in Nat
  BY ByteNat
<1>6. PackBits(bits) \in Seq({e[b] : b \in 1..ByteCount(Len(bits))})
  BY <1>4, <1>5
<1>7. Len(PackBits(bits)) = ByteCount(Len(bits))
  BY <1>4, <1>5
<1>8. Len(<<i.fn.code, ByteCount(Len(bits))>> \o PackBits(bits)) = 2 + Len(PackBits(bits))
  <2> DEFINE S == {e[b] : b \in 1..ByteCount(Len(bits))} \union Byte
  <2>1. PackBits(bits) \in Seq(S)
    BY <1>6
  <2>2. <<i.fn.code, ByteCount(Len(bits))>> \in Seq(S)
    OBVIOUS
  <2> HIDE DEF S
  <2> QED
    BY <2>1, <2>2
<1> QED
  BY <1>1, <1>2, <1>7, <1>8 DEF BitsResponse

----------------------------------------------------------------------------
(* Requests.                                                               *)

LEMMA Functions ==
  /\ FunctionOf(1) = ReadCoils
  /\ FunctionOf(2) = ReadDiscreteInputs
  /\ FunctionOf(3) = ReadHoldingRegisters
  /\ FunctionOf(4) = ReadInputRegisters
  /\ \A c \in {1, 2, 3, 4, 5, 6, 15, 16} : Known(c)
BY DEF FunctionOf, Known, function_code_to_function_map, ReadCoils, ReadDiscreteInputs,
       ReadHoldingRegisters, ReadInputRegisters, WriteSingleCoil, WriteSingleRegister,
       WriteMultipleCoils, WriteMultipleRegisters

Readers == {ReadCoils, ReadDiscreteInputs, ReadHoldingRegisters, ReadInputRegisters}

LEMMA LimitIsWord ==
  ASSUME NEW most, most = 125 \/ most = 2000, NEW q \in 1..most
  PROVE  q \in Word
<1>1. CASE most = 125
  BY <1>1 DEF Word
<1>2. CASE most = 2000
  BY <1>2 DEF Word
<1> QED
  BY <1>1, <1>2

(* A request to read, of any of the four functions, for any address and    *)
(* any legal quantity, is what the server takes it for.                    *)
THEOREM ReadRequestUnderstood ==
  ASSUME NEW f \in Readers, NEW address \in Word, NEW quantity \in 1..f.max
  PROVE  create_function_from_request_pdu(ReadRequest(Reader(f, address, quantity)))
           = Returns(Reader(f, address, quantity))
<1> DEFINE i == Reader(f, address, quantity)
           pdu == ReadRequest(i)
<1>0. f.max = 125 \/ f.max = 2000
  BY DEF Readers, ReadCoils, ReadDiscreteInputs, ReadHoldingRegisters, ReadInputRegisters
<1>1. quantity \in Word
  BY <1>0, LimitIsWord
<1>2. f.code \in 1..4 /\ FunctionOf(f.code) = f /\ Known(f.code)
  BY Functions DEF Readers, ReadCoils, ReadDiscreteInputs, ReadHoldingRegisters, 
                   ReadInputRegisters
<1>3. pdu = <<f.code, Hi(address), Lo(address), Hi(quantity), Lo(quantity)>>
  BY DEF ReadRequest, PackBHH, Reader
<1>4. WordAt(pdu, 2) = address /\ WordAt(pdu, 4) = quantity
  BY <1>1, <1>3, HiLo DEF WordAt
<1>5. Legal(i)
  BY DEF Legal, Reader, Readers, ReadCoils, ReadDiscreteInputs, ReadHoldingRegisters, 
         ReadInputRegisters
<1>6. pdu # << >> /\ Len(pdu) = 5 /\ pdu[1] = f.code
  BY <1>3
<1>7. create_function_from_request_pdu(pdu) = ReadFromRequest(f, pdu)
  <2> HIDE DEF pdu
  <2> QED
    BY <1>2, <1>6 DEF create_function_from_request_pdu
<1>8. ReadFromRequest(f, pdu) = Checked(Reader(f, address, quantity))
  <2> HIDE DEF pdu
  <2> QED
    BY <1>4, <1>6 DEF ReadFromRequest
<1> QED
  BY <1>5, <1>7, <1>8 DEF Checked
LEMMA PackBHHBytes ==
  ASSUME NEW b \in Byte, NEW v \in Word, NEW w \in Word
  PROVE  /\ PackBHH(b, v, w) \in Seq(Byte)
         /\ Len(PackBHH(b, v, w)) = 5
         /\ PackBHH(b, v, w)[1] = b
         /\ WordAt(PackBHH(b, v, w), 2) = v
         /\ WordAt(PackBHH(b, v, w), 4) = w
BY HiLo DEF PackBHH, WordAt

LEMMA Header6 ==
  ASSUME NEW head \in Seq(Byte), Len(head) = 5, NEW c \in Byte, NEW rest \in Seq(Byte)
  PROVE  /\ Len(head \o <<c>> \o rest) = 6 + Len(rest)
         /\ \A k \in 1..5 : (head \o <<c>> \o rest)[k] = head[k]
         /\ (head \o <<c>> \o rest)[6] = c
         /\ Slice(head \o <<c>> \o rest, 6, Len(head \o <<c>> \o rest)) = rest
<1> DEFINE last == <<c>>
           front == head \o last
<1>1. last \in Seq(Byte) /\ Len(last) = 1 /\ last[1] = c
  OBVIOUS
<1>2. /\ front \in Seq(Byte) /\ Len(front) = 6 
      /\ \A k \in 1..5 : front[k] = head[k] 
      /\ front[6] = c
  <2> HIDE DEF last
  <2>1. front \in Seq(Byte) /\ Len(front) = Len(head) + Len(last)
    BY <1>1, ConcatProperties
  <2>2. \A k \in 1..Len(head) + Len(last) : 
          front[k] = IF k <= Len(head) THEN head[k] ELSE last[k - Len(head)]
    BY <1>1, ConcatProperties, Zenon
  <2> QED
    BY <1>1, <2>1, <2>2
<1>3. /\ Len(front \o rest) = 6 + Len(rest)
      /\ \A k \in 1..5 : (front \o rest)[k] = head[k]
      /\ (front \o rest)[6] = c
  <2> HIDE DEF front
  <2>1. front \o rest \in Seq(Byte) /\ Len(front \o rest) = Len(front) + Len(rest)
    BY <1>2, ConcatProperties
  <2>2. \A k \in 1..Len(front) + Len(rest) : 
          (front \o rest)[k] = IF k <= Len(front) THEN front[k] ELSE rest[k - Len(front)]
    BY <1>2, ConcatProperties, Zenon
  <2>3. Len(rest) \in Nat
    OBVIOUS
  <2> QED
    BY <1>2, <2>1, <2>2, <2>3
<1>4. Slice(front \o rest, 6, 6 + Len(rest)) = rest
  <2> HIDE DEF front
  <2> QED
    BY <1>2, SliceAfter
<1> HIDE DEF front
<1>5. /\ Len(front \o rest) = 6 + Len(rest)
      /\ \A k \in 1..5 : (front \o rest)[k] = head[k]
      /\ (front \o rest)[6] = c
      /\ Slice(front \o rest, 6, Len(front \o rest)) = rest
  BY <1>3, <1>4
<1> QED
  BY <1>5 DEF front

LEMMA SmallCount ==
  ASSUME NEW n \in Int, 1 <= n, n <= 127
  PROVE  n \in Word /\ 16 \in Byte /\ 2 * n \in Byte
BY DEF Word, Byte

(* A request to write registers, for any address and as many values as one *)
(* byte can count, is what the server takes it for.                        *)
THEOREM WriteRegistersUnderstood ==
  ASSUME NEW address \in Word, NEW words \in Seq(Word),
         NEW n \in Int, 1 <= n, n <= 127, Len(words) = n
  PROVE  WriteRegistersFromRequest(
           WriteRegistersRequest(Writer(WriteMultipleRegisters, address, words)))
           = Returns(Writer(WriteMultipleRegisters, address, words))
<1> DEFINE i == Writer(WriteMultipleRegisters, address, words)
           head == PackBHH(16, address, n)
           packed == PackWords(words)
           pdu == head \o <<2 * n>> \o packed
<1>1. packed \in Seq(Byte) /\ Len(packed) = 2 * n
  BY PackWordsBytes
<1>2. n \in Word /\ 16 \in Byte /\ 2 * n \in Byte
  BY SmallCount
<1>3. head \in Seq(Byte) /\ Len(head) = 5 /\ WordAt(head, 2) = address
  BY <1>2, PackBHHBytes
<1>4. WriteRegistersRequest(i) = pdu
  BY DEF WriteRegistersRequest, Writer, WriteMultipleRegisters
<1>5. /\ Len(pdu) = 6 + 2 * n
      /\ pdu[2] = head[2] /\ pdu[3] = head[3]
      /\ pdu[6] = 2 * n
      /\ Slice(pdu, 6, Len(pdu)) = packed
  <2> HIDE DEF head, packed
  <2> QED
    BY <1>1, <1>2, <1>3, Header6
<1>6. WordAt(pdu, 2) = address
  <2> HIDE DEF head, pdu
  <2> QED
    BY <1>3, <1>5 DEF WordAt
<1>7. UnpackWords(packed, n) = words
  BY RegistersRoundTrip
<1>8. pdu[6] \div 2 = n
  <2> HIDE DEF pdu
  <2> QED
    BY <1>5
<1>9. WriteRegistersFromRequest(pdu) = Checked(i)
  <2> HIDE DEF pdu, packed
  <2>1. ~(Len(pdu) < 6 \/ Len(pdu) - 6 # 2 * (pdu[6] \div 2))
    BY <1>5, <1>8
  <2> QED
    BY <2>1, <1>5, <1>6, <1>7, <1>8 DEF WriteRegistersFromRequest
<1>10. Legal(i)
  <2>1. i.quantity = n /\ i.values = words /\ i.fn.max = 1968 /\ i.fn.domain = Word
    BY DEF Writer, WriteMultipleRegisters
  <2>2. \A k \in DOMAIN words : words[k] \in Word
    OBVIOUS
  <2> HIDE DEF i
  <2>3. n \in 1..1968
    OBVIOUS
  <2> QED
    <3>1. i.quantity \in 1..i.fn.max
      BY <2>1, <2>3, SMTT(30)
    <3>2. \A k \in DOMAIN i.values : i.values[k] \in i.fn.domain
      BY <2>1, <2>2, SMTT(30)
    <3>3. QED
      BY <3>1, <3>2, Zenon DEF Legal
<1> HIDE DEF pdu, i
<1>11. WriteRegistersFromRequest(WriteRegistersRequest(i)) = Returns(i)
  BY <1>4, <1>9, <1>10 DEF Checked
<1> QED
  BY <1>11 DEF i

----------------------------------------------------------------------------
(* Bits.                                                                   *)

(* What holds of 0 and of the successor of every number it holds of.       *)
LEMMA Upwards ==
  ASSUME NEW S, 0 \in S, \A n \in Nat : n \in S => n + 1 \in S
  PROVE  \A n \in Nat : n \in S
<1> DEFINE T == {n \in Nat : n \notin S}
<1> SUFFICES ASSUME T # {} PROVE FALSE
  OBVIOUS
<1>1. PICK k \in T : \A l \in T : ~(<<l, k>> \in OpToRel(<, Nat))
  BY WFMin, NatLessThanWellFounded
<1>2. \A l \in T : ~(l < k)
  BY <1>1, Zenon DEF OpToRel
<1>3. k \in Nat /\ k # 0 /\ k - 1 \in Nat /\ k - 1 < k
  OBVIOUS
<1>4. k - 1 \in S
  BY <1>2, <1>3
<1>5. (k - 1) + 1 \in S
  BY <1>3, <1>4
<1> QED
  BY <1>3, <1>5

(* FlattenSeq concatenates one after the other.                            *)
Flattens(f, seqs, n) ==
  f = [i \in 1..n |-> IF i = 1 THEN seqs[i] ELSE f[i - 1] \o seqs[i]]

LEMMA FlattenExists ==
  ASSUME NEW seqs, NEW n \in Nat, n > 0, Len(seqs) = n
  PROVE  \E f : Flattens(f, seqs, n) /\ FlattenSeq(seqs) = f[n]
<1> DEFINE S == {m \in Nat : \E f : Flattens(f, seqs, m)}
<1>1. 0 \in S
  <2> DEFINE f == [i \in 1..0 |-> seqs[i]]
  <2>1. Flattens(f, seqs, 0)
    BY DEF Flattens
  <2> HIDE DEF f
  <2> QED
    BY <2>1
<1>2. \A m \in Nat : m \in S => m + 1 \in S
  <2> TAKE m \in Nat
  <2> HAVE m \in S
  <2> PICK f : Flattens(f, seqs, m)
    OBVIOUS
  <2> DEFINE g == [i \in 1..(m + 1) |->
                     IF i = m + 1 THEN IF i = 1 THEN seqs[i] ELSE f[m] \o seqs[i] ELSE f[i]]
  <2>1. ASSUME NEW i \in 1..(m + 1)
        PROVE  g[i] = IF i = 1 THEN seqs[i] ELSE g[i - 1] \o seqs[i]
    <3>1. CASE i = 1
      BY <3>1 DEF Flattens
    <3>2. CASE i # 1
      <4>1. i - 1 \in 1..m /\ g[i - 1] = f[i - 1]
        BY <3>2
      <4>2. i \in 1..m => f[i] = f[i - 1] \o seqs[i]
        BY <3>2 DEF Flattens
      <4>3. i = m + 1 => g[i] = f[i - 1] \o seqs[i]
        <5>1. i = m + 1 => g[i] = IF i = 1 THEN seqs[i] ELSE f[m] \o seqs[i]
          OBVIOUS
        <5>2. i = m + 1 => i - 1 = m
          OBVIOUS
        <5> HIDE DEF g
        <5> QED
          BY <3>2, <5>1, <5>2, Zenon
      <4>4. i # m + 1 => g[i] = f[i] /\ i \in 1..m
        OBVIOUS
      <4> QED
        BY <3>2, <4>1, <4>2, <4>3, <4>4
    <3> QED
      BY <3>1, <3>2
  <2>2. Flattens(g, seqs, m + 1)
    <3>1. g = [i \in 1..(m + 1) |-> g[i]]
      OBVIOUS
    <3> HIDE DEF g
    <3> QED
      BY <2>1, <3>1 DEF Flattens
  <2> HIDE DEF g
  <2> QED
    BY <2>2
<1>3. n \in S
  <2> HIDE DEF S
  <2> QED
    BY <1>1, <1>2, Upwards
<1>4. FlattenSeq(seqs) = (CHOOSE f : Flattens(f, seqs, n))[n]
  BY DEF FlattenSeq, Flattens
<1> QED
  BY <1>3, <1>4

LEMMA FlattensAt ==
  ASSUME NEW f, NEW seqs, NEW n \in Nat, Flattens(f, seqs, n),
         NEW m \in Nat, m + 1 \in 1..n
  PROVE  f[m + 1] = IF m = 0 THEN seqs[m + 1] ELSE f[m] \o seqs[m + 1]
<1>1. \A i \in 1..n : f[i] = IF i = 1 THEN seqs[i] ELSE f[i - 1] \o seqs[i]
  BY DEF Flattens
<1>2. m + 1 - 1 = m /\ (m + 1 = 1 <=> m = 0)
  OBVIOUS
<1> DEFINE k == m + 1
<1>3. k \in 1..n /\ k - 1 = m /\ (k = 1 <=> m = 0)
  BY <1>2
<1> HIDE DEF k
<1>4. f[k] = IF m = 0 THEN seqs[k] ELSE f[m] \o seqs[k]
  BY <1>1, <1>3
<1> QED
  BY <1>4 DEF k

LEMMA FlattenBy ==
  ASSUME NEW seqs, NEW n \in Nat, n > 0, Len(seqs) = n, NEW g, g[1] = seqs[1],
         \A i \in 2..n : g[i] = g[i - 1] \o seqs[i]
  PROVE  FlattenSeq(seqs) = g[n]
<1>1. PICK f : Flattens(f, seqs, n) /\ FlattenSeq(seqs) = f[n]
  BY FlattenExists
<1> DEFINE S == {m \in Nat : m \in 1..n => f[m] = g[m]}
<1>2. 0 \in S
  OBVIOUS
<1>3. \A m \in Nat : m \in S => m + 1 \in S
  <2> TAKE m \in Nat
  <2> SUFFICES ASSUME m \in S, m + 1 \in 1..n PROVE f[m + 1] = g[m + 1]
    OBVIOUS
  <2>1. f[m + 1] = IF m = 0 THEN seqs[m + 1] ELSE f[m] \o seqs[m + 1]
    BY <1>1, FlattensAt
  <2>2. CASE m = 0
    BY <2>1, <2>2
  <2>3. CASE m # 0
    <3>1. m + 1 \in 2..n /\ (m + 1) - 1 = m /\ m \in 1..n
      BY <2>3
    <3>2. \A k \in 2..n : k - 1 = m => g[k] = g[m] \o seqs[k]
      BY Zenon
    <3>3. f[m] = g[m]
      BY <3>1
    <3> HIDE DEF S
    <3>4. g[m + 1] = g[m] \o seqs[m + 1]
      BY <3>1, <3>2, Zenon
    <3>5. f[m + 1] = f[m] \o seqs[m + 1]
      BY <2>1, <2>3, Zenon
    <3> QED
      BY <3>3, <3>4, <3>5, Zenon
  <2> QED
    BY <2>2, <2>3
<1>4. n \in S
  <2> HIDE DEF S
  <2> QED
    BY <1>2, <1>3, Upwards
<1> QED
  BY <1>1, <1>4

LEMMA FlattenType ==
  ASSUME NEW T, NEW seqs \in Seq(Seq(T))
  PROVE  FlattenSeq(seqs) \in Seq(T)
<1> DEFINE n == Len(seqs)
<1>1. n \in Nat /\ \A i \in 1..n : seqs[i] \in Seq(T)
  OBVIOUS
<1>2. CASE n = 0
  BY <1>2 DEF FlattenSeq
<1>3. CASE n > 0
  <2>1. PICK f : Flattens(f, seqs, n) /\ FlattenSeq(seqs) = f[n]
    BY <1>1, <1>3, FlattenExists
  <2> DEFINE S == {m \in Nat : m \in 1..n => f[m] \in Seq(T)}
  <2>2. 0 \in S
    OBVIOUS
  <2>3. \A m \in Nat : m \in S => m + 1 \in S
    <3> TAKE m \in Nat
    <3> SUFFICES ASSUME m \in S, m + 1 \in 1..n PROVE f[m + 1] \in Seq(T)
      OBVIOUS
    <3>1. f[m + 1] = IF m = 0 THEN seqs[m + 1] ELSE f[m] \o seqs[m + 1]
      BY <1>1, <2>1, FlattensAt
    <3>2. m # 0 => f[m] \in Seq(T)
      BY <1>1
    <3> QED
      BY <1>1, <3>1, <3>2
  <2>4. n \in S
    <3> HIDE DEF S
    <3> QED
      BY <1>1, <2>2, <2>3, Upwards
  <2> QED
    BY <1>1, <1>3, <2>1, <2>4
<1> QED
  BY <1>1, <1>2, <1>3


(* The bits of a byte, least significant first, and their sum.             *)
BitsOfByte == [1..8 -> {0, 1}]
ByteOf(c) ==
  1 * c[1] + 2 * c[2] + 4 * c[3] + 8 * c[4] + 16 * c[5] + 32 * c[6] + 64 * c[7] + 128 * c[8]

LEMMA NibbleBits ==
  ASSUME NEW a \in {0, 1}, NEW b \in {0, 1}, NEW c \in {0, 1}, NEW d \in {0, 1}
  PROVE  LET x == a + 2 * b + 4 * c + 8 * d
         IN  (x \div 1) % 2 = a /\ (x \div 2) % 2 = b /\ (x \div 4) % 2 = c /\ (x \div 8) % 2 = d
OBVIOUS

LEMMA ByteOfBits ==
  ASSUME NEW c \in BitsOfByte
  PROVE  /\ ByteOf(c) \in Byte
         /\ \A k \in 1..8 : (ByteOf(c) \div 2 ^ (k - 1)) % 2 = c[k]
         /\ \A w \in 1..8 : (\A k \in 1..8 : k > w => c[k] = 0) => ByteOf(c) < 2 ^ w
<1> DEFINE x == ByteOf(c)
<1>1. /\ c[1] \in {0, 1} /\ c[2] \in {0, 1} /\ c[3] \in {0, 1} /\ c[4] \in {0, 1}
      /\ c[5] \in {0, 1} /\ c[6] \in {0, 1} /\ c[7] \in {0, 1} /\ c[8] \in {0, 1}
  BY DEF BitsOfByte
<1>2. /\ x = c[1] + 2 * c[2] + 4 * c[3] + 8 * c[4] + 16 * c[5] + 32 * c[6] + 64 * c[7] + 128 * c[8]
      /\ x \in Byte /\ x \in Nat
  BY <1>1 DEF ByteOf, Byte
<1> HIDE DEF x
<1>3. ASSUME NEW k \in 1..8 PROVE (x \div 2 ^ (k - 1)) % 2 = c[k]
  <2>0. 2 ^ 0 = 1 /\ 2 ^ 1 = 2 /\ 2 ^ 2 = 4 /\ 2 ^ 3 = 8 /\ 2 ^ 4 = 16 /\ 2 ^ 5 = 32 /\ 2 ^ 6 = 64 /\ 2 ^ 7 = 128
    OBVIOUS
  <2>1. /\ (x \div 1) % 2 = c[1] /\ (x \div 2) % 2 = c[2] 
        /\ (x \div 4) % 2 = c[3] /\ (x \div 8) % 2 = c[4]
    <3> DEFINE h == c[5] + 2 * c[6] + 4 * c[7] + 8 * c[8]
               l == c[1] + 2 * c[2] + 4 * c[3] + 8 * c[4]
    <3>1. h \in 0..15 /\ l \in 0..15 /\ x = l + 16 * h
      BY <1>1, <1>2
    <3>2. /\ (l \div 1) % 2 = c[1] /\ (l \div 2) % 2 = c[2] 
          /\ (l \div 4) % 2 = c[3] /\ (l \div 8) % 2 = c[4]
      BY <1>1, NibbleBits
    <3> HIDE DEF h, l
    <3>3. /\ (x \div 1) % 2 = (l \div 1) % 2 /\ (x \div 2) % 2 = (l \div 2) % 2
          /\ (x \div 4) % 2 = (l \div 4) % 2 /\ (x \div 8) % 2 = (l \div 8) % 2
      BY <3>1
    <3> QED
      BY <3>2, <3>3
  <2>2. /\ (x \div 16) % 2 = c[5] /\ (x \div 32) % 2 = c[6] 
        /\ (x \div 64) % 2 = c[7] /\ (x \div 128) % 2 = c[8]
    <3> DEFINE h == c[5] + 2 * c[6] + 4 * c[7] + 8 * c[8]
               l == c[1] + 2 * c[2] + 4 * c[3] + 8 * c[4]
    <3>1. h \in 0..15 /\ l \in 0..15 /\ x = l + 16 * h
      BY <1>1, <1>2
    <3>2. /\ (h \div 1) % 2 = c[5] /\ (h \div 2) % 2 = c[6] 
          /\ (h \div 4) % 2 = c[7] /\ (h \div 8) % 2 = c[8]
      BY <1>1, NibbleBits
    <3> HIDE DEF h, l
    <3>3. /\ x \div 16 = h \div 1 /\ x \div 32 = h \div 2
          /\ x \div 64 = h \div 4 /\ x \div 128 = h \div 8
      BY <3>1
    <3> QED
      BY <3>2, <3>3
  <2>3. k - 1 \in 0..7
    OBVIOUS
  <2>4. \A j \in 0..7 : (x \div 2 ^ j) % 2 = c[j + 1]
    <3> TAKE j \in 0..7
    <3>1. CASE j = 0  BY <3>1, <2>0, <2>1
    <3>2. CASE j = 1  BY <3>2, <2>0, <2>1
    <3>3. CASE j = 2  BY <3>3, <2>0, <2>1
    <3>4. CASE j = 3  BY <3>4, <2>0, <2>1
    <3>5. CASE j = 4  BY <3>5, <2>0, <2>2
    <3>6. CASE j = 5  BY <3>6, <2>0, <2>2
    <3>7. CASE j = 6  BY <3>7, <2>0, <2>2
    <3>8. CASE j = 7  BY <3>8, <2>0, <2>2
    <3> QED
      BY <3>1, <3>2, <3>3, <3>4, <3>5, <3>6, <3>7, <3>8
  <2>5. (k - 1) + 1 = k
    OBVIOUS
  <2> DEFINE j == k - 1
  <2> HIDE DEF j
  <2>6. j \in 0..7 /\ j + 1 = k
    BY <2>3, <2>5 DEF j
  <2>7. (x \div 2 ^ j) % 2 = c[k]
    BY <2>4, <2>6
  <2> QED
    BY <2>7 DEF j
<1>4. ASSUME NEW w \in 1..8, \A k \in 1..8 : k > w => c[k] = 0 PROVE x < 2 ^ w
  <2>0. 2 ^ 1 = 2 /\ 2 ^ 2 = 4 /\ 2 ^ 3 = 8 /\ 2 ^ 4 = 16 /\ 2 ^ 5 = 32 /\ 2 ^ 6 = 64 /\ 2 ^ 7 = 128 /\ 2 ^ 8 = 256
    OBVIOUS
  <2>1. CASE w = 1  BY <1>1, <1>2, <1>4, <2>0, <2>1
  <2>2. CASE w = 2  BY <1>1, <1>2, <1>4, <2>0, <2>2
  <2>3. CASE w = 3  BY <1>1, <1>2, <1>4, <2>0, <2>3
  <2>4. CASE w = 4  BY <1>1, <1>2, <1>4, <2>0, <2>4
  <2>5. CASE w = 5  BY <1>1, <1>2, <1>4, <2>0, <2>5
  <2>6. CASE w = 6  BY <1>1, <1>2, <1>4, <2>0, <2>6
  <2>7. CASE w = 7  BY <1>1, <1>2, <1>4, <2>0, <2>7
  <2>8. CASE w = 8  BY <1>1, <1>2, <1>4, <2>0, <2>8
  <2> QED
    BY <2>1, <2>2, <2>3, <2>4, <2>5, <2>6, <2>7, <2>8
<1> QED
  BY <1>2, <1>3, <1>4 DEF x

(* The digits of a byte, to a width that holds all that are significant.   *)
LEMMA DigitsOfByte ==
  ASSUME NEW c \in BitsOfByte, NEW w \in 1..8, \A k \in 1..8 : k > w => c[k] = 0
  PROVE  Digits(ByteOf(c), w) = [k \in 1..w |-> c[k]]
<1> DEFINE S == {n \in 1..8 : ByteOf(c) < 2 ^ n}
           M == {w, Min(S)}
<1>1. w \in S
  BY ByteOfBits
<1>2. Min(S) \in S /\ Min(S) <= w
  <2> HIDE DEF S
  <2>1. \E x \in S : \A y \in S : x =< y
    <3>1. \A y \in S : y \in 1..8
      BY DEF S
    <3>2. CASE 1 \in S  BY <3>1, <3>2
    <3>3. CASE 2 \in S /\ 1 \notin S  BY <3>1, <3>3
    <3>4. CASE 3 \in S /\ 1 \notin S /\ 2 \notin S  BY <3>1, <3>4
    <3>5. CASE 4 \in S /\ 1 \notin S /\ 2 \notin S /\ 3 \notin S  BY <3>1, <3>5
    <3>6. CASE S \cap (1..4) = {} /\ 5 \in S  BY <3>1, <3>6
    <3>7. CASE S \cap (1..5) = {} /\ 6 \in S  BY <3>1, <3>7
    <3>8. CASE S \cap (1..6) = {} /\ 7 \in S  BY <3>1, <3>8
    <3>9. CASE S \cap (1..7) = {} /\ 8 \in S  BY <3>1, <3>9
    <3> QED
      BY <1>1, <3>1, <3>2, <3>3, <3>4, <3>5, <3>6, <3>7, <3>8, <3>9
  <2> QED
    BY <1>1, <2>1 DEF Min
<1>3. Min(S) \in 1..8
  BY <1>2
<1>4. Max(M) = w
  <2> DEFINE m == Min(S)
  <2> HIDE DEF m
  <2>1. m \in Int /\ m <= w
    BY <1>2, <1>3 DEF m
  <2>2. Max({w, m}) = w
    BY <2>1 DEF Max
  <2> QED
    BY <2>2 DEF m
<1>5. Digits(ByteOf(c), w) = [k \in 1..w |-> (ByteOf(c) \div 2 ^ (k - 1)) % 2]
  BY <1>4 DEF Digits
<1>6. \A k \in 1..w : k \in 1..8
  OBVIOUS
<1> QED
  BY <1>5, <1>6, ByteOfBits


(* Bits of any number survive the packing.                                 *)
BitOf(bits, k) == IF k <= Len(bits) THEN bits[k] ELSE 0
BitsAt(bits, b) == [k \in 1..8 |-> BitOf(bits, 8 * b + k)]

LEMMA PackedByte ==
  ASSUME NEW bits \in Seq({0, 1}), NEW b \in 1..ByteCount(Len(bits))
  PROVE  /\ BitsAt(bits, b - 1) \in BitsOfByte
         /\ PackBits(bits)[b] = ByteOf(BitsAt(bits, b - 1))
<1> DEFINE c == BitsAt(bits, b - 1)
<1>1. Len(bits) \in Nat /\ \A k \in 1..Len(bits) : bits[k] \in {0, 1}
  OBVIOUS
<1>2. ByteCount(Len(bits)) \in Nat /\ b - 1 \in Nat
  BY <1>1 DEF ByteCount
<1>3. \A k \in 1..8 : BitOf(bits, 8 * (b - 1) + k) \in {0, 1}
  <2> TAKE k \in 1..8
  <2> DEFINE j == 8 * (b - 1) + k
  <2>1. j \in Nat /\ j >= 1
    BY <1>2
  <2> HIDE DEF j
  <2>2. BitOf(bits, j) \in {0, 1}
    BY <1>1, <2>1 DEF BitOf
  <2> QED
    BY <2>2 DEF j
<1>4. c \in BitsOfByte
  BY <1>3 DEF BitsOfByte, BitsAt
<1>5. /\ c[1] = BitOf(bits, 8 * (b - 1) + 1) /\ c[2] = BitOf(bits, 8 * (b - 1) + 2)
      /\ c[3] = BitOf(bits, 8 * (b - 1) + 3) /\ c[4] = BitOf(bits, 8 * (b - 1) + 4)
      /\ c[5] = BitOf(bits, 8 * (b - 1) + 5) /\ c[6] = BitOf(bits, 8 * (b - 1) + 6)
      /\ c[7] = BitOf(bits, 8 * (b - 1) + 7) /\ c[8] = BitOf(bits, 8 * (b - 1) + 8)
  BY DEF BitsAt
<1>6. PackBits(bits)[b] = ByteOf(c)
  <2> HIDE DEF c
  <2> QED
    BY <1>5 DEF PackBits, ByteOf, BitOf
<1> QED
  BY <1>4, <1>6

LEMMA PackBitsBytes ==
  ASSUME NEW bits \in Seq({0, 1})
  PROVE  /\ PackBits(bits) \in Seq(Byte)
         /\ Len(PackBits(bits)) = ByteCount(Len(bits))
<1>1. ByteCount(Len(bits)) \in Nat
  BY DEF ByteCount
<1>2. PackBits(bits) = [b \in 1..ByteCount(Len(bits)) |-> PackBits(bits)[b]]
  BY DEF PackBits
<1>3. \A b \in 1..ByteCount(Len(bits)) : PackBits(bits)[b] \in Byte
  BY PackedByte, ByteOfBits
<1>4. \A s : s = [b \in 1..ByteCount(Len(bits)) |-> s[b]]
               /\ (\A b \in 1..ByteCount(Len(bits)) : s[b] \in Byte)
             => s \in Seq(Byte) /\ Len(s) = ByteCount(Len(bits))
  BY <1>1
<1> QED
  BY <1>2, <1>3, <1>4

(* The width for each byte of a packed list.                               *)
LEMMA PaddingOf ==
  ASSUME NEW n \in Nat, NEW k \in 1..ByteCount(n)
  PROVE  /\ Padding(n, k) = IF 8 * k <= n THEN 8 ELSE n - 8 * (k - 1)
         /\ Padding(n, k) \in 1..8
         /\ 8 * k > n => k = ByteCount(n)
<1>1. k \in Nat /\ 1 <= k /\ 8 * k <= n + 7
  BY DEF ByteCount
<1>2. CASE 8 * k <= n
  BY <1>1, <1>2 DEF Padding
<1>3. CASE 8 * k > n
  <2> DEFINE r == n - 8 * (k - 1)
  <2>1. r \in 1..7 /\ n = 8 * (k - 1) + r
    BY <1>1, <1>3
  <2>2. r \div 8 = 0
    BY <2>1
  <2>3. n % 8 = r
    BY <1>1, <2>1
  <2>4. k = ByteCount(n)
    BY <1>1, <2>1 DEF ByteCount
  <2> QED
    <3>1. Padding(n, k) = IF r \div 8 > 0 THEN 8 ELSE n % 8
      BY DEF Padding
    <3>2. ~(8 * k <= n) /\ Padding(n, k) = r
      BY <1>1, <1>3, <2>2, <2>3, <3>1
    <3> HIDE DEF r
    <3>3. r \in 1..8
      BY <2>1
    <3> QED
      BY <2>4, <3>2, <3>3 DEF r
<1> QED
  BY <1>1, <1>2, <1>3

LEMMA UnpackedByte ==
  ASSUME NEW bits \in Seq({0, 1}), NEW b \in 1..ByteCount(Len(bits))
  PROVE  Digits(PackBits(bits)[b], Padding(Len(bits), b))
           = [k \in 1..Padding(Len(bits), b) |-> bits[8 * (b - 1) + k]]
<1> DEFINE c == BitsAt(bits, b - 1)
           w == Padding(Len(bits), b)
           n == Len(bits)
<1>1. n \in Nat /\ ByteCount(n) \in Nat /\ b \in Nat /\ b >= 1
  BY DEF ByteCount
<1>2. w \in 1..8 /\ w = IF 8 * b <= n THEN 8 ELSE n - 8 * (b - 1)
  BY <1>1, PaddingOf
<1>3. c \in BitsOfByte /\ PackBits(bits)[b] = ByteOf(c)
  BY PackedByte
<1>4. \A k \in 1..8 : c[k] = IF 8 * (b - 1) + k <= n THEN bits[8 * (b - 1) + k] ELSE 0
  BY DEF BitsAt, BitOf
<1> HIDE DEF c, w, n
<1>4a. \A k \in 1..8 : k > w <=> ~(8 * (b - 1) + k <= n)
  <2> TAKE k \in 1..8
  <2>1. CASE 8 * b <= n
    BY <1>1, <1>2, <2>1
  <2>2. CASE 8 * b > n
    BY <1>1, <1>2, <2>2
  <2> QED
    BY <1>1, <2>1, <2>2
<1>5. \A k \in 1..8 : k > w => c[k] = 0
  BY <1>4, <1>4a
<1>6. \A k \in 1..w : c[k] = bits[8 * (b - 1) + k]
  <2> TAKE k \in 1..w
  <2>1. k \in 1..8 /\ ~(k > w)
    BY <1>2
  <2> QED
    BY <1>4, <1>4a, <2>1
<1>7. Digits(ByteOf(c), w) = [k \in 1..w |-> c[k]]
  BY <1>2, <1>3, <1>5, DigitsOfByte
<1>8. Digits(PackBits(bits)[b], w) = [k \in 1..w |-> bits[8 * (b - 1) + k]]
  BY <1>3, <1>6, <1>7
<1> QED
  BY <1>8 DEF w, n


LEMMA NextPart ==
  ASSUME NEW bits \in Seq({0, 1}), NEW a \in 0..Len(bits), NEW b \in 0..Len(bits), a <= b,
         NEW part, part = [k \in 1..(b - a) |-> bits[a + k]]
  PROVE  SubSeq(bits, 1, b) = SubSeq(bits, 1, a) \o part
<1> DEFINE p == SubSeq(bits, 1, a)
           q == SubSeq(bits, 1, b)
<1>1. Len(bits) \in Nat /\ a \in Nat /\ b \in Nat
  OBVIOUS
<1>2. p \in Seq({0, 1}) /\ Len(p) = a /\ \A k \in 1..a : p[k] = bits[k]
  BY <1>1
<1>3. q \in Seq({0, 1}) /\ Len(q) = b /\ \A k \in 1..b : q[k] = bits[k]
  BY <1>1
<1>4. b - a \in Nat /\ part \in Seq({0, 1}) /\ Len(part) = b - a
  <2>1. \A k \in 1..(b - a) : a + k \in 1..Len(bits)
    BY <1>1
  <2>2. \A k \in 1..(b - a) : bits[a + k] \in {0, 1}
    BY <2>1
  <2> QED
    BY <1>1, <2>2
<1> HIDE DEF p, q
<1> DEFINE u == p \o part
<1>5. /\ u \in Seq({0, 1}) /\ Len(u) = b
      /\ \A k \in 1..a : u[k] = p[k]
      /\ \A k \in 1..(b - a) : u[a + k] = part[k]
  <2>1. /\ u \in Seq({0, 1}) /\ Len(u) = Len(p) + Len(part)
        /\ \A k \in 1..Len(p) : u[k] = p[k]
        /\ \A k \in 1..Len(part) : u[Len(p) + k] = part[k]
    <3> DEFINE Bits == {0, 1}
    <3>1. p \in Seq(Bits) /\ part \in Seq(Bits)
      BY <1>2, <1>4
    <3> HIDE DEF Bits
    <3>2. u \in Seq(Bits) /\ Len(u) = Len(p) + Len(part)
      BY <3>1, ConcatAt
    <3>3. \A k \in 1..Len(p) : u[k] = p[k]
      BY <3>1, ConcatAt
    <3>4. \A k \in 1..Len(part) : u[Len(p) + k] = part[k]
      BY <3>1, ConcatAt
    <3> QED
      BY <3>2, <3>3, <3>4 DEF Bits
  <2>2. Len(p) = a /\ Len(part) = b - a /\ a + (b - a) = b
    BY <1>1, <1>2, <1>4
  <2> HIDE DEF u
  <2> QED
    BY <2>1, <2>2
<1> HIDE DEF u
<1>6. \A k \in 1..b : u[k] = q[k]
  <2> TAKE k \in 1..b
  <2>1. CASE k <= a
    BY <1>1, <1>2, <1>3, <1>5, <2>1
  <2>2. CASE k > a
    <3> DEFINE j == k - a
    <3>1. j \in 1..(b - a) /\ a + j = k
      BY <1>1, <2>2
    <3> HIDE DEF j
    <3>2. u[k] = part[j] /\ part[j] = bits[k]
      BY <1>5, <3>1
    <3> QED
      BY <1>3, <3>2
  <2> QED
    BY <1>1, <2>1, <2>2
<1>7. u = q
  BY <1>3, <1>5, <1>6, SeqEqual
<1> QED
  BY <1>7 DEF p, q, u

(* A list of bits of any length survives the wire, whatever fills its last *)
(* byte.                                                                   *)
THEOREM BitsRoundTrip ==
  ASSUME NEW bits \in Seq({0, 1}), bits # << >>
  PROVE  UnpackBits(PackBits(bits), Len(bits)) = bits
<1> DEFINE n == Len(bits)
           m == ByteCount(n)
           bytes == PackBits(bits)
           seqs == [k \in 1..m |-> Digits(bytes[k], Padding(n, k))]
           upto(i) == IF 8 * i <= n THEN 8 * i ELSE n
           g == [i \in 1..m |-> SubSeq(bits, 1, upto(i))]
<1>1. n \in Nat /\ n > 0
  OBVIOUS
<1>2. m \in Nat /\ m > 0 /\ 8 * m >= n /\ 8 * (m - 1) < n
  BY <1>1 DEF ByteCount
<1>3. UnpackBits(bytes, n) = FlattenSeq(seqs) /\ Len(seqs) = m
  <2>1. DOMAIN bytes = 1..m
    BY DEF PackBits
  <2>2. UnpackBits(bytes, n) = FlattenSeq([k \in DOMAIN bytes |-> Digits(bytes[k], Padding(n, k))])
    BY DEF UnpackBits
  <2>3. Len(seqs) = m
    <3> HIDE DEF m
    <3> QED
      BY <1>2
  <2> QED
    BY <2>1, <2>2, <2>3
<1>4. ASSUME NEW i \in 1..m
      PROVE  /\ i \in Nat /\ i >= 1 /\ 8 * (i - 1) < n
             /\ seqs[i] = [k \in 1..(upto(i) - 8 * (i - 1)) |-> bits[8 * (i - 1) + k]]
             /\ 8 * (i - 1) \in 0..n /\ upto(i) \in 0..n /\ 8 * (i - 1) <= upto(i)
  <2>1. seqs[i] = [k \in 1..Padding(n, i) |-> bits[8 * (i - 1) + k]]
    BY UnpackedByte
  <2>2. Padding(n, i) = IF 8 * i <= n THEN 8 ELSE n - 8 * (i - 1)
    BY <1>1, PaddingOf
  <2> HIDE DEF n, m, seqs
  <2>3. i \in Nat /\ i >= 1 /\ 8 * (i - 1) < n
    BY <1>1, <1>2
  <2>4. upto(i) - 8 * (i - 1) = Padding(n, i)
    <3>1. CASE 8 * i <= n
      BY <1>1, <2>2, <2>3, <3>1
    <3>2. CASE ~(8 * i <= n)
      BY <1>1, <2>2, <2>3, <3>2
    <3> QED
      BY <3>1, <3>2
  <2> QED
    BY <1>1, <2>1, <2>3, <2>4
<1>5. ASSUME NEW i \in 1..m
      PROVE  SubSeq(bits, 1, upto(i)) = SubSeq(bits, 1, 8 * (i - 1)) \o seqs[i]
  <2> DEFINE a == 8 * (i - 1)
             b == upto(i)
             part == seqs[i]
  <2>1. a \in 0..n /\ b \in 0..n /\ a <= b /\ part = [k \in 1..(b - a) |-> bits[a + k]]
    BY <1>4
  <2> HIDE DEF seqs, a, b, part
  <2>2. SubSeq(bits, 1, b) = SubSeq(bits, 1, a) \o part
    BY <2>1, NextPart
  <2> QED
    BY <2>2 DEF a, b, part
<1>6. g[1] = seqs[1]
  <2>1. 1 \in 1..m /\ 8 * (1 - 1) = 0
    BY <1>2
  <2>2. SubSeq(bits, 1, 0) = << >>
    OBVIOUS
  <2>3. SubSeq(bits, 1, upto(1)) = << >> \o seqs[1]
    BY <1>5, <2>1, <2>2
  <2>4. seqs[1] \in Seq({0, 1})
    <3> DEFINE r == upto(1)
    <3>1. r \in 0..n /\ seqs[1] = [k \in 1..r |-> bits[k]]
      <4>1. /\ seqs[1] = [k \in 1..(upto(1) - 8 * (1 - 1)) |-> bits[8 * (1 - 1) + k]]
            /\ upto(1) \in 0..n
        BY <1>4, <2>1
      <4> HIDE DEF seqs, n
      <4>2. n \in Nat /\ 8 * (1 - 1) = 0 /\ r - 0 = r /\ \A k \in 1..r : 0 + k = k
        BY <1>1
      <4> QED
        BY <4>1, <4>2
    <3> HIDE DEF r
    <3>2. \A k \in 1..r : bits[k] \in {0, 1}
      BY <1>1, <3>1
    <3>3. r \in Nat
      BY <1>1, <3>1
    <3>4. [k \in 1..r |-> bits[k]] \in Seq({0, 1})
      BY <3>2, <3>3
    <3> QED
      BY <3>1, <3>4
  <2>5. g[1] = SubSeq(bits, 1, upto(1))
    BY <2>1
  <2> HIDE DEF seqs, g
  <2>6. << >> \o seqs[1] = seqs[1]
    BY <2>4
  <2> QED
    BY <2>3, <2>5, <2>6
<1>7. \A i \in 2..m : g[i] = g[i - 1] \o seqs[i]
  <2> TAKE i \in 2..m
  <2>1. i \in 1..m /\ i - 1 \in 1..m /\ upto(i - 1) = 8 * (i - 1)
    <3>1. i \in 1..m /\ i - 1 \in 1..m
      BY <1>2
    <3>2. 8 * (i - 1) < n
      BY <1>4, <3>1
    <3> QED
      BY <3>1, <3>2
  <2>2. g[i] = SubSeq(bits, 1, upto(i)) /\ g[i - 1] = SubSeq(bits, 1, 8 * (i - 1))
    BY <2>1
  <2> HIDE DEF g, seqs, m, upto
  <2>3. SubSeq(bits, 1, upto(i)) = SubSeq(bits, 1, 8 * (i - 1)) \o seqs[i]
    BY <1>5, <2>1
  <2> QED
    BY <2>2, <2>3, Zenon
<1>8. FlattenSeq(seqs) = g[m]
  <2> HIDE DEF g, seqs, m
  <2> QED
    BY <1>2, <1>3, <1>6, <1>7, FlattenBy
<1>9. g[m] = bits
  <2>1. m \in 1..m /\ upto(m) = n
    BY <1>1, <1>2
  <2>2. SubSeq(bits, 1, n) = bits
    OBVIOUS
  <2> QED
    BY <2>1, <2>2
<1> QED
  BY <1>3, <1>8, <1>9


----------------------------------------------------------------------------
(* Bits and single values on the wire.                                     *)

(* The client reads the bits the server sends.                             *)
THEOREM BitsAnswered ==
  ASSUME NEW i, i.fn.code \in Byte,
         NEW bits \in Seq({0, 1}), bits # << >>, ByteCount(Len(bits)) \in Byte
  PROVE  BitsFromResponse(BitsResponse(i, bits), Len(bits)) = Returns(bits)
<1> DEFINE packed == PackBits(bits)
           n == ByteCount(Len(bits))
           pdu == <<i.fn.code, n>> \o packed
<1>1. packed \in Seq(Byte) /\ Len(packed) = n
  BY PackBitsBytes
<1>2. pdu[2] = n /\ Slice(pdu, 2, 2 + Len(packed)) = packed
  <2> HIDE DEF packed, n
  <2> QED
    BY <1>1, Header2 DEF n
<1>3. Slice(pdu, 2, 2 + pdu[2]) = packed
  BY <1>1, <1>2
<1>4. BitsResponse(i, bits) = pdu
  BY DEF BitsResponse
<1>5. UnpackBits(packed, Len(bits)) = bits
  BY BitsRoundTrip
<1> HIDE DEF packed, pdu, n
<1> QED
  BY <1>1, <1>2, <1>3, <1>4, <1>5 DEF BitsFromResponse

LEMMA CoilValues ==
  ASSUME NEW v \in {0, 1, CoilOn}
  PROVE  /\ CoilWire(v) \in Word
         /\ CoilValue(CoilWire(v)) = CoilValue(v)
         /\ CoilValue(v) \in {0, 1}
BY DEF CoilWire, CoilOn, CoilValue, Word

LEMMA BitCount ==
  ASSUME NEW n \in Int, 1 <= n, n <= 2000
  PROVE  n \in Word /\ ByteCount(n) \in Byte /\ ByteCount(n) >= 1
<1>1. n \in Word
  BY DEF Word
<1>2. ByteCount(n) \in Int /\ 1 <= ByteCount(n) /\ ByteCount(n) <= 255
  BY DEF ByteCount
<1>3. ByteCount(n) \in Byte
  BY <1>2 DEF Byte
<1> QED
  BY <1>1, <1>2, <1>3

LEMMA CodeBytes == \A c \in {1, 2, 3, 4, 5, 6, 15, 16} : c \in Byte
BY DEF Byte

(* The value of a coil: 1 or 0xFF00 for ON, from the client to an endpoint.*)
THEOREM WriteCoilUnderstood ==
  ASSUME NEW address \in Word, NEW v \in {0, 1, CoilOn}
  PROVE  create_function_from_request_pdu(
           WriteCoilRequest(Writer(WriteSingleCoil, address, <<v>>)))
           = Returns(Writer(WriteSingleCoil, address, <<CoilValue(v)>>))
<1> DEFINE w == CoilWire(v)
           pdu == PackBHH(5, address, w)
           i == Writer(WriteSingleCoil, address, <<CoilValue(v)>>)
<1>1. w \in Word /\ CoilValue(w) = CoilValue(v) /\ CoilValue(v) \in {0, 1}
  BY CoilValues
<1>2. /\ pdu \in Seq(Byte) /\ Len(pdu) = 5 /\ pdu[1] = 5
      /\ WordAt(pdu, 2) = address /\ WordAt(pdu, 4) = w
  <2> HIDE DEF w
  <2> QED
    BY <1>1, CodeBytes, PackBHHBytes
<1>3. WriteCoilRequest(Writer(WriteSingleCoil, address, <<v>>)) = pdu
  BY DEF WriteCoilRequest, Writer, WriteSingleCoil
<1>4. Legal(i)
  BY <1>1 DEF Legal, Writer, WriteSingleCoil
<1> HIDE DEF pdu, w
<1>5. create_function_from_request_pdu(pdu) = WriteCoilFromRequest(pdu)
  BY <1>2, Functions DEF create_function_from_request_pdu
<1>6. WriteCoilFromRequest(pdu) = Checked(i)
  BY <1>1, <1>2 DEF WriteCoilFromRequest
<1> QED
  BY <1>3, <1>4, <1>5, <1>6 DEF Checked

(* A server takes the write of one register for the value the client gave: *)
(* WriteSingleRegister.request_pdu against create_from_request_pdu.        *)
THEOREM WriteRegisterUnderstood ==
  ASSUME NEW address \in Word, NEW v \in Word
  PROVE  create_function_from_request_pdu(
           WriteRegisterRequest(Writer(WriteSingleRegister, address, <<v>>)))
           = Returns(Writer(WriteSingleRegister, address, <<v>>))
<1> DEFINE pdu == PackBHH(6, address, v)
           i == Writer(WriteSingleRegister, address, <<v>>)
<1>2. /\ pdu \in Seq(Byte) /\ Len(pdu) = 5 /\ pdu[1] = 6
      /\ WordAt(pdu, 2) = address /\ WordAt(pdu, 4) = v
  BY CodeBytes, PackBHHBytes
<1>3. WriteRegisterRequest(i) = pdu
  BY DEF WriteRegisterRequest, Writer, WriteSingleRegister
<1>4. Legal(i)
  BY DEF Legal, Writer, WriteSingleRegister
<1> HIDE DEF pdu
<1>5. create_function_from_request_pdu(pdu) = WriteRegisterFromRequest(pdu)
  BY <1>2, Functions DEF create_function_from_request_pdu
<1>6. WriteRegisterFromRequest(pdu) = Checked(i)
  BY <1>2 DEF WriteRegisterFromRequest
<1> QED
  BY <1>3, <1>4, <1>5, <1>6 DEF Checked

(* A request to write coils, any number the setter admits.                 *)
THEOREM WriteCoilsUnderstood ==
  ASSUME NEW address \in Word, NEW bits \in Seq({0, 1}),
         NEW n \in Int, 1 <= n, n <= 1968, Len(bits) = n
  PROVE  create_function_from_request_pdu(
           WriteCoilsRequest(Writer(WriteMultipleCoils, address, bits)))
           = Returns(Writer(WriteMultipleCoils, address, bits))
<1> DEFINE i == Writer(WriteMultipleCoils, address, bits)
           head == PackBHH(15, address, n)
           packed == PackBits(bits)
           m == ByteCount(n)
           pdu == head \o <<m>> \o packed
<1>1. packed \in Seq(Byte) /\ Len(packed) = m
  BY PackBitsBytes
<1>2. n \in Word /\ 15 \in Byte /\ m \in Byte
  BY CodeBytes, BitCount
<1>3. /\ head \in Seq(Byte) /\ Len(head) = 5 /\ head[1] = 15
      /\ WordAt(head, 2) = address /\ WordAt(head, 4) = n
  BY <1>2, PackBHHBytes
<1>4. WriteCoilsRequest(i) = pdu
  BY DEF WriteCoilsRequest, Writer, WriteMultipleCoils
<1>5. /\ Len(pdu) = 6 + m
      /\ pdu[1] = 15 /\ pdu[2] = head[2] /\ pdu[3] = head[3]
      /\ pdu[4] = head[4] /\ pdu[5] = head[5]
      /\ pdu[6] = m
      /\ Slice(pdu, 6, Len(pdu)) = packed
  <2> HIDE DEF head, packed, m
  <2> QED
    BY <1>1, <1>2, <1>3, Header6
<1>6. WordAt(pdu, 2) = address /\ WordAt(pdu, 4) = n
  <2> HIDE DEF head, pdu, m
  <2> QED
    BY <1>3, <1>5 DEF WordAt
<1>7. UnpackBits(packed, n) = bits
  BY BitsRoundTrip
<1>8. pdu # << >> /\ ~(Len(pdu) < 6 \/ Len(pdu) - 6 # pdu[6])
  <2> HIDE DEF pdu, m
  <2>1. m \in Nat
    BY <1>2 DEF Byte
  <2> QED
    BY <1>5, <2>1
<1>9. create_function_from_request_pdu(pdu) = Checked(i)
  <2> HIDE DEF pdu, packed, m
  <2>1. create_function_from_request_pdu(pdu) = WriteCoilsFromRequest(pdu)
    BY <1>5, <1>8, Functions DEF create_function_from_request_pdu
  <2>2. WriteCoilsFromRequest(pdu) = Checked(i)
    BY <1>5, <1>6, <1>7, <1>8 DEF WriteCoilsFromRequest
  <2> QED
    BY <2>1, <2>2
<1>10. Legal(i)
  <2>1. i.quantity = n /\ i.values = bits /\ i.fn.max = 1968 /\ i.fn.domain = {0, 1}
    BY DEF Writer, WriteMultipleCoils
  <2> HIDE DEF i
  <2>3. i.quantity \in 1..i.fn.max
    BY <2>1
  <2>4. \A k \in DOMAIN i.values : i.values[k] \in i.fn.domain
    BY <2>1
  <2> QED
    BY <2>3, <2>4, Zenon DEF Legal
<1> HIDE DEF pdu, i
<1>11. create_function_from_request_pdu(WriteCoilsRequest(i)) = Returns(i)
  BY <1>4, <1>9, <1>10 DEF Checked
<1> QED
  BY <1>11 DEF i

=============================================================================
