------------------------------ MODULE ModbusLink ------------------------------
(***************************************************************************)
(* What carries a Modbus PDU: the RTU frame with its CRC (umodbus/client/  *)
(* serial), the MBAP header of Modbus TCP (umodbus/client/tcp.py,          *)
(* umodbus/utils.py), and the payload of a Solarman V5 frame, which is an  *)
(* RTU frame with the peculiarities of data loggers that                   *)
(* pysolarman/__init__.py makes up for.  The envelope of a V5 frame is     *)
(* classified in SolarmanClient.                                           *)
(***************************************************************************)
EXTENDS ModbusPdu

----------------------------------------------------------------------------
(* CRC-16 with polynomial 0xA001.  Exclusive or goes by nibbles.           *)

XorNibbles ==
  [a \in 0..15 |-> [b \in 0..15 |->
     LET Bit(k) == (a \div k + b \div k) % 2
     IN  Bit(1) + 2 * Bit(2) + 4 * Bit(4) + 8 * Bit(8)]]

Xor16(a, b) ==
  LET At(k) == k * XorNibbles[(a \div k) % 16][(b \div k) % 16]
  IN  At(1) + At(16) + At(256) + At(4096)

Polynomial == 40961

(* One of the eight rounds for a table entry: the lowest bit is shifted    *)
(* out, and the polynomial added when data and remainder differ in it.     *)
TableRound(state) ==
  LET crc == state.crc \div 2
  IN  [data |-> state.data \div 2,
       crc  |-> IF (state.data + state.crc) % 2 = 1 THEN Xor16(crc, Polynomial) ELSE crc]

Rounds(index) ==
  LET after[k \in 0..8] == IF k = 0 THEN [data |-> index, crc |-> 0]
                           ELSE TableRound(after[k - 1])
  IN  after

look_up_table == [index \in Byte |-> Rounds(index)[8].crc]

CrcStep(register, byte) ==
  Xor16(register \div 256, look_up_table[Xor16(register % 256, byte)])

(* The register after each byte of a message.                              *)
Registers(msg) ==
  LET after[k \in 0..Len(msg)] == IF k = 0 THEN 65535 ELSE CrcStep(after[k - 1], msg[k])
  IN  after

(* Little endian, unlike everything else in a frame.                       *)
get_crc(msg) ==
  LET register == Registers(msg)[Len(msg)] IN <<Lo(register), Hi(register)>>

(* Python's s[:-n] and s[-n:]                                              *)
Without(s, n) == Slice(s, 0, Len(s) - n)
LastBytes(s, n) == SubSeq(s, IF Len(s) < n THEN 1 ELSE Len(s) - n + 1, Len(s))

----------------------------------------------------------------------------
(* RTU.                                                                    *)

RtuAdu(slave, pdu) == LET adu == <<slave>> \o pdu IN adu \o get_crc(adu)

RtuPdu(adu) == Slice(adu, 1, Len(adu) - 2)

(* Mutant: only the first byte of the CRC is compared.                     *)
ValidateHalf(adu) ==
  IF Len(adu) < 2 THEN "struct.error"
  ELSE IF get_crc(Without(adu, 2))[1] # LastBytes(adu, 2)[1] THEN "CRCError"
  ELSE "none"

(* struct.unpack wants two bytes of CRC.                                   *)
validate_crc(adu) ==
  IF Len(adu) < 2 THEN "struct.error"
  ELSE IF get_crc(Without(adu, 2)) # LastBytes(adu, 2) THEN "CRCError"
  ELSE "none"

QuantityOf(request) == WordAt(request, Len(request) - 1)

RtuParse(response, request) ==
  IF validate_crc(response) # "none" THEN Raises(validate_crc(response))
  ELSE create_function_from_response_pdu(RtuPdu(response), QuantityOf(RtuPdu(request)))

(* send_message, for a caller with a blocking port: the five bytes of an   *)
(* exception first, then as many more as the request lets expect.          *)
RtuReadBySize(response, request) ==
  LET first == Slice(response, 0, 5)
      expected == expected_response_pdu_size(
                    create_function_from_request_pdu(RtuPdu(request)).val) + 3
  IN  IF Len(first) < 5 THEN Raises("ValueError")
      ELSE IF ~Known(first[2])
           THEN create_function_from_response_pdu(RtuPdu(first), 0)
      ELSE IF Len(response) < expected THEN Raises("ValueError")
      ELSE RtuParse(Slice(response, 0, expected), request)

----------------------------------------------------------------------------
(* Modbus TCP.  The transaction identifier is drawn at random and never    *)
(* compared; the request is handed on with its header.                     *)

pack_mbap(transaction, unit, pdu) ==
  PackWord(transaction) \o PackWord(0) \o PackWord(Len(pdu) + 1) \o <<unit>>

TcpAdu(transaction, unit, pdu) == pack_mbap(transaction, unit, pdu) \o pdu

TcpPdu(adu) == Slice(adu, 7, Len(adu))

(* "Incomplete response correction": what is missing of twelve bytes is    *)
(* taken from the request when that is a multiple write, else zeros, and   *)
(* the last word is 1.                                                     *)
(* Mutant: one byte more than ten is still taken for incomplete.           *)
CompletedLonger(response, request) ==
  IF Len(response) \notin 8..11 THEN response
  ELSE Slice(response, 0, 5) \o <<6>> \o Slice(response, 6, Len(response))
         \o (IF Len(request) > 12 THEN Slice(request, Len(response), 10)
             ELSE [k \in 1..10 - Len(response) |-> 0])
         \o <<0, 1>>

Completed(response, request) ==
  IF Len(response) \notin 8..10 THEN response
  ELSE Slice(response, 0, 5) \o <<6>> \o Slice(response, 6, Len(response))
         \o (IF Len(request) > 12 THEN Slice(request, Len(response), 10)
             ELSE [k \in 1..10 - Len(response) |-> 0])
         \o <<0, 1>>

TcpParse(response, request) ==
  create_function_from_response_pdu(TcpPdu(Completed(response, request)),
                                    QuantityOf(request))

TcpReadBySize(response, request) ==
  LET first == Slice(response, 0, 9)
      expected == expected_response_pdu_size(
                    create_function_from_request_pdu(TcpPdu(request)).val) + 7
  IN  IF Len(first) < 9 THEN Raises("ValueError")
      ELSE IF ~Known(first[8])
           THEN create_function_from_response_pdu(TcpPdu(first), 0)
      ELSE IF Len(response) < expected THEN Raises("ValueError")
      ELSE create_function_from_response_pdu(
             TcpPdu(Slice(response, 0, expected)), QuantityOf(request))

----------------------------------------------------------------------------
(* The payload of a V5 frame.                                              *)

(* A payload of one to four bytes is a "short version of modbus exception".*)
ShortException(payload) ==
  IF payload # << >> /\ payload[1] \in DOMAIN error_code_to_exception_map
  THEN Raises(error_code_to_exception_map[payload[1]])
  ELSE Raises("FrameError")

(* "Double CRC correction": a frame followed by two zero bytes.            *)
DoubleCrc(payload) ==
  /\ LastBytes(payload, 2) = <<0, 0>>
  /\ get_crc(Without(payload, 4)) = SubSeq(payload, Len(payload) - 3, Len(payload) - 2)

V5Parse(payload, request) ==
  IF Len(payload) < 5 THEN ShortException(payload)
  ELSE RtuParse(IF DoubleCrc(payload) THEN Without(payload, 2) ELSE payload, request)
=============================================================================
