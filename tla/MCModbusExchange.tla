--------------------------- MODULE MCModbusExchange ---------------------------
(* A small device: ten coils, eight inputs, four registers of which three can *)
(* be written, two input registers for any slave.                             *)
EXTENDS ModbusExchange, TLC

MCRules ==
  <<[slaves |-> {1}, codes |-> {1, 5, 15}, addresses |-> 0..9, store |-> "coils"],
    [slaves |-> {1}, codes |-> {2}, addresses |-> 0..7, store |-> "inputs"],
    [slaves |-> {1}, codes |-> {3, 6, 16}, addresses |-> 0..2, store |-> "holding"],
    [slaves |-> {1}, codes |-> {3}, addresses |-> 0..3, store |-> "spare"],
    [slaves |-> Byte, codes |-> {4}, addresses |-> 0..1, store |-> "input"]>>

(* The value that makes a one-register answer end in its own CRC.             *)
LookAlike == WordAt(get_crc(<<1, 3, 2>>), 1)

MCMemories ==
  {[c \in Cells |-> CASE c[1] = "coils" -> c[2] % 2
                      [] c[1] = "inputs" -> IF c[2] \in {0, 7} THEN 1 ELSE 0
                      [] c = <<"holding", 0>> -> LookAlike
                      [] c \in {<<"holding", 1>>, <<"holding", 2>>} -> 65535 - 255 * c[2]
                      [] c[1] = "spare" -> 256 + c[2]
                      [] c[1] = "input" -> 4660]}

Read(f, address, quantity) == [slave |-> 1, instance |-> Reader(f, address, quantity)]
Write(f, address, values)  == [slave |-> 1, instance |-> Writer(f, address, values)]

MCCalls ==
  {Read(ReadCoils, 0, 9), Read(ReadCoils, 8, 1), Read(ReadCoils, 9, 2), 
   Read(ReadCoils, 0, 2001), Read(ReadDiscreteInputs, 0, 8), 
   Read(ReadHoldingRegisters, 0, 1), Read(ReadHoldingRegisters, 0, 4),
   Read(ReadHoldingRegisters, 3, 2), Read(ReadHoldingRegisters, 65535, 2),
   Read(ReadHoldingRegisters, 0, 0), Read(ReadHoldingRegisters, 0, 126),
   Read(ReadInputRegisters, 0, 2),
   [slave |-> 2, instance |-> Reader(ReadInputRegisters, 0, 2)],
   [slave |-> 2, instance |-> Reader(ReadHoldingRegisters, 0, 2)],
   Write(WriteSingleCoil, 3, <<1>>), Write(WriteSingleCoil, 4, <<65280>>), 
   Write(WriteSingleCoil, 3, <<0>>), Write(WriteSingleCoil, 3, <<2>>), 
   Write(WriteSingleRegister, 1, <<65535>>), Write(WriteSingleRegister, 3, <<1>>),
   Write(WriteSingleRegister, 1, <<65536>>),
   Write(WriteMultipleCoils, 0, <<1, 1, 0, 1, 0, 0, 1, 0, 1>>),
   Write(WriteMultipleCoils, 7, <<1, 0, 1, 1>>), 
   Write(WriteMultipleRegisters, 1, <<513, 258>>), 
   Write(WriteMultipleRegisters, 1, <<7, 8, 9>>),
   Write(WriteMultipleRegisters, 0, [k \in 1..128 |-> k])}

(* A quantity below the bits set; an odd byte count; 1 instead of 0xFF00; 7   *)
(* for a coil; an exception for a request.                                    *)
MCForeignPdus ==
  {<<15, 0, 0, 0, 3, 1, 255>>, <<16, 0, 1, 0, 1, 3, 1, 2>>, <<5, 0, 2, 0, 1>>,
   <<5, 0, 2, 0, 7>>, <<135, 0>>}
=============================================================================
