---------------------------- MODULE ModbusExchange ----------------------------
(***************************************************************************)
(* One client of umodbus/client and one server of umodbus/server over one  *)
(* of the three framings: plain RTU, the V5 envelope of a data logger, or  *)
(* Modbus TCP.  The server has a route map and endpoints that keep a       *)
(* memory; other clients send it what they like.  On the way frames are    *)
(* lost or damaged, and data loggers and gateways do to answers what       *)
(* pysolarman/__init__.py corrects.                                        *)
(***************************************************************************)
EXTENDS ModbusLink

CONSTANTS
  Framings,        \* a subset of {"rtu", "v5", "tcp"}
  Rules,           \* the route map: a sequence of [slaves, codes, addresses, store]
  Memories,        \* initial contents of the stores
  Calls,           \* what the client asks: [slave, instance]
  ForeignPdus,     \* request PDUs of other clients
  ForeignSlave,    \* the slave they address
  Transactions,    \* transaction identifiers drawn
  Deltas,          \* what is added to a damaged byte, modulo 256
  MaxExchanges     \* calls in a behaviour

Framing == {"rtu", "v5", "tcp"}

Cells == UNION {{<<Rules[r].store, a>> : a \in Rules[r].addresses} : r \in DOMAIN Rules}

(* Functions that take cells for bits, and for words; the cells of bits.   *)
BitFunctions  == {1, 2, 5, 15}
WordFunctions == {3, 4, 6, 16}

BitCells ==
  UNION {{<<Rules[r].store, a>> : a \in Rules[r].addresses} :
           r \in {s \in DOMAIN Rules : Rules[s].codes \cap BitFunctions # {}}}

(* The endpoints keep bits and words apart, and start with what they hold. *)
ASSUME DeviceAssumption ==
  /\ Rules \in Seq([slaves : SUBSET Int, codes : SUBSET Int,
                    addresses : SUBSET Int, store : STRING \ {"nowhere"}])
  /\ \A r, s \in DOMAIN Rules :
       Rules[r].store = Rules[s].store
         => Rules[r].codes \cap BitFunctions = {} \/ Rules[s].codes \cap WordFunctions = {}
  /\ \A m \in Memories : /\ m \in [Cells -> Word]
                          /\ \A c \in BitCells : m[c] \in {0, 1}

(* Callers pass integers; what others send are bytes.                      *)
ASSUME CallersAssumption ==
  /\ \A c \in Calls : c.slave \in Byte /\ IsInstance(c.instance)
  /\ ForeignPdus \subseteq Seq(Byte)

ASSUME LinkAssumption ==
  /\ Framings \subseteq Framing
  /\ Transactions \subseteq Word
  /\ Deltas \subseteq 1..255
  /\ MaxExchanges \in Nat

VARIABLES
  framing,     \* which of the framings this client and server use
  mem,         \* the endpoints' memory: cell |-> value
  call,        \* the call in progress, or the last one
  phase,       \* "idle", "asked", "answered" or "lost"
  request,     \* the ADU the client made
  wire,        \* the ADU under way, or received last
  fault,       \* what happened to it: "none", "damaged", "lost", "zeros", "short", "cut"
  served,      \* history: what the server did for this call
  result,      \* what the client made of the answer
  exchanges    \* calls so far

vars == <<framing, mem, call, phase, request, wire, fault, served, result, exchanges>>

----------------------------------------------------------------------------
(* The server.                                                             *)

(* The endpoint of the first rule that admits the address, as the cell it  *)
(* reads and writes.                                                       *)
Nowhere == <<"nowhere", 0>>

Matching(slave, code, address) ==
  {r \in DOMAIN Rules : /\ slave \in Rules[r].slaves
                        /\ code \in Rules[r].codes
                        /\ address \in Rules[r].addresses}

match(slave, code, address) ==
  IF Matching(slave, code, address) = {} THEN Nowhere
  ELSE <<Rules[Min(Matching(slave, code, address))].store, address>>

(* The cells of an instance, in order, and how many of them come before    *)
(* the first that no rule admits.                                          *)
CellsOf(slave, i) ==
  [k \in 1..i.quantity |-> match(slave, i.fn.code, i.address + k - 1)]

Admitted(slave, i) ==
  LET cells == CellsOf(slave, i)
      missing == {k \in DOMAIN cells : cells[k] = Nowhere}
  IN  IF missing = {} THEN i.quantity ELSE Min(missing) - 1

(* Mutant: values are written one address too high.                        *)
WrittenShifted(m, slave, i) ==
  LET written == 1..Admitted(slave, i)
      Position(c) == c[2] - i.address
  IN  [c \in DOMAIN m |->
         IF Position(c) \in written /\ match(slave, i.fn.code, c[2]) = c
         THEN i.values[Position(c)]
         ELSE m[c]]

(* execute() of a writing function: endpoints are called one by one, so    *)
(* those before the first missing one have been called when it is noticed. *)
WrittenBy(m, slave, i) ==
  LET written == 1..Admitted(slave, i)
      Position(c) == c[2] - i.address + 1
  IN  [c \in DOMAIN m |->
         IF Position(c) \in written /\ match(slave, i.fn.code, c[2]) = c
         THEN i.values[Position(c)]
         ELSE m[c]]

Execute(m, slave, i) ==
  [mem   |-> IF i.fn.does = "read" THEN m ELSE WrittenBy(m, slave, i),
   count |-> Admitted(slave, i),
   data  |-> IF i.fn.does = "read"
             THEN [k \in 1..Admitted(slave, i) |-> m[CellsOf(slave, i)[k]]]
             ELSE << >>,
   exc   |-> IF Admitted(slave, i) = i.quantity THEN "none"
             ELSE "IllegalDataAddressError"]

(* execute_route: the answer, or no answer when the exception PDU cannot   *)
(* be packed either.                                                       *)
ExceptionAnswer(pdu, e) ==
  IF pdu = << >> \/ pdu[1] > 127 THEN << >> ELSE pack_exception_pdu(pdu[1], e)

execute_route(m, slave, pdu) ==
  LET f == create_function_from_request_pdu(pdu)
      run == Execute(m, slave, f.val)
  IN  IF f.exc # "none"
      THEN [mem |-> m, count |-> 0, data |-> << >>, exc |-> f.exc,
            pdu |-> ExceptionAnswer(pdu, f.exc)]
      ELSE [mem |-> run.mem, count |-> run.count, data |-> run.data, exc |-> run.exc,
            pdu |-> IF run.exc = "none" THEN create_response_pdu(f.val, run.data)
                    ELSE ExceptionAnswer(pdu, run.exc)]

(* A serial server says nothing to a frame with a bad CRC; one of Modbus   *)
(* TCP echoes the transaction identifier and the unit.                     *)
Understood(adu) == framing = "tcp" \/ validate_crc(adu) = "none"

RequestPdu(adu) == IF framing = "tcp" THEN TcpPdu(adu) ELSE RtuPdu(adu)
UnitOf(adu)     == IF framing = "tcp" THEN adu[7] ELSE adu[1]

create_response_adu(adu, pdu) ==
  IF framing = "tcp" THEN TcpAdu(WordAt(adu, 1), UnitOf(adu), pdu)
  ELSE RtuAdu(UnitOf(adu), pdu)

----------------------------------------------------------------------------
(* The client.                                                             *)

Unserved == [count |-> 0, data |-> << >>, exc |-> "unserved", adu |-> << >>]

RequestAdu(transaction, slave, pdu) ==
  IF framing = "tcp" THEN TcpAdu(transaction, slave, pdu) ELSE RtuAdu(slave, pdu)

(* The arguments are checked before anything is sent.                      *)
Request(c, transaction) ==
  LET built == CreateRequest(c.instance)
      adu == RequestAdu(transaction, c.slave, built.val)
  IN  /\ phase = "idle"
      /\ exchanges < MaxExchanges
      /\ exchanges' = exchanges + 1
      /\ call' = c
      /\ fault' = "none"
      /\ served' = Unserved
      /\ IF built.exc = "none"
         THEN /\ phase' = "asked"
              /\ request' = adu
              /\ wire' = adu
              /\ result' = Raises("pending")
         ELSE /\ phase' = "idle"
              /\ request' = << >>
              /\ wire' = << >>
              /\ result' = Raises(built.exc)
      /\ UNCHANGED <<framing, mem>>

(* process and respond: one request, one answer or none.                   *)
Serve ==
  LET run == execute_route(mem, UnitOf(wire), RequestPdu(wire))
      adu == create_response_adu(wire, run.pdu)
  IN  /\ phase = "asked"
      /\ IF Understood(wire)
         THEN /\ mem' = run.mem
              /\ served' = [count |-> run.count, data |-> run.data, exc |-> run.exc,
                            adu |-> adu]
              /\ IF run.pdu # << >>
                 THEN phase' = "answered" /\ wire' = adu
                 ELSE phase' = "lost" /\ UNCHANGED wire
         ELSE /\ phase' = "lost"
              /\ UNCHANGED <<mem, served, wire>>
      /\ UNCHANGED <<framing, call, request, fault, result, exchanges>>

(* Another client's request is served in between.                          *)
ForeignRequest(pdu) ==
  /\ mem' = execute_route(mem, ForeignSlave, pdu).mem
  /\ UNCHANGED <<framing, call, phase, request, wire, fault, served, result, exchanges>>

(* parse_response_adu of the framing in use.                               *)
Parse(adu) ==
  CASE framing = "rtu" -> RtuParse(adu, request)
    [] framing = "v5"  -> V5Parse(adu, request)
    [] framing = "tcp" -> TcpParse(adu, request)

Receive ==
  /\ phase = "answered"
  /\ phase' = "idle"
  /\ result' = Parse(wire)
  /\ UNCHANGED <<framing, mem, call, request, wire, fault, served, exchanges>>

Timeout ==
  /\ phase = "lost"
  /\ phase' = "idle"
  /\ result' = Raises("TimeoutError")
  /\ UNCHANGED <<framing, mem, call, request, wire, fault, served, exchanges>>

----------------------------------------------------------------------------
(* The way.                                                                *)

UnderWay == phase \in {"asked", "answered"} /\ fault = "none"

Lose ==
  /\ UnderWay
  /\ phase' = "lost"
  /\ fault' = "lost"
  /\ UNCHANGED <<framing, mem, call, request, wire, served, result, exchanges>>

(* TCP checks its segments, a serial line does not.                        *)
Damage(i, delta) ==
  /\ UnderWay
  /\ framing # "tcp"
  /\ wire' = [wire EXCEPT ![i] = (@ + delta) % 256]
  /\ fault' = "damaged"
  /\ UNCHANGED <<framing, mem, call, phase, request, served, result, exchanges>>

(* A data logger appends two zero bytes to the frame of the inverter.      *)
AppendZeros ==
  /\ UnderWay
  /\ framing = "v5"
  /\ phase = "answered"
  /\ wire' = wire \o <<0, 0>>
  /\ fault' = "zeros"
  /\ UNCHANGED <<framing, mem, call, phase, request, served, result, exchanges>>

(* A data logger reports an exception by its code alone.                   *)
Shorten ==
  /\ UnderWay
  /\ framing = "v5"
  /\ phase = "answered"
  /\ served.exc # "none"
  /\ wire' = <<wire[3]>>
  /\ fault' = "short"
  /\ UNCHANGED <<framing, mem, call, phase, request, served, result, exchanges>>

(* TCP delivers the beginning of an answer by itself.                      *)
Cut(n) ==
  /\ UnderWay
  /\ framing = "tcp"
  /\ phase = "answered"
  /\ wire' = SubSeq(wire, 1, n)
  /\ fault' = "cut"
  /\ UNCHANGED <<framing, mem, call, phase, request, served, result, exchanges>>

----------------------------------------------------------------------------
Init ==
  /\ framing \in Framings
  /\ mem \in Memories
  /\ call = [slave |-> ForeignSlave, instance |-> Reader(ReadCoils, 0, 0)]
  /\ phase = "idle"
  /\ request = << >>
  /\ wire = << >>
  /\ fault = "none"
  /\ served = Unserved
  /\ result = Raises("none yet")
  /\ exchanges = 0

Next ==
  \/ \E c \in Calls, t \in Transactions : Request(c, t)
  \/ Serve
  \/ \E pdu \in ForeignPdus : ForeignRequest(pdu)
  \/ Receive
  \/ Timeout
  \/ Lose
  \/ \E i \in DOMAIN wire, d \in Deltas : Damage(i, d)
  \/ AppendZeros
  \/ Shorten
  \/ \E n \in 7..Len(wire) - 1 : Cut(n)

Spec == Init /\ [][Next]_vars
----------------------------------------------------------------------------
(* What is checked.                                                        *)

Phase == {"idle", "asked", "answered", "lost"}
Fault == {"none", "damaged", "lost", "zeros", "short", "cut"}

(* The variables hold what their declarations say, frames are bytes, and   *)
(* coils are 0 or 1 to their endpoints whatever stands for ON on the wire. *)
TypeOK ==
  /\ framing \in Framing
  /\ mem \in [Cells -> Word]
  /\ \A c \in BitCells : mem[c] \in {0, 1}
  /\ call = [slave |-> ForeignSlave, instance |-> Reader(ReadCoils, 0, 0)] \/ call \in Calls
  /\ phase \in Phase
  /\ request \in Seq(Byte)
  /\ wire \in Seq(Byte)
  /\ fault \in Fault
  /\ served.count \in Nat
  /\ request # << >> => served.count <= call.instance.quantity
  /\ exchanges \in 0..MaxExchanges

Reading == call.instance.fn.does = "read"
Ended == phase = "idle" /\ request # << >>

(* A frame of a serial line or a data logger in which one byte was damaged *)
(* on the way, in either direction, never gives the caller a value, and a  *)
(* damaged request never reaches an endpoint, not even to be refused:      *)
(* validate_crc at both ends before anything is decoded.  Had the damaged  *)
(* frame been served, the server would be silent, or the wire would hold   *)
(* its answer unharmed.                                                    *)
DamageNoticed ==
  fault = "damaged" => /\ Ended => result.exc # "none"
                       /\ phase = "lost" => served.exc = "unserved"
                       /\ served.exc # "unserved" => wire # served.adu

(* Nothing goes wrong that does not have to: when the server has carried   *)
(* the call out and its answer arrives whole, with or without the two zero *)
(* bytes some data loggers append, the client has a value for every item   *)
(* it asked for.  The one exception is an answer of a data logger whose    *)
(* last register happens to be the CRC of what comes before it: it looks   *)
(* as if a CRC had been appended twice.                                    *)
AnswersUnderstood ==
  (Ended /\ served.exc = "none" /\ fault \in {"none", "zeros"})
    => \/ result.exc = "none" /\ (Reading => result.val = served.data)
       \/ framing = "v5" /\ fault = "none" /\ DoubleCrc(served.adu)

(* What the server could not do, the client is told by the same name,      *)
(* whether the exception comes as a frame or as its code alone.            *)
ErrorsNamed ==
  (Ended /\ served.exc \notin {"none", "unserved"} /\ fault \in {"none", "zeros", "short"})
    => result.exc = served.exc

(* An answer of which only the beginning has arrived is refused, except by *)
(* the correction of answers of eight to ten bytes.                        *)
OnlyShortAnswersCompleted ==
  (Ended /\ fault = "cut" /\ result.exc = "none") => Len(wire) \in 8..10

(* send_message, which reads as many bytes as the request lets expect,     *)
(* makes the same of an answer as the asynchronous client.                 *)
SizeAsExpected ==
  (Ended /\ fault = "none" /\ served.exc # "unserved" /\ framing # "v5")
    => result = IF framing = "tcp" THEN TcpReadBySize(served.adu, request)
                ELSE RtuReadBySize(served.adu, request)

(* The exchange is one operation on the memory of the device, carried out  *)
(* at most once and answered with what the device held then, whatever      *)
(* happens to the frames; a multiple write that meets an address without   *)
(* an endpoint has written those before it.  A cut Modbus TCP answer       *)
(* counts as failed here.                                                  *)
Memory == INSTANCE ModbusMemory WITH
  Cells  <- Cells,
  Values <- Word,
  call   <- IF request = << >> THEN [cells |-> << >>, values |-> << >>]
            ELSE [cells  |-> CellsOf(call.slave, call.instance),
                  values |-> IF call.instance.fn = WriteSingleCoil
                             THEN <<CoilValue(call.instance.values[1])>>
                             ELSE call.instance.values],
  stage  <- IF phase = "idle" THEN "idle"
            ELSE IF served.exc = "unserved" THEN "asked"
            ELSE IF served.count = call.instance.quantity THEN "done"
            ELSE "partly",
  saw    <- served.data,
  answer <- IF Ended /\ result.exc = "none" /\ fault # "cut"
            THEN [ok |-> TRUE, data |-> IF Reading THEN result.val ELSE << >>]
            ELSE [ok |-> FALSE, data |-> << >>]

ImplementsMemory == Memory!Spec
=============================================================================
