------------------------------- MODULE ParserCycle -------------------------------
(***************************************************************************)
(* One worker's data path: profile, requests, answers, readings, InfluxDB  *)
(* (ParameterParser; the calls _poll_cycle makes; InfluxDBWriter).         *)
(*                                                                         *)
(* DevicePoller models when cycles run and SolarmanClient how a request is *)
(* answered; here the runtime of a cycle is any of Runtimes, and a request *)
(* returns the registers as the device holds them at that moment, or       *)
(* fails.  A profile is given as the YAML file parses, with the values     *)
(* that are listed per model already chosen.                               *)
(***************************************************************************)
EXTENDS RequestGrouping, RegisterReadings, TLC

CONSTANTS
  Profiles,     \* the profiles a worker may be created with
  Parameters,   \* PARSER_PARAMETERS
  Memory,       \* code -> address -> what the register holds at first
  Moving,       \* code -> address -> what it may hold later
  Runtimes,     \* the runtimes of cycles
  MaxChanges,   \* bound on changes of the device's registers
  MaxFailures   \* bound on requests that fail

VARIABLES
  profile,   \* what init() made of the worker's profile
  device,    \* the registers of the device
  stage,     \* "asleep", "grouping", "fetching" or "delivered"
  result,    \* parser._result
  previous,  \* parser._previous_result; None for a key that is not there
  requests,  \* the requests of the cycle
  answers,   \* the answers of the cycle, in their order
  stored,    \* InfluxDB: the last field written for each key
  lost,      \* keys of which InfluxDB missed a set that moved the parser
  seen,      \* the contents of the device since the cycle began
  changes, failures

cycleVars == <<stage, result, previous, requests, answers, stored, lost, seen>>
bounded == <<changes, failures>>
vars == <<grouping, profile, device, cycleVars, bounded>>

\* A profile as init() leaves it: attributes have the types the code converts or
\* compares them as, an item with registers has a function code, and no two items
\* have a key in common.
IsItem(item) ==
  /\ IsDefinition(item)
  /\ item.registers \notin {None, <<>>} => item.code \in Nat
  /\ IsList(item.sensors) /\ \A k \in DOMAIN item.sensors : IsSensor(item.sensors[k])
  /\ item.lookup # None =>
       /\ IsList(item.lookup) /\ item.lookup # <<>>
       /\ \A k \in DOMAIN item.lookup : item.lookup[k].value \in Seq(Int)
  /\ item.rule \in 0..10 /\ item.digits \in Optional(Nat \cup {-1}) /\ item.base \in Nat \ {0}
  /\ {item.disabled, item.inverted} \subseteq BOOLEAN
IsProfile(p) ==
  /\ IsList(p.items) /\ \A k \in DOMAIN p.items : IsItem(p.items[k])
  /\ \A k, l \in DOMAIN p.items : p.items[k].key = p.items[l].key => k = l
  /\ p.digits \in Nat \cup {-1} /\ p.span \in Nat \cup {-1} /\ p.size \in Nat \ {0}
  /\ p.requests \in Seq([code : Nat, start : Nat, end : Nat])
  /\ \A k \in DOMAIN p.requests : p.requests[k].start <= p.requests[k].end

NoStates == [k \in {} |-> Nothing]

\* The elements of a set, in ascending order.
Sorted(set, before(_, _)) ==
  [n \in 1..Cardinality(set) |->
     CHOOSE e \in set : Cardinality({f \in set : before(f, e)}) = n - 1]

-----------------------------------------------------------------------------
(* The profile *)

enforce_parameters(source) ==
  \A p \in DOMAIN source.needs \cap DOMAIN Parameters : source.needs[p] <= Parameters[p]

\* A sensor of an item; one the installation lacks loses its registers.
EnforcedSensor(s) ==
  IF s.registers # <<>> /\ ~enforce_parameters(s) THEN [s EXCEPT !.registers = <<>>] ELSE s

\* A sensor takes the scale of its item, and its factor that of the sensor.
Inherits(s, scale) == IF s = None \/ s.scale # None THEN s ELSE [s EXCEPT !.scale = scale]
ScaledSensor(s, scale) ==
  LET own == Inherits(s, scale) IN
  IF s.registers = <<>> THEN s ELSE [own EXCEPT !.multiply = Inherits(own.multiply, own.scale)]

SensorRegisters(s) ==
  IF s.registers = <<>> \/ s.multiply = None THEN s.registers
  ELSE s.registers \o s.multiply.registers

\* The registers an item stands for, and what it takes from its group and from the
\* table of requests: an item without registers inherits nothing.
preprocess_descriptions(item, group, table, code) ==
  LET sensors   == [k \in DOMAIN item.sensors |-> EnforcedSensor(item.sensors[k])]
      declared  == IF sensors = <<>> THEN item.registers
                   ELSE FlattenSeq([k \in DOMAIN sensors |-> SensorRegisters(sensors[k])])
      takes(own, other) == IF own = None /\ declared # None THEN other ELSE own
      inherited == takes(item.code, group.code)
      first     == Min(ToSet(declared))
  IN [item EXCEPT
        !.sensors   = [k \in DOMAIN sensors |-> ScaledSensor(sensors[k], item.scale)],
        !.registers = declared,
        !.interval  = takes(item.interval, group.interval),
        !.code      = IF inherited # None \/ declared \in {None, <<>>} THEN inherited
                      ELSE IF first \in DOMAIN table THEN table[first] ELSE code]

get_code(item, default) == IF item.code = None THEN default ELSE item.code

\* `requests' without fine control only say which code reads an address.
Table(file) ==
  LET spans  == IF file.fine THEN <<>> ELSE file.requests
      of(a)  == {k \in DOMAIN spans : a \in spans[k].start..spans[k].end}
  IN [a \in UNION {spans[k].start..spans[k].end : k \in DOMAIN spans} |-> spans[Max(of(a))].code]

\* sorted() by code and last register, items without registers first.
SortedItems(items, code) ==
  LET bare(k) == items[k].registers \in {None, <<>>}
      place(k) == IF bare(k) THEN <<-1, -1, k>>
                  ELSE <<get_code(items[k], code), Max(ToSet(items[k].registers)), k>>
      before(a, b) == LET p == place(a) q == place(b) IN
        \/ p[1] < q[1]
        \/ p[1] = q[1] /\ (p[2] < q[2] \/ (p[2] = q[2] /\ p[3] < q[3]))
      order == Sorted(DOMAIN items, before)
  IN [k \in DOMAIN order |-> items[order[k]]]

\* ParameterParser.init
Loaded(file) ==
  LET table == Table(file)
      of(g)    == [k \in DOMAIN g.items |->
                     preprocess_descriptions(g.items[k], g, table, file.code)]
      all   == FlattenSeq([g \in DOMAIN file.groups |-> of(file.groups[g])])
      items == SelectSeq(SortedItems(all, file.code), enforce_parameters)
      codes == {get_code(items[k], file.code) :
                  k \in {j \in DOMAIN items : items[j].registers # None}}
  IN [items |-> items, interval |-> file.interval, span |-> file.span, size |-> file.size,
      digits |-> file.digits, single |-> Cardinality(codes) = 1,
      requests |-> IF file.fine
                   THEN [k \in DOMAIN file.requests |->
                           create_request(IF file.requests[k].code = None THEN file.code
                                          ELSE file.requests[k].code,
                                          file.requests[k].start, file.requests[k].end)]
                   ELSE <<>>]

State == [kind : {"none", "number", "text", "list"}, val : Seq(Int)]

ASSUME ProfilesAssumption == \A file \in Profiles : IsProfile(Loaded(file))
ASSUME DeviceAssumption ==
  /\ \A code \in DOMAIN Memory : Memory[code] \in [DOMAIN Memory[code] -> Word]
  /\ DOMAIN Moving \subseteq DOMAIN Memory
  /\ \A code \in DOMAIN Moving :
       /\ DOMAIN Moving[code] \subseteq DOMAIN Memory[code]
       /\ \A addr \in DOMAIN Moving[code] : Moving[code][addr] \subseteq Word
\* None is no value.
ASSUME NoneAssumption == None \notin Int /\ None \notin State /\ None # <<>>

Items == profile.items
Keys  == {Items[k].key : k \in DOMAIN Items}

is_requestable(item) == ~item.disabled /\ item.rule > 0
is_scheduled(item, runtime) ==
  \/ item.realtime
  \/ runtime % (IF item.interval = None THEN profile.interval ELSE item.interval) = 0

\* Mutant: an item that is not answered is an empty text, whatever its unit.
default_from_unit_of_measurement_Text(item) == Blank

default_from_unit_of_measurement(item) == IF item.unit = None THEN Blank ELSE Nothing

-----------------------------------------------------------------------------
(* process() *)

IsSigned(item) == item.rule \in {2, 4}

\* Where a try_parse function leaves the result: unset when a register is missing
\* or a value is refused that has no default.
Parsed(state, raises, baseline) == [state |-> state, raises |-> raises, previous |-> baseline]

\* The number before its rule, in the form read_registers_custom gives it.
Plain(n) == [value |-> n, absent |-> n = None, raises |-> FALSE]
RawNumber(item, data) ==
  IF item.sensors # <<>> THEN read_registers_custom(data, item.code, item.sensors)
  ELSE IF IsSigned(item) THEN Plain(read_registers_signed(data, item.code, item))
  ELSE Plain(read_registers(data, item.code, item))

Adjusted(item, n) ==
  IF IsSigned(item) THEN (IF item.inverted THEN -n ELSE n)
  ELSE IF item.uint /\ n < 0 THEN 0 ELSE n

DigitsOf(item) == IF item.digits \in {None, 0} THEN profile.digits ELSE item.digits
Rounded(item, v) == get_number(v, DigitsOf(item))

Judged(item, v) ==
  Parsed(IF v.raises \/ v.value = None THEN None ELSE Number(Rounded(item, v.value)),
         v.raises, v.previous)

\* try_parse_unsigned and try_parse_signed
NumberParsed(item, raw, baseline) ==
  IF raw.raises \/ raw.absent THEN Parsed(None, raw.raises, baseline)
  ELSE IF item.lookup # None /\ ~IsSigned(item)
  THEN Parsed(Text(lookup_value(Adjusted(item, raw.value) \div Unit, item.lookup)), FALSE, baseline)
  ELSE Judged(item, Validated(Adjusted(item, raw.value), item.validation, baseline))
try_parse_number(item, data, baseline) == NumberParsed(item, RawNumber(item, data), baseline)

try_parse(item, data, baseline) ==
  LET words == Values(data, item.code, item.registers) IN
  CASE item.rule \in 1..4  -> try_parse_number(item, data, baseline)
    [] item.rule \in 5..10 -> Parsed(IF Missing(words) THEN None ELSE TextOf(item, words),
                                     FALSE, baseline)
    [] OTHER -> Parsed(None, FALSE, baseline)

Kept(acc, key, p) ==
  [result   |-> IF p.state = None THEN acc.result
                ELSE [k \in DOMAIN acc.result \cup {key} |->
                        IF k = key THEN p.state ELSE acc.result[k]],
   previous |-> [acc.previous EXCEPT ![key] = p.previous],
   raises   |-> p.raises]

\* One round of the loop over the items.  An item whose sensors are all missing
\* has an empty list of registers, and its first is asked for.
ProcessItem(acc, item, data) ==
  IF acc.raises \/ item.disabled \/ item.registers = None THEN acc
  ELSE IF item.registers = <<>> THEN [acc EXCEPT !.raises = TRUE]
  ELSE IF get_start_addr(data, item.code, item.registers[1]) = None THEN acc
  ELSE Kept(acc, item.key, try_parse(item, data, acc.previous[item.key]))

process(data) ==
  LET upto[n \in 0..Len(Items)] ==
        IF n = 0 THEN [result |-> result, previous |-> previous, raises |-> FALSE]
        ELSE ProcessItem(upto[n - 1], Items[n], data)
  IN upto[Len(Items)]

-----------------------------------------------------------------------------
(* A cycle *)

Init ==
  /\ profile \in {Loaded(file) : file \in Profiles}
  /\ device = Memory
  /\ stage = "asleep" /\ result = NoStates
  /\ previous = [key \in Keys |-> None]
  /\ requests = <<>> /\ answers = <<>>
  /\ stored = [key \in Keys |-> Nothing] /\ lost = {} /\ seen = {}
  /\ limits = [span |-> profile.span, size |-> profile.size, aware |-> FALSE]
  /\ registers = <<>> /\ i = 1 /\ x = 1 /\ groups = <<>>
  /\ changes = 0 /\ failures = 0

\* The answers are a local variable of the cycle; of the others that are, requests
\* and seen are kept while a delivery is looked at.
Begins == stage \in {"asleep", "delivered"} /\ answers' = <<>> /\ seen' = {device}
Ends == requests' = <<>> /\ answers' = <<>> /\ seen' = {}

DueItems(runtime) ==
  {k \in DOMAIN Items : is_requestable(Items[k]) /\ is_scheduled(Items[k], runtime)}
DueRegisters(runtime) ==
  UNION {{<<Items[k].code, r>> : r \in ToSet(Items[k].registers)} :
           k \in {d \in DueItems(runtime) : Items[d].registers # None}}

Defaults(runtime) ==
  [key \in {Items[k].key : k \in DueItems(runtime)} |->
     default_from_unit_of_measurement(Items[CHOOSE k \in DueItems(runtime) : Items[k].key = key])]

\* schedule_requests, up to the grouping of the registers that are due
Schedule(runtime) ==
  /\ Begins /\ profile.requests = <<>> /\ DueRegisters(runtime) # {}
  /\ stage' = "grouping" /\ requests' = <<>>
  /\ result' = Defaults(runtime)
  /\ registers' = Sorted(DueRegisters(runtime), Precedes)
  /\ limits' = [limits EXCEPT !.aware =
                  ~profile.single /\ Cardinality({Code(r) : r \in DueRegisters(runtime)}) > 1]
  /\ i' = 1 /\ x' = 1 /\ groups' = <<>>
  /\ UNCHANGED <<profile, device, previous, stored, lost, bounded>>

\* No requests: the cycle ends.
NothingDue(runtime) ==
  /\ stage \in {"asleep", "delivered"}
  /\ profile.requests = <<>> /\ DueRegisters(runtime) = {}
  /\ stage' = "asleep" /\ Ends
  /\ result' = Defaults(runtime)
  /\ UNCHANGED <<grouping, profile, device, previous, stored, lost, bounded>>

\* Fine control: the profile's own requests, and no defaults.
ScheduleFixed ==
  /\ Begins /\ profile.requests # <<>>
  /\ stage' = "fetching" /\ requests' = profile.requests
  /\ result' = NoStates
  /\ UNCHANGED <<grouping, profile, device, previous, stored, lost, bounded>>

Cut ==
  /\ stage = "grouping" /\ GroupStep
  /\ UNCHANGED <<profile, device, cycleVars, bounded>>

MakeRequests ==
  /\ stage = "grouping" /\ GroupLast
  /\ stage' = "fetching"
  /\ requests' = [k \in DOMAIN groups' |-> RequestOf(groups'[k])]
  /\ UNCHANGED <<profile, device, result, previous, answers, stored, lost, seen, bounded>>

Held(memory, code, addr) ==
  IF code \in DOMAIN memory /\ addr \in DOMAIN memory[code] THEN memory[code][addr] ELSE 0

\* client.execute of the next request
Fetch ==
  /\ stage = "fetching" /\ Len(answers) < Len(requests)
  /\ LET q == requests[Len(answers) + 1] IN
     answers' = Append(answers,
       [code |-> q.code, start |-> q.start,
        values |-> [n \in 1..Count(q) |-> Held(device, q.code, q.start + n - 1)]])
  /\ UNCHANGED <<grouping, profile, device, stage, result, previous, requests,
                 stored, lost, seen, bounded>>

\* It raises: the answers so far are dropped.
FetchFails ==
  /\ stage = "fetching" /\ Len(answers) < Len(requests) /\ failures < MaxFailures
  /\ failures' = failures + 1
  /\ stage' = "asleep" /\ Ends
  /\ UNCHANGED <<grouping, profile, device, result, previous, stored, lost, changes>>

\* The fields write_callback makes of the readings.
Fields(readings) == {key \in DOMAIN readings : readings[key].kind \in {"number", "text"}}

\* InfluxDB keeps the type of a field: a point with another type is dropped, which
\* the writer logs.
Conflict(readings) ==
  \E key \in Fields(readings) : stored[key].kind \notin {"none", readings[key].kind}
Write(readings) ==
  /\ stored' = [key \in DOMAIN stored |->
                  IF key \in Fields(readings) /\ ~Conflict(readings)
                  THEN readings[key] ELSE stored[key]]
  /\ lost' = IF Conflict(readings) THEN Keys ELSE lost \ Fields(readings)

Answered == stage = "fetching" /\ Len(answers) = Len(requests)

\* `responses' is a dictionary by function code and first register: of two requests
\* that agree in both, the later answer takes the place of the earlier.
Latest(list, k) ==
  list[Max({l \in DOMAIN list : list[l].code = list[k].code /\ list[l].start = list[k].start})]
responses == [k \in DOMAIN answers |-> Latest(answers, k)]

Deliver ==
  /\ Answered
  /\ LET p == process(responses) IN
     /\ ~p.raises
     /\ result' = p.result /\ previous' = p.previous
     /\ Write(p.result)
  /\ stage' = "delivered" /\ answers' = <<>>
  /\ UNCHANGED <<grouping, profile, device, requests, seen, bounded>>

\* A validation, or a definition, discards the whole set; the items before it have
\* already moved their baselines.
Discard ==
  /\ Answered
  /\ LET p == process(responses) IN
     /\ p.raises
     /\ result' = p.result /\ previous' = p.previous
  /\ stage' = "asleep" /\ Ends
  /\ lost' = Keys
  /\ UNCHANGED <<grouping, profile, device, stored, bounded>>

\* The device's registers move; while the requests are being computed nothing
\* reads them.
Change(code, addr, word) ==
  /\ stage # "grouping" /\ changes < MaxChanges
  /\ device[code][addr] # word
  /\ device' = [device EXCEPT ![code][addr] = word]
  /\ seen' = IF stage = "fetching" THEN seen \cup {device'} ELSE seen
  /\ changes' = changes + 1
  /\ UNCHANGED <<grouping, profile, stage, result, previous, requests, answers,
                 stored, lost, failures>>

Next ==
  \/ \E runtime \in Runtimes : Schedule(runtime) \/ NothingDue(runtime)
  \/ ScheduleFixed \/ Cut \/ MakeRequests
  \/ Fetch \/ FetchFails \/ Deliver \/ Discard
  \/ \E code \in DOMAIN Moving : \E addr \in DOMAIN Moving[code] :
       \E word \in Moving[code][addr] : Change(code, addr, word)

Spec == Init /\ [][Next]_vars

-----------------------------------------------------------------------------
(* Properties *)

TypeOK ==
  /\ stage \in {"asleep", "grouping", "fetching", "delivered"}
  /\ \A key \in DOMAIN result : key \in Keys /\ result[key] \in State
  /\ \A key \in Keys : previous[key] \in Int \cup {None} /\ stored[key] \in State
  /\ \A k \in DOMAIN answers :
       /\ Len(answers[k].values) = requests[k].end - requests[k].start + 1
       /\ ToSet(answers[k].values) \subseteq Word
  /\ lost \subseteq Keys
  /\ limits \in Limits

IsNumeric(item) == item.rule \in 1..4 /\ (item.lookup = None \/ IsSigned(item)) /\ ~item.disabled
IsPlain(item) ==
  /\ IsNumeric(item) /\ item.sensors = <<>> /\ item.divide = None
  /\ item.range = None /\ item.mask = None /\ item.bit = None /\ item.bitmask = None
Delivered(item) == item.key \in DOMAIN result /\ result[item.key].kind = "number"
Reading(item) == result[item.key].val[1]

\* The number the words stand for: their total, low word first, or what is left of it
\* when the highest bit is a sign.
Raw(total, width, item) ==
  IF ~IsSigned(item) \/ 2 * total < width THEN total
  ELSE IF item.magnitude THEN width \div 2 - total ELSE total - width

\* v is that number after offset, scale and sign, up to half a step of rounding and one
\* last place.  The exact product has twice the decimals of v.
StandsFor(v, words, item) ==
  LET width  == 2^(Bits * Len(words))
      total  == Joined(words)
      scale  == IF item.scale = None THEN Unit ELSE item.scale
      offset == IF item.offset = None THEN 0 ELSE item.offset
      exact  == (Raw(total, width, item) * Unit - offset) * scale
      asked  == IF IsSigned(item) THEN (IF item.inverted THEN -exact ELSE exact)
                ELSE IF item.uint /\ exact < 0 THEN 0 ELSE exact
      step   == Step(DigitsOf(item))
  IN /\ total < width
     /\ \A k \in DOMAIN words : (total \div 2^(Bits * (k - 1))) % 2^Bits = words[k]
     /\ v % step = 0 /\ 2 * Abs(v * Unit - asked) < (step + 2) * Unit

\* All its registers are held by one entry of `responses', and none by an earlier one.
InOneRequest(item) ==
  \E k \in DOMAIN requests : \A r \in ToSet(item.registers) :
    /\ Covers(Latest(requests, k), <<item.code, r>>)
    /\ \A l \in 1..(k - 1) : ~Covers(Latest(requests, l), <<item.code, r>>)

\* The words an item may have been read from: what its registers held at one moment
\* of the cycle, or at one each when two requests read them.
Sources(item) ==
  LET at(moment) == [k \in DOMAIN item.registers |->
                       Held(moment[k], item.code, item.registers[k])]
  IN IF InOneRequest(item)
     THEN {at([k \in DOMAIN item.registers |-> memory]) : memory \in seen}
     ELSE {at(moment) : moment \in [DOMAIN item.registers -> seen]}

Default(item) == IF item.validation = None THEN None ELSE item.validation.default

\* What is delivered for a number is what the device held during this cycle, whole
\* when one request read it, with the sign, scale and offset of its definition; or it
\* is the default of its rule (parser.py schedule_requests, process, _read_registers,
\* _read_registers_signed; common.py get_addr_value).
ReadingsTrue ==
  stage = "delivered" =>
    \A k \in DOMAIN Items : LET item == Items[k] IN
      IsPlain(item) /\ Delivered(item) =>
        \/ \E words \in Sources(item) : StandsFor(Reading(item), words, item)
        \/ Default(item) # None /\ Reading(item) = Rounded(item, Default(item))

Within(item, v) ==
  /\ item.validation.min # None => Rounded(item, item.validation.min) <= v
  /\ item.validation.max # None => v <= Rounded(item, item.validation.max)
DropsSet(item, failure) == And(item.validation.invalidate_all, failure) # 0

\* Whether every way in which a value can be refused discards the set.
Essential(item) ==
  /\ item.validation # None
  /\ DropsSet(item, 1) /\ (item.validation.dev # 0 => DropsSet(item, 2))

\* A delivered number keeps the bounds of its rule, or is the rule's default in the
\* place of a value for whose refusal the profile does not discard the set (parser.py
\* in_range, do_validate).
DeliveredValid ==
  stage = "delivered" =>
    \A k \in DOMAIN Items : LET item == Items[k] IN
      IsNumeric(item) /\ item.validation # None /\ Delivered(item) =>
        \/ Within(item, Reading(item))
        \/ /\ Default(item) # None /\ Reading(item) = Rounded(item, Default(item))
           /\ ~Essential(item)

\* A set is delivered only whole: a number that is due and read from registers of its
\* own is in it, unless a rule may refuse it without discarding the set.  The requests
\* reach all its registers and no item before it stops the others (parser.py
\* schedule_requests, process, do_validate; common.py group_when, get_start_addr).
DueDelivered ==
  stage = "delivered" =>
    \A k \in DOMAIN Items : LET item == Items[k] IN
      /\ IsNumeric(item) /\ item.sensors = <<>> /\ item.range = None
      /\ item.registers # None /\ item.key \in DOMAIN result
      /\ item.validation = None \/ Essential(item)
      => Delivered(item)

\* Two values that InfluxDB stores for an item one after the other differ by at most
\* its dev, unless the later is 0 or a set between them was lost: a spike is never
\* stored, and a refused value never becomes the measure of the next ones
\* (parser.py do_validate 130-134).
NoSpike ==
  [][\A k \in DOMAIN Items : LET item == Items[k]
                                 old  == stored[item.key]
                                 new  == stored'[item.key] IN
       /\ IsNumeric(item) /\ item.validation # None /\ Default(item) = None
       /\ item.validation.dev # 0
       /\ old.kind = "number" /\ new.kind = "number" /\ item.key \notin lost
       => \/ new.val[1] = 0
          \/ Abs(new.val[1] - old.val[1]) <= item.validation.dev + Step(DigitsOf(item))]_vars

\* The column of a number that has a unit never becomes a text, so that no later
\* point is dropped for its sake (parser.py default_from_unit_of_measurement,
\* writer.py write_callback; InfluxDB keeps the type of the first value).
UnitsAreNumbers ==
  \A k \in DOMAIN Items :
    IsNumeric(Items[k]) /\ Items[k].unit # None => stored[Items[k].key].kind # "text"
=============================================================================
