---------------------------- MODULE RegisterReadings ----------------------------
(***************************************************************************)
(* What the parser makes of registers (parser.py from _read_registers to   *)
(* try_parse_raw, do_validate; common.py for the helpers).  A number is a  *)
(* fixed-point integer in units of 10^-Places, which makes scales such as  *)
(* 0.1 exact; a text is the sequence of the numbers it spells out, whose   *)
(* wording is left out.                                                    *)
(*                                                                         *)
(* `data' is the dictionary of answers: a sequence of records of the       *)
(* function code, the first address and the values.                        *)
(***************************************************************************)
EXTENDS Integers, Sequences, SequencesExt

CONSTANTS
  None,     \* Python's None, and an attribute a definition does not have
  Bits,     \* width of a register (16)
  Places    \* decimal places numbers are kept to

ASSUME WidthAssumption == Bits \in Nat \ {0} /\ Bits % 4 = 0 /\ Places \in Nat

Word == 0..(2^Bits - 1)
TenTo[n \in 0..Places] == IF n = 0 THEN 1 ELSE 10 * TenTo[n - 1]
Unit == TenTo[Places]
Byte(w, k)   == (w \div 2^(k * (Bits \div 2))) % 2^(Bits \div 2)
Nibble(w, k) == (w \div 2^(k * (Bits \div 4))) % 2^(Bits \div 4)

Bit(n, k) == (n \div 2^k) % 2
\* Masks apply to numbers of at most two registers.
And(a, b) ==
  LET upto[k \in 0..(2 * Bits)] ==
        IF k = 0 THEN 0 ELSE upto[k - 1] + 2^(k - 1) * Bit(a, k - 1) * Bit(b, k - 1)
  IN upto[2 * Bits]

Times(a, b) == (a * b) \div Unit
Abs(n) == IF n < 0 THEN -n ELSE n

\* The state of an entity: nothing, a number, a text, or a list.
Nothing == [kind |-> "none", val |-> <<>>]
Blank   == [kind |-> "text", val |-> <<>>]
Number(v) == [kind |-> "number", val |-> <<v>>]
Text(s)   == [kind |-> "text", val |-> s]
List(s)   == [kind |-> "list", val |-> s]

\* What a definition may hold: of a validation rule, of the registers of a number, and
\* of a sensor.
Optional(S) == S \cup {None}
IsList(s) == s \in Seq(ToSet(s))
IsRange(r) == {r.min, r.max, r.default} \subseteq Optional(Int)
IsRule(r) == IsRange(r) /\ r.dev \in Nat /\ r.invalidate_all \in Nat
IsDefinition(d) ==
  /\ d.registers \in Optional(Seq(Nat))
  /\ d.range # None => IsRange(d.range)
  /\ d.validation # None => IsRule(d.validation)
  /\ {d.mask, d.bit} \subseteq Optional(Nat) /\ d.bitmask \in Optional(Nat \ {0})
  /\ {d.offset, d.scale} \subseteq Optional(Int) /\ d.divide \in Optional(Nat \ {0})
IsSensor(s) ==
  /\ IsDefinition(s) /\ s.registers # None
  /\ s.multiply # None => IsDefinition(s.multiply) /\ s.multiply.registers # None

-----------------------------------------------------------------------------
(* Registers *)

\* The place of the answer that holds a register, None without one.
get_start_addr(data, code, addr) ==
  LET holding == {d \in DOMAIN data :
                    /\ data[d].code = code /\ data[d].start <= addr
                    /\ addr < data[d].start + Len(data[d].values)}
  IN IF holding = {} THEN None ELSE Min(holding)

get_addr_value(data, code, addr) ==
  LET d == get_start_addr(data, code, addr) IN
  IF d = None THEN None ELSE data[d].values[addr - data[d].start + 1]

Values(data, code, registers) ==
  [k \in DOMAIN registers |-> get_addr_value(data, code, registers[k])]
Missing(words) == \E k \in DOMAIN words : words[k] = None

\* Low word first.
Joined(words) ==
  LET upto[k \in 0..Len(words)] ==
        IF k = 0 THEN 0 ELSE upto[k - 1] + words[k] * 2^(Bits * (k - 1))
  IN upto[Len(words)]

\* Mutant: there is no upper bound.
in_range_Above(value, bounds) == bounds.min # None => value >= bounds.min

in_range(value, bounds) ==
  /\ bounds.min # None => value >= bounds.min
  /\ bounds.max # None => value <= bounds.max

\* offset, scale and divide.
Scaled(value, d) ==
  LET shifted == IF d.offset = None THEN value ELSE value - d.offset
      scaled  == IF d.scale = None THEN shifted ELSE Times(shifted, d.scale)
  IN IF d.divide = None THEN scaled ELSE (scaled \div (d.divide * Unit)) * Unit

\* mask, bit and bitmask.
Masked(n, d) ==
  LET masked == IF d.mask = None THEN n ELSE And(n, d.mask)
      picked == IF d.bit = None THEN masked ELSE Bit(masked, d.bit)
  IN IF d.bitmask = None THEN picked ELSE And(picked, d.bitmask) \div d.bitmask

\* The number that the words of an unsigned definition make.
Unsigned(d, words) ==
  LET n == Joined(words) IN
  IF words = <<>> \/ Missing(words) THEN None
  ELSE IF d.range # None /\ ~in_range(n, d.range) THEN d.range.default
  ELSE IF d.lookup # None THEN Masked(n, d) * Unit
  ELSE Scaled(Masked(n, d) * Unit, d)

read_registers(data, code, d) == Unsigned(d, Values(data, code, d.registers))

\* Mutant: the sign bit is taken for that of one register.
Signed_Short(n, width, magnitude) ==
  LET half == 2^(Bits - 1) IN
  IF n < half THEN n
  ELSE IF magnitude THEN -(n % half) ELSE n - 2^Bits

\* Two's complement, or a sign bit and a magnitude.
Signed(n, width, magnitude) ==
  LET half == 2^(Bits * width - 1) IN
  IF n < half THEN n
  ELSE IF magnitude THEN -(n % half) ELSE n - 2 * half

SignedNumber(d, words) ==
  LET n == Signed(Joined(words), Len(words), d.magnitude) IN
  IF words = <<>> \/ Missing(words) THEN None
  ELSE IF d.range # None /\ ~in_range(n, d.range) THEN d.range.default
  ELSE Scaled(n * Unit, d)

read_registers_signed(data, code, d) == SignedNumber(d, Values(data, code, d.registers))

Read(data, code, d) ==
  IF d.signed THEN read_registers_signed(data, code, d) ELSE read_registers(data, code, d)

-----------------------------------------------------------------------------
(* Validation *)

\* Mutant: a refused value moves the baseline.
do_validate_Follows(value, rule, previous) ==
  LET outside == ~in_range(value, rule)
      jump    == /\ rule.dev # 0 /\ value # 0 /\ previous # None
                 /\ Abs(value - previous) > rule.dev
      invalid == (IF outside THEN 1 ELSE 0) + (IF jump THEN 2 ELSE 0)
  IN [ok       |-> invalid = 0,
      raises   |-> And(invalid, rule.invalidate_all) # 0,
      previous |-> IF rule.dev # 0 /\ ~outside THEN value ELSE previous]

\* Mutant: a mask is compared, not tested for the bit of the failure.
do_validate_Masked(value, rule, previous) ==
  LET outside == ~in_range(value, rule)
      jump    == /\ rule.dev # 0 /\ value # 0 /\ previous # None
                 /\ Abs(value - previous) > rule.dev
      invalid == (IF outside THEN 1 ELSE 0) + (IF jump THEN 2 ELSE 0)
  IN [ok       |-> invalid = 0,
      raises   |-> invalid # 0 /\ rule.invalidate_all = invalid,
      previous |-> IF rule.dev # 0 /\ ~jump /\ ~outside THEN value ELSE previous]

\* min, max and dev of a rule; previous is the value last accepted.  invalidate_all
\* is the mask of the failures that discard the whole set: 0 when it is absent, 3
\* when it names none.
do_validate(value, rule, previous) ==
  LET outside == ~in_range(value, rule)
      jump    == /\ rule.dev # 0 /\ value # 0 /\ previous # None
                 /\ Abs(value - previous) > rule.dev
      invalid == (IF outside THEN 1 ELSE 0) + (IF jump THEN 2 ELSE 0)
  IN [ok       |-> invalid = 0,
      raises   |-> And(invalid, rule.invalidate_all) # 0,
      previous |-> IF rule.dev # 0 /\ ~jump /\ ~outside THEN value ELSE previous]

\* A value that went through an optional rule: None when it is refused.
Outcome(value, rule, v) ==
  [value |-> IF v.ok THEN value ELSE rule.default, raises |-> v.raises, previous |-> v.previous]
Validated(value, rule, previous) ==
  IF rule = None THEN [value |-> value, raises |-> FALSE, previous |-> previous]
  ELSE Outcome(value, rule, do_validate(value, rule, previous))

\* Sensors are combined from the left.
Combined(op, value, n) ==
  CASE op = "subtract" -> value - n
    [] op = "multiply" -> Times(value, n)
    [] op = "divide" /\ n > 0 -> (value * Unit) \div n
    [] op = "divide" /\ n < 0 -> ((-value) * Unit) \div (-n)
    [] OTHER -> value + n

Raised(acc) == [acc EXCEPT !.raises = TRUE]
Added(acc, s, v) ==
  IF v.raises THEN Raised(acc)
  ELSE IF v.value = None THEN acc
  ELSE [acc EXCEPT !.value = Combined(s.operator, acc.value, v.value)]

\* A range is reported under the definition's key, and a sensor has none.
Keyless(d, data, code) ==
  /\ d # None /\ d.range # None /\ d.registers # <<>>
  /\ ~Missing(Values(data, code, d.registers))

\* dev looks up the last value under the list of the sensor's registers, which no
\* dictionary takes for a key; only a refused 0 needs no look.
Unhashable(value, rule) ==
  rule # None /\ rule.dev # 0 /\ (value # 0 \/ in_range(value, rule))

\* n is the sensor's number and m its factor.
SensorTerm(acc, s, n, m) ==
  LET value == IF m = None THEN n ELSE Times(n, m) IN
  IF Unhashable(value, s.validation) THEN Raised(acc)
  ELSE Added(acc, s, Validated(value, s.validation, None))

SensorRead(acc, s, data, code) ==
  LET n == Read(data, code, s)
      m == IF s.multiply = None THEN None ELSE Read(data, code, s.multiply)
  IN IF s.registers = <<>> \/ acc.absent \/ acc.raises THEN acc
     ELSE IF Keyless(s, data, code) THEN Raised(acc)
     ELSE IF n = None THEN [acc EXCEPT !.absent = TRUE]
     ELSE IF Keyless(s.multiply, data, code) THEN Raised(acc)
     ELSE SensorTerm(acc, s, n, m)

read_registers_custom(data, code, sensors) ==
  LET upto[k \in 0..Len(sensors)] ==
        IF k = 0 THEN [value |-> 0, absent |-> FALSE, raises |-> FALSE]
        ELSE SensorRead(upto[k - 1], sensors[k], data, code)
  IN upto[Len(sensors)]

-----------------------------------------------------------------------------
(* Lookups, numbers and texts *)

from_bit_index(bits) == SumSet({2^b : b \in bits})

\* The value of the first entry that matches, else of the last one marked as the
\* default, else of the first.
KeyOf(e) == IF e.bit = None THEN e.key ELSE from_bit_index(e.bit)
Matches(e, n) ==
  IF e.mode = "|" THEN And(n, KeyOf(e)) = KeyOf(e)
  ELSE IF e.keys # {} THEN n \in e.keys ELSE n = KeyOf(e)
lookup_value(n, dictionary) ==
  LET hits     == {k \in DOMAIN dictionary : Matches(dictionary[k], n)}
      defaults == {k \in DOMAIN dictionary : dictionary[k].default}
  IN dictionary[IF hits # {} THEN Min(hits)
                ELSE IF defaults # {} THEN Max(defaults) ELSE 1].value

\* round() to digits places, to the nearest, a tie to the even one; -1 keeps all.
Step(digits) == IF digits = -1 \/ digits >= Places THEN 1 ELSE TenTo[Places - digits]
Nearest(q, r, step) == IF 2 * r > step \/ (2 * r = step /\ q % 2 = 1) THEN q + 1 ELSE q
get_number(v, digits) ==
  LET step == Step(digits) IN step * Nearest(v \div step, v % step, step)

\* High parts first.
Bytes(words)   == [k \in 1..(2 * Len(words)) |-> Byte(words[(k + 1) \div 2], k % 2)]
Nibbles(words) == [k \in 1..(4 * Len(words)) |-> Nibble(words[(k + 3) \div 4], 3 - ((k - 1) % 4))]

\* Three registers hold two parts of a date and time each, six hold one.
DateParts(words) ==
  IF Len(words) = 3 THEN Bytes(words) ELSE IF Len(words) = 6 THEN words ELSE <<>>

\* The decimal digits of two numbers one after the other, read as one.
Digitwise(high, low) ==
  high * (IF low < 10 THEN 10 ELSE IF low < 100 THEN 100 ELSE 1000) + low
TimeParts(words, d) ==
  IF Len(words) = 1 THEN <<words[1] \div d.base, words[1] % d.base>>
  ELSE [k \in DOMAIN words |->
          LET t == IF d.offset = None THEN words[k] ELSE words[k] - d.offset \div Unit IN
          IF words[k] < d.base THEN words[k] ELSE Digitwise(t \div d.base, t % d.base)]

\* try_parse_ascii, _bits, _version, _datetime, _time and _raw: the state, or None
\* when a register is missing.
TextOf(d, words) ==
  CASE d.rule = 5  -> Text(Bytes(words))
    [] d.rule = 6  -> List(words)
    [] d.rule = 7  -> Text(Nibbles(words))
    [] d.rule = 8  -> Text(DateParts(words))
    [] d.rule = 9  -> Text(TimeParts(words, d))
    [] d.rule = 10 -> List(words)
=============================================================================
