------------------------------ MODULE MCParserCycle ------------------------------
(* Small instances of ParserCycle for TLC: registers of 8 bits, one decimal. *)
EXTENDS ParserCycle

const_parameters == [mod |-> 0, mppt |-> 4, phase |-> 3, pack |-> -1]
Needs(p, n) == [k \in {p} |-> n]
Anywhere    == [k \in {} |-> 0]

Definition == [registers |-> None, needs |-> Anywhere, signed |-> FALSE, magnitude |-> FALSE,
  range |-> None, mask |-> None, bit |-> None, bitmask |-> None, lookup |-> None,
  offset |-> None, scale |-> None, divide |-> None, multiply |-> None, validation |-> None,
  operator |-> None]
Item(key, rule) == [key |-> key, rule |-> rule, code |-> None, realtime |-> FALSE,
  interval |-> None, unit |-> None, disabled |-> FALSE, sensors |-> <<>>, digits |-> None,
  uint |-> FALSE, inverted |-> FALSE, base |-> 100] @@ Definition
Rule == [min |-> None, max |-> None, dev |-> 0, invalidate_all |-> 0, default |-> None]
Entry == [mode |-> None, key |-> None, bit |-> None, keys |-> {}, default |-> FALSE, value |-> <<>>]

-----------------------------------------------------------------------------
\* A power of two signed registers, an energy that may not jump, a state, a serial
\* number, and a temperature of another function code with a scale and an offset.
Power  == [unit |-> "W", registers |-> <<2, 3>>] @@ Item("power", 2)
Energy == [unit |-> "kWh", registers |-> <<5>>, scale |-> 1,
           validation |-> [min |-> 1, dev |-> 10] @@ Rule] @@ Item("energy", 1)
Status == [registers |-> <<4>>, lookup |-> <<[key |-> 0, value |-> <<1>>] @@ Entry,
                                     [mode |-> "|", bit |-> {2}, value |-> <<2>>] @@ Entry,
                                     [keys |-> {1, 3}, default |-> TRUE, value |-> <<3>>] @@ Entry>>]
           @@ Item("status", 1)
Serial == [registers |-> <<12, 13>>, interval |-> 5] @@ Item("serial", 5)
Heat   == [unit |-> "C", code |-> 4, registers |-> <<1>>, scale |-> 1, offset |-> 1000,
           validation |-> [min |-> -50, max |-> 100, default |-> 0] @@ Rule] @@ Item("heat", 1)
Broken == [registers |-> <<7>>, disabled |-> TRUE] @@ Item("broken", 1)
Remote == [registers |-> <<9>>, needs |-> Needs("mppt", 6)] @@ Item("remote", 1)

const_home == [interval |-> 2, code |-> 3, span |-> 2, size |-> 8, digits |-> 6, fine |-> FALSE,
  requests |-> <<>>,
  groups |-> <<[interval |-> None, code |-> None, items |-> <<Power, Heat, Status, Energy>>],
               [interval |-> 5, code |-> None, items |-> <<Serial, Broken, Remote>>]>>]

-----------------------------------------------------------------------------
\* No gap is too wide, requests are short; sums of sensors, a total that discards
\* the set, a count without a unit, and codes from the table of requests.
Sensor(regs) == [registers |-> regs] @@ Definition
Load  == [unit |-> "W", realtime |-> TRUE, scale |-> 10,
          sensors |-> <<Sensor(<<2>>), [operator |-> "subtract", signed |-> TRUE] @@ Sensor(<<5>>),
                        [needs |-> Needs("mppt", 6)] @@ Sensor(<<40>>),
                        [multiply |-> Sensor(<<4>>)] @@ Sensor(<<6>>),
                        [validation |-> [min |-> 1, dev |-> 5] @@ Rule] @@ Sensor(<<3>>)>>]
         @@ Item("load", 1)
Total == [unit |-> "kWh", registers |-> <<3, 2>>,
          validation |-> [min |-> 10, max |-> 20000, dev |-> 5000, invalidate_all |-> 3] @@ Rule]
         @@ Item("total", 3)
Sum   == [registers |-> <<5>>, interval |-> 2, magnitude |-> TRUE, validation |-> [max |-> 500, invalidate_all |-> 1] @@ Rule]
         @@ Item("sum", 2)
Clock == [registers |-> <<7>>, interval |-> 2] @@ Item("clock", 9)
Bare  == Item("bare", 0)
const_farm == [interval |-> 1, code |-> 3, span |-> -1, size |-> 3, digits |-> 0, fine |-> FALSE,
  requests |-> <<[code |-> 3, start |-> 0, end |-> 6], [code |-> 4, start |-> 7, end |-> 9]>>,
  groups |-> <<[interval |-> None, code |-> None, items |-> <<Load, Bare, Total, Sum, Clock>>]>>]

-----------------------------------------------------------------------------
\* The profile's own requests, of which two overlap and two have the same first
\* register; one item is out of their reach.  The power is negated, the temperature
\* never below 0.
Far == [unit |-> "V", registers |-> <<30>>] @@ Item("far", 1)
const_fine == [interval |-> 1, code |-> 3, span |-> 25, size |-> 60, digits |-> 6, fine |-> TRUE,
  requests |-> <<[code |-> None, start |-> 2, end |-> 2], [code |-> None, start |-> 1, end |-> 5],
               [code |-> 4, start |-> 1, end |-> 2], [code |-> 4, start |-> 1, end |-> 1]>>,
  groups |-> <<[interval |-> None, code |-> None,
                items |-> <<[inverted |-> TRUE] @@ Power, Energy,
                            [uint |-> TRUE, validation |-> None] @@ Heat, Far>>]>>]

const_profiles == {const_home, const_farm, const_fine}
const_memory == [c \in {3, 4} |-> IF c = 3 THEN [a \in 2..5 |-> IF a = 2 THEN 5 ELSE 0]
                                   ELSE [a \in {1} |-> 60]]
const_moving == [c \in {3, 4} |-> IF c = 3
  THEN [a \in {2, 3, 5} |-> IF a = 2 THEN {7, 250} ELSE IF a = 3 THEN {200} ELSE {0, 20, 200}]
  ELSE [a \in {1} |-> {255}]]
=============================================================================
