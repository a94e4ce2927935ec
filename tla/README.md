# A TLA+ development of solarman_logger

`solarman_logger` is a daemon that polls Solarman/Deye solar devices over TCP
(Solarman V5, or Modbus TCP when the device turns out to speak that), turns
register values into named readings with a YAML profile, and writes them to
InfluxDB.  This directory models the parts of it in which order, failure and
time matter, model-checks them with TLC and proves the most important invariants
with TLAPS.  Paths below are relative to `src/solarman_logger/` unless they say
otherwise.

## 1. Inventory

| Component | Code | State | Operations |
|---|---|---|---|
| Device client | `pysolarman/__init__.py`, `common.py` (`retry`, `throttle`) | `_reader`, `_writer`, `_keeper`, one-slot `_data_queue`, `_data_event`, `_lock`, sequence number, serial, transport, `_last_frame` | `execute`, `close`, the keeper loop, reconnection |
| Device worker and health | `poller.py` | cycle counter, consecutive failures, backoff interval, start time, online / valid flags | `run`, `_poll_cycle`, success and failure handling |
| Profile parser and scheduler | `parser.py`, `common.py` | grouped items, results, per-item validation memory | `init`, `schedule_requests`, `process` |
| InfluxDB writer | `writer.py` | client handle | `check_health`, `write_callback`, `close` |
| Lifecycle | `main.py`, `poller.run_all` | tasks, clients | start-up, gather, cancellation, shutdown |
| Configuration | `config.py` | none (pure) | `load_config` |
| Modbus codecs | `pysolarman/umodbus/` | none (pure) | request and response ADUs and PDUs, CRC, exceptions |
| Modbus server | `pysolarman/umodbus/server/`, `route.py` | routes and their endpoints | requests, one after the other |
| Logging | `logging_setup.py` | loggers | formatting |

How they interact: `main` loads the configuration, pings InfluxDB and hands
`run_all` one callback.  `run_all` makes a parser, a client and a worker per
device and runs all workers as tasks of one event loop.  A worker asks the parser
which register ranges are due, calls `client.execute` once per range, gives the
answers to `parser.process` and the readings to the callback, which writes them
synchronously.  Inside a client, the worker's task and the keeper task share
`_writer`, `_reader`, `_keeper`, the data event and the response queue.

What is hard: two tasks of one client interleave at every `await`; the device
loses connections with FIN, RST, other errors or silently, refuses new ones,
answers late, with fragments, with busy exceptions or with frames of its own; the
60 s deadline, the 29 s response timeout, three connection attempts and two kinds
of retries overlap; shutdown cancels all of it at any `await`.  The hazards are
listed with their lines in `PROJECT.json`.

Correctness, component by component:

* client: at most one background task and one TCP session; an answer is returned
  only to the request it answers; every `execute` returns; polling recovers after
  any outage; `close` leaves nothing behind;
* worker: backoff within its bounds and reset by success, each scheduled group is
  requested on time, no fault ends its task;
* parser: every due register is in exactly one request, no request exceeds the
  maximum size, what is delivered is what the device held, a bad value does not
  poison later ones;
* writer and lifecycle: the type of a field never changes, shutdown ends all tasks
  before it closes clients, clients before the writer, and closes the writer
  whatever the moment; a device that fails does not disturb the others;
* configuration: a defective file never gets as far as a poll;
* codecs and server: what one side encodes the other decodes, damaged frames are
  refused, an exchange is one operation on the device.

## 2. The modules

| Module | What it models | Proofs |
|---|---|---|
| `SolarmanClient` | the device client, section 3 | `SolarmanClientProofs` |
| `RequestChannel` | what a client promises its worker, section 3; implemented by `SolarmanClient` | `SolarmanClientProofs`, last section |
| `DevicePoller` | worker, health and backoff in time, section 4 | `DevicePollerProofs` |
| `RequestGrouping` | `group_when` and `create_request`, section 5 | `RequestGroupingProofs` |
| `RegisterReadings` | from registers to values, validation: pure operators, section 5 | |
| `ParserCycle` | a worker's data path, from the profile to InfluxDB, section 5; extends the two above | `ParserCycleProofs`, which also has the lemmas about `RegisterReadings` |
| `LoggerService` | the process: configuration, tasks, writer, SIGTERM, section 6 | `LoggerServiceProofs` |
| `ModbusPdu` | the eight Modbus functions as operators on bytes, section 7 | `ModbusPduProofs` |
| `ModbusLink` | CRC, RTU, V5 payload and Modbus TCP framing, section 7 | `ModbusLinkProofs` |
| `ModbusMemory` | what one exchange promises, section 7; implemented by `ModbusExchange` | `ModbusExchangeProofs`, last section |
| `ModbusExchange` | a client and a server of `umodbus` and what happens to frames between them, section 7 | `ModbusExchangeProofs` |

The modules cut the system at its calls.  `LoggerService` takes from `SolarmanClient`
that a call and a `close()` end; `DevicePoller` takes that requests end;
`ParserCycle` takes from `SolarmanClient` that an answer is the one to its request
(`OwnData`), and from `ModbusExchange` that an answer holds what the device held.

Modules are written so that they can be proved about: parameters are `CONSTANTS`
with named assumptions, each operation is one action, invariants are conjunctions
of named parts, and no module uses `RECURSIVE`.  Proofs live in a module of their
own beside the component, small instances and configurations in `MC*`.  An operator
with a comment `Mutant:` stands before the definition it is a broken variant of; no
specification uses it.

## 3. The device client: `SolarmanClient`

### State and actions

An action is what asyncio runs from one `await` of a coroutine to the next.  The
client's lock admits one caller, so one program counter `pc` says at which await
the holder of the lock is.

| `pc` | The await |
|---|---|
| `throttle` | the sleep of `@throttle`, or the call of `_send_receive_frame` itself |
| `connect` | `await self._keeper` |
| `wait` | `wait_for(self._data_queue.get(), ...)` |
| `ready` | the same with a frame already in the queue: `get()` does not suspend, so no other task runs before the caller goes on (`OthersRun`) |
| `closing`, `shutting` | `wait_closed()` inside `_close()`, of a request that timed out or of `close()` |
| `busysleep` | the pause of `get_response_with_busy_retry` |

`writer`, `reader`, `keeper`, `event`, `queue`, `known`, `transport` and `sent` are
the attributes `_writer`, `_reader`, `_keeper`, `_data_event`, `_data_queue`,
"the serial is no longer the placeholder", `_transport` and "`_last_frame` is
set".  `attempt` and `busy` count the two nested retries, `awaited` and `woken` say
which task `await self._keeper` waits for and how that task ended.  `status`,
`reading` and `tries` are the background tasks: opening a connection, created but
not yet run, in `read()`, or dead.  `conn`, `inbox`, `up` and `faults` are the
device and network.

* **Sequence numbers** are relative.  `age` of a frame is the client's number minus
  the frame's, modulo `SeqMod`; drawing a number ages every frame there is.  The
  client compares nothing else, so this loses nothing and keeps the model finite.
  `origin` is a history variable: the frame answers this `execute`, an earlier
  one, or is `lapped`, that is, so old that the number has gone round.
* **Frames** are classified by what the client can tell apart (`Forms`).  `echo` is a
  V5 request thrown back, by which the code recognises Modbus TCP (`Detects`).  An echo
  has its length where the number was; if that is the very number (a fault, as it
  happens once in a round), the code does not test for an echo and drops the frame, or
  hands it on if its last byte is `END`.
* **Time** inside one `execute` is `slow`, the number of waits of
  `3 * timeout - 1` seconds it has spent.  `SlowSteps` of them (two, for a timeout of
  10 s) reach the deadline of `6 * timeout`, and `Deadline` may then strike at any
  await.  A wait times out although an answer is on its way only as a fault.
* **The two reads of TCP**: `KeeperReads` returns one frame, two joined, or a
  fragment; `Joined` is what each parser makes of the two.  The first bytes of a Modbus
  TCP answer may pass for one after the code has filled them up (`Completed`).
* **Garbage**: the writer that `_open_connection` replaces is not closed by the code but
  by its finaliser, so its socket closes when the reference goes.
* **Closing is not atomic**: `WaitTimeout` closes the socket, `CloseDone` forgets the
  writer, and the keeper may reconnect in between.

Left out: the `rtu` transport, which the program never configures; the value of
the serial number (`known` says only whether it is the placeholder); the length of
the throttle's pause; register contents.

### Properties

| Property | What it says | How it could fail |
|---|---|---|
| `SingleKeeper` | at most one background task, the one `_keeper` names | the keeper replaces itself while a caller opens, or `close` misses one |
| `SingleSession` | one TCP session, and no dialling while there is one | a reconnection races `_close()` of a timed-out request |
| `OwnData` | data returned answers this `execute` | a late answer stays in the queue |
| `WindowGuarded` | the data event is set only while a caller waits | a cancelled caller leaves it set |
| `CloseIsFinal` | after `close()`: no task, no socket | `close` cancels a keeper in the middle of opening |
| `ExecuteReturns` | every call ends | a keeper that dies, a device that is always busy |
| `Recovers` | polling succeeds again and again | a stale `_writer` |
| `RecoversOrStranded` | the same, or the keeper met an exception it does not catch and the client is `Stranded` for good: no keeper, a `_writer` that is bound and fails | any other way of never succeeding again |
| `Settles` | the transport becomes the device's, for good | detection in the middle of an exchange |
| `ShutdownCompletes` | a shutdown ends | `close` waits for what never ends |

`ImplementsChannel` is refinement: with the map `ChannelState` (closed, stopping, idle,
else busy) and the outcome of the call, every behaviour of the client is one of
`RequestChannel!FairSpec`, an abstract client of two variables that takes one request
at a time, ends each with its own data or an exception, takes none once it is
stopped, and closes.

### Runs

| Run | Environment | Shows |
|---|---|---|
| `client_safety` | V5 device, all four losses, all five garbles, refusals, shutdown; three faults | the type invariant and five safety invariants; 3 million states up to symmetry |
| `client_recovery` | all losses and all garbles but no refusals; two faults, shutdown | `ExecuteReturns`, `RecoversOrStranded`, `ShutdownCompletes`, `ImplementsChannel` |
| `client_overnight` | the device falls silent, sends frames of less than six bytes and refuses for a while; three faults | `Recovers` |
| `client_detection` | Modbus TCP device; two faults | `Settles` |
| `client_reset` | one reset, refusals | violates `Recovers`, see below |
| `client_modbus` | Modbus TCP device, one fragment | violates `OwnData`, see below |

Bounds: two sockets and two tasks suffice because a socket or task nobody
refers to is used again, and `SingleSession` and `SingleKeeper` say that there are
never more at once; a mutant that needs a second one finds it.  `SeqMod` = 3 makes
the number wrap within a few requests.  `OpenTries` is 3 as in the code in the
safety run, 2 elsewhere; `BusyTries` is 2 instead of 5, which cuts repetitions of
one loop.  `MaxInbox` = 2 allows a late answer beside a current one.

Fairness: a weakly fair caller (`ExecStep`, `CloseStep`) and weakly fair tasks, as
asyncio runs every ready task in turn and time-outs expire; a device that is down
comes back (`ComeUp`).  Nothing makes faults happen.  `PromptClose` says that
`wait_closed()` does not straddle the 60 s deadline.  Where it is `TRUE` the liveness of
the run needs it: if the deadline cuts `_close()` between `writer.close()` and
`_writer = None`, while the device refuses connections, the writer stays bound, and the
client is in the state `client_reset` reaches.

### Two disagreements with the documents

* `client_reset`: `_send_receive_frame` opens a connection only if `_writer is None`, and a
  keeper that dies does not reset `_writer`.  After a reset during which the
  reconnection is refused three times the client has a dead keeper and a dead
  writer: every later write fails with "Peer is unreachable" and nothing ever
  dials again.  The roadmap promises recovery without a restart.
  A refusal is not even needed.  The keeper catches `ConnectionResetError` only: with any
  other read error (`"error"` in `Losses`) it dies at once, and if no caller waits then,
  the client is stranded although the device accepts connections.  That is why
  `client_recovery` checks `RecoversOrStranded`: plain `Recovers` fails there, with one such
  loss.  The property says that this is all: without an uncaught exception polling
  succeeds again, and with one the client is stranded or succeeds again.  A frame of
  less than six bytes kills the keeper as well (`IndexError`), but a caller that waits
  times out, `_close()` resets `_writer` and the next request dials (`client_overnight`).
  It strands the client only if the connection dies before a caller times out on it, or
  if the 60 s deadline strikes inside that `_close()`.
* `client_modbus`: the Modbus TCP path does not compare transaction identifiers.  One
  fragmented answer shifts all later ones by one request.

### Proofs: `SolarmanClientProofs`

For every number of sockets, tasks, retries and faults, every modulus and every
choice of losses and garbles, from the named assumptions of the module
(`ConnsAssumption`, `TasksAssumption`, `BoundsAssumption`, `KindsAssumption`):

* `TypeCorrect`, `OneKeeper`, `OneSession`, `GuardedWindow`, `FinalClose`: the invariants of
  the safety run;
* `OwnAnswers`: `OwnData`, provided the device speaks V5 (`client_modbus` shows that
  the hypothesis is needed).

All follow from `Invariance`, the inductive invariant `IInv`.  What it adds and why:

* `LoopReads`: a task in `read()` reads the writer's socket if there is a session.
  Without it a reconnection could be started while the session is alive.
* `PairedStreams`: `_reader` and `_writer` belong to one socket, so `read()` and `write()`
  of one client never address two.
* `AwaitsLive`: a caller at `await self._keeper` awaits the live keeper, so its
  cancellation ends that task and no other.
* `ClosingQuiet`: from `close()` on no task is alive that could dial.
* `FramesAged`: a good answer to an earlier call bears an older number, wherever it
  is: queue or socket.  This is what makes the comparison of numbers sufficient,
  up to a full round of them, which `OwnData` exempts (`lapped`, `wrapped`): a frame that
  old matches again and is returned, and no property forbids it.  It takes a frame left
  in the queue while a whole round of requests finds no connection.

The last section of `SolarmanClientProofs` proves `ClientIsChannel`: for a V5 device, `Spec` implies
`Channel!Spec`, with the same invariant: every step is a step of the channel or leaves
its two variables alone.  The channel's fairness is left to TLC.

There is one lemma per action and conjunct group; helper operators (`Older`,
`StartAttempt`, `AttemptFails`, `DeviceTakes`, `NextRead`, `Takes`) have lemmas of their own.

## 4. The device worker: `DevicePoller`

### State and actions

Time is an integer.  `elapsed` is `monotonic() - _started_at` modulo `Span`, a common
multiple of all periods, and `offset` is `next_poll - now`; both are bounded, so the
worker runs for ever in finitely many states.  `Wake` is the top of `run`'s loop: it
sleeps until `next_poll`, up to `MaxLate` too long, and asks `schedule_requests`
for the groups that are due: those whose update interval divides the runtime,
which is rounded down to a multiple of the poll interval (`Tick`, `Due`).  A
`realtime` group has interval 1 and is due always.  `Execute` and `ExecuteFails` are the requests, in any order
(the code uses register order), each taking up to `MaxExec`; `Succeed` and
`ProcessFails` are `parser.process` and the callback, which writes synchronously and
takes time too.  Every end of a cycle calls `Reschedule`, the tail of `run`.
`failures`, `backoff`, `online` and `valid` are the attributes of worker and health.
The count of failures saturates at `MaxFailures`, beyond which the delay is at its
cap anyway (`SaturationAssumption`).  `age` is history: the time since each group was
last answered, up to `Stale`.

Not modelled here: a callback that raises (the writer's callback swallows every
exception), cancellation (in `LoggerService`), the flag that prevents overlapping
cycles (a worker runs its cycles in one task, so it is never found set), log levels.
A group stands for the registers of one request; how registers are cut into requests is
in `RequestGrouping`, fixed lists of requests are in `ParserCycle`.

### Properties and runs

| Property | What it says |
|---|---|
| `NoBacklog` | after any cycle the next poll is neither in the past nor more than one interval away |
| `HealthAgrees` | offline exactly while failures are counted; otherwise at the poll interval |
| `BackoffSlows` | a failing device is polled less often |
| `GroupOnTime` | each group is answered once per update interval, give or take `Slack` |
| `Recovers` | when the faults are over: online, and at the poll interval |

* `poller_faults`: four faults of all kinds, cycles that may overrun the
  interval, wake-ups up to two units late (the interval is three).  All properties
  but `GroupOnTime`.
* `poller_on_time`: no faults, cycles shorter than the interval, and an interval that
  divides the groups': `GroupOnTime` holds, thanks to the rounding of `_get_runtime`, with
  the least `Slack` for which it does.
* `poller_missed_hour` (violation): one failed poll on a group's tick.  The group is due
  on exact multiples only, so it waits for the next: an hourly group is two hours
  old, where `Slack` allows for the longest backoff and a whole cycle.  The phase
  context promises once per hour on the clock.

`poller_on_time` needs a poll interval that divides the groups': as the runtime is a
multiple of it, a group is due every least common multiple of the two.  With 45 s a
group of 60 s is read every 180 s (with `Poll` = 3, `Every` = 4 and `Span` = 12, TLC
finds `GroupOnTime` violated without any fault), while the requirement says "Service
honours per-group `update_interval` from YAML profiles"
(`src/.planning/REQUIREMENTS.md`:20).

`BackoffSlows` needs `Poll < MAX_BACKOFF`: a device polled every 600 s is polled every
300 s while it fails.

Fairness is weak fairness of `Next`: the event loop runs the worker when its sleep or
request ends, and requests end (`ExecuteReturns` of the client).

### Proofs: `DevicePollerProofs`

For every interval, every set of groups and every bound: `PollerTypes`,
`NoQueuedPolls`, `HealthConsistent`, and `FailingSlowsDown` (`BackoffSlows` under
`Poll < MAX_BACKOFF`).  The inductive invariant adds

* `NeverEarly`: while a cycle runs, its poll was due; without it `Reschedule` could
  wait longer than an interval;
* `BackoffFormula`: the delay is `min(Poll * 2^failures, MAX_BACKOFF)` as long as
  failures are counted.  `PowerOfTwo` gives `2^n >= 2` from the cardinality of the
  subsets of `1..n`, as the provers know no induction.

`GroupsOnTime` states `GroupOnTime` under `Punctual`: nothing fails, every interval is a
multiple of `Poll` (a real-time group's is `Poll` itself), and between two polls there is
room for the late start, the requests and the write: `MaxLate < Poll` and `MaxLate +
MaxExec * (n + 1) <= Poll` for `n` groups.  Then a group is at most `Every[g] + MaxLate +
(n - 1) * MaxExec` old, and TLC shows that less is not enough: `poller_on_time` passes with
that slack and fails with one unit less.  The invariant `OnTime` relates three clocks: `PollTime
= elapsed + offset`, the time of the poll that runs or comes next, is a multiple of `Poll`
(so that `_get_runtime` rounds a late start down to it, and `due` is read off it); the requests
answered bound how late the cycle is; and a group is no older than the last poll at which it
was due.  As `elapsed` wraps at `Span`, the step lemmas rest on facts of remainders (`Wraps`,
`SameRemainder`, `PollRemainder`), which the provers find only with the products named.

## 5. The data path: `RequestGrouping`, `RegisterReadings`, `ParserCycle`

### State and actions

`ParserCycle` is one worker's way from a profile to InfluxDB.  `Loaded` is
`ParameterParser.init` on a profile as its YAML parses: sensors that the installation
lacks lose their registers, items inherit interval and function code from their group
or from the table of requests, sensors inherit scales, and items are sorted.  A cycle is

1. `Schedule`, `NothingDue` or `ScheduleFixed`: `schedule_requests` up to the registers that
   are due, with the empty readings of the items that are;
2. `Cut`, one round of the loop of `group_when`, and `MakeRequests`, its last yield: the
   actions of `RequestGrouping`;
3. `Fetch`, once for each request: the device's registers as they are then;
   `FetchFails` drops what has been answered;
4. `Deliver` or `Discard`: `process` over all items, as a fold, and the write of the
   callback; `Discard` is the case in which a validation or a broken item raises.  What
   `process` gets are `responses`, a dictionary by function code and first register: where
   two requests of a profile agree in both, the later answer stands in the place of the
   earlier (`Latest`).

`Change` moves a register of the device, at any moment between two actions of a cycle but
while requests are computed, when nothing looks at registers.  `result` and `previous`
are `_result` and `_previous_result`, kept from cycle to cycle; `stored` is the last field
InfluxDB took for each key, with its type, `lost` (history) the keys of which a set did
not get that far, `seen` (history) the contents of the device during the cycle.

`RegisterReadings` has the parsing itself: `read_registers`, signed and unsigned, sums of
sensors with operators and factors, masks, bits, ranges, lookups, `do_validate`, and the
ways to read texts.  A sensor has no key of its own, so the code raises, and the set is
discarded, where it needs one: at a `range` of a sensor or its factor (`Keyless`), and at a
`dev` unless a 0 is refused first (`Unhashable`).  Its operators take what the code takes from the dictionary of
answers.  Numbers are fixed-point integers, so scales are exact, where the code's floats
round; a text is the numbers it spells out, without separators.

### Properties (`parser_cycle`)

| Property | What it says | How it could fail |
|---|---|---|
| `RequestsCover` | every due register is in exactly one request, of its code; no request is longer than `max_size` or reads across a gap wider than `min_span` | an off-by-one at a cut, a change of code at a boundary |
| `ReadingsTrue` | a delivered number is what its words stood for in this cycle, within half a step of rounding, and at one moment if one answer holds them all; or it is the default of its rule | readings of an earlier cycle, a sign bit at the wrong place, words in the wrong order |
| `DeliveredValid` | delivered numbers keep the rounded bounds of their rules, or are the default of a rule that does not discard the set | a bound not tested, the mask of `invalidate_all`, defaults |
| `DueDelivered` | a set is delivered whole: a due number of its own registers is in it, unless its rule may refuse it without discarding the set | the mask of `invalidate_all` compared instead of tested, a register no request reaches, an item that stops those after it |
| `NoSpike` | successive stored values differ by `dev` and one step of rounding at most, unless the later is 0 or a set was lost between | the measure of `dev` follows refused values |
| `UnitsAreNumbers` | the field of a number with a unit never becomes a text | the placeholder of an unanswered item |

Bounds: registers have 8 bits and numbers one decimal; widths
and sign bits are computed from `Bits`, so nothing depends on 16.  Three profiles: one
with gaps, two function codes, a lookup, a two-register signed number and groups of two
intervals; one with short requests, sums of sensors, one with a `dev`, and a set that can be discarded; one
with its own requests, which overlap and two of which start at the same register, a number
inverted by its profile, one that is not negative by its profile (`uint`) and an item no
request reaches.  One signed number has its sign as a magnitude.  The runtimes 6, 7 and 10 make
each of the groups due, together and alone.  Three changes and one failed request are
enough for a value that jumps, one refused after it, and a change between two requests.

What the properties do not say, because the code does otherwise:

* an item read by two requests (a definition whose registers lie on both sides of a cut, or
  between requests of a profile that overlap) may mix two moments: a register is looked up
  in the first answer that has it, so `ReadingsTrue` promises wholeness only where that is
  the same answer for all registers of the item (`InOneRequest`);
* a number *without* a unit that is due and not answered is written as `""`
  (`default_from_unit_of_measurement`), although `writer.py`:4 says "All numeric values are
  cast to float to prevent InfluxDB type conflicts": the first such write makes the field
  a text;
* when the true value has moved by more than `dev` since the last accepted value, every later
  one is refused, and with `invalidate_all` every later set, until the restart: nothing
  calls `reset()`;
* an item without registers inherits nothing from its group: `common.py`:135 splats the
  string `REQUEST_UPDATE_INTERVAL` into its letters.

### Proofs: `RequestGroupingProofs`

For every ascending list of registers and all limits: `GroupingCovers` (`RequestsCover`
from `GroupingSpec`, which is the loop on its own; `ParserCycle` runs it by the same
actions).  The invariant, `GroupingInvariance`: the groups yielded so far are a partition of
`1..x-1` into intervals, in order; the open one, from `x` to `i`, breaks no limit.  What a
request covers follows from the order of the registers and from the cuts being
intervals.

### Proofs: `ParserCycleProofs`

For every set of profiles, every device whose registers move in any way, every runtime and any
number of changes and failures, at every width of a register and any number of decimals:
`CycleTypes`, `CycleRequestsCover`, `CycleReadingsTrue`, `CycleUnits`, `CycleDeliveredValid`,
`CycleDueDelivered` and `CycleNoSpike`.  The assumptions, which TLC evaluates on the instance:

* `ProfilesAssumption`: a loaded profile has attributes of the types the code compares and
  converts them as, a function code wherever there are registers, keys that are distinct, and
  requests that read forwards.  `parser.py` checks none of this; the profiles that come with
  the program are such.
* `DeviceAssumption`: registers hold words.  `NoneAssumption`: `None` is neither a number nor
  a state.

They follow from `CycleInvariance`, the inductive invariant `CInv`:

* `CycleTyped`, `Answering`: types; the answers are those of the first requests, each as long
  as its request;
* `Observed`: each answer is what the device held at one of the moments of the cycle.  With
  `Due`, which says that a reading not yet parsed is still the default of its unit, it is what
  makes `ReadingsTrue` inductive: nothing in `result` when a cycle delivers is of another one;
* `Grouped`, `Asked`: the invariant of `group_when` holds whenever it has been entered, and
  while answers come the requests are those of its groups, or the profile's own, and then
  nothing is due;
* `Due`: the registers of what is due are the ones that are grouped, and a reading that is not
  there yet is the default of its unit.  Without it `DueDelivered` could not tell that the
  requests reach an item, nor `DeliveredValid` that a number comes from this cycle;
* `Measured`: what InfluxDB holds of a number with a `dev` and no default is the rounded
  measure of that rule, unless a set in between was lost.  This ties the two dictionaries
  together, and `NoSpike` is what one step does to it.

`OneCode` says that a profile whose items read by one code has `single` set rightly, which lets
`group_when` leave codes aside.  Below that stand lemmas for each helper: what `And` has in
common with the bits of a failure (`AndCommon`, `FailureCaught`: no mask that names a failure
misses a combination with it), what validation answers (`ValidatedResult`), that rounding
keeps the order and moves a number by half a step (`RoundingFacts`, `RoundingOrder`), that an
answer that holds a register is found (`AddrValue`), that sorting loses nothing (`SortedFacts`),
and that `process` handles every item in spite of the others (`ProcessResult`).

Recursive functions need induction.  The library's theorem for it takes an operator, so
`Upwards` states it for a set of numbers, from the well-foundedness of `<`; the loops of
`process`, `Joined`, `And` and `read_registers_custom` are proved about with it.

`ReadingsTrue` does not say that a number is what `try_parse` makes of the words, which would
be true of any `try_parse`: it states what the words stand for by their digits, and the proof
shows that the code's arithmetic arrives there.  `JoinedWords`: what `Joined` adds up has the
words as its digits.  It rests on `PowerNext` and `PowerSum` (powers of two, of which the
provers know nothing, as sizes of sets of subsets) and `Carry`.  `SignedMeaning`: the masks and
shifts of `Signed` are two's complement, or a magnitude, at every width.  `ScaledMeaning`,
`RoundingGrid` and `RoundedNear`: the scaled number is off by less than one last place, the
rounded one lies on the grid of its digits, half a step away at most.  `Meant` puts these
together for one item.  `Sourced` is the other half: every register of an item is in the
first entry of `responses` that has it, that entry is an answer of the cycle in spite of
overwriting (`Responding`, `Spanning`), and by `Observed` was true at one moment.

## 6. The process: `LoggerService`

### State and actions

`phase` says where `main` and `run_all` are: `loading`, `checking` (the health check),
`starting` (workers are created one by one), `polling` (the gathering), the three parts of
`run_all`'s `finally` (`cancelling`, `closing`, `flushing`), `left` (the `finally` of `main`) and
`exited`.  A task is asleep, polling or ended; a client idle, open or closed; the writer
holds its client or not, and that is open or not.

`load_config` is a pure function of a file of abstract values (absent, null, blank, a number,
a text that is decimal, hexadecimal or neither): it goes through the fields in the order of
the code, and tells `ConfigError` from the errors of `int()`.

`Poll`, `Written`, `Fails` and `Spin` are what a worker does between two awaits; `Written`
includes the synchronous write.  `Spin` is a device with a poll interval of 0: `_get_runtime`
divides by zero before the first await of every cycle, and the worker never gives the
loop back.

SIGTERM raises `SystemExit` in the main thread, wherever that is.  The event loop is
external and modelled as `asyncio.run` behaves: an exception that leaves the loop makes it
cancel every task and run on until all have ended.  So `StopPolling` strikes either the
idle loop or one worker, whose task ends with it; all others are cancelled, and
`run_all` goes on in its `finally`.  A further signal abandons what is left of that
(`Abandon`, `FlushCut`), strikes the `finally` of `main` (`FinishCut`) or comes just before it
(`SignalLeft`).  `CloseCut` is `InfluxDBWriter.close` struck anywhere inside.

Left out: Ctrl-C, which takes the same way; negative intervals; the time a shutdown takes.

### Properties (`logger_service`)

| Property | What it says | How it could fail |
|---|---|---|
| `FailsFast` | a defective file gets no further than the loader, a sound one is not called misconfigured | a blank value that passes |
| `ClosedLast` | clients close after the tasks that use them, the writer after all | cancelled tasks that are not awaited |
| `CleanExit` | a process that ends by itself has closed the writer, and after one signal every connection | a close struck half-way that is not repeated |
| `OwnTag` | with distinct names, a point has the type of its own device | the callback sees the wrong device |
| `Isolated` | a worker polls again and again, whatever happens to the others | a failure that ends the gathering |
| `ShutdownEnds` | a signal ends the process | a cycle that takes its cancellation for a failure |

Bounds: seventeen files, one for each defect the loader knows, one with three devices, one with
two devices of one name, one with an interval of 0; any device may fail to initialise, and
any poll may fail; up to three signals, as a fourth finds the process where the third did.
The process ends, so deadlock is not checked.

Fairness: `Startup`, `Creation` and `Cleanup` proceed; each worker's step is weakly fair, as
the event loop runs what is ready in turn and a poll ends (`ExecuteReturns`).  A worker that
spins disables the steps of all others, so the fairness of those promises nothing then.

`OwnTag` and `Isolated` have premises the loader does not enforce: names may coincide, in which
case the type of the last device tags the points of both, and a device's own
`poll_interval` may be 0 (`config.py`:189), which starves all others; only the default is
checked to be positive.  `ShutdownEnds` holds for those files too.  A number that `int()`
refuses stops the process as well, but past the handler of `ConfigError`, with a traceback.

### Proofs: `LoggerServiceProofs`

For every set of files, any number of devices and of signals (`FilesAssumption` says what a
file is): `ServiceTypes`, `BadFilesRefused`, `ShutdownOrder`, `NothingLeftOpen`, `TagsAreOwn`.
`ServiceInvariance` is the inductive invariant, with a lemma for each of its parts:

* `Shape`: what the variables are; `Owned`: tasks have clients, and what is cancelled is live;
* `Staged`: what the phases say, above all that nothing lives in `closing` and
  `flushing`; without it a worker could open a client that was just closed;
* `Disconnected`: during `closing` the clients before the `n`-th are not open, and afterwards
  none is unless two signals came;
* `Flushed`: whoever has an open client still holds it, which is what makes the second
  `close()` effective when the first was struck;
* `Decided`: the loader's verdict.  `LoadSound` says that it agrees with `Sound` and `Usable`;
  that the first defect exists comes from the well-foundedness of `<`.

## 7. Modbus: `ModbusPdu`, `ModbusLink`, `ModbusExchange`, `ModbusMemory`

`ModbusPdu` translates `functions.py`: for each function the request, what a server takes it for,
the answer and what the client takes that for, on sequences of bytes.  `ModbusLink` has the
CRC with its table, the RTU and TCP frames, both ways of reading them (by the size a request
lets expect, and whole, as the asynchronous client does) and the corrections of
`pysolarman/__init__.py`: incomplete TCP answers, short exceptions, a CRC added twice.

`ModbusExchange` puts a client and a server of `umodbus` at the ends of a line.  The program never
runs the server: it stands for the device, and being written with the same functions it
shows that the two sides agree.  Frames are damaged in one byte, lost, cut (TCP), given
two zero bytes or reduced to the exception's code (data loggers).

| Property | What it says |
|---|---|
| `DamageNoticed` | one damaged byte, anywhere, in either direction: no value, and a damaged request is neither carried out nor answered |
| `AnswersUnderstood` | a whole answer gives all the values asked for, unless it looks as if its CRC had been added twice |
| `ErrorsNamed` | what the server could not do, the client is told by the same exception |
| `OnlyShortAnswersCompleted` | the beginning of an answer passes for a whole one only at eight to ten bytes |
| `SizeAsExpected` | reading by the expected size gives the same as reading the whole |
| `ImplementsMemory` | refinement: an exchange is one operation on a memory of cells, at most once, and a multiple write that fails has written a prefix |

Bounds (`modbus_exchange`): one exchange, as client and server keep nothing between two but
the memory; 26 calls of all functions, legal ones at the boundaries of bytes, quantities and
addresses and illegal ones; requests of other clients with wrong counts; every position
of every frame, two kinds of damage.  One transaction identifier, which the client draws and
does not compare (`client_modbus`).  A behaviour ends after its exchange, so deadlock is not
checked.  `ImplementsMemory` counts a cut TCP answer as a failure: the completion of eight to
ten bytes may make up a value.  `AnswersUnderstood` excepts the look-alike: an answer of a data
logger whose last register is the CRC of what precedes it, so that its own CRC is zero.

### Proofs: `ModbusPduProofs`, `ModbusLinkProofs`, `ModbusExchangeProofs`

All properties of the table are proved, for every device, call, framing and fault.  The three
modules build on each other.

`ModbusPduProofs`: what one side packs, the other unpacks (`WordRoundTrip`, `RegistersRoundTrip`,
`BitsRoundTrip`, for lists of any length), answers and requests function by function
(`RegistersAnswered`, `BitsAnswered`, `ReadRequestUnderstood`, `WriteCoilUnderstood`,
`WriteRegisterUnderstood`, `WriteCoilsUnderstood`, `WriteRegistersUnderstood`) and the sizes
`send_message` waits for (`RegistersAnswerSize`, `BitsAnswerSize`).

`ModbusLinkProofs`: the CRC and the frames.

* `CrcDiffers`: two messages that differ in one byte have different CRCs.  A step of the CRC
  loses neither the register nor the byte, because no two entries of the table have the same
  high byte (`TableInjective`): from the high byte an entry leaves, its eight rounds can be run
  backwards, as a round added the polynomial exactly if it left the top bit.  `DamageFound`
  adds damage to the CRC itself.
* `RtuFrame`, `TcpFrame`: what is put into a frame comes out of it; `ZerosTakenOff`: the
  correction for the two zero bytes of data loggers undoes them, whatever the frame holds.
* `RequestUnderstood`: a request that the client makes, of any function, is the same call to
  the server; `RtuDamaged`, `V5LookAlike`, `TcpCutOff`: what the client makes of answers that
  did not arrive as they were sent.

`ModbusExchangeProofs`: the invariants and the refinement.  None of the properties is inductive:
each speaks of the end of an exchange and says nothing of what is under way.  `IInv` says it:
while a request is under way, the wire holds the frame of the call in progress, damaged as `fault`
tells; once the server has answered, `served` and the memory are those of the server's
`execute_route` on what it read from the request, and the wire holds the frame of its answer,
damaged, extended or cut as `fault` tells; at the end, `result` is what `Parse` makes of
that wire, or a timeout.  TLC agrees with `IInv` on the instance of `modbus_exchange`.  One
lemma per action shows that it is kept, and the properties follow from `IInv` with
the theorems of `ModbusLinkProofs`, by framing and by function.

* `FramesTyped` (`TypeOK`) needs `RequestDecoded`: whatever bytes another client sends,
  the endpoints get words, and bits where bits are written.
* `DamageIsNoticed`, `WholeAnswersUnderstood`, `ErrorsAreNamed`, `OnlyShortOnesCompleted`,
  `SizesAsExpected`: the properties of the same names.
* `Refinement` (`ImplementsMemory`): `Serve` maps to `Apply`, `Receive` to `Answer` or `Fail`,
  `Timeout` to `Fail`, all others to stuttering.  The step that needs work is a multiple
  write: that the endpoints called before the first address without one wrote a prefix.

They rest on three assumptions about the constants.  `DeviceAssumption`: endpoints hold bits or
words, not both in one place, and the memory starts with such values.  Endpoints are
functions of the server's user, and these are the values the protocol has: `struct.pack` in
`create_response_pdu` takes no other register.  `CallersAssumption`: callers
pass integers, any quantity and any address, and one value to a single write, which the client's
functions take as one argument; slaves are bytes, as `struct.pack('>B')` requires; other clients
send bytes.  `LinkAssumption`: transaction identifiers have two bytes, and a damaged byte is
another byte.  The rest is unrestricted: number and kind of endpoints, lists of any length,
the values in memory.

Recursive functions replace folds (`Registers`, `Rounds`).  Where a proof needs
induction, on the bytes of a message, the rounds of the table or the prefix of a write, it
goes by the least element of the set of counterexamples.

## 8. What is only model-checked, and what is not modelled

Model-checked only: all liveness (`Recovers`, `RecoversOrStranded`, `ExecuteReturns`, `ShutdownCompletes`, `Settles`,
`Isolated`, `ShutdownEnds`) and the fairness in `ImplementsChannel`, as the prover does not
handle them.  Every invariant and every action property that a passing run checks has a
theorem.

### Not modelled

* Logging (formatting; it keeps no state), the tests, packaging.
* The inverter profiles, which are data: `MCParserCycle` has profiles with their constructs.
  Values that a profile lists per model are taken as chosen.
* The spacing of requests by the throttle, whose last-call cell all clients share: it is a
  pause of any length in `SolarmanClient`, and no property depends on it.
* The value of the serial number that auto-discovery takes from the first frame before its
  checksum is verified.
* How long one worker's synchronous write delays the clocks of the others: `DevicePoller` and
  `SolarmanClient` each have delays of any length within their bounds, but not the tie between
  them.
* The `rtu` transport and signed register values of `umodbus`, which the program never
  configures.
* Sockets, serial ports and threads of the Modbus server.

## 9. Running it

    tlc -config ClientSafety.cfg MCSolarmanClient.tla
    tlc -config PollerFaults.cfg MCDevicePoller.tla
    tlc -config ParserCycle.cfg MCParserCycle.tla
    tlc -config LoggerService.cfg MCLoggerService.tla
    tlc -config ModbusExchange.cfg MCModbusExchange.tla
    tlapm SolarmanClientProofs.tla        (and the other *Proofs)

`PROJECT.json` lists all runs, for each property a mutated definition under which
its run fails, and the source lines each definition translates.
