------------------------------- MODULE DevicePoller -------------------------------
(***************************************************************************)
(* One device worker (poller.py, DeviceWorker and DeviceHealth): when it   *)
(* polls, which register groups it asks for, how it backs off and what it  *)
(* believes of the device's health.                                        *)
(*                                                                         *)
(* Time is an integer.  elapsed is kept modulo Span, a common multiple of  *)
(* all periods, and next_poll relative to now, so that the worker may run  *)
(* for ever in finitely many states.                                       *)
(***************************************************************************)
EXTENDS Integers, FiniteSets

CONSTANTS
  Poll,         \* poll_interval of the device
  MAX_BACKOFF,  \* 300 in the code
  Groups,       \* the profile's groups of registers, each one request
  Every,        \* update_interval of each group
  Span,         \* a common multiple of Poll and of all update intervals
  MaxExec,      \* bound on the time one execute() or one write takes
  MaxLate,      \* bound on how late the event loop wakes a sleeper
  Slack,        \* how much later than its interval a group may be answered
  Faults,       \* what can go wrong in a cycle
  MaxFaults,    \* bound on how often it does
  MaxFailures   \* bound on the count of failures, where the backoff is saturated

BACKOFF_FACTOR == 2

ASSUME PeriodsAssumption ==
  /\ Poll \in Nat \ {0}
  /\ MAX_BACKOFF \in Nat \ {0}
  /\ Every \in [Groups -> Nat \ {0}]
  /\ Span \in Nat \ {0}
  /\ Span % Poll = 0
  /\ \A g \in Groups : Span % Every[g] = 0
ASSUME LimitsAssumption ==
  /\ MaxExec \in Nat /\ MaxLate \in Nat /\ Slack \in Nat
  /\ MaxFaults \in Nat /\ MaxFailures \in Nat \ {0}
\* Counting further failures changes nothing: the code counts without a bound.
ASSUME SaturationAssumption == Poll * BACKOFF_FACTOR ^ MaxFailures >= MAX_BACKOFF
ASSUME FaultsAssumption == Faults \subseteq {"offline", "unexpected", "invalid"}

VARIABLES
  pc,        \* "asleep" at the top of run()'s loop, "polling" inside _poll_cycle
  elapsed,   \* time.monotonic() - _started_at, modulo Span
  offset,    \* next_poll - now; of the poll that runs, once it has begun
  due,       \* the groups this cycle requests
  left,      \* those of them not yet answered
  failures,  \* _consecutive_failures
  backoff,   \* _backoff_interval
  online,    \* health._online: None, True or False
  valid,     \* health._valid_data: None, True or False
  age,       \* time since each group was last answered, up to Stale (history)
  faults     \* how many faults are still to come

clock   == <<elapsed, offset, age>>
cycle   == <<due, left>>
health  == <<failures, backoff, online, valid>>
vars    == <<pc, clock, cycle, health, faults>>

-----------------------------------------------------------------------------
(* Time *)

Stale(g) == Every[g] + Slack + 1
Least(a, b) == IF a <= b THEN a ELSE b

\* d units of time pass; the groups of Answered are answered at their end.
Pass(d, Answered) ==
  /\ elapsed' = (elapsed + d) % Span
  /\ age' = [g \in Groups |-> IF g \in Answered THEN 0 ELSE Least(age[g] + d, Stale(g))]

\* Mutant: the runtime is not rounded down to a tick.
Tick_Raw(e) == e

\* _get_runtime: the last multiple of the poll interval.
Tick(e) == (e \div Poll) * Poll

\* ParameterParser.is_scheduled, for a group as a whole.
Due(e) == {g \in Groups : Tick(e) % Every[g] = 0}

CurrentInterval == IF failures > 0 THEN backoff ELSE Poll

-----------------------------------------------------------------------------
(* Health and backoff *)

\* Mutant: success resets the delay and not the count.
HandleSuccess_KeepsCount ==
  /\ online' = "online" /\ valid' = "yes"
  /\ failures' = failures
  /\ backoff' = Poll

HandleSuccess ==
  /\ online' = "online" /\ valid' = "yes"
  /\ failures' = 0
  /\ backoff' = Poll

\* Mutant: the delay is computed before the failure is counted.
HandleFailure_OldCount ==
  /\ online' = "offline" /\ UNCHANGED valid
  /\ failures' = Least(failures + 1, MaxFailures)
  /\ backoff' = Least(Poll * BACKOFF_FACTOR ^ failures, MAX_BACKOFF)

HandleFailure ==
  /\ online' = "offline" /\ UNCHANGED valid
  /\ failures' = Least(failures + 1, MaxFailures)
  /\ backoff' = Least(Poll * BACKOFF_FACTOR ^ failures', MAX_BACKOFF)

HandleInvalid ==
  /\ valid' = "no"
  /\ UNCHANGED <<failures, backoff, online>>

-----------------------------------------------------------------------------
(* run() *)

Init ==
  /\ pc = "asleep" /\ elapsed = 0 /\ offset = 0
  /\ due = {} /\ left = {}
  /\ failures = 0 /\ backoff = Poll
  /\ online = "unknown" /\ valid = "unknown"
  /\ age = [g \in Groups |-> 0]
  /\ faults = MaxFaults

\* Sleep until next_poll, or not at all when it has passed; then schedule_requests.
Wake ==
  /\ pc = "asleep"
  /\ \E late \in 0..MaxLate :
       LET d == IF offset > 0 THEN offset + late ELSE 0 IN
       /\ Pass(d, {})
       /\ offset' = offset - d
  /\ due' = Due(elapsed')
  /\ left' = due'
  /\ pc' = "polling"
  /\ UNCHANGED <<health, faults>>

\* Mutant: after an overrun the missed polls are caught up with.
Reschedule_CatchUp(d) ==
  /\ offset' = offset - d + CurrentInterval'
  /\ pc' = "asleep"

\* A cycle that took d more units has ended: when to poll next.
Reschedule(d) ==
  LET scheduled == offset - d + CurrentInterval'
  IN /\ offset' = IF scheduled < 0 THEN CurrentInterval' ELSE scheduled
     /\ pc' = "asleep"

\* No group is due.
NothingDue ==
  /\ pc = "polling" /\ due = {}
  /\ UNCHANGED <<health, elapsed, age, cycle, faults>>
  /\ Reschedule(0)

\* One request is answered.
Execute(g) ==
  /\ pc = "polling" /\ g \in left
  /\ \E d \in 0..MaxExec :
       /\ Pass(d, {g})
       /\ offset' = offset - d
  /\ left' = left \ {g}
  /\ UNCHANGED <<pc, due, health, faults>>

\* Mutant: only the listed exceptions are caught, any other ends the task.
ExecuteFails_Uncaught(g) ==
  /\ pc = "polling" /\ g \in left
  /\ faults > 0 /\ faults' = faults - 1
  /\ \E kind \in Faults \cap {"offline", "unexpected"}, d \in 0..MaxExec :
       /\ Pass(d, {})
       /\ IF kind = "offline"
          THEN HandleFailure /\ Reschedule(d)
          ELSE pc' = "ended" /\ offset' = offset - d /\ UNCHANGED health
  /\ UNCHANGED cycle

\* A request raises: the cycle ends with the failure counted, whatever it is.
ExecuteFails(g) ==
  /\ pc = "polling" /\ g \in left
  /\ faults > 0 /\ faults' = faults - 1
  /\ Faults \cap {"offline", "unexpected"} # {}
  /\ \E d \in 0..MaxExec :
       /\ Pass(d, {})
       /\ HandleFailure
       /\ Reschedule(d)
  /\ UNCHANGED cycle

\* Every request is answered: parser.process, and the callback writes the readings.
Succeed ==
  /\ pc = "polling" /\ due # {} /\ left = {}
  /\ HandleSuccess
  /\ \E d \in 0..MaxExec :
       /\ Pass(d, {})
       /\ Reschedule(d)
  /\ UNCHANGED <<cycle, faults>>

\* parser.process raises: ValueError for an invalid data set, or another exception.
ProcessFails ==
  /\ pc = "polling" /\ due # {} /\ left = {}
  /\ faults > 0 /\ faults' = faults - 1
  /\ \/ "invalid" \in Faults /\ HandleInvalid
     \/ "unexpected" \in Faults /\ HandleFailure
  /\ UNCHANGED <<elapsed, age, cycle>>
  /\ Reschedule(0)

Cycle ==
  \/ NothingDue \/ Succeed \/ ProcessFails
  \/ \E g \in Groups : Execute(g) \/ ExecuteFails(g)

Next == Wake \/ Cycle

Spec == Init /\ [][Next]_vars

\* The event loop runs the worker's task whenever it is ready, and time passes.
FairSpec == Spec /\ WF_vars(Next)

-----------------------------------------------------------------------------
(* Correctness *)

TypeOK ==
  /\ pc \in {"asleep", "polling"}
  /\ elapsed \in 0..(Span - 1)
  /\ offset \in Int
  /\ due \subseteq Groups /\ left \subseteq due
  /\ failures \in 0..MaxFailures
  /\ backoff \in Nat
  /\ online \in {"unknown", "online", "offline"}
  /\ valid \in {"unknown", "yes", "no"}
  /\ age \in [Groups -> Nat]
  /\ faults \in 0..MaxFaults

\* However long cycles take and however late the loop wakes the worker, the next
\* poll is never before the end of the last one (missed polls are not queued) and
\* never more than one interval after it.
NoBacklog == pc = "asleep" => 0 <= offset /\ offset <= CurrentInterval

\* The worker believes the device to be offline exactly as long as it backs off,
\* and a device that is not offline is polled at its own interval.
HealthAgrees ==
  /\ (online = "offline") <=> (failures > 0)
  /\ failures = 0 => backoff = Poll

\* A device that fails is polled less often than one that does not.
BackoffSlows == failures > 0 => CurrentInterval > Poll

\* Each group is answered once per update interval, give or take Slack.
GroupOnTime == \A g \in Groups : age[g] < Stale(g)

\* When the faults are over, the device is seen online and stays at its interval.
Recovers == <>[](online = "online" /\ CurrentInterval = Poll)
=============================================================================
