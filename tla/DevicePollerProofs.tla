-------------------------- MODULE DevicePollerProofs --------------------------
(***************************************************************************)
(* What DevicePoller keeps invariant for every poll interval, every set of *)
(* groups, every bound on delays and every number of faults.               *)
(***************************************************************************)
EXTENDS DevicePoller, FiniteSetTheorems, TLAPS

\* While a cycle runs, the poll it belongs to is due: run() never polls early.
NeverEarly == pc = "polling" => offset <= 0

\* What _handle_failure computes stays the delay for as long as failures are counted.
BackoffFormula ==
  failures > 0 => backoff = Least(Poll * BACKOFF_FACTOR ^ failures, MAX_BACKOFF)

Inv == TypeOK /\ NoBacklog /\ NeverEarly /\ HealthAgrees /\ BackoffFormula

-----------------------------------------------------------------------------
(* Arithmetic of the backoff *)

\* Two different things make a set of two.
LEMMA PairCardinality ==
  ASSUME NEW x, NEW y, x # y
  PROVE  Cardinality({x, y}) = 2
<1>1. IsFiniteSet({x}) /\ Cardinality({x}) = 1
  BY FS_Singleton
<1>2. {x} \cup {y} = {x, y} /\ y \notin {x}
  OBVIOUS
<1>3. Cardinality({x} \cup {y}) = Cardinality({x}) + 1
  BY <1>1, <1>2, FS_AddElement
<1> QED  BY <1>1, <1>2, <1>3

\* BACKOFF_FACTOR to the power of a count of failures is a number, and at least
\* the factor when there are any.
LEMMA PowerOfTwo ==
  ASSUME NEW n \in Nat
  PROVE  /\ 2 ^ n \in Nat
         /\ n > 0 => 2 ^ n >= 2
<1>1. IsFiniteSet(1..n) /\ Cardinality(1..n) = n
  BY FS_Interval
<1>2. IsFiniteSet(SUBSET (1..n)) /\ Cardinality(SUBSET (1..n)) = 2 ^ n
  BY <1>1, FS_SUBSET
<1>3. 2 ^ n \in Nat
  BY <1>2, FS_CardinalityType
<1>4. ASSUME n > 0 PROVE 2 ^ n >= 2
  <2>1. {{}, {1}} \subseteq SUBSET (1..n)
    BY <1>4
  <2>2. {} # {1}
    OBVIOUS
  <2>3. Cardinality({{}, {1}}) = 2
    BY <2>2, PairCardinality
  <2>4. Cardinality({{}, {1}}) <= Cardinality(SUBSET (1..n))
    BY <1>2, <2>1, FS_Subset
  <2> QED  BY <1>2, <1>3, <2>3, <2>4
<1> QED  BY <1>3, <1>4

\* The capped delay after n failures is a natural number.
LEMMA BackoffType ==
  ASSUME NEW n \in Nat
  PROVE  Least(Poll * BACKOFF_FACTOR ^ n, MAX_BACKOFF) \in Nat
<1>1. 2 ^ n \in Nat
  BY PowerOfTwo
<1>2. Poll \in Nat /\ MAX_BACKOFF \in Nat
  BY PeriodsAssumption
<1>3. Poll * 2 ^ n \in Nat
  BY <1>1, <1>2
<1> QED  BY <1>2, <1>3 DEF Least, BACKOFF_FACTOR

\* It exceeds the poll interval, provided the cap does.
LEMMA BackoffExceeds ==
  ASSUME NEW n \in Nat, n > 0, Poll < MAX_BACKOFF
  PROVE  Least(Poll * BACKOFF_FACTOR ^ n, MAX_BACKOFF) > Poll
<1>1. 2 ^ n \in Nat /\ 2 ^ n >= 2
  BY PowerOfTwo
<1>2. Poll \in Nat /\ Poll > 0 /\ MAX_BACKOFF \in Nat
  BY PeriodsAssumption
<1>3. ASSUME NEW k \in Nat, k >= 2 PROVE Poll * k \in Nat /\ Poll * k >= Poll * 2
  BY <1>2, <1>3
<1>4. Poll * 2 ^ n \in Nat /\ Poll * 2 ^ n >= Poll * 2
  BY <1>1, <1>3
<1>5. Poll * 2 ^ n > Poll
  BY <1>2, <1>4
<1> QED  BY <1>2, <1>5 DEF Least, BACKOFF_FACTOR

-----------------------------------------------------------------------------
(* The helpers of the steps *)

\* The passage of time keeps the types of the clock.
LEMMA PassType ==
  ASSUME NEW d \in Nat, NEW A, elapsed \in 0..(Span - 1), age \in [Groups -> Nat],
         Pass(d, A)
  PROVE  elapsed' \in 0..(Span - 1) /\ age' \in [Groups -> Nat]
<1>1. Span \in Nat /\ Span > 0 /\ MaxExec \in Nat /\ Slack \in Nat
  BY PeriodsAssumption, LimitsAssumption
<1>2. elapsed + d \in Nat
  BY <1>1
<1>3. (elapsed + d) % Span \in 0..(Span - 1)
  BY <1>1, <1>2
<1>4. ASSUME NEW g \in Groups PROVE Least(age[g] + d, Stale(g)) \in Nat
  <2>1. Every[g] \in Nat
    BY PeriodsAssumption
  <2> QED  BY <1>1, <2>1 DEF Least, Stale
<1> QED  BY <1>3, <1>4 DEF Pass

\* The types of what the end of a cycle decides.
HealthType ==
  /\ failures \in 0..MaxFailures
  /\ backoff \in Nat
  /\ online \in {"unknown", "online", "offline"}
  /\ valid \in {"unknown", "yes", "no"}

HealthInv == HealthType /\ HealthAgrees /\ BackoffFormula

\* Success, failure and an invalid data set keep health, count and delay consistent.
LEMMA SuccessHealth ==
  ASSUME HealthInv, HandleSuccess PROVE HealthInv'
BY PeriodsAssumption, LimitsAssumption
DEF HealthInv, HealthType, HealthAgrees, BackoffFormula, HandleSuccess

LEMMA FailureHealth ==
  ASSUME HealthInv, HandleFailure PROVE HealthInv'
<1>1. failures' \in 1..MaxFailures
  BY LimitsAssumption DEF HealthInv, HealthType, HandleFailure, Least
<1>2. failures' \in Nat /\ failures' > 0
  BY <1>1, LimitsAssumption
<1>3. Least(Poll * BACKOFF_FACTOR ^ failures', MAX_BACKOFF) \in Nat
  BY <1>2, BackoffType
<1>4. backoff' = Least(Poll * BACKOFF_FACTOR ^ failures', MAX_BACKOFF)
  BY DEF HandleFailure
<1>5. HealthType'
  BY <1>1, <1>3, <1>4, LimitsAssumption DEF HealthInv, HealthType, HandleFailure
<1>6. HealthAgrees'
  BY <1>2 DEF HealthAgrees, HandleFailure
<1>7. BackoffFormula'
  BY <1>4 DEF BackoffFormula
<1> QED  BY <1>5, <1>6, <1>7 DEF HealthInv

LEMMA InvalidHealth ==
  ASSUME HealthInv, HandleInvalid PROVE HealthInv'
BY DEF HealthInv, HealthType, HealthAgrees, BackoffFormula, HandleInvalid

\* A step that leaves count, delay and flags alone keeps them consistent.
LEMMA SameHealth ==
  ASSUME HealthInv, UNCHANGED health PROVE HealthInv'
BY DEF HealthInv, HealthType, HealthAgrees, BackoffFormula, health

\* The end of a cycle that was not early leaves a wait of at most one interval.
LEMMA RescheduleOffset ==
  ASSUME NEW d \in Nat, offset \in Int, offset <= 0, CurrentInterval' \in Nat,
         Reschedule(d)
  PROVE  /\ pc' = "asleep" /\ offset' \in Int
         /\ 0 <= offset' /\ offset' <= CurrentInterval'
BY DEF Reschedule, CurrentInterval

-----------------------------------------------------------------------------
(* The invariant *)

\* The parts of the type invariant that do not concern health.
RunType ==
  /\ pc \in {"asleep", "polling"}
  /\ elapsed \in 0..(Span - 1)
  /\ offset \in Int
  /\ due \subseteq Groups /\ left \subseteq due
  /\ age \in [Groups -> Nat]
  /\ faults \in 0..MaxFaults

LEMMA InvParts == Inv <=> RunType /\ HealthInv /\ NoBacklog /\ NeverEarly
BY DEF Inv, RunType, HealthInv, HealthType, TypeOK

\* A cycle that ends after d more units, with health consistent, keeps the invariant.
LEMMA EndOfCycle ==
  ASSUME NEW d \in Nat, RunType, NeverEarly, pc = "polling", HealthInv',
         Reschedule(d), UNCHANGED cycle,
         elapsed' \in 0..(Span - 1), age' \in [Groups -> Nat], faults' \in 0..MaxFaults
  PROVE  Inv'
<1>1. CurrentInterval' \in Nat
  BY PeriodsAssumption DEF HealthInv, HealthType, CurrentInterval
<1>2. offset \in Int /\ offset <= 0
  BY DEF RunType, NeverEarly
<1>3. /\ pc' = "asleep" /\ offset' \in Int
      /\ 0 <= offset' /\ offset' <= CurrentInterval'
  BY <1>1, <1>2, RescheduleOffset
<1>4. RunType'
  BY <1>3 DEF RunType, cycle
<1>5. NoBacklog' /\ NeverEarly'
  BY <1>3 DEF NoBacklog, NeverEarly
<1> QED  BY <1>4, <1>5, InvParts, PTL

LEMMA Initially == Init => Inv
<1> SUFFICES ASSUME Init PROVE Inv
  OBVIOUS
<1>1. RunType
  BY PeriodsAssumption, LimitsAssumption DEF Init, RunType
<1>2. HealthInv
  BY PeriodsAssumption, LimitsAssumption
  DEF Init, HealthInv, HealthType, HealthAgrees, BackoffFormula
<1>3. NoBacklog /\ NeverEarly
  BY PeriodsAssumption DEF Init, NoBacklog, NeverEarly, CurrentInterval
<1> QED  BY <1>1, <1>2, <1>3, InvParts

\* Waking is never early, whatever the delay of the event loop.
LEMMA WakeKeeps ==
  ASSUME Inv, Wake PROVE Inv'
<1>1. RunType /\ HealthInv /\ NoBacklog
  BY InvParts
<1>2. PICK late \in 0..MaxLate :
        /\ Pass(IF offset > 0 THEN offset + late ELSE 0, {})
        /\ offset' = offset - (IF offset > 0 THEN offset + late ELSE 0)
  BY DEF Wake
<1> DEFINE d == IF offset > 0 THEN offset + late ELSE 0
<1>3. late \in Nat /\ d \in Nat
  BY <1>1, LimitsAssumption DEF RunType
<1>4. offset' \in Int /\ offset' <= 0
  BY <1>1, <1>2, <1>3 DEF RunType
<1>5. elapsed' \in 0..(Span - 1) /\ age' \in [Groups -> Nat]
  <2> HIDE DEF d
  <2>1. Pass(d, {})
    BY <1>2 DEF d
  <2> QED  BY <1>1, <1>3, <2>1, PassType DEF RunType
<1>6. RunType'
  BY <1>1, <1>4, <1>5 DEF RunType, Wake, Due
<1>7. NoBacklog' /\ NeverEarly'
  BY <1>4 DEF NoBacklog, NeverEarly, Wake
<1>8. HealthInv'
  BY <1>1, SameHealth DEF Wake
<1> QED  BY <1>6, <1>7, <1>8, InvParts, PTL

LEMMA ExecuteKeeps ==
  ASSUME Inv, NEW g \in Groups, Execute(g) PROVE Inv'
<1>1. RunType /\ HealthInv /\ NeverEarly
  BY InvParts
<1>2. PICK d \in 0..MaxExec : Pass(d, {g}) /\ offset' = offset - d
  BY DEF Execute
<1>3. d \in Nat
  BY LimitsAssumption
<1>4. offset' \in Int /\ offset' <= 0
  BY <1>1, <1>2, <1>3 DEF RunType, NeverEarly, Execute
<1>5. elapsed' \in 0..(Span - 1) /\ age' \in [Groups -> Nat]
  BY <1>1, <1>2, <1>3, PassType DEF RunType
<1>6. RunType'
  BY <1>1, <1>4, <1>5 DEF RunType, Execute
<1>7. NoBacklog' /\ NeverEarly'
  BY <1>4 DEF NoBacklog, NeverEarly, Execute
<1>8. HealthInv'
  BY <1>1, SameHealth DEF Execute
<1> QED  BY <1>6, <1>7, <1>8, InvParts, PTL

LEMMA ExecuteFailsKeeps ==
  ASSUME Inv, NEW g \in Groups, ExecuteFails(g) PROVE Inv'
<1>1. RunType /\ HealthInv /\ NeverEarly
  BY InvParts
<1>2. PICK d \in 0..MaxExec : Pass(d, {}) /\ HandleFailure /\ Reschedule(d)
  BY DEF ExecuteFails
<1>3. d \in Nat
  BY LimitsAssumption
<1>4. elapsed' \in 0..(Span - 1) /\ age' \in [Groups -> Nat]
  BY <1>1, <1>2, <1>3, PassType DEF RunType
<1>5. faults' \in 0..MaxFaults
  BY <1>1, LimitsAssumption DEF RunType, ExecuteFails
<1>6. HealthInv'
  BY <1>1, <1>2, FailureHealth
<1>7. pc = "polling" /\ UNCHANGED cycle
  BY DEF ExecuteFails
<1> QED  BY <1>1, <1>2, <1>3, <1>4, <1>5, <1>6, <1>7, EndOfCycle

LEMMA SucceedKeeps ==
  ASSUME Inv, Succeed PROVE Inv'
<1>1. RunType /\ HealthInv /\ NeverEarly
  BY InvParts
<1>2. PICK d \in 0..MaxExec : Pass(d, {}) /\ Reschedule(d)
  BY DEF Succeed
<1>3. d \in Nat
  BY LimitsAssumption
<1>4. elapsed' \in 0..(Span - 1) /\ age' \in [Groups -> Nat]
  BY <1>1, <1>2, <1>3, PassType DEF RunType
<1>5. faults' \in 0..MaxFaults /\ pc = "polling" /\ UNCHANGED cycle
  BY <1>1 DEF RunType, Succeed
<1>6. HealthInv'
  BY <1>1, SuccessHealth DEF Succeed
<1> QED  BY <1>1, <1>2, <1>3, <1>4, <1>5, <1>6, EndOfCycle

LEMMA ProcessFailsKeeps ==
  ASSUME Inv, ProcessFails PROVE Inv'
<1>1. RunType /\ HealthInv /\ NeverEarly
  BY InvParts
<1>2. /\ elapsed' \in 0..(Span - 1) /\ age' \in [Groups -> Nat]
      /\ faults' \in 0..MaxFaults
  BY <1>1, LimitsAssumption DEF RunType, ProcessFails
<1>3. HealthInv'
  BY <1>1, InvalidHealth, FailureHealth DEF ProcessFails
<1>4. pc = "polling" /\ UNCHANGED cycle /\ Reschedule(0)
  BY DEF ProcessFails
<1> QED  BY <1>1, <1>2, <1>3, <1>4, EndOfCycle

LEMMA NothingDueKeeps ==
  ASSUME Inv, NothingDue PROVE Inv'
<1>1. RunType /\ HealthInv /\ NeverEarly
  BY InvParts
<1>2. /\ elapsed' \in 0..(Span - 1) /\ age' \in [Groups -> Nat]
      /\ faults' \in 0..MaxFaults
  BY <1>1 DEF RunType, NothingDue
<1>3. HealthInv'
  BY <1>1, SameHealth DEF NothingDue
<1>4. pc = "polling" /\ UNCHANGED cycle /\ Reschedule(0)
  BY DEF NothingDue
<1> QED  BY <1>1, <1>2, <1>3, <1>4, EndOfCycle

LEMMA StutterKeeps ==
  ASSUME Inv, UNCHANGED vars PROVE Inv'
BY DEF Inv, TypeOK, NoBacklog, NeverEarly, HealthAgrees, BackoffFormula, CurrentInterval,
       vars, clock, cycle, health

LEMMA Inductive == Inv /\ [Next]_vars => Inv'
<1> SUFFICES ASSUME Inv, [Next]_vars PROVE Inv'
  OBVIOUS
<1>1. CASE Wake            BY <1>1, WakeKeeps
<1>2. CASE NothingDue      BY <1>2, NothingDueKeeps
<1>3. CASE Succeed         BY <1>3, SucceedKeeps
<1>4. CASE ProcessFails    BY <1>4, ProcessFailsKeeps
<1>5. CASE \E g \in Groups : Execute(g)
  BY <1>5, ExecuteKeeps
<1>6. CASE \E g \in Groups : ExecuteFails(g)
  BY <1>6, ExecuteFailsKeeps
<1>7. CASE UNCHANGED vars  BY <1>7, StutterKeeps
<1> QED  BY <1>1, <1>2, <1>3, <1>4, <1>5, <1>6, <1>7 DEF Next, Cycle

-----------------------------------------------------------------------------
(* The theorems *)

\* The inductive invariant holds in every reachable state of the worker.
THEOREM PollerInvariance == Spec => []Inv
<1> QED  BY Initially, Inductive, PTL DEF Spec

\* Every variable of the worker keeps its type.
THEOREM PollerTypes == Spec => []TypeOK
<1>1. Inv => TypeOK
  BY DEF Inv
<1> QED  BY <1>1, PollerInvariance, PTL

\* run() neither queues missed polls nor waits longer than one interval, however
\* long cycles take and however late the event loop is.
THEOREM NoQueuedPolls == Spec => []NoBacklog
<1>1. Inv => NoBacklog
  BY DEF Inv
<1> QED  BY <1>1, PollerInvariance, PTL

\* The health flags agree with the count of failures and the delay.
THEOREM HealthConsistent == Spec => []HealthAgrees
<1>1. Inv => HealthAgrees
  BY DEF Inv
<1> QED  BY <1>1, PollerInvariance, PTL

\* A failing device is polled less often than a healthy one, provided its poll
\* interval is below MAX_BACKOFF: at or above it the code polls a failing device as
\* often as a healthy one, or more often.
THEOREM FailingSlowsDown == Poll < MAX_BACKOFF => (Spec => []BackoffSlows)
<1> SUFFICES ASSUME Poll < MAX_BACKOFF PROVE Spec => []BackoffSlows
  OBVIOUS
<1>1. Inv => BackoffSlows
  <2> SUFFICES ASSUME Inv, failures > 0 PROVE CurrentInterval > Poll
    BY DEF BackoffSlows
  <2>1. failures \in Nat
    BY LimitsAssumption DEF Inv, TypeOK
  <2>2. CurrentInterval = Least(Poll * BACKOFF_FACTOR ^ failures, MAX_BACKOFF)
    BY DEF Inv, BackoffFormula, CurrentInterval
  <2> QED  BY <2>1, <2>2, BackoffExceeds
<1> QED  BY <1>1, PollerInvariance, PTL
-----------------------------------------------------------------------------
(* Groups are answered on time when nothing fails *)

\* Remainders.
LEMMA Remainder ==
  ASSUME NEW a \in Int, NEW m \in Nat \ {0}
  PROVE  /\ a % m \in 0..(m - 1) /\ a \div m \in Int
         /\ a = m * (a \div m) + (a % m)
OBVIOUS

LEMMA Multiples ==
  ASSUME NEW m \in Nat \ {0}, NEW a \in Int, NEW b \in Int, m * a < m * b
  PROVE  a + 1 <= b /\ m * (a + 1) <= m * b
<1>1. a < b
  <2> SUFFICES ASSUME b <= a PROVE FALSE
    OBVIOUS
  <2>1. m * b <= m * a
    OBVIOUS
  <2>2. m * a \in Int /\ m * b \in Int
    OBVIOUS
  <2> QED  BY <2>1, <2>2
<1>2. m * (a + 1) <= m * b
  BY <1>1
<1> QED  BY <1>1, <1>2

LEMMA OneRemainder ==
  ASSUME NEW m \in Nat \ {0}, NEW q \in Int, NEW r \in 0..(m - 1), NEW a \in Int,
         a = m * q + r
  PROVE  a % m = r
<1> DEFINE p == a \div m
           s == a % m
<1>1. s \in 0..(m - 1) /\ p \in Int /\ a = m * p + s
  BY Remainder
<1> HIDE DEF p, s
<1>2. m * p \in Int /\ m * q \in Int /\ m * (p + 1) = m * p + m /\ m * (q + 1) = m * q + m
  BY <1>1
<1>3. CASE m * p < m * q
  BY <1>1, <1>2, <1>3, Multiples
<1>4. CASE m * q < m * p
  BY <1>1, <1>2, <1>4, Multiples
<1>5. CASE m * p = m * q
  BY <1>1, <1>2, <1>5 DEF s
<1> QED  BY <1>2, <1>3, <1>4, <1>5

\* A multiple of m added changes no remainder by m.
LEMMA SameRemainder ==
  ASSUME NEW m \in Nat \ {0}, NEW a \in Int, NEW k \in Int
  PROVE  (a + m * k) % m = a % m
<1> DEFINE q == a \div m
           r == a % m
<1>1. r \in 0..(m - 1) /\ q \in Int /\ a = m * q + r
  BY Remainder
<1> HIDE DEF q, r
<1>2. m * (q + k) = m * q + m * k /\ m * q \in Int /\ m * k \in Int
  BY <1>1
<1>3. a + m * k = m * (q + k) + r /\ q + k \in Int /\ a + m * k \in Int
  BY <1>1, <1>2
<1>4. (a + m * k) % m = r
  BY <1>1, <1>3, OneRemainder
<1> QED  BY <1>4 DEF r

\* The clock wraps at a multiple of every period.
LEMMA Wraps ==
  ASSUME NEW a \in Int, NEW b \in Int, NEW m \in Nat \ {0}, Span % m = 0
  PROVE  ((a % Span) + b) % m = (a + b) % m
<1>0. Span \in Nat \ {0}
  BY PeriodsAssumption
<1> DEFINE q == a \div Span
           r == a % Span
           s == Span \div m
<1>1. r \in 0..(Span - 1) /\ q \in Int /\ a = Span * q + r
  BY <1>0, Remainder
<1>2. s \in Int /\ Span = m * s
  BY <1>0, Remainder
<1> HIDE DEF q, r, s
<1>3. Span * q = m * (s * q) /\ s * q \in Int
  BY <1>1, <1>2
<1> DEFINE k == s * q
<1>4. a + b = (r + b) + m * k /\ r + b \in Int /\ k \in Int
  BY <1>0, <1>1, <1>3
<1> HIDE DEF k
<1>5. ((r + b) + m * k) % m = (r + b) % m
  BY <1>4, SameRemainder
<1> QED  BY <1>4, <1>5 DEF r

\* Multiples of Poll, and what they leave by a multiple of Poll.
LEMMA PollRemainder ==
  ASSUME NEW P \in Int, P % Poll = 0, NEW E \in Nat \ {0}, E % Poll = 0
  PROVE  /\ P % E \in Nat /\ P % E <= E - Poll
         /\ (P - Poll) % E \in Nat /\ (P - Poll) % E <= E - Poll
         /\ P % E # 0 => (P - Poll) % E = (P % E) - Poll
<1>0. Poll \in Nat \ {0}
  BY PeriodsAssumption
<1>1. ASSUME NEW Q \in Int, Q % Poll = 0
      PROVE  /\ Q % E \in Nat /\ Q % E <= E - Poll
             /\ Q % E # 0 => Q % E >= Poll
  <2> DEFINE p == Q \div Poll
             k == E \div Poll
             q == Q \div E
             r == Q % E
  <2>1. p \in Int /\ Q = Poll * p /\ k \in Int /\ E = Poll * k
    BY <1>0, <1>1, Remainder
  <2>2. q \in Int /\ r \in 0..(E - 1) /\ Q = E * q + r
    BY Remainder
  <2> HIDE DEF p, k, q, r
  <2> DEFINE t == p - k * q
  <2>3. t \in Int
    BY <2>1, <2>2
  <2>4. r = Poll * t
    <3>1. k * q \in Int /\ E * q = Poll * (k * q)
      BY <1>0, <2>1, <2>2
    <3>2. Poll * t = Poll * p - Poll * (k * q)
      BY <1>0, <2>1, <3>1
    <3>3. E * q \in Int
      BY <2>2
    <3> QED  BY <2>1, <2>2, <3>1, <3>2, <3>3
  <2> HIDE DEF t
  <2>5. Poll * t < Poll * k => Poll * (t + 1) <= Poll * k
    BY <1>0, <2>1, <2>3, Multiples
  <2>6. Poll * 0 < Poll * t => Poll * (0 + 1) <= Poll * t
    BY <1>0, <2>3, Multiples
  <2>7. Poll * (t + 1) = Poll * t + Poll /\ Poll * 0 = 0 /\ Poll * (0 + 1) = Poll
    BY <1>0, <2>3
  <2> QED  BY <1>0, <2>1, <2>2, <2>4, <2>5, <2>6, <2>7 DEF r
<1>2. P - Poll \in Int /\ (P - Poll) % Poll = 0
  <2> DEFINE n == -1
  <2>1. P - Poll = P + Poll * n /\ P - Poll \in Int /\ n \in Int
    BY <1>0
  <2> HIDE DEF n
  <2>2. (P + Poll * n) % Poll = P % Poll
    BY <1>0, <2>1, SameRemainder
  <2> QED  BY <2>1, <2>2
<1>3. ASSUME P % E # 0 PROVE (P - Poll) % E = (P % E) - Poll
  <2> DEFINE q == P \div E
             r == P % E
  <2>1. q \in Int /\ r \in 0..(E - 1) /\ P = E * q + r
    BY Remainder
  <2>2. r >= Poll
    BY <1>1, <1>3
  <2> HIDE DEF q, r
  <2>3. E * q \in Int
    BY <2>1
  <2> DEFINE t == r - Poll
  <2>4. t \in 0..(E - 1) /\ P - Poll = E * q + t
    BY <1>0, <2>1, <2>2, <2>3
  <2> HIDE DEF t
  <2>5. \A a \in Int : a = E * q + t => a % E = t
    BY <2>1, <2>4, OneRemainder
  <2> QED  BY <1>2, <2>4, <2>5 DEF r, t
<1> QED  BY <1>1, <1>2, <1>3

\* Nothing fails, and a poll with all its requests fits between two polls, also when
\* it starts late; groups are due at multiples of the poll interval.
Punctual ==
  /\ MaxFaults = 0
  /\ IsFiniteSet(Groups)
  /\ \A g \in Groups : Every[g] % Poll = 0
  /\ MaxLate < Poll
  /\ MaxLate + MaxExec * (Cardinality(Groups) + 1) <= Poll

\* When the poll is that runs, or that comes next.
PollTime == elapsed + offset

\* A group was answered at, or after, the last poll at which it was due.
AnsweredSince(g) == age[g] <= (PollTime % Every[g]) - offset
\* The same of the polls before the one that runs or comes next.
AnsweredBefore(g) == age[g] <= ((PollTime - Poll) % Every[g]) + Poll - offset

OnTime ==
  /\ failures = 0 /\ faults = 0
  /\ PollTime % Poll = 0
  /\ pc = "asleep" => \A g \in Groups : AnsweredBefore(g)
  /\ pc = "polling" =>
       /\ due = {g \in Groups : PollTime % Every[g] = 0}
       /\ MaxExec * Cardinality(due \ left) \in Nat
       /\ -offset <= MaxLate + MaxExec * Cardinality(due \ left)
       /\ \A g \in left : AnsweredBefore(g)
       /\ \A g \in Groups \ left : AnsweredSince(g)

LEMMA PunctualFacts ==
  ASSUME Punctual
  PROVE  /\ Poll \in Nat \ {0} /\ Span \in Nat \ {0} /\ Span % Poll = 0
         /\ MaxExec \in Nat /\ MaxLate \in Nat /\ MaxLate < Poll
         /\ \A g \in Groups : /\ Every[g] \in Nat \ {0} /\ Every[g] % Poll = 0
                              /\ Span % Every[g] = 0
BY PeriodsAssumption, LimitsAssumption DEF Punctual

\* The requests of a cycle are as many as there are groups.
LEMMA RequestTime ==
  ASSUME Punctual, NEW S, S \subseteq Groups
  PROVE  /\ MaxExec * Cardinality(S) \in Nat
         /\ MaxExec * Cardinality(S) <= MaxExec * Cardinality(Groups)
         /\ MaxExec * Cardinality(Groups) \in Nat
         /\ MaxLate + MaxExec * Cardinality(S) + MaxExec <= Poll
         /\ \A g \in S : /\ MaxExec * Cardinality(S \ {g}) \in Nat
                         /\ MaxExec * Cardinality(S \ {g}) + MaxExec = MaxExec * Cardinality(S)
<1> DEFINE n == Cardinality(Groups)
           c == Cardinality(S)
<1>1. IsFiniteSet(S) /\ c \in Nat /\ n \in Nat /\ c <= n
  BY FS_Subset, FS_CardinalityType DEF Punctual
<1>2. MaxExec \in Nat /\ MaxLate \in Nat
  BY LimitsAssumption
<1>3. \A g \in S : Cardinality(S \ {g}) = c - 1 /\ c - 1 \in Nat
  <2> TAKE g \in S
  <2>1. Cardinality(S \ {g}) = c - 1
    BY <1>1, FS_RemoveElement
  <2>2. IsFiniteSet(S \ {g})
    BY <1>1, FS_RemoveElement
  <2> QED  BY <2>1, <2>2, FS_CardinalityType
<1>4. MaxLate + MaxExec * (n + 1) <= Poll
  BY DEF Punctual
<1> HIDE DEF n, c
<1>5. MaxExec * c \in Nat /\ MaxExec * c <= MaxExec * n /\ MaxExec * n \in Nat
  BY <1>1, <1>2
<1>6. MaxExec * (n + 1) = MaxExec * n + MaxExec
  BY <1>1, <1>2
<1>7. \A k \in Nat : MaxExec * k \in Nat
  BY <1>2
<1>8. c - 1 \in Nat => MaxExec * (c - 1) + MaxExec = MaxExec * c
  BY <1>1, <1>2
<1>9. Poll \in Nat
  BY PeriodsAssumption
<1> QED  BY <1>2, <1>3, <1>4, <1>5, <1>6, <1>7, <1>8, <1>9 DEF c, n

\* Time that passes moves no poll, unless the next one is set.
LEMMA PassPoll ==
  ASSUME Punctual, elapsed \in Int, offset \in Int,
         NEW d \in Nat, elapsed' = (elapsed + d) % Span, NEW m \in Nat \ {0}, Span % m = 0,
         NEW jump \in Int, offset' = offset - d + jump
  PROVE  /\ PollTime \in Int /\ PollTime' \in Int
         /\ PollTime' % m = (PollTime + jump) % m
         /\ (PollTime' - Poll) % m = (PollTime + jump - Poll) % m
<1>0. Poll \in Nat \ {0} /\ Span \in Nat \ {0}
  BY PunctualFacts
<1>2. elapsed' \in Int
  BY <1>0
<1>3. \A b \in Int : (elapsed' + b) % m = (elapsed + d + b) % m
  BY Wraps
<1>4. /\ offset' \in Int /\ offset' - Poll \in Int
      /\ elapsed + d + offset' = elapsed + offset + jump
      /\ elapsed + d + (offset' - Poll) = elapsed + offset + jump - Poll
      /\ elapsed' + (offset' - Poll) = elapsed' + offset' - Poll
  BY <1>0, <1>2
<1>5. PollTime' % m = (PollTime + jump) % m /\ (PollTime' - Poll) % m = (PollTime + jump - Poll) % m
  <2> DEFINE b == offset' - Poll
  <2>1. (elapsed' + offset') % m = (elapsed + offset + jump) % m
    BY <1>3, <1>4
  <2>2. b \in Int /\ elapsed' + b = PollTime' - Poll
        /\ elapsed + d + b = PollTime + jump - Poll
    BY <1>0, <1>2, <1>4 DEF PollTime
  <2> HIDE DEF b
  <2>3. (elapsed' + b) % m = (elapsed + d + b) % m
    BY <1>3, <2>2
  <2>4. PollTime' % m = (PollTime + jump) % m
    BY <2>1 DEF PollTime
  <2> QED  BY <2>2, <2>3, <2>4
<1> QED  BY <1>2, <1>4, <1>5 DEF PollTime

LEMMA PassAge ==
  ASSUME age \in [Groups -> Nat], NEW d \in Nat, NEW A, Pass(d, A), NEW g \in Groups
  PROVE  /\ age'[g] \in Int
         /\ g \in A => age'[g] = 0
         /\ g \notin A => age'[g] <= age[g] + d
<1>1. age'[g] = IF g \in A THEN 0 ELSE Least(age[g] + d, Stale(g))
  BY DEF Pass
<1>2. age[g] \in Nat /\ Stale(g) \in Int
  BY PeriodsAssumption, LimitsAssumption DEF Stale
<1> QED  BY <1>1, <1>2 DEF Least

LEMMA OnTimeInit == Punctual /\ Init => OnTime
<1> SUFFICES ASSUME Punctual, Init PROVE OnTime
  OBVIOUS
<1>1. /\ Poll \in Nat \ {0}
      /\ \A g \in Groups : Every[g] \in Nat \ {0} /\ Every[g] % Poll = 0
  BY PunctualFacts
<1>2. PollTime = 0 /\ 0 % Poll = 0
  BY <1>1 DEF Init, PollTime
<1>3. \A g \in Groups : (PollTime - Poll) % Every[g] \in Nat
  BY <1>1, <1>2, PollRemainder
<1>4. \A g \in Groups : age[g] = 0 /\ offset = 0
  BY DEF Init
<1>5. \A g \in Groups : AnsweredBefore(g)
  BY <1>1, <1>3, <1>4 DEF AnsweredBefore
<1> QED  BY <1>2, <1>5 DEF Init, OnTime, Punctual

LEMMA WakeOnTime ==
  ASSUME Punctual, Inv, OnTime, Wake
  PROVE  OnTime'
<1>1. PICK late \in 0..MaxLate :
        /\ Pass(IF offset > 0 THEN offset + late ELSE 0, {})
        /\ offset' = offset - (IF offset > 0 THEN offset + late ELSE 0)
  BY DEF Wake
<1> DEFINE d == IF offset > 0 THEN offset + late ELSE 0
<1>2. /\ offset \in Int /\ elapsed \in Int /\ age \in [Groups -> Nat] /\ 0 <= offset
      /\ pc = "asleep"
  BY PeriodsAssumption DEF Inv, TypeOK, NoBacklog, Wake
<1>3. late \in Nat /\ d \in Nat /\ -offset' \in 0..MaxLate /\ offset' \in Int
      /\ offset' = offset - d + 0
  BY <1>1, <1>2, LimitsAssumption
<1>4. Pass(d, {}) /\ elapsed' = (elapsed + d) % Span
  BY <1>1 DEF Pass
<1> HIDE DEF d
<1>5. /\ Poll \in Nat \ {0} /\ Span \in Nat \ {0} /\ Span % Poll = 0 /\ MaxLate < Poll
      /\ MaxLate \in Nat /\ MaxExec \in Nat
      /\ \A g \in Groups : /\ Every[g] \in Nat \ {0} /\ Every[g] % Poll = 0
                           /\ Span % Every[g] = 0
  BY PunctualFacts
<1>6. /\ PollTime \in Int /\ PollTime' \in Int
      /\ \A m \in Nat \ {0} : Span % m = 0 =>
           /\ PollTime' % m = PollTime % m
           /\ (PollTime' - Poll) % m = (PollTime - Poll) % m
  <2> DEFINE jump == 0
  <2>1. jump \in Int /\ offset' = offset - d + jump
    BY <1>3
  <2>2. PollTime \in Int /\ PollTime + jump = PollTime
    BY <1>2 DEF PollTime
  <2> HIDE DEF jump
  <2>3. ASSUME NEW m \in Nat \ {0}, Span % m = 0
        PROVE  /\ PollTime' \in Int
               /\ PollTime' % m = (PollTime + jump) % m
               /\ (PollTime' - Poll) % m = (PollTime + jump - Poll) % m
    BY <1>2, <1>3, <1>4, <2>1, <2>3, PassPoll
  <2>4. PollTime + jump - Poll = PollTime - Poll
    BY <1>5, <2>1, <2>2 DEF jump
  <2> QED  BY <1>5, <2>2, <2>3, <2>4
<1>7. PollTime' % Poll = 0
  BY <1>5, <1>6 DEF OnTime
<1>8. Tick(elapsed') = PollTime'
  <2>1. elapsed' \in Int
    BY <1>2, <1>3, <1>4, <1>5
  <2>2. PollTime' \div Poll \in Int /\ PollTime' = Poll * (PollTime' \div Poll) + 0
    BY <1>5, <1>6, <1>7, Remainder
  <2> DEFINE q == PollTime' \div Poll
             r == -offset'
  <2>3. r \in 0..(Poll - 1) /\ r \in Int
    BY <1>3, <1>5
  <2>4. elapsed' = PollTime' + r
    BY <1>3, <2>1 DEF PollTime
  <2>5. q \in Int /\ PollTime' = Poll * q
    BY <1>5, <2>2
  <2> HIDE DEF q, r
  <2>6. elapsed' = Poll * q + r
    BY <2>4, <2>5
  <2>7. elapsed' % Poll = r
    BY <1>5, <2>1, <2>3, <2>5, <2>6, OneRemainder
  <2> DEFINE e == elapsed'
             k == e \div Poll
  <2>8. e \in Int /\ k \in Int /\ e = Poll * k + r
    BY <1>5, <2>1, <2>7, Remainder
  <2>9. Tick(elapsed') = k * Poll
    BY DEF Tick
  <2> HIDE DEF e, k
  <2>10. Poll * k = k * Poll /\ Poll * k \in Int
    BY <1>5, <2>8
  <2> DEFINE p == Poll * k
  <2>11. Poll * q = p
    <3>1. p \in Int /\ Poll * q \in Int /\ r \in Int /\ e = p + r /\ e = Poll * q + r
      BY <1>5, <2>3, <2>5, <2>6, <2>8, <2>10 DEF e
    <3> HIDE DEF p
    <3> QED  BY <3>1
  <2> QED  BY <2>5, <2>9, <2>10, <2>11
<1>9. due' = {g \in Groups : PollTime' % Every[g] = 0} /\ left' = due' /\ pc' = "polling"
  BY <1>8 DEF Wake, Due
<1>10. MaxExec * Cardinality(due' \ left') = 0
  <2>1. due' \ left' = {}
    BY <1>9
  <2> QED  BY <1>5, <2>1, FS_EmptySet
<1>11. ASSUME NEW g \in Groups
       PROVE  /\ AnsweredBefore(g)'
              /\ g \notin left' => AnsweredSince(g)'
  <2>1. age'[g] \in Int /\ age'[g] <= age[g] + d /\ age[g] \in Nat
    BY <1>2, <1>3, <1>4, PassAge
  <2>2. age[g] <= ((PollTime - Poll) % Every[g]) + Poll - offset
    BY <1>2 DEF OnTime, AnsweredBefore
  <2>3. (PollTime' - Poll) % Every[g] = (PollTime - Poll) % Every[g]
    BY <1>5, <1>6
  <2>4. /\ PollTime' % Every[g] \in Nat /\ (PollTime' - Poll) % Every[g] \in Nat
        /\ PollTime' % Every[g] # 0 =>
             (PollTime' - Poll) % Every[g] = (PollTime' % Every[g]) - Poll
    BY <1>5, <1>6, <1>7, PollRemainder
  <2> DEFINE r == (PollTime' - Poll) % Every[g]
             s == PollTime' % Every[g]
  <2>5. age'[g] <= r + Poll - offset'
    <3>1. r \in Nat /\ age[g] <= r + Poll - offset
      BY <2>2, <2>3, <2>4
    <3> HIDE DEF r
    <3> QED  BY <1>2, <1>3, <1>5, <2>1, <3>1
  <2>6. g \notin left' => age'[g] <= s - offset'
    <3>1. g \notin left' => s # 0
      BY <1>9
    <3>2. s # 0 => r = s - Poll
      BY <2>4
    <3>3. r \in Nat /\ s \in Nat
      BY <2>4
    <3> HIDE DEF r, s
    <3> QED  BY <1>3, <1>5, <2>1, <2>5, <3>1, <3>2, <3>3
  <2> QED  BY <2>5, <2>6 DEF AnsweredBefore, AnsweredSince
<1>12. failures' = 0 /\ faults' = 0
  BY DEF OnTime, Wake, health
<1>13. left' \subseteq Groups
  BY <1>9
<1> QED  BY <1>3, <1>5, <1>7, <1>9, <1>10, <1>11, <1>12, <1>13 DEF OnTime

LEMMA ExecuteOnTime ==
  ASSUME Punctual, Inv, OnTime, NEW g \in Groups, Execute(g)
  PROVE  OnTime'
<1>1. PICK d \in 0..MaxExec : Pass(d, {g}) /\ offset' = offset - d
  BY DEF Execute
<1>2. /\ offset \in Int /\ elapsed \in Int /\ age \in [Groups -> Nat] /\ offset <= 0
      /\ pc = "polling" /\ due \subseteq Groups /\ left \subseteq due /\ g \in left
  BY PeriodsAssumption DEF Inv, TypeOK, NeverEarly, Execute
<1>3. d \in Nat /\ d <= MaxExec /\ offset' \in Int /\ offset' = offset - d + 0 /\ MaxExec \in Nat
  BY <1>1, <1>2, LimitsAssumption
<1>4. elapsed' = (elapsed + d) % Span
  BY <1>1 DEF Pass
<1>5. /\ Poll \in Nat \ {0} /\ Span \in Nat \ {0} /\ Span % Poll = 0 /\ MaxLate \in Nat
      /\ \A h \in Groups : /\ Every[h] \in Nat \ {0} /\ Every[h] % Poll = 0
                           /\ Span % Every[h] = 0
  BY PunctualFacts
<1>6. /\ PollTime \in Int /\ PollTime' \in Int
      /\ \A m \in Nat \ {0} : Span % m = 0 =>
           /\ PollTime' % m = PollTime % m
           /\ (PollTime' - Poll) % m = (PollTime - Poll) % m
  <2> DEFINE jump == 0
  <2>1. jump \in Int /\ offset' = offset - d + jump
    BY <1>3
  <2>2. PollTime \in Int /\ PollTime + jump = PollTime
    BY <1>2 DEF PollTime
  <2> HIDE DEF jump
  <2>3. ASSUME NEW m \in Nat \ {0}, Span % m = 0
        PROVE  /\ PollTime' \in Int
               /\ PollTime' % m = (PollTime + jump) % m
               /\ (PollTime' - Poll) % m = (PollTime + jump - Poll) % m
    BY <1>2, <1>3, <1>4, <2>1, <2>3, PassPoll
  <2>4. PollTime + jump - Poll = PollTime - Poll
    BY <1>5, <2>1, <2>2 DEF jump
  <2> QED  BY <1>5, <2>2, <2>3, <2>4
<1>7. due' = due /\ left' = left \ {g} /\ pc' = "polling" /\ failures' = 0 /\ faults' = 0
  BY <1>2 DEF Execute, OnTime, health
<1>8. /\ PollTime' % Poll = 0
      /\ due' = {h \in Groups : PollTime' % Every[h] = 0}
  BY <1>2, <1>5, <1>6, <1>7 DEF OnTime
<1>9. /\ MaxExec * Cardinality(due' \ left') \in Nat
      /\ -offset' <= MaxLate + MaxExec * Cardinality(due' \ left')
  <2> DEFINE S == due' \ left'
             a == MaxExec * Cardinality(S)
             b == MaxExec * Cardinality(due \ left)
  <2>1. S \subseteq Groups /\ g \in S /\ S \ {g} = due \ left
    BY <1>2, <1>7
  <2>2. a \in Nat /\ b \in Nat /\ b + MaxExec = a
    <3> HIDE DEF S
    <3> QED  BY <2>1, RequestTime
  <2>3. -offset <= MaxLate + b
    BY <1>2 DEF OnTime
  <2> HIDE DEF a, b
  <2> QED  BY <1>2, <1>3, <1>5, <2>2, <2>3 DEF a
<1>10. ASSUME NEW h \in left' PROVE AnsweredBefore(h)'
  <2>1. h \in left /\ h \in Groups /\ h \notin {g}
    BY <1>2, <1>7
  <2>2. age'[h] \in Int /\ age'[h] <= age[h] + d /\ age[h] \in Nat
    BY <1>1, <1>2, <1>3, <2>1, PassAge
  <2> DEFINE r == (PollTime - Poll) % Every[h]
  <2>3. r \in Nat /\ age[h] <= r + Poll - offset
    BY <1>2, <1>5, <1>6, <2>1, PollRemainder DEF OnTime, AnsweredBefore
  <2>4. (PollTime' - Poll) % Every[h] = r
    BY <1>5, <1>6, <2>1
  <2> HIDE DEF r
  <2>5. age'[h] <= r + Poll - offset'
    BY <1>2, <1>3, <1>5, <2>2, <2>3
  <2> QED  BY <2>4, <2>5 DEF AnsweredBefore
<1>11. ASSUME NEW h \in Groups \ left' PROVE AnsweredSince(h)'
  <2> DEFINE r == PollTime % Every[h]
  <2>1. r \in Nat /\ PollTime' % Every[h] = r
    BY <1>5, <1>6, PollRemainder DEF OnTime
  <2>2. CASE h = g
    <3>1. age'[h] = 0
      BY <1>1, <1>2, <1>3, <2>2, PassAge
    <3> HIDE DEF r
    <3>2. age'[h] <= r - offset'
      BY <1>2, <1>3, <2>1, <3>1
    <3> QED  BY <2>1, <3>2 DEF AnsweredSince
  <2>3. CASE h # g
    <3>1. h \in Groups \ left /\ h \notin {g}
      BY <1>7, <2>3
    <3>2. age'[h] \in Int /\ age'[h] <= age[h] + d /\ age[h] \in Nat
      BY <1>1, <1>2, <1>3, <3>1, PassAge
    <3>3. age[h] <= r - offset
      BY <1>2, <3>1 DEF OnTime, AnsweredSince
    <3> HIDE DEF r
    <3>4. age'[h] <= r - offset'
      BY <1>2, <1>3, <2>1, <3>2, <3>3
    <3> QED  BY <2>1, <3>4 DEF AnsweredSince
  <2> QED  BY <2>2, <2>3
<1> QED  BY <1>7, <1>8, <1>9, <1>10, <1>11 DEF OnTime

\* A cycle whose requests are all answered ends before the next poll.
LEMMA EndOnTime ==
  ASSUME Punctual, Inv, OnTime, pc = "polling", left = {}, NEW d \in 0..MaxExec,
         elapsed' = (elapsed + d) % Span, Reschedule(d), failures' = 0, faults' = 0,
         \A g \in Groups : age'[g] \in Int /\ age'[g] <= age[g] + d
  PROVE  OnTime'
<1>1. /\ offset \in Int /\ elapsed \in Int /\ age \in [Groups -> Nat] /\ offset <= 0
      /\ due \subseteq Groups
  BY PeriodsAssumption DEF Inv, TypeOK, NeverEarly
<1>2. /\ Poll \in Nat \ {0} /\ Span \in Nat \ {0} /\ Span % Poll = 0 /\ MaxLate \in Nat
      /\ MaxExec \in Nat
      /\ \A h \in Groups : /\ Every[h] \in Nat \ {0} /\ Every[h] % Poll = 0
                           /\ Span % Every[h] = 0
  BY PunctualFacts
<1>3. offset' = offset - d + Poll /\ pc' = "asleep"
  <2> DEFINE b == MaxExec * Cardinality(due)
  <2>1. b \in Nat /\ MaxLate + b + MaxExec <= Poll
    BY <1>1, RequestTime
  <2>2. due \ left = due
    OBVIOUS
  <2>3. -offset <= MaxLate + b
    BY <2>2 DEF OnTime
  <2> HIDE DEF b
  <2>4. offset - d + Poll >= 0
    BY <1>1, <1>2, <2>1, <2>3
  <2>5. CurrentInterval' = Poll
    BY DEF CurrentInterval
  <2> QED  BY <1>1, <1>2, <2>4, <2>5 DEF Reschedule
<1>4. /\ PollTime \in Int /\ PollTime' \in Int
      /\ \A m \in Nat \ {0} : Span % m = 0 =>
           /\ PollTime' % m = (PollTime + Poll) % m
           /\ (PollTime' - Poll) % m = (PollTime + Poll - Poll) % m
  BY <1>1, <1>2, <1>3, PassPoll
<1>5. PollTime' % Poll = 0
  <2> DEFINE k == 1
  <2>1. k \in Int /\ PollTime + Poll = PollTime + Poll * k
    BY <1>2, <1>4
  <2> HIDE DEF k
  <2>2. (PollTime + Poll * k) % Poll = PollTime % Poll
    BY <1>2, <1>4, <2>1, SameRemainder
  <2> QED  BY <1>2, <1>4, <2>1, <2>2 DEF OnTime
<1>6. ASSUME NEW g \in Groups PROVE AnsweredBefore(g)'
  <2> DEFINE r == PollTime % Every[g]
  <2>1. r \in Nat /\ (PollTime' - Poll) % Every[g] = r
    <3>1. PollTime + Poll - Poll = PollTime
      BY <1>2, <1>4
    <3>2. (PollTime' - Poll) % Every[g] = (PollTime + Poll - Poll) % Every[g]
      BY <1>2, <1>4
    <3>3. r \in Nat
      BY <1>2, <1>4, PollRemainder DEF OnTime
    <3> QED  BY <3>1, <3>2, <3>3
  <2>2. age[g] \in Nat /\ age[g] <= r - offset
    BY <1>1 DEF OnTime, AnsweredSince
  <2>3. age'[g] \in Int /\ age'[g] <= age[g] + d
    OBVIOUS
  <2> HIDE DEF r
  <2>4. age'[g] <= r + Poll - offset'
    BY <1>1, <1>2, <1>3, <2>1, <2>2, <2>3
  <2> QED  BY <2>1, <2>4 DEF AnsweredBefore
<1> QED  BY <1>3, <1>5, <1>6 DEF OnTime

LEMMA NothingDueOnTime ==
  ASSUME Punctual, Inv, OnTime, NothingDue
  PROVE  OnTime'
<1> DEFINE d == 0
<1>1. elapsed \in 0..(Span - 1) /\ age \in [Groups -> Nat] /\ left \subseteq due
  BY DEF Inv, TypeOK
<1>2. elapsed' = elapsed /\ age' = age /\ failures' = 0 /\ faults' = 0
  BY DEF NothingDue, OnTime, health
<1>3. elapsed' = (elapsed + d) % Span
  <2> DEFINE k == 0
  <2>1. k \in Int /\ elapsed \in Int /\ elapsed + d = Span * k + elapsed /\ elapsed + d \in Int
    BY <1>1, PeriodsAssumption
  <2> HIDE DEF k
  <2>2. (elapsed + d) % Span = elapsed
    <3>1. \A a \in Int : a = Span * k + elapsed => a % Span = elapsed
      BY <1>1, <2>1, PeriodsAssumption, OneRemainder
    <3> HIDE DEF d
    <3> QED  BY <2>1, <3>1
  <2> QED  BY <1>2, <2>2
<1>4. pc = "polling" /\ left = {} /\ Reschedule(d)
  BY <1>1 DEF NothingDue
<1>5. d \in 0..MaxExec
  BY LimitsAssumption
<1>6. \A g \in Groups : age'[g] \in Int /\ age'[g] <= age[g] + d
  BY <1>1, <1>2
<1> HIDE DEF d
<1> QED  BY <1>2, <1>3, <1>4, <1>5, <1>6, EndOnTime

LEMMA SucceedOnTime ==
  ASSUME Punctual, Inv, OnTime, Succeed
  PROVE  OnTime'
<1>1. PICK d \in 0..MaxExec : Pass(d, {}) /\ Reschedule(d)
  BY DEF Succeed
<1>2. age \in [Groups -> Nat] /\ d \in Nat
  BY LimitsAssumption DEF Inv, TypeOK
<1>3. elapsed' = (elapsed + d) % Span
  BY <1>1 DEF Pass
<1>4. \A g \in Groups : age'[g] \in Int /\ age'[g] <= age[g] + d
  BY <1>1, <1>2, PassAge
<1>5. pc = "polling" /\ left = {} /\ failures' = 0 /\ faults' = 0
  BY DEF Succeed, HandleSuccess, OnTime
<1> QED  BY <1>1, <1>3, <1>4, <1>5, EndOnTime

LEMMA OnTimeInductive == Punctual /\ Inv /\ OnTime /\ [Next]_vars => OnTime'
<1> SUFFICES ASSUME Punctual, Inv, OnTime, [Next]_vars PROVE OnTime'
  OBVIOUS
<1>1. CASE Wake
  BY <1>1, WakeOnTime
<1>2. CASE NothingDue
  BY <1>2, NothingDueOnTime
<1>3. CASE Succeed
  BY <1>3, SucceedOnTime
<1>4. CASE ProcessFails
  BY <1>4 DEF ProcessFails, OnTime
<1>5. ASSUME NEW g \in Groups, Execute(g) PROVE OnTime'
  BY <1>5, ExecuteOnTime
<1>6. ASSUME NEW g \in Groups, ExecuteFails(g) PROVE OnTime'
  BY <1>6 DEF ExecuteFails, OnTime
<1>7. CASE UNCHANGED vars
  BY <1>7 DEF OnTime, AnsweredBefore, AnsweredSince, PollTime, vars, clock, cycle, health
<1> QED  BY <1>1, <1>2, <1>3, <1>4, <1>5, <1>6, <1>7 DEF Next, Cycle

LEMMA OnTimeBounds ==
  ASSUME Punctual, Slack + MaxExec >= MaxLate + MaxExec * Cardinality(Groups), Inv, OnTime
  PROVE  GroupOnTime
<1> SUFFICES ASSUME NEW g \in Groups PROVE age[g] <= Every[g] + Slack
  <2>1. \A g \in Groups : age[g] \in Nat /\ Every[g] + Slack \in Int
    BY PeriodsAssumption, LimitsAssumption DEF Inv, TypeOK
  <2> QED  BY <2>1, PeriodsAssumption, LimitsAssumption DEF GroupOnTime, Stale
<1>1. /\ Poll \in Nat \ {0} /\ MaxLate \in Nat /\ MaxExec \in Nat /\ Slack \in Nat
      /\ Every[g] \in Nat \ {0} /\ Every[g] % Poll = 0
  BY PunctualFacts, LimitsAssumption
<1>2. /\ offset \in Int /\ elapsed \in Int /\ age[g] \in Nat
      /\ due \subseteq Groups /\ left \subseteq due /\ pc \in {"asleep", "polling"}
  BY PeriodsAssumption DEF Inv, TypeOK
<1> DEFINE r == (PollTime - Poll) % Every[g]
           s == PollTime % Every[g]
<1>3. r \in Nat /\ r <= Every[g] - Poll /\ s \in Nat /\ s <= Every[g] - Poll
  <2>1. PollTime \in Int /\ PollTime % Poll = 0
    BY <1>2 DEF PollTime, OnTime
  <2> QED  BY <1>1, <2>1, PollRemainder
<1>4. CASE pc = "asleep"
  <2>1. age[g] <= r + Poll - offset /\ 0 <= offset
    BY <1>4 DEF OnTime, AnsweredBefore, Inv, NoBacklog
  <2> HIDE DEF r
  <2> QED  BY <1>1, <1>2, <1>3, <2>1
<1>5. CASE pc = "polling"
  <2> DEFINE D == due \ left
             b == MaxExec * Cardinality(D)
             n == MaxExec * Cardinality(Groups)
  <2>1. b \in Nat /\ -offset <= MaxLate + b
    BY <1>5 DEF OnTime
  <2>2. n \in Nat /\ b <= n /\ MaxLate + b + MaxExec <= Poll
    <3>1. D \subseteq Groups
      BY <1>2
    <3> HIDE DEF D
    <3> QED  BY <3>1, RequestTime
  <2>3. CASE g \in left
    <3> DEFINE S == D \cup {g}
    <3>1. S \subseteq Groups /\ g \in S /\ S \ {g} = D
      BY <1>2, <2>3
    <3>2. b + MaxExec <= n
      <4> DEFINE c == MaxExec * Cardinality(S)
      <4> HIDE DEF S, D
      <4>1. c <= n /\ c \in Nat /\ MaxExec * Cardinality(S \ {g}) + MaxExec = c
        BY <3>1, RequestTime
      <4> QED  BY <3>1, <4>1
    <3>3. Slack + MaxExec >= MaxLate + n
      OBVIOUS
    <3>4. age[g] <= r + Poll - offset
      BY <1>5, <2>3 DEF OnTime, AnsweredBefore
    <3> HIDE DEF r, b, n
    <3> QED  BY <1>1, <1>2, <1>3, <2>1, <2>2, <3>2, <3>3, <3>4
  <2>4. CASE g \notin left
    <3>1. age[g] <= s - offset
      BY <1>5, <2>4 DEF OnTime, AnsweredSince
    <3> HIDE DEF s, b, n
    <3> QED  BY <1>1, <1>2, <1>3, <2>1, <2>2, <3>1
  <2> QED  BY <2>3, <2>4
<1> QED  BY <1>2, <1>4, <1>5

\* When nothing fails and a poll with all its requests fits between two polls, each
\* group is answered once per update interval: never later than the time its poll may
\* start late and the other groups' requests of that poll may take before its own.
THEOREM GroupsOnTime ==
  Punctual /\ Slack + MaxExec >= MaxLate + MaxExec * Cardinality(Groups)
    => (Spec => []GroupOnTime)
<1> SUFFICES ASSUME Punctual, Slack + MaxExec >= MaxLate + MaxExec * Cardinality(Groups)
             PROVE  Spec => []GroupOnTime
  OBVIOUS
<1>1. Init => OnTime
  BY OnTimeInit
<1>2. Inv /\ OnTime /\ [Next]_vars => OnTime'
  BY OnTimeInductive
<1>3. Inv /\ OnTime => GroupOnTime
  BY OnTimeBounds
<1> QED  BY <1>1, <1>2, <1>3, PollerInvariance, PTL DEF Spec


=============================================================================
