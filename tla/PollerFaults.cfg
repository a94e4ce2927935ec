\* Every kind of fault, late wake-ups and cycles longer than the interval.
SPECIFICATION FairSpec
CONSTANTS
  Poll = 3
  MAX_BACKOFF = 10
  Groups <- const_groups
  Every <- const_every2
  Span = 12
  MaxExec = 5
  MaxLate = 2
  Slack = 6
  Faults = {"offline", "unexpected", "invalid"}
  MaxFaults = 4
  MaxFailures = 3
INVARIANTS
  TypeOK
  NoBacklog
  HealthAgrees
  BackoffSlows
PROPERTIES
  Recovers
