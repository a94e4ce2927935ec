\* No faults, short cycles, and an interval that divides the groups'.
SPECIFICATION Spec
CONSTANTS
  Poll = 4
  MAX_BACKOFF = 10
  Groups <- const_slow
  Every <- const_every8
  Span = 24
  MaxExec = 1
  MaxLate = 1
  Slack = 2
  Faults = {}
  MaxFaults = 0
  MaxFailures = 3
INVARIANTS
  GroupOnTime
