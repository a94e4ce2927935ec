\* One fault; Slack is more than the longest backoff and a whole cycle.
SPECIFICATION Spec
CONSTANTS
  Poll = 4
  MAX_BACKOFF = 8
  Groups <- const_groups
  Every <- const_hourly
  Span = 24
  MaxExec = 1
  MaxLate = 1
  Slack = 12
  Faults = {"offline"}
  MaxFaults = 1
  MaxFailures = 3
INVARIANTS
  GroupOnTime
