\* The device falls silent and refuses connections for a while, as an inverter does at
\* night, and truncated frames kill the keeper.
SPECIFICATION FairSpec
CONSTANTS
  Conns = {c1, c2}
  Tasks = {t1, t2}
  None = None
  SeqMod = 3
  OpenTries = 2
  BusyTries = 2
  Timeout = 10
  Device = "tcp"
  Losses = {"silent"}
  Garbles = {"short"}
  MayRefuse = TRUE
  PromptClose = TRUE
  MayStop = FALSE
  MaxFaults = 3
  MaxInbox = 2
PROPERTIES
  Recovers
