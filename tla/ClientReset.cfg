\* The device resets the connection and refuses new ones for a while.
SPECIFICATION FairSpec
CONSTANTS
  Conns = {c1, c2}
  Tasks = {t1, t2}
  None = None
  SeqMod = 3
  OpenTries = 2
  BusyTries = 2
  Timeout = 10
  Device = "tcp"
  Losses = {"reset"}
  Garbles = {}
  MayRefuse = TRUE
  PromptClose = TRUE
  MayStop = FALSE
  MaxFaults = 1
  MaxInbox = 2
PROPERTIES
  Recovers
