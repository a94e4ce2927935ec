\* The device turns out to speak Modbus TCP.
SPECIFICATION FairSpec
CONSTANTS
  Conns = {c1, c2}
  Tasks = {t1, t2}
  None = None
  SeqMod = 3
  OpenTries = 2
  BusyTries = 2
  Timeout = 10
  Device = "modbus_tcp"
  Losses = {"fin", "silent"}
  Garbles = {"busy", "piece"}
  MayRefuse = TRUE
  PromptClose = TRUE
  MayStop = FALSE
  MaxFaults = 2
  MaxInbox = 2
PROPERTIES
  Settles
