\* A Modbus TCP device, one answer that TCP delivers in two pieces.
SPECIFICATION Spec
CONSTANTS
  Conns = {c1, c2}
  Tasks = {t1, t2}
  None = None
  SeqMod = 3
  OpenTries = 2
  BusyTries = 2
  Timeout = 10
  Device = "modbus_tcp"
  Losses = {}
  Garbles = {"piece"}
  MayRefuse = FALSE
  PromptClose = TRUE
  MayStop = FALSE
  MaxFaults = 1
  MaxInbox = 2
INVARIANTS
  OwnData
